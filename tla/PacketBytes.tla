---------------------------- MODULE PacketBytes -----------------------------
(***************************************************************************)
(* What PktBuffer promises: a packet is a string of bytes with a read and  *)
(* write position, and how the string is cut into blocks does not show.    *)
(* After a change of the string's length the position has to be set again. *)
(***************************************************************************)
EXTENDS Integers, Sequences, SequencesExt

CONSTANTS Pkts

VARIABLES bytes,  \* the bytes of each packet
          pos,    \* its position, or NoPos
          out     \* the bytes the last transfer moved

NoPos == -1

Init == /\ bytes = [p \in Pkts |-> <<>>] /\ pos = [p \in Pkts |-> NoPos]
        /\ out = <<>>

OnlyChanges(f, P) == \A p \in Pkts \ P : f'[p] = f[p]

(* A packet grows or shrinks at one end, or keeps its bytes.               *)
Extends(s, t) == IsPrefix(s, t) \/ IsSuffix(s, t)

Reshape(p) ==
  /\ out' = <<>> /\ pos'[p] \in {NoPos, 0} /\ OnlyChanges(pos, {p})
  /\ OnlyChanges(bytes, {p})
  /\ Extends(bytes[p], bytes'[p]) \/ Extends(bytes'[p], bytes[p])

(* The bytes of q go to the end of p.                                      *)
Merge(p, q) ==
  /\ out' = <<>> /\ pos'[p] = NoPos /\ pos'[q] = NoPos
  /\ OnlyChanges(pos, {p, q}) /\ OnlyChanges(bytes, {p, q})
  /\ bytes'[q] = <<>> /\ bytes'[p] = bytes[p] \o bytes[q]

Seek(p) ==
  /\ out' = <<>> /\ pos[p] # NoPos /\ OnlyChanges(pos, {p})
  /\ UNCHANGED bytes
  /\ pos'[p] \in 0 .. Len(bytes[p])

(* The bytes transferred are those at the position, which moves on.        *)
Advance(p) == pos[p] # NoPos /\ pos'[p] = pos[p] + Len(out')

Window(p) == SubSeq(bytes[p], pos[p] + 1, pos'[p])

Read(p) == Advance(p) /\ OnlyChanges(pos, {p}) /\ UNCHANGED bytes /\ out' = Window(p)

(* The transferred bytes, and no others, are overwritten at the position.  *)
Overwrite(p) ==
  /\ OnlyChanges(bytes, {p})
  /\ bytes'[p] = SubSeq(bytes[p], 1, pos[p]) \o out'
                   \o SubSeq(bytes[p], pos'[p] + 1, Len(bytes[p]))

Write(p) == Advance(p) /\ OnlyChanges(pos, {p}) /\ Overwrite(p)

Copy(p, q) ==
  /\ Advance(p) /\ Advance(q) /\ OnlyChanges(pos, {p, q})
  /\ Overwrite(p) /\ out' = Window(q)

Next ==
  \/ \E p \in Pkts : Seek(p) \/ Read(p) \/ Write(p) \/ Reshape(p)
  \/ \E p, q \in Pkts : p # q /\ (Merge(p, q) \/ Copy(p, q))

Spec == Init /\ [][Next]_<<bytes, pos, out>>
==============================================================================
