----------------------------- MODULE LogPattern -----------------------------
(***************************************************************************)
(* LogFormatter::init (log.cc): how a pattern such as                      *)
(* "%d{%H:%M}%T[%p] %m%n" is cut into items.  A pattern is a sequence of   *)
(* characters.  Adjacent literal characters are one item in the code; here *)
(* each is an item, which prints the same.                                 *)
(***************************************************************************)
EXTENDS Integers, Sequences, SequencesExt

Percent == "%"
Open    == "{"
Close   == "}"

(* s_format_items.                                                         *)
Known == {<<c>> : c \in {"m", "p", "r", "c", "t", "n", "d", "f", "l", "T", "N"}}

(* The fmt of an item is empty without braces, else holds the text in them. *)
Literal(c) == [kind |-> "text", text |-> <<c>>, fmt |-> <<>>]
Format(name, fmt) == [kind |-> IF name \in Known THEN "item" ELSE "error",
                      text |-> name, fmt |-> fmt]
PatternError == [kind |-> "error", text |-> <<>>, fmt |-> <<>>]

(* The first position from i on whose character is in S, or after the end. *)
FirstIn(p, i, S) ==
  LET from[n \in 1 .. Len(p) + 2] == IF n > Len(p) \/ p[n] \in S THEN n ELSE from[n + 1]
  IN from[i]

Letters == {"a", "b", "c", "d", "f", "l", "m", "n", "p", "r", "t", "x", "H", "M", "N", "T"}

(* Characters that do not end a name: letters and, as the code tests, `}'. *)
EndOfName(p, i) == FirstIn(p, i, {p[n] : n \in DOMAIN p} \ (Letters \cup {Close}))

\* Mutant of ItemAt: the character after a name is swallowed.
ItemAtSkips(p, i) ==
  LET n == EndOfName(p, i + 1) IN
  [item |-> Format(SubSeq(p, i + 1, n - 1), <<>>), next |-> n + 1]

(* The item that starts with the % at i, and where the scan goes on.  An   *)
(* open brace without a closing one is an error, and the scan goes on      *)
(* right after the %.                                                      *)
ItemAt(p, i) ==
  LET n == EndOfName(p, i + 1)
      name == SubSeq(p, i + 1, n - 1)
      close == FirstIn(p, n + 1, {Close}) IN
  IF n > Len(p) \/ p[n] # Open
  THEN [item |-> Format(name, <<>>), next |-> n]
  ELSE IF close <= Len(p)
       THEN [item |-> Format(name, <<SubSeq(p, n + 1, close - 1)>>), next |-> close + 1]
       ELSE [item |-> PatternError, next |-> i + 1]

(* The items of p.  After "%%" the scan goes on at the second %, so it     *)
(* also starts an item.                                                    *)
Items(p) ==
  LET from[i \in 1 .. Len(p) + 2] ==
        IF i > Len(p) THEN <<>>
        ELSE IF p[i] # Percent THEN <<Literal(p[i])>> \o from[i + 1]
        ELSE IF i < Len(p) /\ p[i + 1] = Percent THEN <<Literal(Percent)>> \o from[i + 1]
        ELSE LET at == ItemAt(p, i) IN <<at.item>> \o from[at.next]
  IN from[1]

Erroneous(items) == \E k \in DOMAIN items : items[k].kind = "error"
is_error(p) == Erroneous(Items(p))

(* What an item stands for in a pattern.                                   *)
Source(item) ==
  CASE item.kind = "text" -> item.text
    [] item.kind = "item" -> <<Percent>> \o item.text \o
         (IF item.fmt = <<>> THEN <<>> ELSE <<Open>> \o item.fmt[1] \o <<Close>>)
    [] OTHER -> <<>>

(* An accepted pattern is cut up without losing a character.               *)
Sound(p) ==
  LET items == Items(p) IN
  ~ Erroneous(items) /\ FlattenSeq([k \in DOMAIN items |-> Source(items[k])]) = p
==============================================================================
