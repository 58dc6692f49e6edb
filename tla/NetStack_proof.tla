---------------------------- MODULE NetStack_proof ----------------------------
(***************************************************************************)
(* Proofs about NetStack, for every number of packets, data blocks,        *)
(* messages and application threads and every size of the queues: a packet *)
(* and a data block are always in one place, whatever fails half way, and  *)
(* no timer message is lost.                                               *)
(***************************************************************************)
EXTENDS NetStack, DataLemmas, TLAPS

(***************************************************************************)
(* The invariant                                                           *)
(***************************************************************************)
Reasons == {"link_in", "recv_alloc", "link_out", "netif_out"}

Typed ==
  /\ pkt_free \in SUBSET Bufs
  /\ blk_free \in SUBSET Blks /\ null_blks \in Nat /\ blks \in [Bufs -> SUBSET Blks]
  /\ in_q \in [Netifs -> Seq(Bufs)] /\ out_q \in [Netifs -> Seq(Bufs)]
  /\ in_len \in [Netifs -> Int]
  /\ msg_free \in SUBSET Msgs /\ timer_free \in SUBSET Timers
  /\ m_msg_queue \in Seq(Msgs \cup Timers) /\ msg_netif \in [Msgs -> Netifs]
  /\ DOMAIN pc = Threads
  /\ buf \in [Threads -> Bufs \cup {None}]
  /\ msg \in [Threads -> Msgs \cup Timers \cup {None}]
  /\ netif \in [Threads -> Netifs]
  /\ need \in [Threads -> Nat] /\ got \in [Threads -> SUBSET Blks] /\ DOMAIN ret = Threads
  /\ forgotten \in [Reasons -> SUBSET Bufs]

(* What a thread holds at each place it can be: the worker frees a bad     *)
(* frame with a message in hand, and then goes on draining.                *)
WithPacket == {"pop_blk", "roll_back", "free", "put_in", "netif_out", "raw_out", "header", "put_out",
               "inject", "link_in"}
WithMsg    == {"msg_send", "drain", "get", "link_in"}
WithTimer  == {"push", "run"}
AfterAlloc == {"put_in", "netif_out", "raw_out", "header", "put_out"}

FreesFrame(t) == pc[t] = "free" /\ ret[t] = "drain"

Holds(t) ==
  \/ pc[t] = "crashed"
  \/ /\ buf[t] # None <=> pc[t] \in WithPacket
     /\ pc[t] \in WithMsg \/ FreesFrame(t) => msg[t] \in Msgs
     /\ pc[t] \in WithTimer => msg[t] \in Timers
     /\ msg[t] # None <=> pc[t] \in WithMsg \cup WithTimer \cup {"release"} \/ FreesFrame(t)
     /\ pc[t] \in {"pop_blk", "roll_back"} => ret[t] \in AfterAlloc
     /\ pc[t] = "free" => ret[t] \in {"idle", "drain"}

HoldsInv == Typed /\ \A t \in Threads : Holds(t)

(* Where a packet can be, and the packets that are there.                  *)
Places == {<<"pool", "pool">>} \cup {"in", "out"} \X Netifs
          \cup {"held"} \X Threads \cup {"forgotten"} \X Reasons

Content(p) ==
  CASE p[1] = "pool"      -> pkt_free
    [] p[1] = "in"        -> Range(in_q[p[2]])
    [] p[1] = "out"       -> Range(out_q[p[2]])
    [] p[1] = "held"      -> {buf[p[2]]} \ {None}
    [] p[1] = "forgotten" -> forgotten[p[2]]

OnePlace ==
  \A b \in Bufs : \E p \in Places : /\ b \in Content(p)
                                    /\ \A q \in Places : b \in Content(q) => q = p

QueuesOK ==
  \A n \in Netifs : /\ IsInjective(in_q[n]) /\ Len(in_q[n]) <= InCap
                    /\ IsInjective(out_q[n]) /\ Len(out_q[n]) <= OutCap

PlacesInv == QueuesOK /\ OnePlace

------------------------------------------------------------------------------
(***************************************************************************)
(* The kinds of steps.  A step takes a packet, starts to free one, frees   *)
(* or forgets one, puts one into a queue or gets one out, moves a data     *)
(* block, handles a message block, or only moves its thread on.            *)
(***************************************************************************)
Along(t, paths) == \E p \in paths : Goto(t, p[1], p[2])

TakeStep(t) ==
  /\ \E n \in Nat : \/ t = "recv" /\ CallAlloc(t, n, "idle", "put_in")
                    \/ CallAlloc(t, n, "idle", "netif_out") \/ CallAlloc(t, n, "make_request", "raw_out")
  /\ get_pktbuffer(t)
  /\ \E n \in Netifs : netif' = [netif EXCEPT ![t] = n]
  /\ UNCHANGED <<blk_free, null_blks, blks, queues, blocks, msg, forgotten>>

DropStep(t) ==
  \E to \in {"idle", "drain"} :
    /\ pc[t] \in {"put_in", "roll_back", "put_out", "inject", "link_in"}
    /\ pc[t] = "link_in" <=> to = "drain"
    /\ Drop(t, pc[t], to)

ForgetStep(t) ==
  /\ \/ /\ t = "recv" /\ Goto(t, "roll_back", "idle") /\ ret[t] = "put_in"
        /\ Forget(t, "recv_alloc") /\ ret' = [ret EXCEPT ![t] = "idle"]
     \/ /\ Along(t, {<<"netif_out", "idle">>, <<"netif_out", "make_request">>, <<"link_in", "drain">>})
        /\ \E reason \in Reasons \ {"recv_alloc"} : Forget(t, reason)
        /\ UNCHANGED ret
  /\ UNCHANGED <<packets, queues, blocks, msg, netif, need, got>>

PutOutStep(t) ==
  /\ Along(t, {<<"netif_out", "loop_send">>, <<"put_out", "idle">>})
  /\ \E n \in Netifs : /\ Len(out_q[n]) < OutCap
                       /\ out_q' = [out_q EXCEPT ![n] = Append(@, buf[t])]
  /\ Hold(t, None)
  /\ UNCHANGED <<packets, in_q, in_len, blocks, msg, netif, calls, forgotten>>

GetOutStep(t) ==
  /\ Along(t, {<<"loop_send", "put_in">>, <<"idle", "inject">>})
  /\ \E n \in Netifs : /\ out_q[n] # <<>> /\ Hold(t, Head(out_q[n]))
                       /\ out_q' = [out_q EXCEPT ![n] = Tail(@)]
  /\ UNCHANGED <<packets, in_q, in_len, blocks, msg, netif, calls, forgotten>>

GetInStep(t) ==
  LET n == netif[t] IN
  /\ Goto(t, "get", "link_in") /\ in_q[n] # <<>>
  /\ Hold(t, Head(in_q[n]))
  /\ in_q' = [in_q EXCEPT ![n] = Tail(@)]
  /\ in_len' = [in_len EXCEPT ![n] = @ - 1]
  /\ UNCHANGED <<packets, out_q, blocks, msg, netif, calls, forgotten>>

BlockStep(t) == PopBlock(t) \/ PopLastBlock(t) \/ RollBack(t) \/ FreeBlock(t) \/ HeaderFails(t)

MoveStep(t) ==
  /\ \/ Along(t, {<<"announce", "idle">>, <<"netif_out", "raw_out">>, <<"netif_out", "header">>,
                  <<"header", "put_out">>, <<"make_request", "idle">>, <<"idle", "tick">>,
                  <<"tick", "idle">>, <<"run", "release">>, <<"get", "release">>,
                  <<"drain", "release">>, <<"drain", "get">>})
        /\ UNCHANGED <<need, got, ret>>
     \/ CallAlloc(t, 1, "raw_out", "header") \/ CallAlloc(t, 1, "header", "put_out")
     \/ /\ Goto(t, "pop_blk", "roll_back")
        /\ need' = [need EXCEPT ![t] = 0] /\ UNCHANGED <<got, ret>>
     \/ /\ Goto(t, "roll_back", "netif_out")
        /\ ret' = [ret EXCEPT ![t] = "idle"] /\ UNCHANGED <<need, got>>
  /\ UNCHANGED <<packets, queues, blocks, buf, msg, netif, forgotten>>

MsgStep(t) ==
  \/ GetMsgBlock(t) \/ MsgSend(t)
  \/ t = "timer" /\ (TimerGetBlock \/ TimerPush)
  \/ t = "worker" /\ (WorkerPop \/ WorkerRelease)

PacketStep(t) == \/ TakeStep(t) \/ FreeBuffer(t) \/ ForgetStep(t) \/ PutIn(t)
                 \/ PutOutStep(t) \/ GetOutStep(t) \/ GetInStep(t)

OwnStep(t) == DropStep(t) \/ BlockStep(t) \/ MoveStep(t) \/ PopNull(t)

Step(t) == PacketStep(t) \/ OwnStep(t) \/ CountIn(t) \/ MsgStep(t)

LEMMA ThreadNames ==
  /\ "recv" \in Threads /\ "send" \in Threads /\ "timer" \in Threads /\ "worker" \in Threads
  /\ Apps \subseteq Threads
BY DEF Threads

(* Every step of the program is of one of these kinds.                     *)
LEMMA StepKinds ==
  ASSUME HoldsInv, Next
  PROVE  UNCHANGED vars \/ \E t \in Threads : Step(t)
<1> USE StackAssumption, ThreadNames DEF Goto
<1>1. ASSUME NEW t \in Threads, Announce(t) PROVE Step(t)
  BY <1>1 DEF Announce, NoMsgBlock, Step, OwnStep, MsgStep, MoveStep, Along, calls
<1>2. ASSUME NEW t \in Threads, PutIn(t) \/ PutInFull(t) PROVE Step(t)
  BY <1>2 DEF PutInFull, Drop, Step, PacketStep, OwnStep, DropStep
<1>3. ASSUME NEW t \in Threads, AllocOrFree(t) PROVE Step(t)
  BY <1>3 DEF AllocOrFree, NoBlock, Step, PacketStep, OwnStep, BlockStep, MoveStep
<1>4. CASE Recv
  <2>1. CASE RecvGetBuffer
    <3>1. netif' = [netif EXCEPT !["recv"] = netif["recv"]] /\ netif["recv"] \in Netifs
      BY <2>1 DEF RecvGetBuffer, HoldsInv, Typed
    <3>2. PICK n \in 1 .. MaxBlks : CallAlloc("recv", n, "idle", "put_in")
      BY <2>1 DEF RecvGetBuffer
    <3>3. n \in Nat
      BY <3>2
    <3> QED
      BY <2>1, <3>1, <3>2, <3>3 DEF RecvGetBuffer, Step, PacketStep, TakeStep
  <2>2. CASE RecvAllocFails
    BY <2>2 DEF RecvAllocFails, AllocFailed, Step, PacketStep, ForgetStep, Reasons
  <2>3. CASE AllocOrFree("recv") \/ PutIn("recv") \/ PutInFull("recv") \/ Announce("recv")
    BY <2>3, <1>1, <1>2, <1>3
  <2> QED
    BY <1>4, <2>1, <2>2, <2>3 DEF Recv, RecvNoBuffer
<1>5. ASSUME NEW t \in Apps, App(t) PROVE Step(t)
  <2>1. CASE AppGetBuffer(t)
    BY <2>1 DEF AppGetBuffer, Step, PacketStep, TakeStep
  <2>2. CASE ArpGetBuffer(t)
    <3>1. netif' = [netif EXCEPT ![t] = netif[t]] /\ netif[t] \in Netifs
      BY <2>2 DEF ArpGetBuffer, HoldsInv, Typed
    <3> QED
      BY <2>2, <3>1 DEF ArpGetBuffer, Step, PacketStep, TakeStep
  <2>3. CASE SendAllocFails(t) \/ PutOutFull(t)
    BY <2>3 DEF SendAllocFails, AllocFailed, PutOutFull, Drop, Step, OwnStep, DropStep
  <2>4. CASE LoopOutFull(t) \/ LinkOutOther(t)
    <3>1. PICK reason \in Reasons \ {"recv_alloc"} : Forget(t, reason)
      BY <2>4 DEF LoopOutFull, LinkOutOther, Reasons
    <3> QED
      BY <2>4, <3>1 DEF LoopOutFull, LinkOutOther, Step, PacketStep, ForgetStep, Along, calls
  <2>5. CASE LoopOut(t) \/ PutOut(t)
    BY <2>5 DEF LoopOut, PutOut, Step, PacketStep, PutOutStep, Along, Netifs
  <2>6. CASE LoopSend(t)
    BY <2>6 DEF LoopSend, Step, PacketStep, GetOutStep, Along, Netifs
  <2>7. CASE LinkOutOwn(t) \/ ArpNoBuffer(t) \/ HeaderFits(t)
    BY <2>7 DEF LinkOutOwn, ArpNoBuffer, HeaderFits, Step, OwnStep, MoveStep, Along, calls
  <2>8. CASE RawOutPad(t) \/ HeaderBlock(t) \/ AppAllocFails(t)
    BY <2>8 DEF RawOutPad, HeaderBlock, AppAllocFails, Step, OwnStep, MoveStep
  <2>9. CASE HeaderFails(t)
    BY <2>9 DEF Step, OwnStep, BlockStep
  <2> QED
    BY <1>1, <1>2, <1>3, <1>5, <2>1, <2>2, <2>3, <2>4, <2>5, <2>6, <2>7, <2>8, <2>9 DEF App
<1>6. CASE Send
  <2>1. CASE SendGet
    BY <2>1 DEF SendGet, Step, PacketStep, GetOutStep, Along, Netifs
  <2>2. CASE SendInject
    BY <2>2 DEF SendInject, Drop, Step, OwnStep, DropStep
  <2> QED
    BY <1>3, <1>6, <2>1, <2>2 DEF Send
<1>7. CASE Timer
  BY <1>7 DEF Timer, TimerExpire, TimerNoBlock, Step, OwnStep, MsgStep, MoveStep, Along, calls
<1>8. CASE Worker
  <2>1. CASE RunCallback \/ WorkerCheck
    <3>1. MoveStep("worker")
      BY <2>1 DEF RunCallback, WorkerCheck, MoveStep, Along, HoldsInv, Typed, calls
    <3> QED
      BY <3>1 DEF Step, OwnStep
  <2>2. CASE WorkerGet
    <3>1. CASE in_q[netif["worker"]] = <<>>
      BY <2>2, <3>1 DEF WorkerGet, Step, OwnStep, MoveStep, Along, calls
    <3>2. CASE in_q[netif["worker"]] # <<>>
      BY <2>2, <3>2 DEF WorkerGet, Step, PacketStep, GetInStep
    <3> QED
      BY <3>1, <3>2
  <2>3. CASE LinkIn
    BY <2>3 DEF LinkIn, Step, PacketStep, ForgetStep, Reasons, Along, calls
  <2>4. CASE LinkInFails
    BY <2>4 DEF LinkInFails, Drop, Step, OwnStep, DropStep
  <2> QED
    BY <1>3, <1>8, <2>1, <2>2, <2>3, <2>4 DEF Worker, Step, MsgStep
<1> QED
  BY <1>4, <1>5, <1>6, <1>7, <1>8 DEF Next, Crashed

(***************************************************************************)
(* What each thread holds                                                  *)
(***************************************************************************)
LEMMA HoldsInit == Init => HoldsInv
BY StackAssumption DEF Init, HoldsInv, Typed, Holds, FreesFrame, WithPacket, WithMsg, WithTimer, Reasons,
                       Netifs

LEMMA HoldsSame ==
  ASSUME NEW s, Holds(s), pc'[s] = pc[s], ret'[s] = ret[s], buf'[s] = buf[s], msg'[s] = msg[s]
  PROVE  Holds(s)'
BY DEF Holds, FreesFrame

LEMMA HoldsPackets ==
  ASSUME HoldsInv, NEW t \in Threads, PacketStep(t) \/ CountIn(t)
  PROVE  HoldsInv'
<1> USE StackAssumption DEF Along, Goto, Hold, packets, queues, blocks, calls
<1> SUFFICES Typed' /\ Holds(t)' /\ \A s \in Threads \ {t} : Holds(s)'
  BY DEF HoldsInv
<1>1. Typed /\ \A s \in Threads : Holds(s)
  BY DEF HoldsInv
<1>2. pc[t] \in WithPacket => buf[t] \in Bufs
  BY <1>1 DEF Typed, Holds, WithPacket
<1> DEFINE Own == \A s \in Threads \ {t} : UNCHANGED <<pc[s], ret[s], buf[s], msg[s]>>
<1>3. Own => \A s \in Threads \ {t} : Holds(s)'
  BY <1>1, HoldsSame
<1> HIDE DEF Own
<1>4. CASE TakeStep(t)
  <2>1. PICK n \in Nat : \/ CallAlloc(t, n, "idle", "put_in") \/ CallAlloc(t, n, "idle", "netif_out")
                         \/ CallAlloc(t, n, "make_request", "raw_out")
    BY <1>4 DEF TakeStep
  <2>2. PICK b \in pkt_free : pkt_free' = pkt_free \ {b} /\ buf' = [buf EXCEPT ![t] = b]
    BY <1>4 DEF TakeStep, get_pktbuffer
  <2>3. /\ pc[t] \in {"idle", "make_request"} /\ pc' = [pc EXCEPT ![t] = "pop_blk"]
        /\ need' = [need EXCEPT ![t] = n] /\ got' = got
        /\ \E to \in AfterAlloc : ret' = [ret EXCEPT ![t] = to]
    BY <2>1 DEF CallAlloc, AfterAlloc
  <2>4. Typed'
    BY <1>1, <1>4, <2>2, <2>3 DEF Typed, TakeStep
  <2>5. Holds(t)'
    <3>1. pc'[t] = "pop_blk" /\ ret'[t] \in AfterAlloc /\ buf'[t] = b /\ b # None /\ msg' = msg
      BY <1>1, <1>4, <2>2, <2>3 DEF Typed, TakeStep
    <3> QED
      BY <1>1, <2>3, <3>1 DEF Holds, FreesFrame, WithPacket, WithMsg, WithTimer
  <2>6. Own
    BY <1>1, <1>4, <2>2, <2>3 DEF Own, Typed, TakeStep
  <2> QED
    BY <1>3, <2>4, <2>5, <2>6
<1>5. CASE FreeBuffer(t)
  <2>1. Typed'
    BY <1>1, <1>2, <1>5 DEF Typed, WithPacket, FreeBuffer
  <2>2. Holds(t)'
    BY <1>1, <1>5 DEF Typed, FreeBuffer, Holds, FreesFrame, WithPacket, WithMsg, WithTimer
  <2>3. Own
    BY <1>1, <1>5 DEF Own, Typed, FreeBuffer
  <2> QED
    BY <1>3, <2>1, <2>2, <2>3
<1>6. CASE ForgetStep(t)
  <2>1. PICK reason \in Reasons : Forget(t, reason)
    BY <1>6 DEF ForgetStep, Reasons
  <2>2. DOMAIN ret' = Threads /\ \A s \in Threads \ {t} : ret'[s] = ret[s]
    BY <1>1, <1>6 DEF ForgetStep, Typed
  <2>3. /\ pc[t] \in {"roll_back", "netif_out", "link_in"} /\ pc' = [pc EXCEPT ![t] = pc'[t]]
        /\ pc'[t] \in {"idle", "make_request", "drain"} /\ (pc[t] = "link_in" <=> pc'[t] = "drain")
    BY <1>1, <1>6 DEF ForgetStep, Typed
  <2>4. Typed'
    BY <1>1, <1>2, <1>6, <2>1, <2>2, <2>3 DEF Typed, WithPacket, ForgetStep, Forget
  <2>5. Holds(t)'
    BY <1>1, <1>6, <2>1, <2>3
       DEF Typed, ForgetStep, Forget, Holds, FreesFrame, WithPacket, WithMsg, WithTimer
  <2>6. Own
    BY <1>1, <1>6, <2>1, <2>2, <2>3 DEF Own, Typed, ForgetStep, Forget
  <2> QED
    BY <1>3, <2>4, <2>5, <2>6
<1>7. CASE PutIn(t)
  <2>1. Typed'
    BY <1>1, <1>2, <1>7 DEF Typed, WithPacket, PutIn
  <2>2. Holds(t)'
    BY <1>1, <1>7 DEF Typed, PutIn, Holds, FreesFrame, WithPacket, WithMsg, WithTimer
  <2>3. Own
    BY <1>1, <1>7 DEF Own, Typed, PutIn
  <2> QED
    BY <1>3, <2>1, <2>2, <2>3
<1>8. CASE PutOutStep(t)
  <2>1. Typed'
    BY <1>1, <1>2, <1>8, SMTT(30) DEF Typed, WithPacket, PutOutStep
  <2>2. Holds(t)'
    <3>1. /\ pc[t] \in {"netif_out", "put_out"} /\ pc'[t] \in {"idle", "loop_send"}
          /\ buf'[t] = None /\ msg' = msg
      BY <1>1, <1>8 DEF Typed, PutOutStep
    <3> QED
      BY <1>1, <3>1 DEF Holds, FreesFrame, WithPacket, WithMsg, WithTimer
  <2>3. Own
    BY <1>1, <1>8 DEF Own, Typed, PutOutStep
  <2> QED
    BY <1>3, <2>1, <2>2, <2>3
<1>9. CASE GetOutStep(t)
  <2>1. PICK n \in Netifs : /\ out_q[n] # <<>> /\ buf' = [buf EXCEPT ![t] = Head(out_q[n])]
                            /\ out_q' = [out_q EXCEPT ![n] = Tail(@)]
    BY <1>9 DEF GetOutStep
  <2>2. out_q[n] \in Seq(Bufs) /\ Head(out_q[n]) \in Bufs /\ Tail(out_q[n]) \in Seq(Bufs)
    BY <1>1, <2>1 DEF Typed
  <2>3. Typed'
    BY <1>1, <1>9, <2>1, <2>2 DEF Typed, GetOutStep
  <2>4. Holds(t)'
    <3>1. /\ pc[t] \in {"loop_send", "idle"} /\ pc'[t] \in {"put_in", "inject"}
          /\ buf'[t] # None /\ msg' = msg
      BY <1>1, <1>9, <2>1, <2>2 DEF Typed, GetOutStep
    <3> QED
      BY <1>1, <3>1 DEF Holds, FreesFrame, WithPacket, WithMsg, WithTimer
  <2>5. Own
    BY <1>1, <1>9, <2>1 DEF Own, Typed, GetOutStep
  <2> QED
    BY <1>3, <2>3, <2>4, <2>5
<1>10. CASE GetInStep(t)
  <2>1. Typed'
    BY <1>1, <1>2, <1>10 DEF Typed, WithPacket, GetInStep
  <2>2. Holds(t)'
    BY <1>1, <1>10 DEF Typed, GetInStep, Holds, FreesFrame, WithPacket, WithMsg, WithTimer
  <2>3. Own
    BY <1>1, <1>10 DEF Own, Typed, GetInStep
  <2> QED
    BY <1>3, <2>1, <2>2, <2>3
<1>11. CASE CountIn(t)
  <2>1. Typed'
    BY <1>1, <1>2, <1>11 DEF Typed, WithPacket, CountIn
  <2>2. Holds(t)'
    BY <1>1, <1>11 DEF Typed, CountIn, Holds, FreesFrame, WithPacket, WithMsg, WithTimer
  <2>3. Own
    BY <1>1, <1>11 DEF Own, Typed, CountIn
  <2> QED
    BY <1>3, <2>1, <2>2, <2>3
<1> QED
  BY <1>4, <1>5, <1>6, <1>7, <1>8, <1>9, <1>10, <1>11 DEF PacketStep

LEMMA HoldsOwn ==
  ASSUME HoldsInv, NEW t \in Threads, OwnStep(t)
  PROVE  HoldsInv'
<1> USE StackAssumption DEF Along, Goto, packets, queues, blocks, calls
<1> SUFFICES Typed' /\ \A s \in Threads : Holds(s)'
  BY DEF HoldsInv
<1>1. Typed /\ \A s \in Threads : Holds(s)
  BY DEF HoldsInv
<1>2. pc[t] \in WithPacket => buf[t] \in Bufs
  BY <1>1 DEF Typed, Holds, WithPacket
<1> DEFINE Own == \A s \in Threads \ {t} : UNCHANGED <<pc[s], ret[s], buf[s], msg[s]>>
<1>3. Own /\ Holds(t)' => \A s \in Threads : Holds(s)'
  BY <1>1, HoldsSame
<1> HIDE DEF Own
<1>4. CASE DropStep(t)
  <2>1. PICK to \in {"idle", "drain"} :
          /\ pc[t] \in {"put_in", "roll_back", "put_out", "inject", "link_in"}
          /\ pc[t] = "link_in" <=> to = "drain"
          /\ pc' = [pc EXCEPT ![t] = "free"] /\ ret' = [ret EXCEPT ![t] = to]
          /\ UNCHANGED <<packets, queues, blocks, buf, msg, netif, need, got, forgotten>>
    BY <1>4 DEF DropStep, Drop
  <2>2. Typed' /\ Own
    BY <1>1, <2>1 DEF Own, Typed
  <2>3. Holds(t)'
    BY <1>1, <2>1 DEF Typed, Holds, FreesFrame, WithPacket, WithMsg, WithTimer
  <2> QED
    BY <1>3, <2>2, <2>3
<1>5. CASE PopBlock(t)
  <2>1. Typed' /\ UNCHANGED <<pc, ret, buf, msg>>
    BY <1>1, <1>5 DEF Typed, PopBlock
  <2> QED
    BY <1>1, <2>1, HoldsSame
<1>6. CASE PopLastBlock(t)
  <2>1. Typed'
    BY <1>1, <1>2, <1>6 DEF Typed, PopLastBlock, WithPacket
  <2>2. Holds(t)'
    BY <1>1, <1>6 DEF Typed, PopLastBlock, Holds, FreesFrame, AfterAlloc, WithPacket, WithMsg, WithTimer
  <2>3. Own
    BY <1>1, <1>6 DEF Own, Typed, PopLastBlock
  <2> QED
    BY <1>3, <2>1, <2>2, <2>3
<1>7. CASE RollBack(t)
  <2>1. Typed' /\ UNCHANGED <<pc, ret, buf, msg>>
    BY <1>1, <1>7 DEF Typed, RollBack, release_pktblock
  <2> QED
    BY <1>1, <2>1, HoldsSame
<1>8. CASE FreeBlock(t)
  <2>1. buf[t] \in Bufs
    BY <1>2, <1>8 DEF FreeBlock, WithPacket
  <2>2. Typed' /\ UNCHANGED <<pc, ret, buf, msg>>
    BY <1>1, <1>8, <2>1 DEF Typed, FreeBlock, release_pktblock, threads
  <2> QED
    BY <1>1, <2>2, HoldsSame
<1>9. CASE HeaderFails(t)
  <2>1. Typed' /\ Own
    BY <1>1, <1>9 DEF Typed, Own, HeaderFails
  <2>2. Holds(t)'
    BY <1>1, <1>9
       DEF Typed, HeaderFails, AllocFailed, Holds, FreesFrame, WithPacket, WithMsg, WithTimer
  <2> QED
    BY <1>3, <2>1, <2>2
<1>10. CASE MoveStep(t)
  <2>1. CASE /\ Along(t, {<<"announce", "idle">>, <<"netif_out", "raw_out">>, <<"netif_out", "header">>,
                          <<"header", "put_out">>, <<"make_request", "idle">>, <<"idle", "tick">>,
                          <<"tick", "idle">>, <<"run", "release">>, <<"get", "release">>,
                          <<"drain", "release">>, <<"drain", "get">>})
             /\ UNCHANGED <<need, got, ret>>
    <3>1. Typed' /\ Own
      BY <1>1, <1>10, <2>1 DEF Typed, Own, MoveStep
    <3>2. Holds(t)'
      <4>1. PICK m \in {<<"announce", "idle">>, <<"netif_out", "raw_out">>, <<"netif_out", "header">>,
                        <<"header", "put_out">>, <<"make_request", "idle">>, <<"idle", "tick">>,
                        <<"tick", "idle">>, <<"run", "release">>, <<"get", "release">>,
                        <<"drain", "release">>, <<"drain", "get">>} : pc[t] = m[1] /\ pc'[t] = m[2]
        BY <1>1, <2>1 DEF Typed
      <4>2. UNCHANGED <<buf, msg>>
        BY <1>10 DEF MoveStep
      <4> QED
        BY <1>1, <4>1, <4>2 DEF Holds, FreesFrame, WithPacket, WithMsg, WithTimer
    <3> QED
      BY <1>3, <3>1, <3>2
  <2>2. CASE CallAlloc(t, 1, "raw_out", "header") \/ CallAlloc(t, 1, "header", "put_out")
    <3>1. PICK to \in {"header", "put_out"} : CallAlloc(t, 1, pc[t], to)
      BY <2>2 DEF CallAlloc
    <3>2. Typed' /\ Own
      BY <1>1, <1>10, <3>1 DEF Typed, Own, MoveStep, CallAlloc
    <3>3. Holds(t)'
      BY <1>1, <1>10, <2>2
         DEF Typed, MoveStep, CallAlloc, AfterAlloc, Holds, FreesFrame, WithPacket, WithMsg, WithTimer
    <3> QED
      BY <1>3, <3>2, <3>3
  <2>3. CASE /\ Goto(t, "pop_blk", "roll_back")
             /\ need' = [need EXCEPT ![t] = 0] /\ UNCHANGED <<got, ret>>
    <3>1. Typed' /\ Own
      BY <1>1, <1>10, <2>3 DEF Typed, Own, MoveStep
    <3>2. Holds(t)'
      BY <1>1, <1>10, <2>3 DEF Typed, MoveStep, Holds, FreesFrame, WithPacket, WithMsg, WithTimer
    <3> QED
      BY <1>3, <3>1, <3>2
  <2>4. CASE /\ Goto(t, "roll_back", "netif_out")
             /\ ret' = [ret EXCEPT ![t] = "idle"] /\ UNCHANGED <<need, got>>
    <3>1. Typed' /\ Own
      BY <1>1, <1>10, <2>4 DEF Typed, Own, MoveStep
    <3>2. Holds(t)'
      BY <1>1, <1>10, <2>4 DEF Typed, MoveStep, Holds, FreesFrame, WithPacket, WithMsg, WithTimer
    <3> QED
      BY <1>3, <3>1, <3>2
  <2> QED
    BY <1>10, <2>1, <2>2, <2>3, <2>4 DEF MoveStep
<1>11. CASE PopNull(t)
  <2>1. Typed'
    BY <1>1, <1>11 DEF Typed, PopNull
  <2>2. \A s \in Threads : Holds(s)'
    BY <1>11 DEF PopNull, Holds
  <2> QED
    BY <2>1, <2>2
<1> QED
  BY <1>4, <1>5, <1>6, <1>7, <1>8, <1>9, <1>10, <1>11 DEF OwnStep, BlockStep

LEMMA HoldsMsgs ==
  ASSUME HoldsInv, NEW t \in Threads, MsgStep(t)
  PROVE  HoldsInv'
<1> USE StackAssumption DEF Goto, packets, queues, calls, FreesFrame
<1> SUFFICES Typed' /\ \A s \in Threads : Holds(s)'
  BY DEF HoldsInv
<1>1. Typed /\ \A s \in Threads : Holds(s)
  BY DEF HoldsInv
<1>2. CASE GetMsgBlock(t)
  <2>1. Typed'
    BY <1>1, <1>2 DEF Typed, Holds, WithMsg, WithTimer, GetMsgBlock
  <2>2. ASSUME NEW s \in Threads PROVE Holds(s)'
    BY <1>1, <1>2 DEF Typed, Holds, WithPacket, WithMsg, WithTimer, GetMsgBlock
  <2> QED
    BY <2>1, <2>2
<1>3. CASE MsgSend(t)
  <2>1. Typed'
    BY <1>1, <1>3 DEF Typed, Holds, WithMsg, WithTimer, MsgSend
  <2>2. ASSUME NEW s \in Threads PROVE Holds(s)'
    BY <1>1, <1>3 DEF Typed, Holds, WithPacket, WithMsg, WithTimer, MsgSend
  <2> QED
    BY <2>1, <2>2
<1>4. CASE TimerGetBlock /\ t = "timer"
  <2>1. Typed'
    BY <1>1, <1>4 DEF Typed, Holds, WithMsg, WithTimer, TimerGetBlock
  <2>2. ASSUME NEW s \in Threads PROVE Holds(s)'
    BY <1>1, <1>4 DEF Typed, Holds, WithPacket, WithMsg, WithTimer, TimerGetBlock
  <2> QED
    BY <2>1, <2>2
<1>5. CASE TimerPush /\ t = "timer"
  <2>1. Typed'
    <3>1. msg["timer"] \in Timers /\ "timer" \in Threads
      BY <1>1, <1>5 DEF Holds, WithTimer, TimerPush
    <3>2. Append(m_msg_queue, msg["timer"]) \in Seq(Msgs \cup Timers)
      BY <1>1, <3>1 DEF Typed
    <3>3. m_msg_queue' \in Seq(Msgs \cup Timers) /\ timer_free' \in SUBSET Timers
      BY <1>1, <1>5, <3>1, <3>2 DEF Typed, TimerPush
    <3> QED
      BY <1>1, <1>5, <3>3 DEF Typed, TimerPush
  <2>2. ASSUME NEW s \in Threads PROVE Holds(s)'
    BY <1>1, <1>5 DEF Typed, Holds, WithPacket, WithMsg, WithTimer, TimerPush
  <2> QED
    BY <2>1, <2>2
<1>6. CASE WorkerPop /\ t = "worker"
  <2>1. Typed'
    BY <1>1, <1>6 DEF Typed, Holds, WithMsg, WithTimer, WorkerPop
  <2>2. ASSUME NEW s \in Threads PROVE Holds(s)'
    BY <1>1, <1>6 DEF Typed, Holds, WithPacket, WithMsg, WithTimer, WorkerPop
  <2> QED
    BY <2>1, <2>2
<1>7. CASE WorkerRelease /\ t = "worker"
  <2>1. Typed'
    BY <1>1, <1>7 DEF Typed, Holds, WithMsg, WithTimer, WorkerRelease
  <2>2. ASSUME NEW s \in Threads PROVE Holds(s)'
    BY <1>1, <1>7 DEF Typed, Holds, WithPacket, WithMsg, WithTimer, WorkerRelease
  <2> QED
    BY <2>1, <2>2
<1> QED
  BY <1>2, <1>3, <1>4, <1>5, <1>6, <1>7 DEF MsgStep

LEMMA HoldsNext == HoldsInv /\ [Next]_vars => HoldsInv'
<1> SUFFICES ASSUME HoldsInv, [Next]_vars PROVE HoldsInv'
  OBVIOUS
<1>1. CASE UNCHANGED vars
  BY <1>1 DEF vars, packets, queues, blocks, threads, calls, HoldsInv, Typed, Holds, FreesFrame
<1>2. ASSUME NEW t \in Threads, Step(t) PROVE HoldsInv'
  BY <1>2, HoldsPackets, HoldsOwn, HoldsMsgs DEF Step
<1> QED
  BY <1>1, <1>2, StepKinds

(* What each thread has in hand at each place of its code: error paths     *)
(* (no block, a full queue, a failed send) leave it with exactly the       *)
(* packet and the message block the next statement uses.                   *)
THEOREM HoldsAlways == Spec => []HoldsInv
BY HoldsInit, HoldsNext, PTL DEF Spec

(***************************************************************************)
(* A packet is in one place                                                *)
(***************************************************************************)
LEMMA Move ==
  ASSUME OnePlace, NEW b \in Bufs, NEW p \in Places, NEW q \in Places, p # q,
         b \in Content(p), Content(p)' = Content(p) \ {b}, Content(q)' = Content(q) \cup {b},
         \A r \in Places \ {p, q} : Content(r)' = Content(r)
  PROVE  OnePlace'
<1> SUFFICES ASSUME NEW c \in Bufs
             PROVE  \E r \in Places : c \in Content(r)' /\ \A s \in Places : c \in Content(s)' => s = r
  BY DEF OnePlace, Places
<1>1. CASE c = b
  <2>1. \A s \in Places : b \in Content(s) => s = p
    BY DEF OnePlace
  <2>2. \A s \in Places : b \in Content(s)' => s = q
    BY <2>1
  <2> QED
    BY <1>1, <2>2
<1>2. CASE c # b
  <2>1. \A s \in Places : c \in Content(s)' <=> c \in Content(s)
    BY <1>2
  <2> QED
    BY <2>1 DEF OnePlace
<1> QED
  BY <1>1, <1>2

(* The places one by one.                                                  *)
LEMMA PlaceKinds ==
  /\ \A p \in Places : \/ p = <<"pool", "pool">>
                       \/ \E n \in Netifs : p = <<"in", n>> \/ p = <<"out", n>>
                       \/ \E t \in Threads : p = <<"held", t>>
                       \/ \E r \in Reasons : p = <<"forgotten", r>>
  /\ <<"pool", "pool">> \in Places
  /\ \A n \in Netifs : <<"in", n>> \in Places /\ <<"out", n>> \in Places
  /\ \A t \in Threads : <<"held", t>> \in Places
  /\ \A r \in Reasons : <<"forgotten", r>> \in Places
BY DEF Places

LEMMA Contents ==
  /\ Content(<<"pool", "pool">>) = pkt_free
  /\ \A n : Content(<<"in", n>>) = Range(in_q[n]) /\ Content(<<"out", n>>) = Range(out_q[n])
  /\ \A t : Content(<<"held", t>>) = {buf[t]} \ {None}
  /\ \A r : Content(<<"forgotten", r>>) = forgotten[r]
BY DEF Content

LEMMA ContentsNext ==
  /\ Content(<<"pool", "pool">>)' = pkt_free'
  /\ \A n : Content(<<"in", n>>)' = Range(in_q'[n]) /\ Content(<<"out", n>>)' = Range(out_q'[n])
  /\ \A t : Content(<<"held", t>>)' = {buf'[t]} \ {None}
  /\ \A r : Content(<<"forgotten", r>>)' = forgotten'[r]
BY DEF Content

(* A place whose variable is as before holds what it held.                 *)
LEMMA OtherPlaces ==
  ASSUME NEW P, <<"pool", "pool">> \in P \/ pkt_free' = pkt_free,
         \A n \in Netifs : <<"in", n>> \in P \/ in_q'[n] = in_q[n],
         \A n \in Netifs : <<"out", n>> \in P \/ out_q'[n] = out_q[n],
         \A t \in Threads : <<"held", t>> \in P \/ buf'[t] = buf[t],
         \A r \in Reasons : <<"forgotten", r>> \in P \/ forgotten'[r] = forgotten[r]
  PROVE  \A p \in Places \ P : Content(p)' = Content(p)
<1> SUFFICES ASSUME NEW p \in Places \ P PROVE Content(p)' = Content(p)
  OBVIOUS
<1>1. CASE p = <<"pool", "pool">>
  BY <1>1, Contents, ContentsNext
<1>2. ASSUME NEW n \in Netifs, p = <<"in", n>> \/ p = <<"out", n>> PROVE Content(p)' = Content(p)
  BY <1>2, Contents, ContentsNext
<1>3. ASSUME NEW t \in Threads, p = <<"held", t>> PROVE Content(p)' = Content(p)
  BY <1>3, Contents, ContentsNext
<1>4. ASSUME NEW r \in Reasons, p = <<"forgotten", r>> PROVE Content(p)' = Content(p)
  BY <1>4, Contents, ContentsNext
<1> QED
  BY <1>1, <1>2, <1>3, <1>4, PlaceKinds

LEMMA PlacesTake ==
  ASSUME HoldsInv, PlacesInv, NEW t \in Threads, TakeStep(t)
  PROVE  PlacesInv'
<1>1. PICK b \in pkt_free : pkt_free' = pkt_free \ {b} /\ buf' = [buf EXCEPT ![t] = b]
  BY DEF TakeStep, get_pktbuffer, Hold
<1>2. buf[t] = None /\ buf \in [Threads -> Bufs \cup {None}] /\ b \in Bufs /\ b # None
  <2>1. pc[t] \in {"idle", "make_request"}
    BY DEF TakeStep, CallAlloc, Goto
  <2> QED
    BY <1>1, <2>1, StackAssumption DEF HoldsInv, Typed, Holds, WithPacket
<1>3. UNCHANGED <<in_q, out_q, forgotten>>
  BY DEF TakeStep, queues
<1>4. OnePlace'
  <2> DEFINE p == <<"pool", "pool">>
             q == <<"held", t>>
  <2>1. Content(p)' = Content(p) \ {b} /\ Content(q)' = Content(q) \cup {b} /\ b \in Content(p)
    BY <1>1, <1>2, Contents, ContentsNext
  <2>2. \A r \in Places \ {p, q} : Content(r)' = Content(r)
    BY <1>1, <1>2, <1>3, OtherPlaces
  <2>3. p \in Places /\ q \in Places /\ p # q
    BY PlaceKinds
  <2> QED
    BY <1>2, <2>1, <2>2, <2>3, Move DEF PlacesInv
<1> QED
  BY <1>3, <1>4 DEF PlacesInv, QueuesOK

LEMMA PlacesFree ==
  ASSUME HoldsInv, PlacesInv, NEW t \in Threads, FreeBuffer(t)
  PROVE  PlacesInv'
<1> DEFINE b == buf[t]
<1>1. pkt_free' = pkt_free \cup {b} /\ buf' = [buf EXCEPT ![t] = None]
  BY DEF FreeBuffer, Hold
<1>2. b \in Bufs /\ b # None /\ buf \in [Threads -> Bufs \cup {None}]
  <2>1. pc[t] \in WithPacket
    BY DEF FreeBuffer, Goto, WithPacket
  <2> QED
    BY <2>1, StackAssumption DEF HoldsInv, Typed, Holds, WithPacket
<1>3. UNCHANGED <<in_q, out_q, forgotten>>
  BY DEF FreeBuffer, queues
<1>4. OnePlace'
  <2> DEFINE p == <<"held", t>>
             q == <<"pool", "pool">>
  <2>1. Content(p)' = Content(p) \ {b} /\ Content(q)' = Content(q) \cup {b} /\ b \in Content(p)
    BY <1>1, <1>2, Contents, ContentsNext
  <2>2. \A r \in Places \ {p, q} : Content(r)' = Content(r)
    BY <1>1, <1>2, <1>3, OtherPlaces
  <2>3. p \in Places /\ q \in Places /\ p # q
    BY PlaceKinds
  <2> QED
    BY <1>2, <2>1, <2>2, <2>3, Move DEF PlacesInv
<1> QED
  BY <1>3, <1>4 DEF PlacesInv, QueuesOK

LEMMA PlacesForget ==
  ASSUME HoldsInv, PlacesInv, NEW t \in Threads, ForgetStep(t)
  PROVE  PlacesInv'
<1> DEFINE b == buf[t]
<1>1. PICK reason \in Reasons : /\ forgotten' = [forgotten EXCEPT ![reason] = @ \cup {b}]
                                /\ buf' = [buf EXCEPT ![t] = None]
  BY DEF ForgetStep, Forget, Hold, Reasons
<1>2. /\ b \in Bufs /\ b # None /\ buf \in [Threads -> Bufs \cup {None}]
      /\ forgotten \in [Reasons -> SUBSET Bufs]
  <2>1. pc[t] \in WithPacket
    BY DEF ForgetStep, Along, Goto, WithPacket
  <2> QED
    BY <2>1, StackAssumption DEF HoldsInv, Typed, Holds, WithPacket
<1>3. UNCHANGED <<pkt_free, in_q, out_q>>
  BY DEF ForgetStep, packets, queues
<1>4. OnePlace'
  <2> DEFINE p == <<"held", t>>
             q == <<"forgotten", reason>>
  <2>1. Content(p)' = Content(p) \ {b} /\ Content(q)' = Content(q) \cup {b} /\ b \in Content(p)
    BY <1>1, <1>2, Contents, ContentsNext
  <2>2. \A r \in Places \ {p, q} : Content(r)' = Content(r)
    BY <1>1, <1>2, <1>3, OtherPlaces
  <2>3. p \in Places /\ q \in Places /\ p # q
    BY PlaceKinds
  <2> QED
    BY <1>2, <2>1, <2>2, <2>3, Move DEF PlacesInv
<1> QED
  BY <1>3, <1>4 DEF PlacesInv, QueuesOK

LEMMA PlacesPutIn ==
  ASSUME HoldsInv, PlacesInv, NEW t \in Threads, PutIn(t)
  PROVE  PlacesInv'
<1> DEFINE b == buf[t]
<1>1. PICK n \in Netifs : /\ Len(in_q[n]) < InCap /\ buf' = [buf EXCEPT ![t] = None]
                          /\ in_q' = [in_q EXCEPT ![n] = Append(@, b)]
  BY DEF PutIn, Hold, HoldsInv, Typed
<1>2. /\ b \in Bufs /\ b # None /\ buf \in [Threads -> Bufs \cup {None}]
      /\ in_q \in [Netifs -> Seq(Bufs)]
  <2>1. pc[t] \in WithPacket
    BY DEF PutIn, Along, Goto, WithPacket
  <2> QED
    BY <2>1, StackAssumption DEF HoldsInv, Typed, Holds, WithPacket
<1>3. UNCHANGED <<pkt_free, out_q, forgotten>>
  BY DEF PutIn, packets, queues
<1> DEFINE p == <<"held", t>>
           q == <<"in", n>>
<1>4. p \in Places /\ q \in Places /\ p # q
  BY PlaceKinds
<1>5. b \notin Range(in_q[n])
  <2>1. b \in Content(p) /\ Content(q) = Range(in_q[n])
    BY <1>2, Contents
  <2> QED
    BY <1>2, <1>4, <2>1 DEF PlacesInv, OnePlace
<1>6. /\ IsInjective(Append(in_q[n], b)) /\ Len(Append(in_q[n], b)) = Len(in_q[n]) + 1
      /\ Range(Append(in_q[n], b)) = Range(in_q[n]) \cup {b}
  BY <1>2, <1>5, QueueAppend DEF PlacesInv, QueuesOK
<1>7. OnePlace'
  <2>1. Content(p)' = Content(p) \ {b} /\ Content(q)' = Content(q) \cup {b} /\ b \in Content(p)
    BY <1>1, <1>2, <1>6, Contents, ContentsNext
  <2>2. \A r \in Places \ {p, q} : Content(r)' = Content(r)
    BY <1>1, <1>2, <1>3, OtherPlaces
  <2> QED
    BY <1>2, <1>4, <2>1, <2>2, Move DEF PlacesInv
<1>8. QueuesOK'
  BY <1>1, <1>2, <1>3, <1>6, StackAssumption DEF PlacesInv, QueuesOK
<1> QED
  BY <1>7, <1>8 DEF PlacesInv

LEMMA PlacesPutOut ==
  ASSUME HoldsInv, PlacesInv, NEW t \in Threads, PutOutStep(t)
  PROVE  PlacesInv'
<1> DEFINE b == buf[t]
<1>1. PICK n \in Netifs : /\ Len(out_q[n]) < OutCap /\ buf' = [buf EXCEPT ![t] = None]
                          /\ out_q' = [out_q EXCEPT ![n] = Append(@, b)]
  BY DEF PutOutStep, Hold, HoldsInv, Typed
<1>2. /\ b \in Bufs /\ b # None /\ buf \in [Threads -> Bufs \cup {None}]
      /\ out_q \in [Netifs -> Seq(Bufs)]
  <2>1. pc[t] \in WithPacket
    BY DEF PutOutStep, Along, Goto, WithPacket
  <2> QED
    BY <2>1, StackAssumption DEF HoldsInv, Typed, Holds, WithPacket
<1>3. UNCHANGED <<pkt_free, in_q, forgotten>>
  BY DEF PutOutStep, packets, queues
<1> DEFINE p == <<"held", t>>
           q == <<"out", n>>
<1>4. p \in Places /\ q \in Places /\ p # q
  BY PlaceKinds
<1>5. b \notin Range(out_q[n])
  <2>1. b \in Content(p) /\ Content(q) = Range(out_q[n])
    BY <1>2, Contents
  <2> QED
    BY <1>2, <1>4, <2>1 DEF PlacesInv, OnePlace
<1>6. /\ IsInjective(Append(out_q[n], b)) /\ Len(Append(out_q[n], b)) = Len(out_q[n]) + 1
      /\ Range(Append(out_q[n], b)) = Range(out_q[n]) \cup {b}
  BY <1>2, <1>5, QueueAppend DEF PlacesInv, QueuesOK
<1>7. OnePlace'
  <2>1. Content(p)' = Content(p) \ {b} /\ Content(q)' = Content(q) \cup {b} /\ b \in Content(p)
    BY <1>1, <1>2, <1>6, Contents, ContentsNext
  <2>2. \A r \in Places \ {p, q} : Content(r)' = Content(r)
    BY <1>1, <1>2, <1>3, OtherPlaces
  <2> QED
    BY <1>2, <1>4, <2>1, <2>2, Move DEF PlacesInv
<1>8. QueuesOK'
  BY <1>1, <1>2, <1>3, <1>6, StackAssumption DEF PlacesInv, QueuesOK
<1> QED
  BY <1>7, <1>8 DEF PlacesInv

LEMMA PlacesGetIn ==
  ASSUME HoldsInv, PlacesInv, NEW t \in Threads, GetInStep(t)
  PROVE  PlacesInv'
<1>1. PICK n \in Netifs : /\ in_q[n] # <<>> /\ buf' = [buf EXCEPT ![t] = Head(in_q[n])]
                          /\ in_q' = [in_q EXCEPT ![n] = Tail(@)]
  BY DEF GetInStep, Hold, HoldsInv, Typed
<1> DEFINE b == Head(in_q[n])
<1>2. /\ buf[t] = None /\ buf \in [Threads -> Bufs \cup {None}]
      /\ in_q \in [Netifs -> Seq(Bufs)]
  <2>1. pc[t] \in {"idle", "loop_send", "get"}
    BY DEF GetInStep, Along, Goto
  <2> QED
    BY <2>1, StackAssumption DEF HoldsInv, Typed, Holds, WithPacket
<1>3. UNCHANGED <<pkt_free, out_q, forgotten>>
  BY DEF GetInStep, packets, queues
<1>4. /\ IsInjective(Tail(in_q[n])) /\ Len(Tail(in_q[n])) = Len(in_q[n]) - 1
      /\ Range(Tail(in_q[n])) = Range(in_q[n]) \ {b}
      /\ b \in Range(in_q[n]) /\ b \in Bufs
  BY <1>1, <1>2, QueueTail DEF PlacesInv, QueuesOK
<1>5. OnePlace'
  <2> DEFINE p == <<"in", n>>
             q == <<"held", t>>
  <2>1. Content(p)' = Content(p) \ {b} /\ Content(q)' = Content(q) \cup {b} /\ b \in Content(p)
    BY <1>1, <1>2, <1>4, StackAssumption, Contents, ContentsNext
  <2>2. \A r \in Places \ {p, q} : Content(r)' = Content(r)
    BY <1>1, <1>2, <1>3, OtherPlaces
  <2>3. p \in Places /\ q \in Places /\ p # q
    BY PlaceKinds
  <2> QED
    BY <1>4, <2>1, <2>2, <2>3, Move DEF PlacesInv
<1>6. QueuesOK'
  BY <1>1, <1>2, <1>3, <1>4, StackAssumption DEF PlacesInv, QueuesOK
<1> QED
  BY <1>5, <1>6 DEF PlacesInv

LEMMA PlacesGetOut ==
  ASSUME HoldsInv, PlacesInv, NEW t \in Threads, GetOutStep(t)
  PROVE  PlacesInv'
<1>1. PICK n \in Netifs : /\ out_q[n] # <<>> /\ buf' = [buf EXCEPT ![t] = Head(out_q[n])]
                          /\ out_q' = [out_q EXCEPT ![n] = Tail(@)]
  BY DEF GetOutStep, Hold, HoldsInv, Typed
<1> DEFINE b == Head(out_q[n])
<1>2. /\ buf[t] = None /\ buf \in [Threads -> Bufs \cup {None}]
      /\ out_q \in [Netifs -> Seq(Bufs)]
  <2>1. pc[t] \in {"idle", "loop_send", "get"}
    BY DEF GetOutStep, Along, Goto
  <2> QED
    BY <2>1, StackAssumption DEF HoldsInv, Typed, Holds, WithPacket
<1>3. UNCHANGED <<pkt_free, in_q, forgotten>>
  BY DEF GetOutStep, packets, queues
<1>4. /\ IsInjective(Tail(out_q[n])) /\ Len(Tail(out_q[n])) = Len(out_q[n]) - 1
      /\ Range(Tail(out_q[n])) = Range(out_q[n]) \ {b}
      /\ b \in Range(out_q[n]) /\ b \in Bufs
  BY <1>1, <1>2, QueueTail DEF PlacesInv, QueuesOK
<1>5. OnePlace'
  <2> DEFINE p == <<"out", n>>
             q == <<"held", t>>
  <2>1. Content(p)' = Content(p) \ {b} /\ Content(q)' = Content(q) \cup {b} /\ b \in Content(p)
    BY <1>1, <1>2, <1>4, StackAssumption, Contents, ContentsNext
  <2>2. \A r \in Places \ {p, q} : Content(r)' = Content(r)
    BY <1>1, <1>2, <1>3, OtherPlaces
  <2>3. p \in Places /\ q \in Places /\ p # q
    BY PlaceKinds
  <2> QED
    BY <1>4, <2>1, <2>2, <2>3, Move DEF PlacesInv
<1>6. QueuesOK'
  BY <1>1, <1>2, <1>3, <1>4, StackAssumption DEF PlacesInv, QueuesOK
<1> QED
  BY <1>5, <1>6 DEF PlacesInv

(* The other steps leave every packet where it is.                         *)
LEMMA PlacesAside ==
  ASSUME PlacesInv, UNCHANGED <<pkt_free, in_q, out_q, buf, forgotten>>
  PROVE  PlacesInv'
BY DEF PlacesInv, QueuesOK, OnePlace, Content, Places

LEMMA PlacesInit == Init => PlacesInv
<1> SUFFICES ASSUME Init PROVE PlacesInv
  OBVIOUS
<1>1. QueuesOK
  BY StackAssumption DEF Init, QueuesOK, IsInjective
<1>2. \A p \in Places : Content(p) = IF p = <<"pool", "pool">> THEN Bufs ELSE {}
  BY PlaceKinds, Contents DEF Init, Range, Reasons
<1>3. OnePlace
  BY <1>2, PlaceKinds DEF OnePlace
<1> QED
  BY <1>1, <1>3 DEF PlacesInv

LEMMA PlacesNext ==
  ASSUME HoldsInv, PlacesInv, [Next]_vars
  PROVE  PlacesInv'
<1>1. CASE UNCHANGED vars
  BY <1>1, PlacesAside DEF vars, packets, queues, threads
<1>2. ASSUME NEW t \in Threads, Step(t) PROVE PlacesInv'
  <2>1. CASE CountIn(t) \/ OwnStep(t) \/ MsgStep(t)
    <3>1. UNCHANGED <<pkt_free, in_q, out_q, buf, forgotten>>
      BY <2>1 DEF CountIn, OwnStep, DropStep, Drop, BlockStep, PopBlock, PopLastBlock, RollBack, FreeBlock,
                  HeaderFails, MoveStep, PopNull, MsgStep, GetMsgBlock, MsgSend, TimerGetBlock, TimerPush,
                  WorkerPop, WorkerRelease, packets, queues, threads
    <3> QED
      BY <3>1, PlacesAside
  <2> QED
    BY <1>2, <2>1, PlacesTake, PlacesFree, PlacesForget, PlacesPutIn, PlacesPutOut, PlacesGetIn,
       PlacesGetOut DEF Step, PacketStep
<1> QED
  BY <1>1, <1>2, StepKinds

(* A packet that is in one queue once has one position in the queues.      *)
LEMMA OnePosition ==
  ASSUME NEW q \in [Netifs -> Seq(Bufs)], NEW cap \in Nat, NEW b,
         \A n \in Netifs : IsInjective(q[n]) /\ Len(q[n]) <= cap,
         \A n, k \in Netifs : b \in Range(q[n]) /\ b \in Range(q[k]) => n = k
  PROVE  Cardinality({p \in Netifs \X (1 .. cap) : p[2] <= Len(q[p[1]]) /\ q[p[1]][p[2]] = b})
           = IF \E n \in Netifs : b \in Range(q[n]) THEN 1 ELSE 0
<1> DEFINE I == {p \in Netifs \X (1 .. cap) : p[2] <= Len(q[p[1]]) /\ q[p[1]][p[2]] = b}
<1>1. ASSUME NEW p \in I
      PROVE  /\ p[1] \in Netifs /\ p[2] \in DOMAIN q[p[1]] /\ q[p[1]][p[2]] = b
             /\ b \in Range(q[p[1]]) /\ p = <<p[1], p[2]>>
  <2>1. p[1] \in Netifs /\ p[2] \in 1 .. cap /\ p = <<p[1], p[2]>> /\ p[2] <= Len(q[p[1]])
        /\ q[p[1]][p[2]] = b
    OBVIOUS
  <2>2. DOMAIN q[p[1]] = 1 .. Len(q[p[1]]) /\ Len(q[p[1]]) \in Nat
    BY <2>1
  <2> QED
    BY <2>1, <2>2 DEF Range
<1>2. CASE \E n \in Netifs : b \in Range(q[n])
  <2>1. PICK n \in Netifs : b \in Range(q[n])
    BY <1>2
  <2>2. PICK k \in DOMAIN q[n] : q[n][k] = b
    BY <2>1 DEF Range
  <2>3. DOMAIN q[n] = 1 .. Len(q[n]) /\ Len(q[n]) \in Nat /\ Len(q[n]) <= cap
    OBVIOUS
  <2>4. <<n, k>> \in I
    BY <2>2, <2>3
  <2>5. ASSUME NEW p \in I PROVE p = <<n, k>>
    <3>1. p[1] = n
      BY <2>1, <1>1
    <3>2. p[2] = k
      BY <3>1, <2>2, <1>1 DEF IsInjective
    <3> QED
      BY <3>1, <3>2, <1>1
  <2>6. I = {<<n, k>>}
    BY <2>4, <2>5
  <2> QED
    BY <1>2, <2>6, FS_Singleton
<1>3. CASE ~ \E n \in Netifs : b \in Range(q[n])
  <2>1. I = {}
    BY <1>3, <1>1
  <2> QED
    BY <1>3, <2>1, FS_EmptySet
<1> QED
  BY <1>2, <1>3

LEMMA PlacesCounted == HoldsInv /\ PlacesInv => EachPacketInOnePlace
<1> SUFFICES ASSUME HoldsInv, PlacesInv, NEW b \in Bufs
             PROVE  (IF b \in pkt_free THEN 1 ELSE 0)
    + Cardinality({p \in Netifs \X (1 .. InCap) : p[2] <= Len(in_q[p[1]]) /\ in_q[p[1]][p[2]] = b})
    + Cardinality({p \in Netifs \X (1 .. OutCap) : p[2] <= Len(out_q[p[1]]) /\ out_q[p[1]][p[2]] = b})
    + Cardinality({t \in Threads : buf[t] = b})
    + Cardinality({r \in DOMAIN forgotten : b \in forgotten[r]}) = 1
  BY DEF EachPacketInOnePlace
<1>1. PICK p \in Places : b \in Content(p) /\ \A q \in Places : b \in Content(q) => q = p
  BY DEF PlacesInv, OnePlace
<1>2. /\ b \in pkt_free <=> p = <<"pool", "pool">>
      /\ \A n \in Netifs : b \in Range(in_q[n]) <=> p = <<"in", n>>
      /\ \A n \in Netifs : b \in Range(out_q[n]) <=> p = <<"out", n>>
      /\ \A t \in Threads : buf[t] = b <=> p = <<"held", t>>
      /\ \A r \in Reasons : b \in forgotten[r] <=> p = <<"forgotten", r>>
  <2>1. b # None
    BY StackAssumption
  <2>2. \A q \in Places : b \in Content(q) <=> q = p
    BY <1>1
  <2>3. b \in pkt_free <=> p = <<"pool", "pool">>
    BY <2>2, PlaceKinds, Contents
  <2>4. ASSUME NEW n \in Netifs PROVE /\ b \in Range(in_q[n]) <=> p = <<"in", n>>
                                      /\ b \in Range(out_q[n]) <=> p = <<"out", n>>
    BY <2>2, PlaceKinds, Contents
  <2>5. ASSUME NEW t \in Threads PROVE buf[t] = b <=> p = <<"held", t>>
    <3>1. b \in Content(<<"held", t>>) <=> buf[t] = b
      BY <2>1, Contents
    <3> QED
      BY <3>1, <2>2, PlaceKinds
  <2>6. ASSUME NEW r \in Reasons PROVE b \in forgotten[r] <=> p = <<"forgotten", r>>
    BY <2>2, PlaceKinds, Contents
  <2> QED
    BY <2>3, <2>4, <2>5, <2>6
<1>3. Cardinality({x \in Netifs \X (1 .. InCap) : x[2] <= Len(in_q[x[1]]) /\ in_q[x[1]][x[2]] = b})
        = IF \E n \in Netifs : p = <<"in", n>> THEN 1 ELSE 0
  <2>1. \A n, k \in Netifs : b \in Range(in_q[n]) /\ b \in Range(in_q[k]) => n = k
    BY <1>2
  <2>2. InCap \in Nat /\ in_q \in [Netifs -> Seq(Bufs)]
    BY StackAssumption DEF HoldsInv, Typed
  <2> QED
    BY <1>2, <2>1, <2>2, OnePosition DEF PlacesInv, QueuesOK
<1>4. Cardinality({x \in Netifs \X (1 .. OutCap) : x[2] <= Len(out_q[x[1]]) /\ out_q[x[1]][x[2]] = b})
        = IF \E n \in Netifs : p = <<"out", n>> THEN 1 ELSE 0
  <2>1. \A n, k \in Netifs : b \in Range(out_q[n]) /\ b \in Range(out_q[k]) => n = k
    BY <1>2
  <2>2. OutCap \in Nat /\ out_q \in [Netifs -> Seq(Bufs)]
    BY StackAssumption DEF HoldsInv, Typed
  <2> QED
    BY <1>2, <2>1, <2>2, OnePosition DEF PlacesInv, QueuesOK
<1>5. Cardinality({t \in Threads : buf[t] = b}) = IF \E t \in Threads : p = <<"held", t>> THEN 1 ELSE 0
  <2> DEFINE S == {t \in Threads : buf[t] = b}
  <2>1. \A t, s \in S : t = s
    BY <1>2
  <2>2. S = {} <=> ~ \E t \in Threads : p = <<"held", t>>
    BY <1>2
  <2> HIDE DEF S
  <2>3. Cardinality(S) = IF S = {} THEN 0 ELSE 1
    BY <2>1, CountOne
  <2> QED
    BY <2>2, <2>3 DEF S
<1>6. Cardinality({r \in DOMAIN forgotten : b \in forgotten[r]})
        = IF \E r \in Reasons : p = <<"forgotten", r>> THEN 1 ELSE 0
  <2> DEFINE S == {r \in DOMAIN forgotten : b \in forgotten[r]}
  <2>0. DOMAIN forgotten = Reasons
    BY DEF HoldsInv, Typed
  <2>1. \A t, s \in S : t = s
    BY <1>2, <2>0
  <2>2. S = {} <=> ~ \E r \in Reasons : p = <<"forgotten", r>>
    BY <1>2, <2>0
  <2> HIDE DEF S
  <2>3. Cardinality(S) = IF S = {} THEN 0 ELSE 1
    BY <2>1, CountOne
  <2> QED
    BY <2>2, <2>3 DEF S
<1> QED
  BY <1>2, <1>3, <1>4, <1>5, <1>6, PlaceKinds

(* No error path frees a packet twice or goes on using it.                 *)
THEOREM PacketsInOnePlace == Spec => []EachPacketInOnePlace
<1>1. HoldsInv /\ PlacesInv /\ [Next]_vars => (HoldsInv /\ PlacesInv)'
  BY HoldsNext, PlacesNext
<1> QED
  BY <1>1, HoldsInit, PlacesInit, PlacesCounted, PTL DEF Spec

(***************************************************************************)
(* Timer message blocks                                                    *)
(***************************************************************************)
TimerBlockAt(m) == m \in timer_free \/ m \in Range(m_msg_queue) \/ \E t \in Threads : msg[t] = m

LEMMA TimerBlocksAre == TimerBlocksConserved <=> \A m \in Timers : TimerBlockAt(m)
<1>1. \A m \in Timers : m # None
  BY StackAssumption
<1> QED
  BY <1>1 DEF TimerBlocksConserved, TimerBlockAt, HeldMsgs

LEMMA TimerBlocksMsg ==
  ASSUME HoldsInv, NEW t \in Threads, MsgStep(t), NEW m \in Timers, TimerBlockAt(m)
  PROVE  TimerBlockAt(m)'
<1>1. /\ m_msg_queue \in Seq(Msgs \cup Timers) /\ msg \in [Threads -> Msgs \cup Timers \cup {None}]
      /\ m \notin Msgs /\ m # None /\ Holds(t)
  BY StackAssumption DEF HoldsInv, Typed
<1>2. \A x \in Msgs \cup Timers : Range(m_msg_queue) \cup {x} \subseteq Range(Append(m_msg_queue, x))
  BY <1>1, RangeAppend
<1>3. CASE GetMsgBlock(t)
  <2>1. msg[t] = None /\ \A s \in Threads \ {t} : msg'[s] = msg[s]
    BY <1>1, <1>3 DEF GetMsgBlock, Goto, Holds, FreesFrame, WithMsg, WithTimer
  <2> QED
    BY <1>1, <1>3, <2>1 DEF GetMsgBlock, TimerBlockAt
<1>4. CASE MsgSend(t)
  <2>1. msg[t] \in Msgs
    BY <1>1, <1>4 DEF MsgSend, Goto, Holds, FreesFrame, WithMsg
  <2>2. /\ Range(m_msg_queue) \subseteq Range(m_msg_queue') /\ timer_free' = timer_free
        /\ \A s \in Threads \ {t} : msg'[s] = msg[s]
    BY <1>1, <1>2, <1>4, <2>1 DEF MsgSend
  <2> QED
    BY <1>1, <2>1, <2>2 DEF TimerBlockAt
<1>5. CASE t = "timer" /\ TimerGetBlock
  <2>1. PICK x \in timer_free : timer_free' = timer_free \ {x} /\ msg' = [msg EXCEPT ![t] = x]
    BY <1>5 DEF TimerGetBlock
  <2>2. msg[t] = None
    BY <1>1, <1>5 DEF TimerGetBlock, Goto, Holds, FreesFrame, WithMsg, WithTimer
  <2>3. msg'[t] = x /\ (\A s \in Threads \ {t} : msg'[s] = msg[s]) /\ m_msg_queue' = m_msg_queue
    BY <1>1, <1>5, <2>1 DEF TimerGetBlock
  <2> QED
    BY <1>1, <2>1, <2>2, <2>3 DEF TimerBlockAt
<1>6. CASE t = "timer" /\ TimerPush
  <2>1. msg[t] \in Timers
    BY <1>1, <1>6 DEF TimerPush, Goto, Holds, WithTimer
  <2>2. \A s \in Threads \ {t} : msg'[s] = msg[s]
    BY <1>1, <1>6 DEF TimerPush
  <2>3. /\ timer_free \subseteq timer_free' /\ Range(m_msg_queue) \subseteq Range(m_msg_queue')
        /\ msg[t] \in timer_free' \/ msg[t] \in Range(m_msg_queue')
    BY <1>2, <1>6, <2>1 DEF TimerPush
  <2> QED
    BY <2>2, <2>3 DEF TimerBlockAt
<1>7. CASE t = "worker" /\ WorkerPop
  <2>1. msg[t] = None
    BY <1>1, <1>7 DEF WorkerPop, Goto, Holds, FreesFrame, WithMsg, WithTimer
  <2>2. /\ msg'[t] = Head(m_msg_queue) /\ \A s \in Threads \ {t} : msg'[s] = msg[s]
        /\ m_msg_queue' = Tail(m_msg_queue) /\ m_msg_queue # <<>> /\ timer_free' = timer_free
    BY <1>1, <1>7 DEF WorkerPop
  <2>3. Range(m_msg_queue) \subseteq Range(m_msg_queue') \cup {msg'[t]}
    BY <1>1, <2>2, RangeTail
  <2> QED
    BY <1>1, <2>1, <2>2, <2>3 DEF TimerBlockAt
<1>8. CASE t = "worker" /\ WorkerRelease
  <2>1. /\ \A s \in Threads \ {t} : msg'[s] = msg[s]
        /\ m_msg_queue' = m_msg_queue /\ timer_free \subseteq timer_free'
        /\ msg[t] \in Timers => msg[t] \in timer_free'
    BY <1>1, <1>8 DEF WorkerRelease
  <2> QED
    BY <2>1 DEF TimerBlockAt
<1> QED
  BY <1>3, <1>4, <1>5, <1>6, <1>7, <1>8 DEF MsgStep

LEMMA TimerBlocksNext ==
  ASSUME HoldsInv, TimerBlocksConserved, [Next]_vars
  PROVE  TimerBlocksConserved'
<1> SUFFICES ASSUME NEW m \in Timers PROVE TimerBlockAt(m)'
  <2>1. (\A m \in Timers : TimerBlockAt(m)') => TimerBlocksConserved'
    <3>1. \A m \in Timers : m # None
      BY StackAssumption
    <3> QED
      BY <3>1 DEF TimerBlocksConserved, TimerBlockAt, HeldMsgs
  <2> QED
    BY <2>1
<1>1. TimerBlockAt(m)
  BY TimerBlocksAre
<1>2. ASSUME UNCHANGED <<timer_free, m_msg_queue, msg>> PROVE TimerBlockAt(m)'
  BY <1>1, <1>2 DEF TimerBlockAt
<1>3. CASE UNCHANGED vars
  BY <1>2, <1>3 DEF vars, blocks, threads
<1>4. ASSUME NEW t \in Threads, Step(t) PROVE TimerBlockAt(m)'
  <2>1. CASE MsgStep(t)
    BY <1>1, <2>1, TimerBlocksMsg
  <2>2. CASE PacketStep(t) \/ CountIn(t) \/ OwnStep(t)
    BY <1>2, <2>2 DEF PacketStep, TakeStep, CallAlloc, FreeBuffer, ForgetStep, PutIn, PutOutStep, GetOutStep,
                      GetInStep, CountIn, OwnStep, DropStep, Drop, BlockStep, PopBlock, PopLastBlock,
                      RollBack, FreeBlock, HeaderFails, MoveStep, PopNull, blocks, threads
  <2> QED
    BY <1>4, <2>1, <2>2 DEF Step
<1> QED
  BY <1>3, <1>4, StepKinds

(* A timer message survives a full message queue.                          *)
THEOREM NoTimerBlockLost == Spec => []TimerBlocksConserved
<1>1. Init => TimerBlocksConserved
  BY DEF Init, TimerBlocksConserved
<1>2. HoldsInv /\ TimerBlocksConserved /\ [Next]_vars => (HoldsInv /\ TimerBlocksConserved)'
  BY HoldsNext, TimerBlocksNext
<1> QED
  BY <1>1, <1>2, HoldsInit, PTL DEF Spec

(***************************************************************************)
(* Data blocks                                                             *)
(***************************************************************************)
(* A block is in one place at most, and in some place as long as the pool  *)
(* holds no null pointer; packets that are free or about to be filled have *)
(* none.                                                                   *)
NotTwice ==
  /\ \A t \in Threads : got[t] \cap blk_free = {}
  /\ \A b \in Bufs : blks[b] \cap blk_free = {}
  /\ \A t \in Threads, b \in Bufs : got[t] \cap blks[b] = {}
  /\ \A t, s \in Threads : t # s => got[t] \cap got[s] = {}
  /\ \A b, c \in Bufs : b # c => blks[b] \cap blks[c] = {}

Somewhere(k) == \/ k \in blk_free \/ \E t \in Threads : k \in got[t]
                \/ \E b \in Bufs : k \in blks[b]

Empty ==
  /\ \A b \in pkt_free \cup forgotten["recv_alloc"] : blks[b] = {}
  /\ \A t \in Threads : pc[t] \in {"pop_blk", "roll_back"} /\ ret[t] = "put_in" => blks[buf[t]] = {}

BlocksInv == NotTwice /\ (null_blks = 0 => \A k \in Blks : Somewhere(k)) /\ Empty

(* A block comes back to a pool that has room for it.                      *)
LEMMA RoomForIt ==
  ASSUME HoldsInv, null_blks = 0, NEW k \in Blks, k \notin blk_free
  PROVE  Room
<1>1. blk_free \in SUBSET Blks /\ blk_free # Blks /\ IsFiniteSet(Blks)
  BY StackAssumption DEF HoldsInv, Typed
<1>2. IsFiniteSet(blk_free) /\ Cardinality(blk_free) \in Nat /\ Cardinality(Blks) \in Nat
  BY <1>1, FS_Subset, FS_CardinalityType
<1>3. Cardinality(blk_free) < Cardinality(Blks)
  BY <1>1, <1>2, FS_Subset
<1> QED
  BY <1>2, <1>3 DEF Room

(* The packet in a thread's hand is not in the pool, not forgotten, and in *)
(* no other hand.                                                          *)
LEMMA OwnPacket ==
  ASSUME HoldsInv, PlacesInv, NEW t \in Threads, pc[t] \in WithPacket
  PROVE  /\ buf[t] \in Bufs /\ buf[t] \notin pkt_free \cup forgotten["recv_alloc"]
         /\ \A s \in Threads : s # t => buf[s] # buf[t]
<1> DEFINE b == buf[t]
<1>1. b \in Bufs /\ b # None
  BY StackAssumption DEF HoldsInv, Typed, Holds, WithPacket
<1>2. /\ b \in Content(<<"held", t>>) /\ Content(<<"pool", "pool">>) = pkt_free
      /\ Content(<<"forgotten", "recv_alloc">>) = forgotten["recv_alloc"]
      /\ \A s \in Threads : b = buf[s] => b \in Content(<<"held", s>>)
  BY <1>1, Contents
<1>3. /\ <<"pool", "pool">> \in Places /\ <<"forgotten", "recv_alloc">> \in Places
      /\ \A s \in Threads : <<"held", s>> \in Places
  BY PlaceKinds DEF Reasons
<1>4. \A p, q \in Places : b \in Content(p) /\ b \in Content(q) => p = q
  BY <1>1 DEF PlacesInv, OnePlace
<1>5. b \notin pkt_free /\ b \notin forgotten["recv_alloc"]
  BY <1>2, <1>3, <1>4
<1>6. ASSUME NEW s \in Threads, b = buf[s] PROVE s = t
  BY <1>2, <1>3, <1>4, <1>6
<1> QED
  BY <1>1, <1>5, <1>6

(* Steps that move no block.                                               *)
LEMMA BlocksAside ==
  ASSUME BlocksInv, NEW t \in Threads, UNCHANGED <<blk_free, null_blks, blks, got>>,
         pkt_free' \subseteq pkt_free,
         forgotten'["recv_alloc"] = forgotten["recv_alloc"],
         \A s \in Threads \ {t} : UNCHANGED <<pc[s], ret[s], buf[s]>>,
         pc'[t] \in {"pop_blk", "roll_back"} /\ ret'[t] = "put_in" => blks[buf'[t]] = {}
  PROVE  BlocksInv'
<1>1. NotTwice' /\ (null_blks' = 0 => \A k \in Blks : Somewhere(k)')
  BY DEF BlocksInv, NotTwice, Somewhere
<1>2. Empty'
  BY DEF BlocksInv, Empty
<1> QED
  BY <1>1, <1>2 DEF BlocksInv

LEMMA BlocksMove ==
  ASSUME HoldsInv, PlacesInv, BlocksInv, NEW t \in Threads, BlockStep(t)
  PROVE  BlocksInv'
<1> USE DEF Goto
<1>1. /\ blk_free \in SUBSET Blks /\ null_blks \in Nat /\ blks \in [Bufs -> SUBSET Blks]
      /\ got \in [Threads -> SUBSET Blks] /\ DOMAIN pc = Threads /\ DOMAIN ret = Threads
  BY DEF HoldsInv, Typed
<1>2. NotTwice /\ (null_blks = 0 => \A k \in Blks : Somewhere(k)) /\ Empty
  BY DEF BlocksInv
<1>3. /\ buf[t] \in Bufs /\ buf[t] \notin pkt_free \cup forgotten["recv_alloc"]
      /\ \A s \in Threads : s # t => buf[s] # buf[t]
  <2>1. pc[t] \in WithPacket
    BY DEF BlockStep, PopBlock, PopLastBlock, RollBack, FreeBlock, HeaderFails, WithPacket
  <2> QED
    BY <2>1, OwnPacket
<1>4. UNCHANGED <<pkt_free, buf, forgotten>>
  BY DEF BlockStep, PopBlock, PopLastBlock, RollBack, FreeBlock, HeaderFails, threads
<1>5. CASE PopBlock(t)
  <2>1. PICK k \in blk_free : /\ blk_free' = blk_free \ {k}
                              /\ got' = [got EXCEPT ![t] = @ \cup {k}]
    BY <1>5 DEF PopBlock
  <2>2. UNCHANGED <<null_blks, blks, pc, ret>>
    BY <1>5 DEF PopBlock
  <2>3. NotTwice'
    BY <1>1, <1>2, <2>1, <2>2 DEF NotTwice
  <2>4. \A j \in Blks : Somewhere(j) => Somewhere(j)'
    BY <1>1, <2>1, <2>2 DEF Somewhere
  <2>5. Empty'
    BY <1>2, <1>4, <2>2 DEF Empty
  <2> QED
    BY <1>2, <2>2, <2>3, <2>4, <2>5 DEF BlocksInv
<1>6. CASE PopLastBlock(t)
  <2>1. PICK k \in blk_free : /\ blk_free' = blk_free \ {k}
                              /\ blks' = [blks EXCEPT ![buf[t]] = @ \cup got[t] \cup {k}]
    BY <1>6 DEF PopLastBlock
  <2>2. /\ got' = [got EXCEPT ![t] = {}] /\ null_blks' = null_blks
        /\ pc' = [pc EXCEPT ![t] = ret[t]] /\ ret' = [ret EXCEPT ![t] = "idle"]
    BY <1>6 DEF PopLastBlock
  <2>3. NotTwice'
    <3>1. \A b \in Bufs : blks'[b] = IF b = buf[t] THEN blks[b] \cup got[t] \cup {k} ELSE blks[b]
      BY <1>1, <2>1
    <3>2. \A s \in Threads : got'[s] = IF s = t THEN {} ELSE got[s]
      BY <1>1, <2>2
    <3> QED
      BY <1>1, <1>2, <2>1, <3>1, <3>2 DEF NotTwice
  <2>4. \A j \in Blks : Somewhere(j) => Somewhere(j)'
    BY <1>1, <1>3, <2>1, <2>2 DEF Somewhere
  <2>5. Empty'
    <3>1. \A b \in pkt_free' \cup forgotten'["recv_alloc"] : blks'[b] = {}
      BY <1>1, <1>2, <1>3, <1>4, <2>1 DEF Empty
    <3>2. \A s \in Threads : s # t => blks'[buf'[s]] = blks[buf[s]]
      BY <1>1, <1>3, <1>4, <2>1
    <3> QED
      BY <1>1, <1>2, <2>2, <3>1, <3>2 DEF Empty
  <2> QED
    BY <1>2, <2>2, <2>3, <2>4, <2>5 DEF BlocksInv
<1>7. CASE RollBack(t)
  <2>1. PICK k \in got[t] : release_pktblock(k) /\ got' = [got EXCEPT ![t] = @ \ {k}]
    BY <1>7 DEF RollBack
  <2>2. UNCHANGED <<null_blks, blks, pc, ret>>
    BY <1>7 DEF RollBack
  <2>3. k \in Blks /\ k \notin blk_free
    BY <1>1, <1>2, <2>1 DEF NotTwice
  <2>4. NotTwice'
    BY <1>1, <1>2, <2>1, <2>2, SMTT(30) DEF NotTwice, release_pktblock
  <2>5. null_blks' = 0 => \A j \in Blks : Somewhere(j)'
    <3> SUFFICES ASSUME null_blks = 0, NEW j \in Blks PROVE Somewhere(j)'
      BY <2>2
    <3>1. blk_free' = blk_free \cup {k}
      BY <2>1, <2>3, RoomForIt DEF release_pktblock
    <3> QED
      BY <1>1, <1>2, <2>1, <2>2, <3>1 DEF Somewhere
  <2>6. Empty'
    BY <1>2, <1>4, <2>2 DEF Empty
  <2> QED
    BY <2>4, <2>5, <2>6 DEF BlocksInv
<1>8. CASE FreeBlock(t)
  <2>1. PICK k \in blks[buf[t]] : release_pktblock(k) /\ blks' = [blks EXCEPT ![buf[t]] = @ \ {k}]
    BY <1>8 DEF FreeBlock
  <2>2. UNCHANGED <<null_blks, got, pc, ret>>
    BY <1>8 DEF FreeBlock, threads, calls
  <2>3. k \in Blks /\ k \notin blk_free
    BY <1>1, <1>2, <1>3, <2>1 DEF NotTwice
  <2>4. NotTwice'
    BY <1>1, <1>2, <1>3, <2>1, <2>2, SMTT(30) DEF NotTwice, release_pktblock
  <2>5. null_blks' = 0 => \A j \in Blks : Somewhere(j)'
    <3> SUFFICES ASSUME null_blks = 0, NEW j \in Blks PROVE Somewhere(j)'
      BY <2>2
    <3>1. blk_free' = blk_free \cup {k}
      BY <2>1, <2>3, RoomForIt DEF release_pktblock
    <3> QED
      BY <1>1, <1>2, <1>3, <2>1, <2>2, <3>1 DEF Somewhere
  <2>6. Empty'
    <3>1. \A b : blks[b] = {} => blks'[b] = {}
      BY <1>1, <2>1
    <3> QED
      BY <1>2, <1>4, <2>2, <3>1 DEF Empty
  <2> QED
    BY <2>4, <2>5, <2>6 DEF BlocksInv
<1>9. CASE HeaderFails(t)
  <2>1. /\ UNCHANGED <<blk_free, blks, got>> /\ pc' = [pc EXCEPT ![t] = "free"]
        /\ ret' = [ret EXCEPT ![t] = "idle"] /\ (null_blks' = 0 => null_blks = 0)
    BY <1>1, <1>9 DEF HeaderFails
  <2>2. NotTwice' /\ (null_blks' = 0 => \A k \in Blks : Somewhere(k)')
    BY <1>2, <2>1 DEF NotTwice, Somewhere
  <2>3. Empty'
    BY <1>1, <1>2, <1>4, <2>1 DEF Empty
  <2> QED
    BY <2>2, <2>3 DEF BlocksInv
<1> QED
  BY <1>5, <1>6, <1>7, <1>8, <1>9 DEF BlockStep

LEMMA BlocksInit == Init => BlocksInv
BY DEF Init, BlocksInv, NotTwice, Somewhere, Empty

(* Only a packet in a thread's hand is given blocks or freed.              *)
LEMMA BlocksNext ==
  ASSUME HoldsInv, PlacesInv, BlocksInv, [Next]_vars
  PROVE  BlocksInv'
<1> USE DEF Goto, Along, Hold, packets, calls
<1>1. /\ DOMAIN pc = Threads /\ DOMAIN ret = Threads /\ buf \in [Threads -> Bufs \cup {None}]
      /\ forgotten \in [Reasons -> SUBSET Bufs]
  BY DEF HoldsInv, Typed
<1>2. CASE UNCHANGED vars
  BY <1>2, ThreadNames, BlocksAside DEF vars, threads, BlocksInv, Empty
<1>3. ASSUME NEW t \in Threads, Step(t) PROVE BlocksInv'
  <2>1. CASE TakeStep(t)
    <3>1. PICK b \in pkt_free : pkt_free' = pkt_free \ {b} /\ buf' = [buf EXCEPT ![t] = b]
      BY <2>1 DEF TakeStep, get_pktbuffer
    <3>2. blks[b] = {}
      BY <3>1 DEF BlocksInv, Empty
    <3>3. /\ UNCHANGED <<blk_free, null_blks, blks, got, forgotten>>
          /\ \A s \in Threads \ {t} : UNCHANGED <<pc[s], ret[s]>>
      BY <1>1, <2>1 DEF TakeStep, CallAlloc
    <3> QED
      BY <1>1, <3>1, <3>2, <3>3, BlocksAside
  <2>2. CASE FreeBuffer(t)
    <3>1. /\ UNCHANGED <<blk_free, null_blks, blks, got, forgotten>> /\ blks[buf[t]] = {}
          /\ pkt_free' = pkt_free \cup {buf[t]} /\ buf' = [buf EXCEPT ![t] = None]
          /\ pc' = [pc EXCEPT ![t] = ret[t]] /\ ret' = [ret EXCEPT ![t] = "idle"]
      BY <2>2 DEF FreeBuffer
    <3>2. NotTwice' /\ (null_blks' = 0 => \A k \in Blks : Somewhere(k)')
      BY <3>1 DEF BlocksInv, NotTwice, Somewhere
    <3>3. Empty'
      BY <1>1, <3>1 DEF BlocksInv, Empty
    <3> QED
      BY <3>2, <3>3 DEF BlocksInv
  <2>3. CASE ForgetStep(t)
    <3>1. UNCHANGED <<pkt_free, blk_free, null_blks, blks, got>>
      BY <2>3 DEF ForgetStep
    <3>2. \A s \in Threads \ {t} : ret'[s] = ret[s]
      BY <1>1, <2>3 DEF ForgetStep
    <3>3. /\ buf' = [buf EXCEPT ![t] = None] /\ pc'[t] \in {"idle", "make_request", "drain"}
          /\ \A s \in Threads \ {t} : pc'[s] = pc[s]
      BY <1>1, <2>3 DEF ForgetStep, Forget
    <3>4. \A b \in forgotten'["recv_alloc"] : b \in forgotten["recv_alloc"] \/ blks[b] = {}
      <4>1. CASE /\ t = "recv" /\ pc[t] = "roll_back" /\ ret[t] = "put_in" /\ Forget(t, "recv_alloc")
        BY <1>1, <4>1 DEF Forget, BlocksInv, Empty, Reasons
      <4>2. CASE \E reason \in Reasons \ {"recv_alloc"} : Forget(t, reason)
        BY <1>1, <4>2 DEF Forget, Reasons
      <4> QED
        BY <2>3, <4>1, <4>2 DEF ForgetStep
    <3>5. NotTwice' /\ (null_blks' = 0 => \A k \in Blks : Somewhere(k)')
      BY <3>1 DEF BlocksInv, NotTwice, Somewhere
    <3>6. Empty'
      BY <1>1, <3>1, <3>2, <3>3, <3>4 DEF BlocksInv, Empty
    <3> QED
      BY <3>5, <3>6 DEF BlocksInv
  <2>4. CASE PutIn(t) \/ PutOutStep(t) \/ GetOutStep(t) \/ GetInStep(t) \/ CountIn(t)
    <3>1. /\ UNCHANGED <<pkt_free, blk_free, null_blks, blks, got, ret, forgotten>>
          /\ pc'[t] \notin {"pop_blk", "roll_back"}
          /\ \A s \in Threads \ {t} : UNCHANGED <<pc[s], buf[s]>>
      BY <1>1, <2>4 DEF PutIn, PutOutStep, GetOutStep, GetInStep, CountIn
    <3> QED
      BY <3>1, BlocksAside
  <2>5. CASE MsgStep(t)
    <3>1. /\ UNCHANGED <<pkt_free, blk_free, null_blks, blks, got, ret, buf, forgotten>>
          /\ pc'[t] \notin {"pop_blk", "roll_back"} /\ \A s \in Threads \ {t} : pc'[s] = pc[s]
      BY <1>1, <2>5 DEF MsgStep, GetMsgBlock, MsgSend, TimerGetBlock, TimerPush, WorkerPop, WorkerRelease
    <3> QED
      BY <3>1, BlocksAside
  <2>6. CASE DropStep(t)
    <3>1. /\ UNCHANGED <<pkt_free, blk_free, null_blks, blks, got, buf, forgotten>>
          /\ pc'[t] = "free" /\ \A s \in Threads \ {t} : UNCHANGED <<pc[s], ret[s]>>
      BY <1>1, <2>6 DEF DropStep, Drop
    <3> QED
      BY <3>1, BlocksAside
  <2>7. CASE MoveStep(t)
    <3>1. /\ UNCHANGED <<pkt_free, blk_free, null_blks, blks, got, buf, forgotten>>
          /\ \A s \in Threads \ {t} : UNCHANGED <<pc[s], ret[s]>>
      BY <1>1, <2>7 DEF MoveStep, CallAlloc
    <3>2. pc'[t] \in {"pop_blk", "roll_back"} /\ ret'[t] = "put_in"
            => pc[t] = "pop_blk" /\ ret[t] = "put_in"
      BY <1>1, <2>7 DEF MoveStep, CallAlloc
    <3>3. pc'[t] \in {"pop_blk", "roll_back"} /\ ret'[t] = "put_in" => blks[buf'[t]] = {}
      BY <3>1, <3>2 DEF BlocksInv, Empty
    <3> QED
      BY <3>1, <3>3, BlocksAside
  <2>8. CASE PopNull(t)
    <3>1. /\ UNCHANGED <<pkt_free, blk_free, null_blks, blks, got, forgotten>>
          /\ \A s \in Threads : pc'[s] = "crashed"
      BY <2>8 DEF PopNull
    <3>2. NotTwice' /\ (null_blks' = 0 => \A k \in Blks : Somewhere(k)') /\ Empty'
      BY <3>1 DEF BlocksInv, NotTwice, Somewhere, Empty
    <3> QED
      BY <3>2 DEF BlocksInv
  <2> QED
    BY <1>3, <2>1, <2>2, <2>3, <2>4, <2>5, <2>6, <2>7, <2>8, BlocksMove DEF Step, PacketStep, OwnStep
<1> QED
  BY <1>2, <1>3, StepKinds

LEMMA BlocksCounted == HoldsInv /\ BlocksInv => BlocksConserved
<1> SUFFICES ASSUME HoldsInv, BlocksInv, NEW k \in Blks
             PROVE  BlockPlaces(k) <= 1 /\ (null_blks = 0 => BlockPlaces(k) = 1)
  BY DEF BlocksConserved, BlocksInv, Empty
<1> DEFINE T == {t \in Threads : k \in got[t]}
           B == {b \in Bufs : k \in blks[b]}
<1>1. (\A t, s \in T : t = s) /\ (\A b, c \in B : b = c)
  BY DEF BlocksInv, NotTwice
<1>2. /\ k \in blk_free => T = {} /\ B = {}
      /\ T # {} => B = {}
      /\ null_blks = 0 => k \in blk_free \/ T # {} \/ B # {}
  BY DEF BlocksInv, NotTwice, Somewhere
<1>3. BlockPlaces(k) = (IF k \in blk_free THEN 1 ELSE 0) + Cardinality(T) + Cardinality(B)
  BY DEF BlockPlaces
<1> HIDE DEF T, B
<1>4. /\ Cardinality(T) = IF T = {} THEN 0 ELSE 1
      /\ Cardinality(B) = IF B = {} THEN 0 ELSE 1
  BY <1>1, CountOne
<1> QED
  BY <1>2, <1>3, <1>4

(* Whatever allocations, roll-backs and frees mix block by block, no data  *)
(* block is in two hands, and none is lost until alloc_header has put a    *)
(* null pointer into the pool.                                             *)
THEOREM NoBlockLost == Spec => []BlocksConserved
<1>1. HoldsInv /\ PlacesInv /\ BlocksInv /\ [Next]_vars => (HoldsInv /\ PlacesInv /\ BlocksInv)'
  BY HoldsNext, PlacesNext, BlocksNext
<1> QED
  BY <1>1, HoldsInit, PlacesInit, BlocksInit, BlocksCounted, PTL DEF Spec

(* Every variable of the stack keeps its type.                             *)
THEOREM Types == Spec => []TypeOK
<1>1. HoldsInv => TypeOK
  BY DEF HoldsInv, Typed, TypeOK
<1> QED
  BY <1>1, HoldsAlways, PTL
==============================================================================
