----------------------------- MODULE NetIF_proof -----------------------------
(***************************************************************************)
(* Proofs about NetIF, for every number of interfaces and packets and      *)
(* every size of the queues: first how netif_open starts threads, then the *)
(* list of interfaces and the default interface.                           *)
(***************************************************************************)
EXTENDS NetIF, DataLemmas, TLAPS

Kinds == {"send", "recv"}
Starts == {"start_send", "wait_send", "start_recv", "wait_recv"}

Typed ==
  /\ made \in 0 .. MaxOpens
  /\ m_type \in [Ifs -> {"NONE", "LOOP", "ETHER"}]
  /\ m_state \in [Ifs -> {"none", "OPENED", "ACTIVE", "CLOSED"}]
  /\ m_ops_data \in [Ifs -> {"null", "data", "pcap"}]
  /\ netif \in 0 .. made
  /\ run \in [Threads -> {"none", "created", "begin", "loop", "send", "put"}]
  /\ pcap \in [Threads -> {"null", "data", "pcap"}]
  /\ m_semaphore \in [Threads -> Nat]

(* What netif_open has done at each place it can be.                       *)
OpenedSoFar ==
  /\ at = "open" => /\ netif # 0 /\ m_type[netif] = "NONE" /\ m_state[netif] = "OPENED"
                    /\ \A kind \in Kinds : run[<<netif, kind>>] = "none"
  /\ at \in Starts => /\ netif # 0 /\ m_type[netif] = "ETHER" /\ m_state[netif] = "OPENED"
                      /\ m_ops_data[netif] = "pcap"
  /\ at = "start_send" => run[<<netif, "send">>] = "none"
  /\ at \in {"start_send", "wait_send", "start_recv"} => run[<<netif, "recv">>] = "none"
  /\ at \in {"start_recv", "wait_recv"} => run[<<netif, "send">>] \in {"begin", "loop"}
  /\ at \in {"set_active", "push_back"} => netif # 0
  /\ at = "idle" <=> netif = 0

(* Interfaces that are not made are as the program starts.                 *)
NotMade ==
  \A n \in Ifs : n > made => /\ m_type[n] = "NONE" /\ m_state[n] # "ACTIVE"
                             /\ \A kind \in Kinds : run[<<n, kind>>] = "none"

(* A thread exists only once the handle is stored, for which nothing else  *)
(* is stored later; it notifies its semaphore before it begins.            *)
ThreadsOK ==
  /\ \A t \in Threads : run[t] \in {"created", "begin"} => t[1] \in Ifs
  /\ \A n \in Ifs, kind \in Kinds :
       /\ run[<<n, kind>>] # "none" => m_ops_data[n] = "pcap" /\ m_type[n] = "ETHER"
       /\ run[<<n, kind>>] = "loop" => pcap[<<n, kind>>] = "pcap"
       /\ m_semaphore[<<n, kind>>] > 0 => run[<<n, kind>>] \in {"begin", "loop"}

(* Both threads of an Ethernet interface run once netif_open has waited    *)
(* for them.                                                               *)
Started ==
  \A n \in Ifs, kind \in Kinds :
    m_type[n] = "ETHER" /\ ~ (at \in Starts /\ n = netif) => run[<<n, kind>>] \in {"begin", "loop"}

StartInv == Typed /\ OpenedSoFar /\ NotMade /\ ThreadsOK /\ Started
------------------------------------------------------------------------------
(* Every interface has its own threads, and its own application.           *)
LEMMA OwnThreads ==
  /\ \A n \in Ifs, kind \in Kinds : <<n, kind>> \in Threads
  /\ \A n \in Ifs : App(n) \in Threads /\ \A k \in Ifs, kind \in Kinds : <<k, kind>> # App(n)
BY DEF Own, Threads, App, Kinds

LEMMA StartInit == Init => StartInv
<1> SUFFICES ASSUME Init PROVE StartInv
  OBVIOUS
<1>1. \A n \in Ifs, kind \in Kinds : run[<<n, kind>>] = "none" /\ m_semaphore[<<n, kind>>] = 0
  BY OwnThreads DEF Init, Kinds
<1>2. Typed
  BY NetIFAssumption DEF Init, Typed
<1>3. OpenedSoFar /\ NotMade /\ Started
  BY <1>1 DEF Init, OpenedSoFar, NotMade, Started, Starts
<1>4. ThreadsOK
  BY <1>1 DEF Init, ThreadsOK
<1> QED
  BY <1>2, <1>3, <1>4 DEF StartInv

(* The steps that leave alone what StartInv is about.                      *)
Aside == UNCHANGED <<ifs, at, netif, thread>>

LEMMA StartAside == StartInv /\ Aside => StartInv'
BY DEF Aside, StartInv, Typed, OpenedSoFar, NotMade, ThreadsOK, Started, ifs, thread

ClearPlaces == {"clear_in", "clear_out", "pop_in", "pop_out", "free_in", "free_out",
                "free_in_again", "free_out_again"}

(* The steps inside set_deactive that only move on.                        *)
LEMMA StartClearing == StartInv /\ Clearing => StartInv'
<1> SUFFICES ASSUME StartInv, Clearing PROVE StartInv'
  OBVIOUS
<1>1. CASE UNCHANGED <<ifs, at, netif, thread>>
  BY <1>1, StartAside DEF Aside
<1>2. CASE /\ UNCHANGED <<ifs, netif, thread>>
           /\ at \in ClearPlaces /\ at' \in ClearPlaces \cup {"deactive"}
  BY <1>2 DEF ClearPlaces, StartInv, Typed, OpenedSoFar, NotMade, ThreadsOK, Started, ifs, thread, Starts
<1> QED
  BY <1>1, <1>2
  DEF ClearPlaces, Clearing, ClearTest, ClearPop, ClearPopFails, ClearFree, ClearFreeAgain, Undefined,
      Goto, ctl, ifs, thread

LEMMA NetifMade == Typed => /\ netif # 0 => netif \in Ifs /\ netif <= made
                            /\ \A n \in Ifs : n \in Nat \ {0}
BY NetIFAssumption DEF Typed, Ifs

(* netif_open.                                                             *)
LEMMA StartCreate == \A name : StartInv /\ Create(name) => StartInv'
BY NetIFAssumption
DEF Create, Goto, StartInv, Typed, OpenedSoFar, NotMade, ThreadsOK, Started, thread, Ifs, Starts

LEMMA StartOpen ==
  ASSUME StartInv, LoopOpen \/ EtherOpen
  PROVE  StartInv'
<1> USE NetifMade DEF LoopOpen, EtherOpen, Goto, thread, StartInv
<1>1. Typed'
  BY DEF Typed
<1>2. OpenedSoFar'
  BY DEF Typed, OpenedSoFar, Starts, Kinds
<1>3. NotMade'
  BY DEF Typed, NotMade
<1>4. ThreadsOK'
  BY DEF Typed, OpenedSoFar, ThreadsOK
<1>5. Started'
  BY DEF Typed, OpenedSoFar, Started, Starts
<1> QED
  BY <1>1, <1>2, <1>3, <1>4, <1>5

LEMMA StartStartThread ==
  ASSUME StartInv, NEW kind \in Kinds, NEW from, NEW to,
         \/ kind = "send" /\ from = "start_send" /\ to = "wait_send"
         \/ kind = "recv" /\ from = "start_recv" /\ to = "wait_recv",
         StartThread(kind, from, to)
  PROVE  StartInv'
<1>1. /\ netif \in Ifs
      /\ run' \in [Threads -> {"none", "created", "begin", "loop", "send", "put"}]
      /\ \A n \in Ifs, k \in Kinds :
           run'[<<n, k>>] = IF n = netif /\ k = kind THEN "created" ELSE run[<<n, k>>]
      /\ \A t \in Threads : run'[t] = run[t] \/ t[1] \in Ifs
  BY OwnThreads, NetifMade DEF StartThread, Goto, StartInv, Typed, OpenedSoFar, Starts
<1> USE <1>1, NetifMade DEF StartThread, Goto, ifs, StartInv
<1>2. Typed'
  BY DEF Typed
<1>3. OpenedSoFar'
  BY DEF Typed, OpenedSoFar, Starts, Kinds
<1>4. NotMade'
  BY DEF Typed, NotMade, OpenedSoFar, Starts
<1>5. ThreadsOK'
  BY DEF Typed, OpenedSoFar, ThreadsOK, Starts
<1>6. Started'
  BY DEF Typed, OpenedSoFar, Started, Starts
<1> QED
  BY <1>2, <1>3, <1>4, <1>5, <1>6

LEMMA StartThreadStarted ==
  ASSUME StartInv, NEW kind \in Kinds, NEW from, NEW to,
         \/ kind = "send" /\ from = "wait_send" /\ to = "start_recv"
         \/ kind = "recv" /\ from = "wait_recv" /\ to = "set_active",
         ThreadStarted(kind, from, to)
  PROVE  StartInv'
<1>1. /\ netif \in Ifs /\ run[<<netif, kind>>] \in {"begin", "loop"}
      /\ m_semaphore' \in [Threads -> Nat]
      /\ \A n \in Ifs, k \in Kinds : m_semaphore'[<<n, k>>] <= m_semaphore[<<n, k>>]
  BY OwnThreads, NetifMade DEF ThreadStarted, wait, Goto, StartInv, Typed, OpenedSoFar, ThreadsOK, Starts
<1> USE <1>1, NetifMade, OwnThreads DEF ThreadStarted, Goto, ifs, StartInv
<1>2. Typed'
  BY DEF Typed
<1>3. OpenedSoFar'
  BY DEF Typed, OpenedSoFar, Starts, Kinds
<1>4. NotMade'
  BY DEF Typed, NotMade, OpenedSoFar, Starts
<1>5. ThreadsOK'
  BY DEF Typed, OpenedSoFar, ThreadsOK, Starts, Kinds
<1>6. Started'
  BY DEF Typed, OpenedSoFar, Started, Starts, Kinds
<1> QED
  BY <1>2, <1>3, <1>4, <1>5, <1>6

LEMMA StartOpened ==
  ASSUME StartInv, OpenActivate \/ Opened
  PROVE  StartInv'
<1> USE NetifMade DEF OpenActivate, Opened, Activate, Goto, ifs, thread, StartInv
<1>1. Typed'
  BY DEF Typed
<1>2. OpenedSoFar'
  BY DEF Typed, OpenedSoFar, Starts, Kinds
<1>3. NotMade'
  BY DEF Typed, NotMade
<1>4. ThreadsOK'
  BY DEF Typed, OpenedSoFar, ThreadsOK
<1>5. Started'
  BY DEF Typed, OpenedSoFar, Started, Starts
<1> QED
  BY <1>1, <1>2, <1>3, <1>4, <1>5

(* The threads' first steps.                                               *)
LEMMA StartRun ==
  ASSUME StartInv, NEW t \in Threads, Run(t)
  PROVE  StartInv'
<1>1. /\ m_semaphore' \in [Threads -> Nat]
      /\ run' \in [Threads -> {"none", "created", "begin", "loop", "send", "put"}]
      /\ \A x \in Threads : \/ run'[x] = run[x] /\ m_semaphore'[x] = m_semaphore[x]
                            \/ run[x] = "created" /\ run'[x] = "begin"
  BY DEF Run, notify, StartInv, Typed
<1> USE <1>1, NetifMade, OwnThreads DEF Run, ifs, ctl, StartInv
<1>2. Typed'
  BY DEF Typed
<1>3. OpenedSoFar'
  BY DEF Typed, OpenedSoFar, Starts, Kinds
<1>4. NotMade'
  BY DEF Typed, NotMade, OpenedSoFar, Starts
<1>5. ThreadsOK'
  BY DEF Typed, OpenedSoFar, ThreadsOK, Starts
<1>6. Started'
  BY DEF Typed, OpenedSoFar, Started, Starts
<1> QED
  BY <1>2, <1>3, <1>4, <1>5, <1>6

LEMMA StartBegin ==
  ASSUME StartInv, NEW t \in Threads, Begin(t)
  PROVE  StartInv'
<1>1. /\ pcap' \in [Threads -> {"null", "data", "pcap"}]
      /\ run' \in [Threads -> {"none", "created", "begin", "loop", "send", "put"}]
      /\ \A x \in Threads : \/ run'[x] = run[x] /\ pcap'[x] = pcap[x]
                            \/ run[x] = "begin" /\ run'[x] = "loop" /\ pcap'[x] = m_ops_data[x[1]]
  BY DEF Begin, StartInv, Typed, ThreadsOK
<1> USE <1>1, NetifMade, OwnThreads DEF Begin, ifs, ctl, StartInv
<1>2. Typed'
  BY DEF Typed
<1>3. OpenedSoFar'
  BY DEF Typed, OpenedSoFar, Starts, Kinds
<1>4. NotMade'
  BY DEF Typed, NotMade, OpenedSoFar, Starts
<1>5. ThreadsOK'
  BY DEF Typed, OpenedSoFar, ThreadsOK, Starts
<1>6. Started'
  BY DEF Typed, OpenedSoFar, Started, Starts
<1> QED
  BY <1>2, <1>3, <1>4, <1>5, <1>6

(* Activation, deactivation and closing.                                   *)
LEMMA StartSetActive ==
  ASSUME StartInv, NEW n \in Ifs, set_active(n)
  PROVE  StartInv'
<1> USE NetifMade DEF set_active, Activate, ctl, thread, StartInv
<1>1. Typed'
  BY DEF Typed
<1>2. OpenedSoFar'
  BY DEF Typed, OpenedSoFar, Starts, Kinds
<1>3. NotMade'
  BY DEF Typed, NotMade
<1>4. ThreadsOK'
  BY DEF Typed, OpenedSoFar, ThreadsOK
<1>5. Started'
  BY DEF Typed, OpenedSoFar, Started, Starts
<1> QED
  BY <1>1, <1>2, <1>3, <1>4, <1>5

LEMMA StartSetDeactive ==
  ASSUME StartInv, NEW n \in Ifs, set_deactive(n)
  PROVE  StartInv'
<1> USE NetifMade DEF set_deactive, Goto, ifs, thread, StartInv
<1>1. Typed'
  BY NetIFAssumption DEF Typed, NotMade
<1>2. OpenedSoFar'
  BY DEF Typed, OpenedSoFar, Starts, Kinds
<1>3. NotMade'
  BY DEF Typed, NotMade
<1>4. ThreadsOK'
  BY DEF Typed, OpenedSoFar, ThreadsOK
<1>5. Started'
  BY DEF Typed, OpenedSoFar, Started, Starts
<1> QED
  BY <1>1, <1>2, <1>3, <1>4, <1>5

LEMMA StartDeactivated ==
  ASSUME StartInv, Deactivated
  PROVE  StartInv'
<1> USE NetifMade DEF Deactivated, Goto, thread, StartInv
<1>1. Typed'
  <2>1. 0 \in 0 .. made
    BY NetIFAssumption DEF Typed
  <2>2. m_state' \in [Ifs -> {"none", "OPENED", "ACTIVE", "CLOSED"}]
    BY DEF Typed
  <2> QED
    BY <2>1, <2>2 DEF Typed
<1>2. OpenedSoFar'
  BY DEF Typed, OpenedSoFar, Starts, Kinds
<1>3. NotMade'
  BY DEF Typed, NotMade
<1>4. ThreadsOK'
  BY DEF Typed, OpenedSoFar, ThreadsOK
<1>5. Started'
  BY DEF Typed, OpenedSoFar, Started, Starts
<1> QED
  BY <1>1, <1>2, <1>3, <1>4, <1>5

LEMMA StartClose ==
  ASSUME StartInv, NEW name, netif_close(name)
  PROVE  StartInv'
<1> USE NetifMade DEF netif_close, ctl, thread, StartInv
<1>1. Typed'
  BY DEF Typed
<1>2. OpenedSoFar'
  BY DEF Typed, OpenedSoFar, Starts, Kinds
<1>3. NotMade'
  BY DEF Typed, NotMade
<1>4. ThreadsOK'
  BY DEF Typed, OpenedSoFar, ThreadsOK
<1>5. Started'
  BY DEF Typed, OpenedSoFar, Started, Starts
<1> QED
  BY <1>1, <1>2, <1>3, <1>4, <1>5

(* Packets on their way.                                                   *)
LEMMA StartApp ==
  ASSUME StartInv, NEW n \in Ifs, NEW from, NEW to \in {"loop", "send", "put"},
         AppGoto(n, from, to), UNCHANGED AppOthers
  PROVE  StartInv'
<1>1. /\ run' \in [Threads -> {"none", "created", "begin", "loop", "send", "put"}]
      /\ \A t \in Threads : run'[t] = run[t] \/ run'[t] = to
      /\ \A k \in Ifs, kind \in Kinds : run'[<<k, kind>>] = run[<<k, kind>>]
  BY OwnThreads DEF AppGoto, StartInv, Typed
<1> USE DEF AppOthers, ifs, ctl, StartInv
<1>2. Typed' /\ OpenedSoFar'
  BY <1>1, NetifMade DEF Typed, OpenedSoFar, Kinds, Starts
<1>3. NotMade' /\ Started'
  BY <1>1 DEF NotMade, Started
<1>4. ThreadsOK'
  BY <1>1 DEF ThreadsOK
<1> QED
  BY <1>2, <1>3, <1>4

LEMMA StartTraffic == StartInv /\ Traffic => StartInv'
<1> SUFFICES ASSUME StartInv, Traffic PROVE StartInv'
  OBVIOUS
<1>1. CASE Aside
  BY <1>1, StartAside
<1>2. ASSUME NEW n \in Ifs, AppPut(n) \/ LoopSend(n) \/ LoopPut(n)
      PROVE  StartInv'
  BY <1>2, StartApp DEF AppPut, LoopSend, LoopPut
<1> QED
  BY <1>1, <1>2
  DEF Traffic, RecvCapture, RecvPut, SendGet, SendInject, UsesClosedHandle, WorkerGet,
      WorkerDone, AppTake, AppPutFails, Undefined, Others, Aside, ctl
------------------------------------------------------------------------------
LEMMA StartNext == StartInv /\ [Next]_vars => StartInv'
<1> SUFFICES ASSUME StartInv, [Next]_vars PROVE StartInv'
  OBVIOUS
<1>1. CASE UNCHANGED vars \/ EtherOpenFails \/ \E name : CloseNotFound(name)
  BY <1>1, StartAside DEF vars, EtherOpenFails, CloseNotFound, Undefined, Aside, ctl
<1>2. CASE Opening /\ ~ EtherOpenFails
  BY <1>2, StartOpen, StartStartThread, StartThreadStarted, StartOpened DEF Opening, Kinds
<1>3. CASE Clearing
  BY <1>3, StartClearing
<1>4. CASE Starting
  BY <1>4, StartRun, StartBegin DEF Starting
<1>5. CASE Traffic
  BY <1>5, StartTraffic
<1>6. CASE Control
  BY <1>1, <1>2, <1>3, <1>6, StartCreate, StartSetActive, StartSetDeactive,
     StartDeactivated, StartClose
  DEF Control, OpenUnknown
<1> QED
  BY <1>1, <1>4, <1>5, <1>6 DEF Next

(* A thread in its loop works on its interface's pcap handle, and both     *)
(* threads of an active Ethernet interface have got to their function.     *)
THEOREM ThreadsHaveTheirHandle == Spec => []ThreadsHaveHandle
<1>1. StartInv => ThreadsHaveHandle
  <2> SUFFICES ASSUME StartInv PROVE ThreadsHaveHandle
    OBVIOUS
  <2>1. \A n \in 1 .. made : n \in Ifs /\ Own(n) = {<<n, kind>> : kind \in Kinds}
    BY NetIFAssumption DEF StartInv, Typed, Ifs, Own, Kinds
  <2>2. \A n \in Ifs, kind \in Kinds :
          /\ run[<<n, kind>>] = "loop" => pcap[<<n, kind>>] = "pcap"
          /\ m_type[n] = "ETHER" /\ m_state[n] = "ACTIVE" => run[<<n, kind>>] \in {"begin", "loop"}
    BY ZenonT(30) DEF StartInv, OpenedSoFar, ThreadsOK, Started
  <2> QED
    BY <2>1, <2>2 DEF ThreadsHaveHandle
<1> QED
  BY <1>1, StartInit, StartNext, PTL DEF Spec
------------------------------------------------------------------------------
(***************************************************************************)
(* The list of interfaces and the default interface.                       *)
(***************************************************************************)
Opens  == Starts \cup {"open", "set_active", "push_back"}
Clears == {"clear_in", "pop_in", "free_in", "clear_out", "pop_out", "free_out", "deactive",
           "free_in_again", "free_out_again"}

(* Which states the interface in hand can have at each place.              *)
InHand ==
  /\ at \in {"idle"} \cup Opens \cup Clears
  /\ at = "set_active" => m_state[netif] = "OPENED"
  /\ at \in {"push_back"} \cup Clears => netif # 0 /\ m_state[netif] = "ACTIVE"
  /\ \A n \in Ifs : n <= made => m_state[n] # "none"
  /\ \A n \in Ifs : n <= made /\ m_type[n] = "NONE" => at = "open" /\ n = netif

(* Listed are the interfaces that are not closed and whose netif_open is   *)
(* over.                                                                   *)
Listed ==
  /\ m_netif_list \in Seq(Ifs) /\ IsInjective(m_netif_list)
  /\ \A n \in Ifs :
       n \in ToSet(m_netif_list) <=>
         n <= made /\ m_state[n] # "CLOSED" /\ ~ (at \in Opens /\ n = netif)

DefaultOK ==
  m_default_netif # 0 =>
    /\ m_default_netif \in Ifs /\ m_default_netif <= made
    /\ m_state[m_default_netif] = "ACTIVE" /\ m_type[m_default_netif] = "ETHER"

NetInv == InHand /\ Listed /\ DefaultOK

(* Lists without duplicates.                                               *)
LEMMA AppendToList ==
  ASSUME NEW S, NEW s \in Seq(S), IsInjective(s), NEW x \in S, x \notin ToSet(s)
  PROVE  /\ Append(s, x) \in Seq(S) /\ IsInjective(Append(s, x))
         /\ ToSet(Append(s, x)) = ToSet(s) \cup {x}
<1>1. /\ Append(s, x) \in Seq(S) /\ DOMAIN Append(s, x) = 1 .. Len(s) + 1
      /\ DOMAIN s = 1 .. Len(s) /\ Len(s) \in Nat
      /\ \A i \in 1 .. Len(s) : Append(s, x)[i] = s[i]
      /\ Append(s, x)[Len(s) + 1] = x
  OBVIOUS
<1>2. \A i \in 1 .. Len(s) + 1 : i \in 1 .. Len(s) \/ i = Len(s) + 1
  BY <1>1
<1>3. Len(s) + 1 \in 1 .. Len(s) + 1 /\ 1 .. Len(s) \subseteq 1 .. Len(s) + 1
  BY <1>1
<1>4. ToSet(Append(s, x)) = ToSet(s) \cup {x}
  BY <1>1, <1>2, <1>3 DEF ToSet
<1>5. IsInjective(Append(s, x))
  BY <1>1, <1>2 DEF ToSet, IsInjective
<1> QED
  BY <1>1, <1>4, <1>5

LEMMA RemoveFromList ==
  ASSUME NEW S, NEW s \in Seq(S), IsInjective(s), NEW k \in 1 .. Len(s)
  PROVE  /\ RemoveAt(s, k) \in Seq(S) /\ IsInjective(RemoveAt(s, k))
         /\ ToSet(RemoveAt(s, k)) = ToSet(s) \ {s[k]}
<1> DEFINE a == SubSeq(s, 1, k - 1)
           b == SubSeq(s, k + 1, Len(s))
           r == RemoveAt(s, k)
           from(i) == IF i < k THEN i ELSE i + 1
<1>1. /\ Len(s) \in Nat /\ DOMAIN s = 1 .. Len(s)
      /\ \A i \in 1 .. Len(s) : s[i] \in S
  OBVIOUS
<1>2. a \in Seq(S) /\ Len(a) = k - 1 /\ \A i \in 1 .. k - 1 : a[i] = s[i]
  <2>1. \A i \in 1 .. k - 1 : s[i] \in S
    BY <1>1
  <2>2. /\ SubSeq(s, 1, k - 1) \in Seq(S)
        /\ Len(SubSeq(s, 1, k - 1)) = IF 1 <= k - 1 THEN k - 1 - 1 + 1 ELSE 0
        /\ \A i \in 1 .. k - 1 - 1 + 1 : SubSeq(s, 1, k - 1)[i] = s[1 + i - 1]
    BY <1>1, <2>1, SubSeqProperties
  <2> QED
    BY <2>2, <1>1
<1> HIDE DEF a, b
<1>3. b \in Seq(S) /\ Len(b) = Len(s) - k /\ \A i \in 1 .. Len(s) - k : b[i] = s[i + k]
  <2>1. \A i \in k + 1 .. Len(s) : s[i] \in S
    BY <1>1
  <2>2. /\ b \in Seq(S)
        /\ Len(b) = IF k + 1 <= Len(s) THEN Len(s) - (k + 1) + 1 ELSE 0
        /\ \A i \in 1 .. Len(s) - (k + 1) + 1 : b[i] = s[(k + 1) + i - 1]
    BY <1>1, <2>1, SubSeqProperties DEF b
  <2>3. Len(b) = Len(s) - k
    <3>1. CASE k + 1 <= Len(s)
      BY <3>1, <1>1, <2>2
    <3>2. CASE k = Len(s)
      <4>1. ~ (k + 1 <= Len(s)) /\ Len(s) - k = 0
        BY <3>2, <1>1
      <4> QED
        BY <4>1, <2>2
    <3>3. k \in Int /\ k <= Len(s) /\ Len(s) \in Int
      BY <1>1
    <3>4. k + 1 <= Len(s) \/ k = Len(s)
      BY <3>3
    <3> QED
      BY <3>1, <3>2, <3>4
  <2>4. ASSUME NEW i \in 1 .. Len(s) - k PROVE b[i] = s[i + k]
    <3>1. i \in 1 .. Len(s) - (k + 1) + 1 /\ (k + 1) + i - 1 = i + k
      BY <1>1
    <3> QED
      BY <3>1, <2>2
  <2> QED
    BY <2>2, <2>3, <2>4
<1>4. r = a \o b
  BY DEF RemoveAt, a, b
<1>5. /\ r \in Seq(S) /\ Len(r) = Len(s) - 1
      /\ \A i \in 1 .. Len(s) - 1 : r[i] = IF i <= Len(a) THEN a[i] ELSE b[i - Len(a)]
  <2>1. Len(a) + Len(b) = Len(s) - 1
    BY <1>1, <1>2, <1>3
  <2>2. /\ a \o b \in Seq(S) /\ Len(a \o b) = Len(a) + Len(b)
        /\ \A i \in 1 .. Len(a) + Len(b) :
             (a \o b)[i] = IF i <= Len(a) THEN a[i] ELSE b[i - Len(a)]
    BY <1>2, <1>3, ConcatProperties
  <2> QED
    BY <2>1, <2>2, <1>4
<1> HIDE DEF r
<1>6. /\ DOMAIN r = 1 .. Len(s) - 1
      /\ \A i \in 1 .. Len(s) - 1 : r[i] = s[from(i)]
  BY <1>1, <1>2, <1>3, <1>5
<1>7. /\ \A i \in 1 .. Len(s) - 1 : from(i) \in 1 .. Len(s) /\ from(i) # k
      /\ \A i, j \in 1 .. Len(s) - 1 : from(i) = from(j) => i = j
      /\ \A j \in 1 .. Len(s) : j # k => \E i \in 1 .. Len(s) - 1 : from(i) = j
  <2>1. ASSUME NEW j \in 1 .. Len(s), j # k
        PROVE  \E i \in 1 .. Len(s) - 1 : from(i) = j
    <3>1. CASE j < k
      BY <3>1, <1>1
    <3>2. CASE j > k
      <4>1. j - 1 \in 1 .. Len(s) - 1 /\ from(j - 1) = j
        BY <3>2, <1>1
      <4> QED
        BY <4>1
    <3> QED
      BY <3>1, <3>2, <2>1, <1>1
  <2> QED
    BY <2>1, <1>1
<1> HIDE DEF from
<1>8. IsInjective(r)
  BY <1>1, <1>6, <1>7 DEF IsInjective
<1>9. ToSet(r) = ToSet(s) \ {s[k]}
  <2>1. ASSUME NEW x \in ToSet(r) PROVE x \in ToSet(s) /\ x # s[k]
    <3>1. PICK i \in 1 .. Len(s) - 1 : x = s[from(i)]
      BY <1>6 DEF ToSet
    <3>2. from(i) \in DOMAIN s /\ k \in DOMAIN s /\ from(i) # k
      BY <1>1, <1>7
    <3> QED
      BY <3>1, <3>2 DEF IsInjective, ToSet
  <2>2. ASSUME NEW x \in ToSet(s), x # s[k] PROVE x \in ToSet(r)
    <3>1. PICK j \in 1 .. Len(s) : x = s[j] /\ j # k
      BY <2>2, <1>1 DEF ToSet
    <3>2. PICK i \in 1 .. Len(s) - 1 : from(i) = j
      BY <3>1, <1>7
    <3> QED
      BY <3>1, <3>2, <1>6 DEF ToSet
  <2> QED
    BY <2>1, <2>2
<1> QED
  BY <1>5, <1>8, <1>9 DEF r

(* What find_netif_by_name returns is a place in the list.                 *)
LEMMA FoundIsListed ==
  ASSUME NEW S, m_netif_list \in Seq(S), NEW name, find_netif_by_name(name) # 0
  PROVE  find_netif_by_name(name) \in 1 .. Len(m_netif_list)
<1> DEFINE T == {i \in 1 .. Len(m_netif_list) : m_name[m_netif_list[i]] # name}
<1>1. find_netif_by_name(name) = IF T # {} THEN Min(T) ELSE 0
  BY DEF find_netif_by_name, SelectInSeq
<1>2. T \subseteq Nat /\ T # {}
  BY <1>1
<1>3. Min(T) \in T
  <2> HIDE DEF T
  <2> QED
    BY <1>2, LeastExists DEF Min
<1> QED
  BY <1>1, <1>2, <1>3
------------------------------------------------------------------------------
LEMMA NetInit == Init => NetInv
<1> SUFFICES ASSUME Init PROVE NetInv
  OBVIOUS
<1>1. InHand /\ DefaultOK
  BY DEF Init, InHand, DefaultOK, Opens, Starts, Clears, Ifs
<1>2. Listed
  <2>1. m_netif_list \in Seq(Ifs) /\ DOMAIN m_netif_list = {}
    BY DEF Init
  <2> QED
    BY <2>1 DEF Init, Listed, IsInjective, ToSet, Ifs
<1> QED
  BY <1>1, <1>2 DEF NetInv

(* The steps that leave alone what NetInv is about, and those that only    *)
(* move on in netif_open or set_deactive.                                  *)
NetAside == UNCHANGED <<made, m_type, m_state, at, netif, network>>

LEMMA NetAsideKeeps == NetInv /\ NetAside => NetInv'
BY DEF NetAside, NetInv, InHand, Listed, DefaultOK, network

LEMMA NetMoves ==
  ASSUME StartInv, NetInv, UNCHANGED <<made, m_type, m_state, netif, network>>,
         \/ at \in Starts /\ at' \in Starts \cup {"set_active"}
         \/ at \in Clears /\ at' \in Clears
  PROVE  NetInv'
<1> USE DEF network, StartInv, NetInv
<1>1. InHand'
  BY DEF OpenedSoFar, InHand, Opens, Starts, Clears
<1>2. Listed'
  BY DEF Listed, Opens, Starts, Clears
<1>3. DefaultOK'
  BY DEF DefaultOK
<1> QED
  BY <1>1, <1>2, <1>3

LEMMA NetCreate ==
  ASSUME StartInv, NetInv, NEW name, Create(name)
  PROVE  NetInv'
<1> USE NetifMade DEF Create, Goto, network, StartInv, NetInv
<1>0. made + 1 \in Ifs /\ made \in Nat
  BY NetIFAssumption DEF Typed
<1> USE <1>0
<1>1. InHand'
  BY DEF Typed, OpenedSoFar, NotMade, InHand, Opens, Starts, Clears
<1>2. Listed'
  BY DEF Typed, OpenedSoFar, NotMade, InHand, Listed, Opens, Starts, Clears
<1>3. DefaultOK'
  BY DEF Typed, OpenedSoFar, NotMade, InHand, DefaultOK, Opens, Starts, Clears
<1> QED
  BY <1>1, <1>2, <1>3

LEMMA NetOpen ==
  ASSUME StartInv, NetInv, LoopOpen \/ EtherOpen
  PROVE  NetInv'
<1> USE NetifMade DEF LoopOpen, EtherOpen, Goto, network, StartInv, NetInv
<1>1. InHand'
  BY DEF Typed, OpenedSoFar, NotMade, InHand, Opens, Starts, Clears
<1>2. Listed'
  BY DEF Typed, OpenedSoFar, NotMade, InHand, Listed, Opens, Starts, Clears
<1>3. DefaultOK'
  BY DEF Typed, OpenedSoFar, NotMade, InHand, DefaultOK, Opens, Starts, Clears
<1> QED
  BY <1>1, <1>2, <1>3

LEMMA NetActivate ==
  ASSUME StartInv, NetInv, OpenActivate
  PROVE  NetInv'
<1> USE NetifMade DEF OpenActivate, Activate, Goto, StartInv, NetInv
<1>1. InHand'
  BY DEF Typed, OpenedSoFar, NotMade, InHand, Opens, Starts, Clears
<1>2. Listed'
  BY DEF Typed, OpenedSoFar, NotMade, InHand, Listed, Opens, Starts, Clears
<1>3. DefaultOK'
  BY DEF Typed, OpenedSoFar, NotMade, InHand, DefaultOK, Opens, Starts, Clears
<1> QED
  BY <1>1, <1>2, <1>3

LEMMA NetSetActive ==
  ASSUME StartInv, NetInv, NEW n \in Ifs, set_active(n)
  PROVE  NetInv'
<1> USE NetifMade DEF set_active, Activate, ctl, StartInv, NetInv
<1>1. InHand'
  BY DEF Typed, OpenedSoFar, NotMade, InHand, Opens, Starts, Clears
<1>2. Listed'
  BY DEF Typed, OpenedSoFar, NotMade, InHand, Listed, Opens, Starts, Clears
<1>3. DefaultOK'
  BY DEF Typed, OpenedSoFar, NotMade, InHand, DefaultOK, Opens, Starts, Clears
<1> QED
  BY <1>1, <1>2, <1>3

LEMMA NetSetDeactive ==
  ASSUME StartInv, NetInv, NEW n \in Ifs, set_deactive(n)
  PROVE  NetInv'
<1> USE NetifMade DEF set_deactive, Goto, ifs, network, StartInv, NetInv
<1>1. InHand'
  BY DEF Typed, OpenedSoFar, NotMade, InHand, Opens, Starts, Clears
<1>2. Listed'
  BY DEF Typed, OpenedSoFar, NotMade, InHand, Listed, Opens, Starts, Clears
<1>3. DefaultOK'
  BY DEF Typed, OpenedSoFar, NotMade, InHand, DefaultOK, Opens, Starts, Clears
<1> QED
  BY <1>1, <1>2, <1>3

LEMMA NetDeactivated ==
  ASSUME StartInv, NetInv, Deactivated
  PROVE  NetInv'
<1> USE NetifMade DEF Deactivated, Goto, StartInv, NetInv
<1>1. InHand'
  BY DEF Typed, OpenedSoFar, NotMade, InHand, Opens, Starts, Clears
<1>2. Listed'
  BY DEF Typed, OpenedSoFar, NotMade, InHand, Listed, Opens, Starts, Clears
<1>3. DefaultOK'
  BY DEF Typed, OpenedSoFar, NotMade, InHand, DefaultOK, Opens, Starts, Clears
<1> QED
  BY <1>1, <1>2, <1>3

LEMMA NetOpened ==
  ASSUME StartInv, NetInv, Opened
  PROVE  NetInv'
<1> USE NetifMade DEF Opened, Goto, ifs, StartInv, NetInv
<1>1. InHand'
  BY DEF Typed, OpenedSoFar, NotMade, InHand, Opens, Starts, Clears
<1>2. Listed'
  <2>1. netif \in Ifs /\ netif \notin ToSet(m_netif_list)
    BY DEF InHand, Listed, Opens
  <2>2. /\ m_netif_list' \in Seq(Ifs) /\ IsInjective(m_netif_list')
        /\ ToSet(m_netif_list') = ToSet(m_netif_list) \cup {netif}
    BY <2>1, AppendToList DEF Listed
  <2> QED
    BY <2>1, <2>2 DEF Typed, InHand, Listed, Opens, Starts, Clears
<1>3. DefaultOK'
  BY DEF Typed, OpenedSoFar, NotMade, InHand, DefaultOK, Opens, Starts, Clears
<1> QED
  BY <1>1, <1>2, <1>3

LEMMA NetClose ==
  ASSUME StartInv, NetInv, NEW name, netif_close(name)
  PROVE  NetInv'
<1> USE NetifMade DEF netif_close, ctl, StartInv, NetInv
<1> DEFINE k == find_netif_by_name(name)
           n == m_netif_list[k]
<1>0. k \in 1 .. Len(m_netif_list) /\ n \in Ifs /\ n \in ToSet(m_netif_list)
  <2>1. k \in 1 .. Len(m_netif_list)
    BY FoundIsListed DEF Listed
  <2> QED
    BY <2>1 DEF Listed, ToSet
<1> USE <1>0
<1> HIDE DEF k
<1>1. InHand'
  BY DEF Typed, OpenedSoFar, NotMade, InHand, Opens, Starts, Clears
<1>2. Listed'
  <2>1. CASE m_state[n] = "ACTIVE"
    BY <2>1 DEF Listed, Opens, Starts, k
  <2>2. CASE m_state[n] # "ACTIVE"
    <3>1. m_netif_list' = RemoveAt(m_netif_list, k) /\ m_state' = [m_state EXCEPT ![n] = "CLOSED"]
      BY <2>2 DEF k
    <3>2. /\ m_netif_list' \in Seq(Ifs) /\ IsInjective(m_netif_list')
          /\ ToSet(m_netif_list') = ToSet(m_netif_list) \ {n}
      BY <3>1, RemoveFromList DEF Listed
    <3> QED
      BY <3>1, <3>2 DEF Typed, Listed, Opens, Starts
  <2> QED
    BY <2>1, <2>2
<1>3. DefaultOK'
  BY DEF Typed, OpenedSoFar, NotMade, InHand, DefaultOK, Opens, Starts, Clears
<1> QED
  BY <1>1, <1>2, <1>3

LEMMA NetNext == StartInv /\ NetInv /\ [Next]_vars => NetInv'
<1> SUFFICES ASSUME StartInv, NetInv, [Next]_vars PROVE NetInv'
  OBVIOUS
<1>1. CASE UNCHANGED vars \/ EtherOpenFails \/ \E name : CloseNotFound(name)
  BY <1>1, NetAsideKeeps
  DEF vars, EtherOpenFails, CloseNotFound, Undefined, NetAside, ifs, ctl
<1>2. CASE Opening /\ ~ EtherOpenFails
  BY <1>2, NetOpen, NetMoves, NetActivate, NetOpened
  DEF Opening, StartThread, ThreadStarted, Goto, ifs, Starts
<1>3. CASE Clearing
  BY <1>3, NetAsideKeeps, NetMoves
  DEF Clearing, ClearTest, ClearPop, ClearPopFails, ClearFree, ClearFreeAgain, Undefined, Goto, NetAside,
      ifs, ctl, Clears
<1>4. CASE Starting
  BY <1>4, NetAsideKeeps DEF Starting, Run, Begin, NetAside, ifs, ctl
<1>5. CASE Traffic
  BY <1>5, NetAsideKeeps
  DEF Traffic, RecvCapture, RecvPut, SendGet, SendInject, UsesClosedHandle, WorkerGet,
      WorkerDone, AppTake, Undefined, Others, NetAside, ifs, ctl, AppPut, AppPutFails, LoopSend, LoopPut, AppOthers
<1>6. CASE Control
  BY <1>1, <1>2, <1>3, <1>6, NetCreate, NetSetActive, NetSetDeactive, NetDeactivated, NetClose
  DEF Control, OpenUnknown
<1> QED
  BY <1>1, <1>4, <1>5, <1>6 DEF Next

(* The list holds the open interfaces, once each, and the default          *)
(* interface is an active Ethernet interface, listed once netif_open is    *)
(* over.                                                                   *)
THEOREM NetworkKnowsItsInterfaces == Spec => []NetworkKnowsInterfaces
<1>1. StartInv /\ NetInv => NetworkKnowsInterfaces
  <2> SUFFICES ASSUME StartInv, NetInv PROVE NetworkKnowsInterfaces
    OBVIOUS
  <2>1. made \in Nat /\ 1 .. made \subseteq Ifs /\ \A n \in Ifs : n <= made <=> n \in 1 .. made
    BY NetIFAssumption DEF StartInv, Typed, Ifs
  <2>2. m_netif_list \in Seq(Ifs)
    BY DEF NetInv, Listed
  <2>3. ListedWhileOpen
    <3> SUFFICES ASSUME at = "idle" PROVE ToSet(m_netif_list) = {n \in 1 .. made : m_state[n] # "CLOSED"}
      BY DEF ListedWhileOpen, NetInv, Listed
    <3>1. ToSet(m_netif_list) \subseteq Ifs
      BY <2>2 DEF ToSet
    <3> QED
      BY <2>1, <3>1 DEF NetInv, Listed, Opens, Starts
  <2>4. DefaultIsActive
    <3> SUFFICES ASSUME m_default_netif # 0
                 PROVE  \/ Contains(m_netif_list, m_default_netif)
                        \/ at = "push_back" /\ netif = m_default_netif
      BY DEF DefaultIsActive, NetInv, DefaultOK
    <3>1. m_default_netif \in ToSet(m_netif_list) => Contains(m_netif_list, m_default_netif)
      BY <2>2 DEF ToSet, Contains
    <3> QED
      BY <3>1 DEF NetInv, StartInv, OpenedSoFar, InHand, Listed, DefaultOK, Opens, Starts
  <2> QED
    BY <2>3, <2>4 DEF NetworkKnowsInterfaces
<1> QED
  BY <1>1, StartInit, StartNext, NetInit, NetNext, PTL DEF Spec
------------------------------------------------------------------------------
(***************************************************************************)
(* Where each packet is.                                                   *)
(***************************************************************************)
Sides == {"in", "out"}
Frees == {"free_in", "free_out"}
FreesAgain == {"free_in_again", "free_out_again"}

(* A packet is in hand between two steps only: in clear_in_queue or        *)
(* clear_out_queue between pop and free, in LoopNet::send before put.      *)
HandsTyped ==
  /\ q \in [Ifs -> [Sides -> Seq(Bufs)]] /\ hold \in [Threads -> Bufs \cup {None}]
  /\ pkt_free \in SUBSET Bufs /\ buf \in Bufs \cup {None}

HandsOK ==
  /\ at \in Frees \cup FreesAgain => buf # None
  /\ \A n \in Ifs : /\ run[App(n)] = "send" => hold[App(n)] = None
                    /\ run[App(n)] = "put" => hold[App(n)] # None

(* The packet the clearing has popped and not freed yet.                   *)
ControlHand == IF at \in Frees THEN {buf} \ {None} ELSE {}

Places == {<<"pool", "pool">>, <<"ctl", "buf">>} \cup {"held"} \X Threads \cup Sides \X Ifs

Content(p) ==
  CASE p[1] = "pool" -> pkt_free
    [] p[1] = "ctl"  -> ControlHand
    [] p[1] = "held" -> {hold[p[2]]} \ {None}
    [] p[1] \in Sides -> Range(q[p[2]][p[1]])

OnePlace ==
  \A b \in Bufs : \E p \in Places : /\ b \in Content(p)
                                    /\ \A r \in Places : b \in Content(r) => r = p

QueuesOK ==
  \A n \in Ifs, side \in Sides : IsInjective(q[n][side]) /\ Len(q[n][side]) <= QueueSize

PlacesInv == HandsTyped /\ QueuesOK /\ OnePlace

(* A packet that goes from one place to another stays in one place.        *)
LEMMA Move ==
  ASSUME OnePlace, NEW b \in Bufs, NEW p \in Places, NEW r \in Places, p # r,
         b \in Content(p), Content(p)' = Content(p) \ {b}, Content(r)' = Content(r) \cup {b},
         \A s \in Places \ {p, r} : Content(s)' = Content(s)
  PROVE  OnePlace'
<1> SUFFICES ASSUME NEW c \in Bufs
             PROVE  \E s \in Places : c \in Content(s)' /\ \A x \in Places : c \in Content(x)' => x = s
  BY DEF OnePlace, Places
<1>1. CASE c = b
  <2>1. \A x \in Places : b \in Content(x) => x = p
    BY DEF OnePlace
  <2>2. \A x \in Places : b \in Content(x)' => x = r
    BY <2>1
  <2> QED
    BY <1>1, <2>2
<1>2. CASE c # b
  <2>1. \A x \in Places : c \in Content(x)' <=> c \in Content(x)
    BY <1>2
  <2> QED
    BY <2>1 DEF OnePlace
<1> QED
  BY <1>1, <1>2

LEMMA PlaceKinds ==
  /\ \A p \in Places : \/ p = <<"pool", "pool">> \/ p = <<"ctl", "buf">>
                       \/ \E t \in Threads : p = <<"held", t>>
                       \/ \E n \in Ifs, side \in Sides : p = <<side, n>>
  /\ <<"pool", "pool">> \in Places /\ <<"ctl", "buf">> \in Places
  /\ \A t \in Threads : <<"held", t>> \in Places
  /\ \A n \in Ifs, side \in Sides : <<side, n>> \in Places
BY DEF Places

LEMMA Contents ==
  /\ Content(<<"pool", "pool">>) = pkt_free /\ Content(<<"ctl", "buf">>) = ControlHand
  /\ \A t : Content(<<"held", t>>) = {hold[t]} \ {None}
  /\ \A n \in Ifs, side \in Sides : Content(<<side, n>>) = Range(q[n][side])
BY DEF Content, Sides

LEMMA ContentsNext ==
  /\ Content(<<"pool", "pool">>)' = pkt_free' /\ Content(<<"ctl", "buf">>)' = ControlHand'
  /\ \A t : Content(<<"held", t>>)' = {hold'[t]} \ {None}
  /\ \A n \in Ifs, side \in Sides : Content(<<side, n>>)' = Range(q'[n][side])
BY DEF Content, Sides

(* A place whose variable is as before holds what it held.                 *)
LEMMA OtherPlaces ==
  ASSUME NEW P, <<"pool", "pool">> \in P \/ pkt_free' = pkt_free, <<"ctl", "buf">> \in P \/ ControlHand' = ControlHand,
         \A t \in Threads : <<"held", t>> \in P \/ hold'[t] = hold[t],
         \A n \in Ifs, side \in Sides : <<side, n>> \in P \/ q'[n][side] = q[n][side]
  PROVE  \A p \in Places \ P : Content(p)' = Content(p)
<1> SUFFICES ASSUME NEW p \in Places \ P PROVE Content(p)' = Content(p)
  OBVIOUS
<1>1. CASE p = <<"pool", "pool">> \/ p = <<"ctl", "buf">>
  BY <1>1, Contents, ContentsNext
<1>2. ASSUME NEW t \in Threads, p = <<"held", t>> PROVE Content(p)' = Content(p)
  BY <1>2, Contents, ContentsNext
<1>3. ASSUME NEW n \in Ifs, NEW side \in Sides, p = <<side, n>> PROVE Content(p)' = Content(p)
  BY <1>3, Contents, ContentsNext
<1> QED
  BY <1>1, <1>2, <1>3, PlaceKinds

(* A packet allocated from the pool.                                       *)
LEMMA PlacesTake ==
  ASSUME PlacesInv, NEW t \in Threads, hold[t] = None, Take(t), UNCHANGED <<q, buf, ControlHand>>
  PROVE  PlacesInv'
<1>1. PICK b \in pkt_free : pkt_free' = pkt_free \ {b} /\ hold' = [hold EXCEPT ![t] = b]
  BY DEF Take
<1>2. hold \in [Threads -> Bufs \cup {None}] /\ b \in Bufs /\ b # None
  BY <1>1, NetIFAssumption DEF PlacesInv, HandsTyped
<1>3. OnePlace'
  <2> DEFINE p == <<"pool", "pool">>
             r == <<"held", t>>
  <2>1. Content(p)' = Content(p) \ {b} /\ Content(r)' = Content(r) \cup {b} /\ b \in Content(p)
    BY <1>1, <1>2, Contents, ContentsNext
  <2>2. \A s \in Places \ {p, r} : Content(s)' = Content(s)
    BY <1>1, <1>2, OtherPlaces
  <2>3. p \in Places /\ r \in Places /\ p # r
    BY PlaceKinds
  <2> QED
    BY <1>2, <2>1, <2>2, <2>3, Move DEF PlacesInv
<1> QED
  BY <1>1, <1>2, <1>3 DEF PlacesInv, QueuesOK, HandsTyped

(* A packet freed by the thread that holds it.                             *)
LEMMA PlacesRelease ==
  ASSUME PlacesInv, NEW t \in Threads, hold[t] # None, Release(t), UNCHANGED <<q, buf, ControlHand>>
  PROVE  PlacesInv'
<1> DEFINE b == hold[t]
<1>1. pkt_free' = pkt_free \cup {b} /\ hold' = [hold EXCEPT ![t] = None]
  BY DEF Release, free
<1>2. hold \in [Threads -> Bufs \cup {None}] /\ b \in Bufs /\ b # None
  BY <1>1 DEF PlacesInv, HandsTyped
<1>3. OnePlace'
  <2> DEFINE p == <<"held", t>>
             r == <<"pool", "pool">>
  <2>1. Content(p)' = Content(p) \ {b} /\ Content(r)' = Content(r) \cup {b} /\ b \in Content(p)
    BY <1>1, <1>2, Contents, ContentsNext
  <2>2. \A s \in Places \ {p, r} : Content(s)' = Content(s)
    BY <1>1, <1>2, OtherPlaces
  <2>3. p \in Places /\ r \in Places /\ p # r
    BY PlaceKinds
  <2> QED
    BY <1>2, <2>1, <2>2, <2>3, Move DEF PlacesInv
<1> QED
  BY <1>1, <1>2, <1>3 DEF PlacesInv, QueuesOK, HandsTyped

(* The queues after a push or a pop.                                       *)
LEMMA QueueReplaced ==
  ASSUME q \in [Ifs -> [Sides -> Seq(Bufs)]], NEW n \in Ifs, NEW side \in Sides, NEW s \in Seq(Bufs),
         q' = [q EXCEPT ![n][side] = s]
  PROVE  /\ q' \in [Ifs -> [Sides -> Seq(Bufs)]] /\ q'[n][side] = s
         /\ \A k \in Ifs, x \in Sides : <<x, k>> # <<side, n>> => q'[k][x] = q[k][x]
OBVIOUS

(* A packet pushed on a queue that has room.                               *)
LEMMA PlacesPut ==
  ASSUME PlacesInv, NEW t \in Threads, NEW n \in Ifs, NEW side \in Sides,
         hold[t] # None, put_buf(t, n, side), UNCHANGED <<pkt_free, buf, ControlHand>>
  PROVE  PlacesInv'
<1> DEFINE b == hold[t]
           old == q[n][side]
           new == Append(q[n][side], b)
           p == <<"held", t>>
           r == <<side, n>>
<1>1. /\ hold \in [Threads -> Bufs \cup {None}] /\ b \in Bufs /\ b # None
      /\ q \in [Ifs -> [Sides -> Seq(Bufs)]] /\ old \in Seq(Bufs) /\ new \in Seq(Bufs)
  BY DEF PlacesInv, HandsTyped
<1>2. /\ hold' = [hold EXCEPT ![t] = None] /\ q' = [q EXCEPT ![n][side] = new] /\ Len(old) < QueueSize
  BY DEF put_buf
<1>3. /\ q' \in [Ifs -> [Sides -> Seq(Bufs)]] /\ q'[n][side] = new
      /\ \A k \in Ifs, x \in Sides : <<x, k>> # <<side, n>> => q'[k][x] = q[k][x]
  BY <1>1, <1>2, QueueReplaced
<1>4. p \in Places /\ r \in Places /\ p # r
  BY PlaceKinds DEF Sides
<1>5. b \notin Range(old)
  <2>1. b \in Content(p) /\ Content(r) = Range(old)
    BY <1>1, Contents
  <2> QED
    BY <1>1, <1>4, <2>1 DEF PlacesInv, OnePlace
<1>6. IsInjective(new) /\ Len(new) = Len(old) + 1 /\ Range(new) = Range(old) \cup {b}
  BY <1>1, <1>5, QueueAppend DEF PlacesInv, QueuesOK
<1>7. OnePlace'
  <2>1. Content(p)' = Content(p) \ {b} /\ Content(r)' = Content(r) \cup {b} /\ b \in Content(p)
    BY <1>1, <1>2, <1>3, <1>6, Contents, ContentsNext
  <2>2. \A s \in Places \ {p, r} : Content(s)' = Content(s)
    BY <1>1, <1>2, <1>3, OtherPlaces
  <2> QED
    BY <1>1, <1>4, <2>1, <2>2, Move DEF PlacesInv
<1>8. QueuesOK'
  <2>1. Len(new) <= QueueSize
    BY <1>1, <1>2, <1>6, NetIFAssumption
  <2> QED
    BY <1>3, <1>6, <2>1 DEF PlacesInv, QueuesOK
<1> QED
  BY <1>1, <1>2, <1>3, <1>7, <1>8 DEF PlacesInv, HandsTyped

(* A pop, into the hand of a thread or of the controlling thread.          *)
LEMMA PlacesPop ==
  ASSUME PlacesInv, NEW n \in Ifs, NEW side \in Sides, q[n][side] # <<>>,
         q' = [q EXCEPT ![n][side] = Tail(@)], UNCHANGED pkt_free,
         \/ /\ at \notin Frees /\ at' \in Frees
            /\ buf' = Head(q[n][side]) /\ UNCHANGED hold
         \/ \E t \in Threads : /\ hold[t] = None /\ hold' = [hold EXCEPT ![t] = Head(q[n][side])]
                               /\ UNCHANGED <<buf, ControlHand>>
  PROVE  PlacesInv'
<1> DEFINE old == q[n][side]
           new == Tail(q[n][side])
           b == Head(q[n][side])
           p == <<side, n>>
<1>1. /\ hold \in [Threads -> Bufs \cup {None}] /\ buf \in Bufs \cup {None}
      /\ q \in [Ifs -> [Sides -> Seq(Bufs)]] /\ old \in Seq(Bufs) /\ new \in Seq(Bufs)
  BY DEF PlacesInv, HandsTyped
<1>2. q' = [q EXCEPT ![n][side] = new]
  OBVIOUS
<1>3. /\ q' \in [Ifs -> [Sides -> Seq(Bufs)]] /\ q'[n][side] = new
      /\ \A k \in Ifs, x \in Sides : <<x, k>> # <<side, n>> => q'[k][x] = q[k][x]
  BY <1>1, <1>2, QueueReplaced
<1>4. /\ IsInjective(new) /\ Len(new) = Len(old) - 1 /\ Range(new) = Range(old) \ {b}
      /\ b \in Range(old) /\ b \in Bufs
  BY <1>1, QueueTail DEF PlacesInv, QueuesOK
<1>5. b # None
  BY <1>4, NetIFAssumption
<1>6. PICK r \in Places : /\ p # r /\ Content(r)' = Content(r) \cup {b}
                          /\ \A s \in Places \ {p, r} : Content(s)' = Content(s)
  <2>1. CASE at \notin Frees /\ at' \in Frees /\ buf' = b /\ UNCHANGED hold
    <3> DEFINE r == <<"ctl", "buf">>
    <3>0. ControlHand = {} /\ ControlHand' = {b}
      BY <1>5, <2>1 DEF ControlHand
    <3>1. r \in Places /\ p # r /\ Content(r)' = Content(r) \cup {b}
      BY <3>0, PlaceKinds, Contents, ContentsNext DEF Sides
    <3>2. \A s \in Places \ {p, r} : Content(s)' = Content(s)
      BY <1>3, <2>1, OtherPlaces
    <3> QED
      BY <3>1, <3>2
  <2>2. CASE \E t \in Threads : hold[t] = None /\ hold' = [hold EXCEPT ![t] = b] /\ UNCHANGED <<buf, ControlHand>>
    <3>1. PICK t \in Threads : hold[t] = None /\ hold' = [hold EXCEPT ![t] = b] /\ UNCHANGED <<buf, ControlHand>>
      BY <2>2
    <3> DEFINE r == <<"held", t>>
    <3>2. r \in Places /\ p # r /\ Content(r)' = Content(r) \cup {b}
      BY <1>1, <1>5, <3>1, PlaceKinds, Contents, ContentsNext DEF Sides
    <3>3. \A s \in Places \ {p, r} : Content(s)' = Content(s)
      BY <1>1, <1>3, <3>1, OtherPlaces, ZenonT(30)
    <3> QED
      BY <3>2, <3>3
  <2> QED
    BY <2>1, <2>2
<1>7. OnePlace'
  <2>1. Content(p)' = Content(p) \ {b} /\ b \in Content(p) /\ p \in Places
    BY <1>3, <1>4, Contents, ContentsNext, PlaceKinds
  <2> QED
    BY <1>4, <1>6, <2>1, Move DEF PlacesInv
<1>8. QueuesOK'
  <2>1. Len(new) <= QueueSize
    BY <1>1, <1>4, NetIFAssumption DEF PlacesInv, QueuesOK
  <2> QED
    BY <1>3, <1>4, <2>1 DEF PlacesInv, QueuesOK
<1>9. hold' \in [Threads -> Bufs \cup {None}] /\ buf' \in Bufs \cup {None}
  BY <1>1, <1>4
<1> QED
  BY <1>3, <1>7, <1>8, <1>9 DEF PlacesInv, HandsTyped

(* The controlling thread frees what it popped.                            *)
LEMMA PlacesClearFree ==
  ASSUME PlacesInv, buf # None, at \in Frees, at' \notin Frees,
         pkt_free' = pkt_free \cup {buf}, UNCHANGED <<q, hold, buf>>
  PROVE  PlacesInv'
<1>1. buf \in Bufs
  BY DEF PlacesInv, HandsTyped
<1>2. OnePlace'
  <2> DEFINE p == <<"ctl", "buf">>
             r == <<"pool", "pool">>
  <2>0. ControlHand = {buf} /\ ControlHand' = {}
    BY DEF ControlHand
  <2>1. Content(p)' = Content(p) \ {buf} /\ Content(r)' = Content(r) \cup {buf} /\ buf \in Content(p)
    BY <1>1, <2>0, Contents, ContentsNext
  <2>2. \A s \in Places \ {p, r} : Content(s)' = Content(s)
    BY OtherPlaces
  <2>3. p \in Places /\ r \in Places /\ p # r
    BY PlaceKinds
  <2> QED
    BY <1>1, <2>1, <2>2, <2>3, Move DEF PlacesInv
<1> QED
  BY <1>1, <1>2 DEF PlacesInv, QueuesOK, HandsTyped

LEMMA PlacesAside ==
  ASSUME PlacesInv, UNCHANGED <<q, hold, pkt_free, ControlHand>>, buf' \in {buf, None}
  PROVE  PlacesInv'
<1>1. \A p \in Places : Content(p)' = Content(p)
  BY DEF Content
<1>2. OnePlace'
  BY <1>1 DEF PlacesInv, OnePlace, Places
<1> QED
  BY <1>2 DEF PlacesInv, HandsTyped, QueuesOK

LEMMA PlacesInit == Init => PlacesInv /\ HandsOK
<1> SUFFICES ASSUME Init PROVE PlacesInv /\ HandsOK
  OBVIOUS
<1>0. [in |-> <<>>, out |-> <<>>] = [side \in Sides |-> <<>>]
  BY DEF Sides
<1>1. q \in [Ifs -> [Sides -> Seq(Bufs)]] /\ \A n \in Ifs, side \in Sides : q[n][side] = <<>>
  <2>1. [side \in Sides |-> <<>>] \in [Sides -> Seq(Bufs)]
    OBVIOUS
  <2> QED
    BY <1>0, <2>1 DEF Init
<1>2. HandsTyped /\ QueuesOK
  BY <1>1, NetIFAssumption DEF Init, HandsTyped, QueuesOK, IsInjective
<1>3. \A p \in Places : Content(p) = IF p = <<"pool", "pool">> THEN Bufs ELSE {}
  <2>1. Range(<<>>) = {}
    BY DEF Range
  <2>2. ASSUME NEW n \in Ifs, NEW side \in Sides PROVE Content(<<side, n>>) = {} /\ side # "pool"
    BY <1>1, <2>1, Contents DEF Sides
  <2>3. ASSUME NEW t \in Threads PROVE Content(<<"held", t>>) = {}
    BY Contents DEF Init
  <2>4. Content(<<"pool", "pool">>) = Bufs /\ Content(<<"ctl", "buf">>) = {}
    BY Contents DEF Init, ControlHand, Frees
  <2> QED
    BY <2>2, <2>3, <2>4, PlaceKinds
<1>4. OnePlace
  BY <1>3, PlaceKinds DEF OnePlace
<1>5. HandsOK
  BY OwnThreads DEF Init, HandsOK, App, Frees, FreesAgain
<1> QED
  BY <1>2, <1>4, <1>5 DEF PlacesInv

(* The steps between which no packet is in hand.                           *)
LEMMA HandsAside ==
  ASSUME HandsOK, at' \in Frees \cup FreesAgain => buf' # None,
         \A n \in Ifs : /\ run'[App(n)] = "send" => hold'[App(n)] = None
                        /\ run'[App(n)] = "put" => hold'[App(n)] # None
  PROVE  HandsOK'
BY DEF HandsOK, App

LEMMA HandsControl ==
  ASSUME HandsOK, UNCHANGED hold, at' \in Frees \cup FreesAgain => buf' # None,
         \/ UNCHANGED run
         \/ \E t \in Threads : run' = [run EXCEPT ![t] = "begin"]
         \/ \E t \in Threads : run' = [run EXCEPT ![t] = "loop"]
         \/ \E kind \in Kinds : run' = [run EXCEPT ![<<netif, kind>>] = "created"],
         run \in [Threads -> {"none", "created", "begin", "loop", "send", "put"}]
  PROVE  HandsOK'
<1>1. ASSUME NEW n \in Ifs, run'[App(n)] \in {"send", "put"} PROVE run'[App(n)] = run[App(n)]
  BY <1>1, OwnThreads DEF App, Kinds
<1> QED
  BY <1>1, HandsAside DEF HandsOK

(* What netif_open, set_active and netif_close do moves no packet, nor do  *)
(* the tests of the clearing loops and the start of a thread.              *)
LEMMA NoPacketMoves ==
  ASSUME StartInv, HandsOK, PlacesInv,
         \/ Opening \/ OpenUnknown \/ Deactivated \/ Starting
         \/ \E name : Create(name) \/ netif_close(name) \/ CloseNotFound(name)
         \/ \E n \in Ifs : set_active(n) \/ set_deactive(n)
         \/ ClearTest("in", "clear_in", "pop_in", "clear_out")
         \/ ClearTest("out", "clear_out", "pop_out", "deactive")
         \/ ClearPopFails("in", "pop_in", "free_in_again")
         \/ ClearPopFails("out", "pop_out", "free_out_again")
  PROVE  HandsOK' /\ PlacesInv' /\ UNCHANGED refreed
<1>1. UNCHANGED <<q, hold, pkt_free, refreed>> /\ buf' \in {buf, None}
  BY DEF Opening, OpenUnknown, Deactivated, Starting, Create, netif_close, CloseNotFound, set_active,
         set_deactive, ClearTest, ClearPopFails, LoopOpen, EtherOpen, EtherOpenFails, StartThread,
         ThreadStarted, OpenActivate, Opened, Run, Begin, Undefined, packets, ctl, vars
<1>2. \/ UNCHANGED <<at, buf>>
      \/ at \notin Frees /\ at' \notin Frees /\ (at' \in FreesAgain => buf' # None)
  BY DEF Opening, OpenUnknown, Deactivated, Starting, Create, netif_close, CloseNotFound, set_active,
         set_deactive, ClearTest, ClearPopFails, LoopOpen, EtherOpen, EtherOpenFails, StartThread,
         ThreadStarted, OpenActivate, Opened, Run, Begin, Undefined, Goto, Frees, FreesAgain, ctl, vars
<1>3. \/ UNCHANGED run
      \/ \E t \in Threads : run' = [run EXCEPT ![t] = "begin"]
      \/ \E t \in Threads : run' = [run EXCEPT ![t] = "loop"]
      \/ \E kind \in Kinds : run' = [run EXCEPT ![<<netif, kind>>] = "created"]
  BY DEF Opening, OpenUnknown, Deactivated, Starting, Create, netif_close, CloseNotFound, set_active,
         set_deactive, ClearTest, ClearPopFails, LoopOpen, EtherOpen, EtherOpenFails, StartThread,
         ThreadStarted, OpenActivate, Opened, Run, Begin, Undefined, Kinds, thread, vars
<1>4. ControlHand' = ControlHand /\ (at' \in Frees \cup FreesAgain => buf' # None)
  BY <1>2 DEF ControlHand, HandsOK
<1> QED
  BY <1>1, <1>3, <1>4, PlacesAside, HandsControl DEF StartInv, Typed

LEMMA ClearingMoves ==
  ASSUME StartInv, HandsOK, PlacesInv,
         \/ ClearPop("in", "pop_in", "free_in") \/ ClearPop("out", "pop_out", "free_out")
         \/ ClearFree("free_in", "clear_in") \/ ClearFree("free_out", "clear_out")
  PROVE  HandsOK' /\ PlacesInv' /\ UNCHANGED refreed
<1>1. ASSUME NEW side \in Sides, NEW from \in {"pop_in", "pop_out"}, NEW to \in Frees,
             ClearPop(side, from, to)
      PROVE  HandsOK' /\ PlacesInv' /\ UNCHANGED refreed
  <2>1. netif \in Ifs
    BY <1>1, NetifMade DEF ClearPop, Goto, StartInv, OpenedSoFar
  <2>2. /\ buf' = Head(q[netif][side]) /\ q' = [q EXCEPT ![netif][side] = Tail(@)]
        /\ q[netif][side] # <<>> /\ UNCHANGED <<run, hold, pkt_free, refreed>>
        /\ at \notin Frees /\ at' \in Frees
    BY <1>1 DEF ClearPop, Goto, HandsOK, Frees, thread
  <2>3. PlacesInv'
    BY <2>1, <2>2, PlacesPop
  <2>4. buf' # None
    <3>1. q[netif][side] \in Seq(Bufs)
      BY <2>1 DEF PlacesInv, HandsTyped
    <3> QED
      BY <2>2, <3>1, NetIFAssumption
  <2> QED
    BY <2>2, <2>3, <2>4 DEF HandsOK, App
<1>2. ASSUME NEW from \in Frees, NEW to \in {"clear_in", "clear_out"}, ClearFree(from, to)
      PROVE  HandsOK' /\ PlacesInv' /\ UNCHANGED refreed
  <2>1. /\ buf # None /\ pkt_free' = pkt_free \cup {buf}
        /\ UNCHANGED <<q, hold, run, buf, refreed>>
        /\ at \in Frees /\ at' \notin Frees \cup FreesAgain
    BY <1>2 DEF ClearFree, free, Goto, HandsOK, Frees, FreesAgain, thread
  <2> QED
    BY <2>1, PlacesClearFree DEF HandsOK, App
<1> QED
  BY <1>1, <1>2 DEF Sides, Frees

(* What the threads do with a packet.                                      *)
LEMMA HandsTraffic ==
  ASSUME HandsOK, PlacesInv, UNCHANGED <<at, buf>>, NEW t \in Threads,
         \A s \in Threads \ {t} : run'[s] = run[s] /\ hold'[s] = hold[s],
         \A n \in Ifs : t = App(n) => /\ run'[t] = "send" => hold'[t] = None
                                      /\ run'[t] = "put" => hold'[t] # None
  PROVE  HandsOK'
<1>1. ASSUME NEW n \in Ifs
      PROVE  /\ run'[App(n)] = "send" => hold'[App(n)] = None
             /\ run'[App(n)] = "put" => hold'[App(n)] # None
  BY OwnThreads DEF HandsOK
<1> QED
  BY <1>1, HandsAside DEF HandsOK

LEMMA ThreadMoves ==
  ASSUME HandsOK, PlacesInv, NEW n \in Ifs,
         \/ RecvCapture(n) \/ RecvPut(n) \/ SendGet(n) \/ SendInject(n) \/ WorkerGet(n)
  PROVE  HandsOK' /\ PlacesInv'
<1> DEFINE recv == <<n, "recv">>
           send == <<n, "send">>
<1>1. recv \in Threads /\ send \in Threads /\ Worker \in Threads
  BY OwnThreads DEF Kinds, Threads
<1>2. \A k \in Ifs : recv # App(k) /\ send # App(k) /\ Worker # App(k)
  BY DEF App, Worker
<1>3. /\ UNCHANGED <<at, buf, run>>
      /\ \/ /\ \E t \in {recv, send, Worker} :
                 \/ hold[t] = None /\ Take(t) /\ UNCHANGED q
                 \/ hold[t] # None /\ Release(t) /\ UNCHANGED q
         \/ \E t \in {recv, send, Worker}, side \in Sides :
              \/ hold[t] # None /\ put_buf(t, n, side) /\ UNCHANGED pkt_free
              \/ hold[t] = None /\ get_buf(t, n, side) /\ UNCHANGED pkt_free
  BY DEF RecvCapture, RecvPut, SendGet, SendInject, WorkerGet, Others, ctl, thread, Sides
<1>4. PICK t \in {recv, send, Worker} :
        \/ hold[t] = None /\ Take(t) /\ UNCHANGED q
        \/ hold[t] # None /\ Release(t) /\ UNCHANGED q
        \/ \E side \in Sides : \/ hold[t] # None /\ put_buf(t, n, side) /\ UNCHANGED pkt_free
                               \/ hold[t] = None /\ get_buf(t, n, side) /\ UNCHANGED pkt_free
  BY <1>3
<1>5. t \in Threads /\ \A k \in Ifs : t # App(k)
  BY <1>1, <1>2, <1>4
<1>6. \A s \in Threads \ {t} : run'[s] = run[s] /\ hold'[s] = hold[s]
  BY <1>3, <1>4, <1>5 DEF Take, Release, put_buf, get_buf, PlacesInv, HandsTyped
<1>7. HandsOK'
  BY <1>3, <1>5, <1>6, HandsTraffic
<1>8. UNCHANGED <<ControlHand, buf>>
  BY <1>3 DEF ControlHand
<1>9. PlacesInv'
  BY <1>4, <1>5, <1>8, PlacesTake, PlacesRelease, PlacesPut, PlacesPop DEF get_buf
<1> QED
  BY <1>7, <1>9

LEMMA AppMoves ==
  ASSUME StartInv, HandsOK, PlacesInv, NEW n \in Ifs,
         AppTake(n) \/ AppPut(n) \/ AppPutFails(n) \/ LoopSend(n) \/ LoopPut(n)
  PROVE  HandsOK' /\ PlacesInv'
<1> DEFINE t == App(n)
<1>0. UNCHANGED <<ControlHand, buf>>
  BY DEF AppTake, AppPut, AppPutFails, LoopSend, LoopPut, Others, AppOthers, ctl, ControlHand
<1>1. t \in Threads
  BY OwnThreads
<1>2. /\ run \in [Threads -> {"none", "created", "begin", "loop", "send", "put"}]
      /\ hold \in [Threads -> Bufs \cup {None}]
      /\ q \in [Ifs -> [Sides -> Seq(Bufs)]]
  BY DEF StartInv, Typed, PlacesInv, HandsTyped
<1>3. CASE AppTake(n)
  <2>1. hold[t] = None /\ Take(t) /\ UNCHANGED <<q, buf, at, run>> /\ run[t] = "loop"
    BY <1>3 DEF AppTake, Others, ctl, thread
  <2>2. \A s \in Threads \ {t} : run'[s] = run[s] /\ hold'[s] = hold[s]
    BY <1>1, <1>2, <2>1 DEF Take
  <2>3. HandsOK'
    BY <1>1, <2>1, <2>2, HandsTraffic
  <2> QED
    BY <1>0, <1>1, <2>1, <2>3, PlacesTake
<1>4. CASE AppPut(n)
  <2>1. /\ hold[t] # None /\ put_buf(t, n, "out") /\ UNCHANGED <<pkt_free, buf, at>>
        /\ run' = [run EXCEPT ![t] = IF m_type[n] = "LOOP" THEN "send" ELSE "loop"]
    BY <1>4 DEF AppPut, AppGoto, AppOthers, ctl
  <2>2. \A s \in Threads \ {t} : run'[s] = run[s] /\ hold'[s] = hold[s]
    BY <1>1, <1>2, <2>1 DEF put_buf
  <2>3. run'[t] # "put" /\ hold'[t] = None
    BY <1>1, <1>2, <2>1 DEF put_buf
  <2>4. HandsOK'
    BY <1>1, <2>1, <2>2, <2>3, HandsTraffic
  <2> QED
    BY <1>0, <1>1, <2>1, <2>4, PlacesPut DEF Sides
<1>5. CASE LoopSend(n)
  <2>1. /\ UNCHANGED <<pkt_free, buf, at>> /\ hold[t] = None
        /\ \/ get_buf(t, n, "out") /\ run' = [run EXCEPT ![t] = "put"]
           \/ UNCHANGED <<q, hold>> /\ run' = [run EXCEPT ![t] = "loop"]
    BY <1>5 DEF LoopSend, AppGoto, AppOthers, ctl, packets, HandsOK
  <2>2. \A s \in Threads \ {t} : run'[s] = run[s] /\ hold'[s] = hold[s]
    BY <1>1, <1>2, <2>1 DEF get_buf
  <2>3. run'[t] # "send" /\ (run'[t] = "put" => hold'[t] # None)
    <3>1. q[n]["out"] \in Seq(Bufs)
      BY <1>2 DEF Sides
    <3>2. CASE get_buf(t, n, "out")
      <4>1. Head(q[n]["out"]) \in Bufs /\ hold'[t] = Head(q[n]["out"])
        BY <1>1, <1>2, <3>1, <3>2 DEF get_buf
      <4> QED
        BY <1>1, <1>2, <2>1, <4>1, NetIFAssumption
    <3> QED
      BY <1>1, <1>2, <2>1, <3>2
  <2>4. HandsOK'
    BY <1>1, <2>1, <2>2, <2>3, HandsTraffic
  <2> QED
    BY <1>0, <1>1, <2>1, <2>4, PlacesPop, PlacesAside DEF Sides, get_buf
<1>6. CASE LoopPut(n)
  <2>1. /\ hold[t] # None /\ run' = [run EXCEPT ![t] = "loop"] /\ UNCHANGED <<buf, at>>
        /\ \/ put_buf(t, n, "in") /\ UNCHANGED pkt_free
           \/ Release(t) /\ UNCHANGED q
    BY <1>6 DEF LoopPut, AppGoto, AppOthers, ctl, HandsOK
  <2>2. \A s \in Threads \ {t} : run'[s] = run[s] /\ hold'[s] = hold[s]
    BY <1>1, <1>2, <2>1 DEF put_buf, Release
  <2>3. run'[t] = "loop"
    BY <1>1, <1>2, <2>1
  <2>4. HandsOK'
    BY <1>1, <2>1, <2>2, <2>3, HandsTraffic
  <2> QED
    BY <1>0, <1>1, <2>1, <2>4, PlacesPut, PlacesRelease DEF Sides
<1>7. CASE AppPutFails(n)
  <2>1. /\ hold[t] # None /\ run[t] = "loop" /\ UNCHANGED <<buf, at, run, q>>
        /\ Release(t) \/ UNCHANGED <<hold, pkt_free>>
    BY <1>7 DEF AppPutFails, Others, ctl, thread
  <2>2. \A s \in Threads \ {t} : run'[s] = run[s] /\ hold'[s] = hold[s]
    BY <1>1, <1>2, <2>1 DEF Release
  <2>3. HandsOK'
    BY <1>1, <2>1, <2>2, HandsTraffic
  <2> QED
    BY <1>0, <1>1, <2>1, <2>3, PlacesRelease, PlacesAside
<1> QED
  BY <1>3, <1>4, <1>5, <1>6, <1>7

(* The places a packet has in the queues are counted in those queues only  *)
(* that hold it, once in each.                                             *)
LEMMA OnePosition ==
  ASSUME PlacesInv, NEW b \in Bufs
  PROVE  LET I == {p \in Ifs \X {"in", "out"} \X (1 .. QueueSize) :
                     p[3] <= Len(q[p[1]][p[2]]) /\ q[p[1]][p[2]][p[3]] = b}
         IN  Cardinality(I) = IF \E n \in Ifs, side \in Sides : b \in Range(q[n][side]) THEN 1 ELSE 0
<1> DEFINE I == {p \in Ifs \X {"in", "out"} \X (1 .. QueueSize) :
                   p[3] <= Len(q[p[1]][p[2]]) /\ q[p[1]][p[2]][p[3]] = b}
<1>1. ASSUME NEW n \in Ifs, NEW side \in Sides
      PROVE  /\ q[n][side] \in Seq(Bufs) /\ IsInjective(q[n][side])
             /\ Len(q[n][side]) \in 0 .. QueueSize /\ DOMAIN q[n][side] = 1 .. Len(q[n][side])
  <2>1. q[n][side] \in Seq(Bufs) /\ IsInjective(q[n][side]) /\ Len(q[n][side]) <= QueueSize
    BY DEF PlacesInv, HandsTyped, QueuesOK
  <2> QED
    BY <2>1, NetIFAssumption
<1>2. \A n, k \in Ifs, side, x \in Sides :
        b \in Range(q[n][side]) /\ b \in Range(q[k][x]) => n = k /\ side = x
  <2> SUFFICES ASSUME NEW n \in Ifs, NEW k \in Ifs, NEW side \in Sides, NEW x \in Sides,
                      b \in Range(q[n][side]), b \in Range(q[k][x])
               PROVE  <<side, n>> = <<x, k>>
    OBVIOUS
  <2>1. b \in Content(<<side, n>>) /\ b \in Content(<<x, k>>)
    BY Contents
  <2>2. <<side, n>> \in Places /\ <<x, k>> \in Places
    BY PlaceKinds
  <2>3. \A p, r \in Places : b \in Content(p) /\ b \in Content(r) => p = r
    BY DEF PlacesInv, OnePlace
  <2> QED
    BY <2>1, <2>2, <2>3
<1>3. ASSUME NEW p \in I
      PROVE  /\ p[1] \in Ifs /\ p[2] \in Sides /\ p[3] \in DOMAIN q[p[1]][p[2]]
             /\ q[p[1]][p[2]][p[3]] = b /\ p = <<p[1], p[2], p[3]>> /\ b \in Range(q[p[1]][p[2]])
  <2>1. /\ p[1] \in Ifs /\ p[2] \in Sides /\ p[3] \in 1 .. QueueSize /\ p = <<p[1], p[2], p[3]>>
        /\ p[3] <= Len(q[p[1]][p[2]]) /\ q[p[1]][p[2]][p[3]] = b
    BY DEF Sides
  <2>2. p[3] \in DOMAIN q[p[1]][p[2]]
    BY <1>1, <2>1, NetIFAssumption
  <2> QED
    BY <2>1, <2>2 DEF Range
<1>4. \A p, r \in I : p = r
  <2> SUFFICES ASSUME NEW p \in I, NEW r \in I PROVE p = r
    OBVIOUS
  <2>1. p[1] = r[1] /\ p[2] = r[2]
    BY <1>2, <1>3
  <2>2. p[3] = r[3]
    BY <1>1, <1>3, <2>1 DEF IsInjective
  <2> QED
    BY <1>3, <2>1, <2>2
<1>5. I = {} <=> ~ \E n \in Ifs, side \in Sides : b \in Range(q[n][side])
  <2>1. I # {} => \E n \in Ifs, side \in Sides : b \in Range(q[n][side])
    BY <1>3
  <2>2. ASSUME NEW n \in Ifs, NEW side \in Sides, b \in Range(q[n][side]) PROVE I # {}
    <3>1. PICK k \in DOMAIN q[n][side] : q[n][side][k] = b
      BY <2>2 DEF Range
    <3>2. k \in 1 .. QueueSize /\ k <= Len(q[n][side])
      BY <1>1, NetIFAssumption
    <3>3. <<n, side, k>> \in I
      BY <3>1, <3>2 DEF Sides
    <3> QED
      BY <3>3
  <2> QED
    BY <2>1, <2>2
<1> HIDE DEF I
<1>6. Cardinality(I) = IF I = {} THEN 0 ELSE 1
  BY <1>4, CountOne
<1> QED
  BY <1>5, <1>6 DEF I

(* The sum the property counts is one for each packet that is in one       *)
(* place.                                                                  *)
LEMMA PlacesCountedAll ==
  ASSUME PlacesInv, NEW b \in Bufs
  PROVE  Cardinality({t \in Threads : hold[t] = b})
         + Cardinality({p \in Ifs \X {"in", "out"} \X (1 .. QueueSize) :
                          p[3] <= Len(q[p[1]][p[2]]) /\ q[p[1]][p[2]][p[3]] = b})
         + (IF b \in pkt_free THEN 1 ELSE 0)
         + (IF b = buf /\ at \in {"free_in", "free_out"} THEN 1 ELSE 0) = 1
<1>1. PICK p \in Places : b \in Content(p) /\ \A r \in Places : b \in Content(r) => r = p
  BY DEF PlacesInv, OnePlace
<1>2. /\ b \in pkt_free <=> p = <<"pool", "pool">>
      /\ b = buf /\ at \in {"free_in", "free_out"} <=> p = <<"ctl", "buf">>
      /\ \A t \in Threads : hold[t] = b <=> p = <<"held", t>>
      /\ \A n \in Ifs, side \in Sides : b \in Range(q[n][side]) <=> p = <<side, n>>
  <2>1. \A r \in Places : b \in Content(r) <=> p = r
    BY <1>1
  <2>2. b # None
    BY NetIFAssumption
  <2>3. ASSUME NEW t \in Threads PROVE hold[t] = b <=> p = <<"held", t>>
    BY <2>1, <2>2, PlaceKinds, Contents
  <2>4. ASSUME NEW n \in Ifs, NEW side \in Sides PROVE b \in Range(q[n][side]) <=> p = <<side, n>>
    <3>1. <<side, n>> \in Places /\ Content(<<side, n>>) = Range(q[n][side])
      BY PlaceKinds, Contents
    <3> QED
      BY <2>1, <3>1
  <2>5. b = buf /\ at \in {"free_in", "free_out"} <=> p = <<"ctl", "buf">>
    BY <2>1, <2>2, PlaceKinds, Contents DEF ControlHand, Frees
  <2> QED
    BY <2>1, <2>3, <2>4, <2>5, PlaceKinds, Contents
<1>3. Cardinality({t \in Threads : hold[t] = b}) = IF \E t \in Threads : p = <<"held", t>> THEN 1 ELSE 0
  <2> DEFINE S == {t \in Threads : hold[t] = b}
  <2>1. \A t, s \in S : t = s
    BY <1>2
  <2>2. S = {} <=> ~ \E t \in Threads : p = <<"held", t>>
    BY <1>2
  <2> HIDE DEF S
  <2>3. Cardinality(S) = IF S = {} THEN 0 ELSE 1
    BY <2>1, CountOne
  <2> QED
    BY <2>2, <2>3 DEF S
<1>4. Cardinality({x \in Ifs \X {"in", "out"} \X (1 .. QueueSize) :
                     x[3] <= Len(q[x[1]][x[2]]) /\ q[x[1]][x[2]][x[3]] = b})
        = IF \E n \in Ifs, side \in Sides : p = <<side, n>> THEN 1 ELSE 0
  BY <1>2, OnePosition
<1>5. \A n \in Ifs, side \in Sides : side # "pool" /\ side # "ctl" /\ side # "held"
  BY DEF Sides
<1> QED
  BY <1>2, <1>3, <1>4, <1>5, PlaceKinds

LEMMA PlacesCounted == PlacesInv => PacketsInOnePlace
BY PlacesCountedAll DEF PacketsInOnePlace

LEMMA PlacesCountedNext == PlacesInv' => PacketsInOnePlace'
BY PlacesCounted, PTL

(* Before a packet is freed under its user all of them are in one place.   *)
Healthy == ~ undefined => refreed = {} /\ PlacesInv

(* A second free of a packet that is still in the pool changes nothing; of *)
(* one that was taken again, it disturbs no other packet.                  *)
LEMMA FreeAgainMoves ==
  ASSUME HandsOK, PacketsInOnePlace, PlacesInv,
         \/ ClearFreeAgain("free_in_again", "clear_in")
         \/ ClearFreeAgain("free_out_again", "clear_out")
  PROVE  HandsOK' /\ PacketsInOnePlace' /\ Healthy'
<1>1. /\ at \notin Frees /\ at' \notin Frees \cup FreesAgain /\ UNCHANGED <<buf, run, hold, q>>
      /\ pkt_free' = pkt_free \cup {buf} /\ refreed' = {buf} \ pkt_free
      /\ undefined' = (refreed' # {})
  BY DEF ClearFreeAgain, free, Goto, Frees, FreesAgain, thread
<1>2. HandsOK'
  BY <1>1 DEF HandsOK, App
<1>3. CASE buf \in pkt_free
  <2>1. ControlHand' = ControlHand /\ pkt_free' = pkt_free
    BY <1>1, <1>3 DEF ControlHand
  <2>2. PlacesInv'
    BY <1>1, <2>1, PlacesAside
  <2> QED
    BY <1>1, <1>2, <1>3, <2>2, PlacesCountedNext DEF Healthy
<1>4. CASE buf \notin pkt_free
  <2>1. refreed' = {buf} /\ undefined'
    BY <1>1, <1>4
  <2>2. \A b \in Bufs \ refreed' : b \in pkt_free' <=> b \in pkt_free
    BY <1>1, <2>1
  <2>3. \A b \in Bufs :
          Cardinality({t \in Threads : hold[t] = b})
          + Cardinality({p \in Ifs \X {"in", "out"} \X (1 .. QueueSize) :
                           p[3] <= Len(q[p[1]][p[2]]) /\ q[p[1]][p[2]][p[3]] = b})
          + (IF b \in pkt_free THEN 1 ELSE 0)
          + (IF b = buf /\ at \in {"free_in", "free_out"} THEN 1 ELSE 0) = 1
    BY PlacesCountedAll
  <2>4. PacketsInOnePlace'
    BY <1>1, <2>2, <2>3 DEF PacketsInOnePlace, Frees
  <2> QED
    BY <1>2, <2>1, <2>4 DEF Healthy
<1> QED
  BY <1>3, <1>4

(* Every step keeps every packet in one place.                             *)
LEMMA PlacesKept ==
  ASSUME StartInv, HandsOK, PlacesInv,
         \/ Control /\ ~ ClearFreeAgain("free_in_again", "clear_in")
                    /\ ~ ClearFreeAgain("free_out_again", "clear_out")
         \/ Starting \/ Traffic \/ UNCHANGED vars
  PROVE  HandsOK' /\ PlacesInv' /\ UNCHANGED refreed
<1>0. ASSUME UNCHANGED <<buf, at>> PROVE UNCHANGED ControlHand
  BY <1>0 DEF ControlHand
<1>1. CASE UNCHANGED vars
  <2>1. UNCHANGED <<buf, hold, at, run, q, pkt_free, refreed>>
    BY <1>1 DEF vars, ctl, thread, packets
  <2> QED
    BY <1>0, <2>1, PlacesAside DEF HandsOK, App
<1>2. CASE Control /\ ~ ClearFreeAgain("free_in_again", "clear_in")
                   /\ ~ ClearFreeAgain("free_out_again", "clear_out")
  BY <1>2, NoPacketMoves, ClearingMoves DEF Control, Clearing
<1>3. CASE Starting
  BY <1>3, NoPacketMoves
<1>4. CASE Traffic
  <2>1. UNCHANGED refreed
    BY <1>4 DEF Traffic, RecvCapture, RecvPut, SendGet, SendInject, UsesClosedHandle, Undefined, WorkerGet,
                WorkerDone, AppTake, AppPut, AppPutFails, LoopSend, LoopPut, Others, AppOthers, packets
  <2>2. CASE WorkerDone
    <3>1. UNCHANGED <<q, at, buf, run>> /\ hold[Worker] # None /\ Release(Worker)
      BY <2>2 DEF WorkerDone, Others, ctl, thread
    <3>2. Worker \in Threads /\ \A k \in Ifs : Worker # App(k)
      BY DEF Threads, Worker, App
    <3>3. \A s \in Threads \ {Worker} : run'[s] = run[s] /\ hold'[s] = hold[s]
      BY <3>1, <3>2 DEF Release, PlacesInv, HandsTyped
    <3> QED
      BY <1>0, <2>1, <3>1, <3>2, <3>3, HandsTraffic, PlacesRelease
  <2>3. ASSUME NEW n \in Ifs, UsesClosedHandle(n) PROVE HandsOK' /\ PlacesInv'
    <3>1. UNCHANGED <<buf, hold, at, run, q, pkt_free>>
      BY <2>3 DEF UsesClosedHandle, Undefined, ctl, thread, packets
    <3> QED
      BY <1>0, <3>1, PlacesAside DEF HandsOK, App
  <2> QED
    BY <1>4, <2>1, <2>2, <2>3, ThreadMoves, AppMoves DEF Traffic
<1> QED
  BY <1>1, <1>2, <1>3, <1>4

LEMMA PlacesNext ==
  StartInv /\ HandsOK /\ PacketsInOnePlace /\ Healthy /\ [Next]_vars
    => HandsOK' /\ PacketsInOnePlace' /\ Healthy'
<1> SUFFICES ASSUME StartInv, HandsOK, PacketsInOnePlace, Healthy, [Next]_vars
             PROVE  HandsOK' /\ PacketsInOnePlace' /\ Healthy'
  OBVIOUS
<1>1. CASE UNCHANGED vars
  <2>1. UNCHANGED <<buf, hold, at, run, q, pkt_free, refreed, undefined>>
    BY <1>1 DEF vars, ctl, thread, packets
  <2>2. HandsOK' /\ PacketsInOnePlace'
    BY <2>1 DEF HandsOK, App, PacketsInOnePlace
  <2>3. PlacesInv => PlacesInv'
    BY <2>1, PlacesAside DEF ControlHand
  <2> QED
    BY <2>1, <2>2, <2>3 DEF Healthy
<1>2. ASSUME ~ undefined, ~ UNCHANGED vars PROVE HandsOK' /\ PacketsInOnePlace' /\ Healthy'
  <2>1. PlacesInv /\ refreed = {}
    BY <1>2 DEF Healthy
  <2>2. CASE \/ ClearFreeAgain("free_in_again", "clear_in")
             \/ ClearFreeAgain("free_out_again", "clear_out")
    BY <2>1, <2>2, FreeAgainMoves
  <2>3. CASE /\ ~ ClearFreeAgain("free_in_again", "clear_in")
             /\ ~ ClearFreeAgain("free_out_again", "clear_out")
    <3>1. HandsOK' /\ PlacesInv' /\ UNCHANGED refreed
      BY <1>2, <2>1, <2>3, PlacesKept DEF Next
    <3> QED
      BY <2>1, <3>1, PlacesCountedNext DEF Healthy
  <2> QED
    BY <2>2, <2>3
<1> QED
  BY <1>1, <1>2 DEF Next

(* While the queues of an interface are cleared beside the threads that    *)
(* push and pop, no packet is lost, freed twice or held by two, but the    *)
(* one that a failed pop of clear_in_queue or clear_out_queue freed under  *)
(* its new user (netif.cc:106-107).                                        *)
THEOREM PacketsAreInOnePlace == Spec => []PacketsInOnePlace
<1>1. StartInv /\ HandsOK /\ PacketsInOnePlace /\ Healthy /\ [Next]_vars
        => (StartInv /\ HandsOK /\ PacketsInOnePlace /\ Healthy)'
  BY StartNext, PlacesNext
<1>2. Init => HandsOK /\ PacketsInOnePlace /\ Healthy
  BY PlacesInit, PlacesCounted DEF Healthy, Init
<1> QED
  BY <1>1, <1>2, StartInit, PTL DEF Spec
==============================================================================
