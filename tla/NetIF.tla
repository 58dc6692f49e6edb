-------------------------------- MODULE NetIF --------------------------------
(***************************************************************************)
(* The life of a network interface (network.cc, netif.cc, thread.cc):      *)
(* netif_open with the threads EtherNet starts, set_active, set_deactive   *)
(* with the clearing of queues that threads still use, and netif_close.    *)
(* One thread controls the interfaces, as in tests/test_network.cc.  The   *)
(* way of a packet between the queues is in NetStack; here a thread takes  *)
(* a packet from the pool or a queue, and queues or frees it.              *)
(***************************************************************************)
EXTENDS Integers, Sequences, FiniteSets, SequencesExt

CONSTANTS
  MaxOpens,  \* bound of the model: interfaces ever made
  Bufs,      \* packet buffers
  QueueSize, \* elements m_in_q and m_out_q can hold
  None

Ifs == 1 .. MaxOpens
s_netif_factory_registry == {"loop", "eth0"}
Names == s_netif_factory_registry \cup {"eth1"}

Worker == <<0, "worker">>
App(n) == <<n, "app">>  \* an application thread that sends on interface n
Own(n) == {<<n, "send">>, <<n, "recv">>}
Threads == {Worker} \cup UNION {Own(n) \cup {App(n)} : n \in Ifs}

ASSUME NetIFAssumption == MaxOpens \in Nat /\ QueueSize \in Nat \ {0} /\ None \notin Bufs

VARIABLES
  made,            \* interfaces made so far
  m_name, m_type, m_state, m_ops_data,
  q,               \* m_in_q and m_out_q
  m_netif_list, m_default_netif,
  at, netif, buf,  \* controlling thread: where it is, its interface, its packet
  run, pcap,       \* each thread: how far it has come, its copy of m_ops_data
  m_semaphore,     \* of each Thread object
  hold,            \* the packet a thread has in hand
  pkt_free,
  refreed,         \* history: the packet that was freed again while in use
  undefined        \* behaviour is no longer defined

ifs     == <<made, m_name, m_type, m_state, m_ops_data>>
network == <<m_netif_list, m_default_netif>>
ctl     == <<at, netif, buf>>
thread  == <<run, pcap, m_semaphore>>
packets == <<q, hold, pkt_free, refreed>>
vars    == <<ifs, network, ctl, thread, packets, undefined>>

Init ==
  /\ made = 0 /\ m_name = [n \in Ifs |-> "none"] /\ m_type = [n \in Ifs |-> "NONE"]
  /\ m_state = [n \in Ifs |-> "none"] /\ m_ops_data = [n \in Ifs |-> "null"]
  /\ q = [n \in Ifs |-> [in |-> <<>>, out |-> <<>>]]
  /\ m_netif_list = <<>> /\ m_default_netif = 0
  /\ at = "idle" /\ netif = 0 /\ buf = None
  /\ run = [t \in Threads |-> IF t[2] \in {"worker", "app"} THEN "loop" ELSE "none"]
  /\ pcap = [t \in Threads |-> "null"] /\ m_semaphore = [t \in Threads |-> 0]
  /\ hold = [t \in Threads |-> None] /\ pkt_free = Bufs /\ refreed = {}
  /\ undefined = FALSE

Goto(from, to) == at = from /\ at' = to
Undefined(from) ==
  /\ from /\ undefined' = TRUE
  /\ UNCHANGED <<ifs, network, ctl, thread, packets>>

(***************************************************************************)
(* netif_open                                                              *)
(***************************************************************************)
OpenUnknown == \E name \in Names \ s_netif_factory_registry : at = "idle" /\ UNCHANGED vars

(* The factory and INetIF's constructor.                                   *)
Create(name) ==
  LET n == made + 1 IN
  /\ n \in Ifs /\ name \in s_netif_factory_registry
  /\ Goto("idle", "open") /\ netif' = n /\ made' = n
  /\ m_name' = [m_name EXCEPT ![n] = name]
  /\ m_state' = [m_state EXCEPT ![n] = "OPENED"]
  /\ m_ops_data' = [m_ops_data EXCEPT ![n] = IF name = "eth0" THEN "data" ELSE "null"]
  /\ UNCHANGED <<m_type, network, buf, thread, packets, undefined>>

LoopOpen ==
  /\ Goto("open", "set_active") /\ m_name[netif] = "loop"
  /\ m_type' = [m_type EXCEPT ![netif] = "LOOP"]
  /\ UNCHANGED <<made, m_name, m_state, m_ops_data, network, netif, buf, thread, packets, undefined>>

\* Mutant of EtherOpen: m_ops_data is set after the threads are started.
EtherOpenLate ==
  /\ Goto("open", "start_send") /\ m_name[netif] = "eth0"
  /\ m_type' = [m_type EXCEPT ![netif] = "ETHER"]
  /\ UNCHANGED <<made, m_name, m_state, m_ops_data, network, netif, buf, thread, packets, undefined>>

(* pcap_device_open succeeds.                                              *)
EtherOpen ==
  /\ Goto("open", "start_send") /\ m_name[netif] = "eth0"
  /\ m_type' = [m_type EXCEPT ![netif] = "ETHER"]
  /\ m_ops_data' = [m_ops_data EXCEPT ![netif] = "pcap"]
  /\ UNCHANGED <<made, m_name, m_state, network, netif, buf, thread, packets, undefined>>

(* It fails: pcap_getnonblock is called on the null handle before open     *)
(* tests it.                                                               *)
EtherOpenFails == Undefined(at = "open" /\ m_name[netif] = "eth0")

wait(t)   == m_semaphore[t] > 0 /\ m_semaphore' = [m_semaphore EXCEPT ![t] = @ - 1]
notify(t) == m_semaphore' = [m_semaphore EXCEPT ![t] = @ + 1]

(* Thread's constructor creates the thread and waits for its semaphore.    *)
StartThread(kind, from, to) ==
  /\ Goto(from, to)
  /\ run' = [run EXCEPT ![<<netif, kind>>] = "created"]
  /\ UNCHANGED <<ifs, network, netif, buf, pcap, m_semaphore, packets, undefined>>

ThreadStarted(kind, from, to) ==
  /\ Goto(from, to) /\ wait(<<netif, kind>>)
  /\ UNCHANGED <<ifs, network, netif, buf, run, pcap, packets, undefined>>

\* Mutant of Run: the semaphore is notified after the callback, which loops.
RunNotifiesLast(t) ==
  /\ run[t] = "created" /\ run' = [run EXCEPT ![t] = "begin"]
  /\ UNCHANGED <<ifs, network, ctl, pcap, m_semaphore, packets, undefined>>

(* Thread::run up to the call of the callback.                             *)
Run(t) ==
  /\ run[t] = "created" /\ run' = [run EXCEPT ![t] = "begin"]
  /\ notify(t)
  /\ UNCHANGED <<ifs, network, ctl, pcap, packets, undefined>>

(* send_func and recv_func read the handle once, then loop for ever.       *)
Begin(t) ==
  /\ run[t] = "begin" /\ run' = [run EXCEPT ![t] = "loop"]
  /\ pcap' = [pcap EXCEPT ![t] = m_ops_data[t[1]]]
  /\ UNCHANGED <<ifs, network, ctl, m_semaphore, packets, undefined>>

(***************************************************************************)
(* INetWork: the list and the default interface                            *)
(***************************************************************************)
(* set_active; both interfaces' link_open succeeds.                        *)
Activate(n) ==
  IF m_state[n] = "OPENED"
  THEN /\ m_state' = [m_state EXCEPT ![n] = "ACTIVE"]
       /\ m_default_netif' = IF m_default_netif = 0 /\ m_type[n] # "LOOP" THEN n
                             ELSE m_default_netif
  ELSE UNCHANGED <<m_state, m_default_netif>>

OpenActivate ==
  /\ Goto("set_active", "push_back") /\ Activate(netif)
  /\ UNCHANGED <<made, m_name, m_type, m_ops_data, m_netif_list, netif, buf, thread, packets, undefined>>

Opened ==
  /\ Goto("push_back", "idle") /\ m_netif_list' = Append(m_netif_list, netif) /\ netif' = 0
  /\ UNCHANGED <<ifs, m_default_netif, buf, thread, packets, undefined>>

set_active(n) ==
  /\ at = "idle" /\ n <= made /\ Activate(n)
  /\ UNCHANGED <<made, m_name, m_type, m_ops_data, m_netif_list, ctl, thread, packets, undefined>>

(* set_deactive up to the clearing of the queues.                          *)
set_deactive(n) ==
  /\ m_state[n] = "ACTIVE"
  /\ Goto("idle", "clear_in") /\ netif' = n
  /\ UNCHANGED <<ifs, network, buf, thread, packets, undefined>>

(* clear_in_queue and clear_out_queue: test, pop, free, for each packet.   *)
(* The pointer popped into is a local that keeps its value from packet to  *)
(* packet.  The test is of m_length, which lags behind the queue while     *)
(* another push or pop has not counted itself: as if it were made earlier  *)
(* or later.                                                               *)
ClearTest(side, from, pop, done) ==
  /\ \/ Goto(from, pop) /\ q[netif][side] # <<>> /\ UNCHANGED buf
     \/ Goto(from, done) /\ q[netif][side] = <<>> /\ buf' = None
  /\ UNCHANGED <<ifs, network, netif, thread, packets, undefined>>

\* Mutant of ClearPop: the front of the queue is read, not popped.
ClearPeek(side, from, to) ==
  /\ Goto(from, to)
  /\ q[netif][side] # <<>>
  /\ buf' = Head(q[netif][side])
  /\ UNCHANGED <<ifs, network, netif, thread, packets, undefined>>

ClearPop(side, from, to) ==
  /\ Goto(from, to)
  /\ q[netif][side] # <<>>
  /\ buf' = Head(q[netif][side]) /\ q' = [q EXCEPT ![netif][side] = Tail(@)]
  /\ UNCHANGED <<ifs, network, netif, thread, hold, pkt_free, refreed, undefined>>

(* Another thread was faster, and pop's result is not looked at: freed is  *)
(* the packet of the last iteration, in the first one a pointer not set.   *)
ClearPopFails(side, from, to) ==
  \/ Undefined(at = from /\ q[netif][side] = <<>> /\ buf = None)
  \/ /\ Goto(from, to)
     /\ q[netif][side] = <<>> /\ buf # None
     /\ UNCHANGED <<ifs, network, netif, buf, thread, packets, undefined>>

(* PktBuffer::free counts m_ref down from the 1 that alloc set, and the    *)
(* free that reaches 0 puts the packet into the pool: a packet that is     *)
(* there already stays there once.                                         *)
free(b) == pkt_free' = pkt_free \cup {b}

ClearFree(from, to) ==
  /\ Goto(from, to) /\ free(buf)
  /\ UNCHANGED <<ifs, network, netif, buf, thread, q, hold, refreed, undefined>>

(* The packet of the last iteration is still in the pool: nothing happens; *)
(* or it was taken again: it goes to the pool under its new user.  From    *)
(* then on two users work on one list of blocks, without a lock.           *)
ClearFreeAgain(from, to) ==
  /\ Goto(from, to) /\ free(buf)
  /\ refreed' = {buf} \ pkt_free /\ undefined' = (refreed' # {})
  /\ UNCHANGED <<ifs, network, netif, buf, thread, q, hold>>

\* Mutant of Deactivated: the default interface is left as it is.
DeactivatedKeeps ==
  /\ Goto("deactive", "idle") /\ netif' = 0
  /\ m_state' = [m_state EXCEPT ![netif] = "OPENED"]
  /\ UNCHANGED <<made, m_name, m_type, m_ops_data, network, buf, thread, packets, undefined>>

Deactivated ==
  /\ Goto("deactive", "idle") /\ netif' = 0
  /\ m_default_netif' = IF m_default_netif = netif THEN 0 ELSE m_default_netif
  /\ m_state' = [m_state EXCEPT ![netif] = "OPENED"]
  /\ UNCHANGED <<made, m_name, m_type, m_ops_data, m_netif_list, buf, thread, packets, undefined>>

(* find_netif_by_name stops at the first name that differs (strcmp is not  *)
(* compared with 0); 0 stands for end().                                   *)
find_netif_by_name(name) ==
  SelectInSeq(m_netif_list, LAMBDA n : m_name[n] # name)

(* netif_close of what find_netif_by_name found.  The pcap handle of a     *)
(* CLOSED interface is closed, though m_ops_data still points to it.       *)
netif_close(name) ==
  LET k == find_netif_by_name(name)
      n == m_netif_list[k] IN
  /\ at = "idle" /\ k # 0
  /\ IF m_state[n] = "ACTIVE" THEN UNCHANGED <<m_state, m_netif_list>>
     ELSE /\ m_state' = [m_state EXCEPT ![n] = "CLOSED"]
          /\ m_netif_list' = RemoveAt(m_netif_list, k)
  /\ UNCHANGED <<made, m_name, m_type, m_ops_data, m_default_netif, ctl, thread, packets, undefined>>

(* end() is dereferenced.                                                  *)
CloseNotFound(name) == Undefined(at = "idle" /\ find_netif_by_name(name) = 0)

(***************************************************************************)
(* Threads that use the queues                                             *)
(***************************************************************************)
Take(t) == \E b \in pkt_free : hold' = [hold EXCEPT ![t] = b] /\ pkt_free' = pkt_free \ {b}
Release(t) == hold' = [hold EXCEPT ![t] = None] /\ free(hold[t])

(* put_buf_to_in_queue, put_buf_to_out_queue: true if there is room.       *)
put_buf(t, n, side) ==
  /\ Len(q[n][side]) < QueueSize
  /\ q' = [q EXCEPT ![n][side] = Append(@, hold[t])]
  /\ hold' = [hold EXCEPT ![t] = None]

get_buf(t, n, side) ==
  /\ q[n][side] # <<>>
  /\ hold' = [hold EXCEPT ![t] = Head(q[n][side])]
  /\ q' = [q EXCEPT ![n][side] = Tail(@)]

Handle(t) == run[t] = "loop" /\ pcap[t] = "pcap" /\ m_state[t[1]] # "CLOSED"
Others == <<ifs, network, ctl, thread, refreed, undefined>>

(* recv_func: a captured packet is queued, or freed when there is no room. *)
RecvCapture(n) == LET t == <<n, "recv">> IN
  Handle(t) /\ hold[t] = None /\ Take(t) /\ UNCHANGED <<q, Others>>

RecvPut(n) == LET t == <<n, "recv">> IN
  /\ hold[t] # None
  /\ \/ put_buf(t, n, "in") /\ UNCHANGED pkt_free
     \/ Len(q[n].in) = QueueSize /\ Release(t) /\ UNCHANGED q
  /\ UNCHANGED Others

(* send_func: a queued packet is injected and freed.                       *)
SendGet(n) == LET t == <<n, "send">> IN
  run[t] = "loop" /\ hold[t] = None /\ get_buf(t, n, "out") /\ UNCHANGED <<pkt_free, Others>>

SendInject(n) == LET t == <<n, "send">> IN
  Handle(t) /\ hold[t] # None /\ Release(t) /\ UNCHANGED <<q, Others>>

(* The handle was closed under a thread that uses it.                      *)
UsesClosedHandle(n) ==
  \/ Undefined(run[<<n, "recv">>] = "loop" /\ ~ Handle(<<n, "recv">>))
  \/ Undefined(hold[<<n, "send">>] # None /\ ~ Handle(<<n, "send">>))

(* The worker takes packets in; applications send them, on a loopback      *)
(* interface through the out queue into the in queue.                      *)
WorkerGet(n)  == hold[Worker] = None /\ get_buf(Worker, n, "in") /\ UNCHANGED <<pkt_free, Others>>
WorkerDone    == hold[Worker] # None /\ Release(Worker) /\ UNCHANGED <<q, Others>>
AppTake(n)    == /\ m_type[n] # "NONE" /\ run[App(n)] = "loop" /\ hold[App(n)] = None
                 /\ Take(App(n)) /\ UNCHANGED <<q, Others>>

AppGoto(n, from, to) == run[App(n)] = from /\ run' = [run EXCEPT ![App(n)] = to]
AppOthers == <<ifs, network, ctl, pcap, m_semaphore, refreed, undefined>>

AppPut(n) ==
  /\ AppGoto(n, "loop", IF m_type[n] = "LOOP" THEN "send" ELSE "loop")
  /\ hold[App(n)] # None /\ put_buf(App(n), n, "out")
  /\ UNCHANGED <<pkt_free, AppOthers>>

(* The out queue is full: link_out or make_arp_request frees the packet,   *)
(* on a loopback interface it stays with the caller.                       *)
AppPutFails(n) ==
  /\ run[App(n)] = "loop" /\ hold[App(n)] # None /\ Len(q[n].out) = QueueSize
  /\ \/ m_type[n] = "ETHER" /\ Release(App(n))
     \/ m_type[n] = "LOOP" /\ UNCHANGED <<hold, pkt_free>>
  /\ UNCHANGED <<q, Others>>

(* LoopNet::send                                                           *)
LoopSend(n) ==
  \/ /\ AppGoto(n, "send", "put") /\ get_buf(App(n), n, "out")
     /\ UNCHANGED <<pkt_free, AppOthers>>
  \/ /\ AppGoto(n, "send", "loop") /\ q[n].out = <<>>
     /\ UNCHANGED <<packets, AppOthers>>

LoopPut(n) ==
  /\ AppGoto(n, "put", "loop")
  /\ \/ put_buf(App(n), n, "in") /\ UNCHANGED pkt_free
     \/ Len(q[n].in) = QueueSize /\ Release(App(n)) /\ UNCHANGED q
  /\ UNCHANGED AppOthers

(***************************************************************************)
(* The specification                                                       *)
(***************************************************************************)
Opening ==
  \/ LoopOpen \/ EtherOpen \/ EtherOpenFails
  \/ StartThread("send", "start_send", "wait_send")
  \/ ThreadStarted("send", "wait_send", "start_recv")
  \/ StartThread("recv", "start_recv", "wait_recv")
  \/ ThreadStarted("recv", "wait_recv", "set_active")
  \/ OpenActivate \/ Opened

Clearing ==
  \/ ClearTest("in", "clear_in", "pop_in", "clear_out")
  \/ ClearTest("out", "clear_out", "pop_out", "deactive")
  \/ ClearPop("in", "pop_in", "free_in") \/ ClearPop("out", "pop_out", "free_out")
  \/ ClearPopFails("in", "pop_in", "free_in_again")
  \/ ClearPopFails("out", "pop_out", "free_out_again")
  \/ ClearFree("free_in", "clear_in") \/ ClearFree("free_out", "clear_out")
  \/ ClearFreeAgain("free_in_again", "clear_in") \/ ClearFreeAgain("free_out_again", "clear_out")

Control ==
  \/ OpenUnknown \/ Opening
  \/ \E name \in s_netif_factory_registry : Create(name) \/ netif_close(name) \/ CloseNotFound(name)
  \/ \E n \in Ifs : set_active(n) \/ set_deactive(n)
  \/ Clearing \/ Deactivated

Starting == \E t \in Threads : Run(t) \/ Begin(t)

Traffic ==
  \/ \E n \in Ifs : \/ RecvCapture(n) \/ RecvPut(n) \/ SendGet(n) \/ SendInject(n)
                    \/ UsesClosedHandle(n) \/ WorkerGet(n)
                    \/ AppTake(n) \/ AppPut(n) \/ AppPutFails(n) \/ LoopSend(n) \/ LoopPut(n)
  \/ WorkerDone

Next ==
  \/ ~ undefined /\ Control
  \/ ~ undefined /\ Starting
  \/ ~ undefined /\ Traffic
  \/ undefined /\ UNCHANGED vars

Spec == Init /\ [][Next]_vars

(* The caller of netif_open and the threads it starts are scheduled.       *)
FairSpec == Spec /\ WF_vars(~ undefined /\ Opening) /\ WF_vars(~ undefined /\ Starting)

(***************************************************************************)
(* Properties                                                              *)
(***************************************************************************)
(* The default interface is an active Ethernet interface, and it is in     *)
(* m_netif_list unless its netif_open is still under way: set_deactive,    *)
(* which netif_close asks for, lets go of it.                              *)
DefaultIsActive ==
  m_default_netif # 0 =>
    /\ m_state[m_default_netif] = "ACTIVE" /\ m_type[m_default_netif] = "ETHER"
    /\ \/ Contains(m_netif_list, m_default_netif)
       \/ at = "push_back" /\ netif = m_default_netif

(* Outside netif_open the list holds, once each, the interfaces that are   *)
(* open: none is lost for ~INetWork to delete, none is left after close.   *)
ListedWhileOpen ==
  at = "idle" =>
    /\ IsInjective(m_netif_list)
    /\ ToSet(m_netif_list) = {n \in 1 .. made : m_state[n] # "CLOSED"}

(* A thread that has entered its loop works on the pcap handle of its      *)
(* interface, never on the pcap_data_t that netif_open was given in the    *)
(* same m_ops_data, and both threads of an active Ethernet interface have  *)
(* got through Thread::run to their function.                              *)
ThreadsHaveHandle ==
  \A n \in 1 .. made : \A t \in Own(n) :
    /\ run[t] = "loop" => pcap[t] = "pcap"
    /\ m_type[n] = "ETHER" /\ m_state[n] = "ACTIVE" => run[t] \in {"begin", "loop"}

(* The two lists of interfaces INetWork keeps agree with their states.     *)
NetworkKnowsInterfaces == DefaultIsActive /\ ListedWhileOpen

(* While clear_in_queue and clear_out_queue run beside the threads that    *)
(* push and pop, every packet is in the pool, in one queue or in one       *)
(* thread's hand, once.  Only the packet that a failed pop leads the       *)
(* clearing to free under its new user (netif.cc:106-107) is in two; one   *)
(* that is freed a second time before it is taken is still in one.         *)
PacketsInOnePlace ==
  \A b \in Bufs \ refreed :
    Cardinality({t \in Threads : hold[t] = b})
    + Cardinality({p \in Ifs \X {"in", "out"} \X (1 .. QueueSize) :
                     p[3] <= Len(q[p[1]][p[2]]) /\ q[p[1]][p[2]][p[3]] = b})
    + (IF b \in pkt_free THEN 1 ELSE 0)
    + (IF b = buf /\ at \in {"free_in", "free_out"} THEN 1 ELSE 0) = 1

(* A netif_open returns: the threads it starts let its semaphores go.      *)
OpenReturns == at \in {"open", "start_send", "wait_send", "start_recv", "wait_recv",
                       "set_active", "push_back"} ~> at = "idle" \/ undefined
==============================================================================
