------------------------------ MODULE NetStack ------------------------------
(***************************************************************************)
(* The path of a packet through the stack's threads: pcap receive thread,  *)
(* application threads, interface send thread, timer thread and worker,    *)
(* with the pools and queues they share (net.cc, network.cc, netif.cc,     *)
(* protocol_stack.cc, arp.cc, memblock.cc).                                *)
(*                                                                         *)
(* A push or pop of a ring is one step here (module RingQueue opens it     *)
(* up), except that the length a push adds becomes visible in a later      *)
(* step, because the worker's loop reads it.  Allocating and freeing a     *)
(* packet takes one step per data block, so that other threads come        *)
(* between.  Packet contents are left out; a packet is the set of its      *)
(* data blocks.  Interfaces stay active: set_deactive, whose clearing of   *)
(* the queues pops beside the worker, is in module NetIF.                  *)
(***************************************************************************)
EXTENDS Integers, Sequences, FiniteSets, Functions, FiniteSetsExt

CONSTANTS
  Bufs,         \* packet buffers PktManager can hand out
  Blks,         \* data blocks PktManager can hand out
  MaxBlks,      \* bound of the model: data blocks of a received packet
  Msgs,         \* message blocks of m_mem_block that can be handed out
  Timers,       \* message blocks of m_timer_mem_block
  Apps,         \* application threads
  InCap, OutCap,\* elements an interface's in and out queue can hold
  MaxTicks,     \* bound of the model: timer callbacks that expire
  None

(* m_msg_queue and m_mem_block are both sized by tcp.msg_queue_size.       *)
MsgCap == Cardinality(Msgs)

ASSUME StackAssumption ==
  /\ IsFiniteSet(Blks) /\ MaxBlks \in Nat \ {0}
  /\ InCap \in Nat \ {0} /\ OutCap \in Nat \ {0} /\ MaxTicks \in Nat
  /\ IsFiniteSet(Bufs) /\ IsFiniteSet(Msgs) /\ IsFiniteSet(Apps)
  /\ Msgs \cap Timers = {} /\ None \notin Bufs \cup Msgs \cup Timers
  /\ Apps \cap {"recv", "send", "timer", "worker"} = {}

Netifs  == {"eth", "loop"}
Threads == {"recv", "send", "timer", "worker"} \cup Apps

VARIABLES
  pkt_free,    \* packet buffers in the pool
  blk_free,    \* data blocks in the pool
  null_blks,   \* null pointers in that pool (see HeaderFails)
  blks,        \* data blocks in each packet's m_blk_list
  in_q, out_q, \* packets queued at each interface
  in_len,      \* m_length of each m_in_q
  msg_free,    \* free message blocks
  timer_free,  \* free timer message blocks
  m_msg_queue, \* messages for the worker
  msg_netif,   \* the interface a message is about
  ticks,       \* timer callbacks that have expired so far
  pc, buf, msg,\* each thread: where it is, the packet and message it holds
  netif,       \* each thread: the interface it works on
  need, got,   \* each thread inside alloc: blocks still to pop, and its blk_list
  ret,         \* each thread inside alloc or free: where it goes on
  forgotten    \* history: packets dropped without a free, by the code's reason

packets == <<pkt_free, blk_free, null_blks, blks>>
queues  == <<in_q, out_q, in_len>>
blocks  == <<msg_free, timer_free, m_msg_queue, msg_netif>>
calls   == <<need, got, ret>>
threads == <<pc, buf, msg, netif, calls>>
vars    == <<packets, queues, blocks, ticks, threads, forgotten>>

Init ==
  /\ pkt_free = Bufs /\ blk_free = Blks /\ null_blks = 0 /\ blks = [b \in Bufs |-> {}]
  /\ in_q = [n \in Netifs |-> <<>>] /\ out_q = [n \in Netifs |-> <<>>]
  /\ in_len = [n \in Netifs |-> 0]
  /\ msg_free = Msgs /\ timer_free = Timers /\ m_msg_queue = <<>>
  /\ msg_netif = [m \in Msgs |-> "eth"]
  /\ ticks = 0
  /\ pc = [t \in Threads |-> "idle"]
  /\ buf = [t \in Threads |-> None] /\ msg = [t \in Threads |-> None]
  /\ netif = [t \in Threads |-> "eth"]
  /\ need = [t \in Threads |-> 0] /\ got = [t \in Threads |-> {}]
  /\ ret = [t \in Threads |-> "idle"]
  /\ forgotten = [link_in |-> {}, recv_alloc |-> {}, link_out |-> {}, netif_out |-> {}]

(***************************************************************************)
(* Packet buffers and data blocks                                          *)
(***************************************************************************)
Goto(t, from, to) == pc[t] = from /\ pc' = [pc EXCEPT ![t] = to]
Hold(t, b) == buf' = [buf EXCEPT ![t] = b]

get_pktbuffer(t) ==
  \E b \in pkt_free : pkt_free' = pkt_free \ {b} /\ Hold(t, b)

(* PktBuffer::alloc pops n blocks one by one into the local blk_list, then *)
(* links them into the packet, and the thread goes on at to ...            *)
CallAlloc(t, n, from, to) ==
  /\ Goto(t, from, "pop_blk")
  /\ need' = [need EXCEPT ![t] = n]
  /\ ret' = [ret EXCEPT ![t] = to]
  /\ UNCHANGED got

PopBlock(t) ==
  /\ pc[t] = "pop_blk" /\ need[t] > 1
  /\ \E k \in blk_free : /\ blk_free' = blk_free \ {k}
                         /\ got' = [got EXCEPT ![t] = @ \cup {k}]
  /\ need' = [need EXCEPT ![t] = @ - 1]
  /\ UNCHANGED <<pkt_free, null_blks, blks, queues, blocks, ticks, pc, buf, msg, netif, ret, forgotten>>

PopLastBlock(t) ==
  /\ need[t] = 1
  /\ Goto(t, "pop_blk", ret[t])
  /\ \E k \in blk_free : /\ blk_free' = blk_free \ {k}
                         /\ blks' = [blks EXCEPT ![buf[t]] = @ \cup got[t] \cup {k}]
  /\ need' = [need EXCEPT ![t] = 0] /\ got' = [got EXCEPT ![t] = {}]
  /\ ret' = [ret EXCEPT ![t] = "idle"]
  /\ UNCHANGED <<pkt_free, null_blks, queues, blocks, ticks, buf, msg, netif, forgotten>>

\* Mutant of NoBlock: the blocks popped so far are not released.
NoBlockForgets(t) ==
  /\ need[t] > 0 /\ blk_free = {} /\ null_blks = 0
  /\ Goto(t, "pop_blk", "roll_back")
  /\ need' = [need EXCEPT ![t] = 0] /\ got' = [got EXCEPT ![t] = {}]
  /\ UNCHANGED <<packets, queues, blocks, ticks, buf, msg, netif, ret, forgotten>>

(* ... or finds the pool empty and releases what it has, block by block,   *)
(* while another thread may be doing the same.                             *)
NoBlock(t) ==
  /\ need[t] > 0 /\ blk_free = {} /\ null_blks = 0
  /\ Goto(t, "pop_blk", "roll_back")
  /\ need' = [need EXCEPT ![t] = 0]
  /\ UNCHANGED <<packets, queues, blocks, ticks, buf, msg, netif, got, ret, forgotten>>

(* release_pktblock does not look at the result of the push, which fails   *)
(* only if null pointers take the room of blocks.                          *)
Room == Cardinality(blk_free) + null_blks < Cardinality(Blks)
release_pktblock(k) == blk_free' = IF Room THEN blk_free \cup {k} ELSE blk_free

RollBack(t) ==
  /\ pc[t] = "roll_back"
  /\ \E k \in got[t] : release_pktblock(k) /\ got' = [got EXCEPT ![t] = @ \ {k}]
  /\ UNCHANGED <<pkt_free, null_blks, blks, queues, blocks, ticks, pc, buf, msg, netif, need, ret, forgotten>>

(* alloc has returned false to the caller that would have gone on at to.   *)
AllocFailed(t, to) == pc[t] = "roll_back" /\ got[t] = {} /\ ret[t] = to

(* get_pktblock dereferences the pointer it has popped (reset): a null     *)
(* pointer ends the program.                                               *)
PopNull(t) ==
  /\ pc[t] = "pop_blk" /\ need[t] > 0 /\ null_blks > 0
  /\ pc' = [s \in Threads |-> "crashed"]
  /\ UNCHANGED <<packets, queues, blocks, ticks, buf, msg, netif, calls, forgotten>>

(* The thread frees the packet it holds and goes on at to.                 *)
Drop(t, from, to) ==
  /\ Goto(t, from, "free")
  /\ ret' = [ret EXCEPT ![t] = to]
  /\ UNCHANGED <<packets, queues, blocks, ticks, buf, msg, netif, need, got, forgotten>>

(* PktBuffer::free of a packet with one reference: its blocks one by one,  *)
(* then the packet.                                                        *)
FreeBlock(t) ==
  /\ pc[t] = "free"
  /\ \E k \in blks[buf[t]] : /\ release_pktblock(k)
                             /\ blks' = [blks EXCEPT ![buf[t]] = @ \ {k}]
  /\ UNCHANGED <<pkt_free, null_blks, queues, blocks, ticks, threads, forgotten>>

FreeBuffer(t) ==
  /\ Goto(t, "free", ret[t])
  /\ blks[buf[t]] = {}
  /\ pkt_free' = pkt_free \cup {buf[t]} /\ Hold(t, None)
  /\ ret' = [ret EXCEPT ![t] = "idle"]
  /\ UNCHANGED <<blk_free, null_blks, blks, queues, blocks, ticks, msg, netif, need, got, forgotten>>

AllocOrFree(t) == \/ PopBlock(t) \/ PopLastBlock(t) \/ NoBlock(t) \/ RollBack(t) \/ PopNull(t)
                  \/ FreeBlock(t) \/ FreeBuffer(t)

(* The thread lets go of its packet without freeing it.                    *)
Forget(t, reason) ==
  /\ Hold(t, None)
  /\ forgotten' = [forgotten EXCEPT ![reason] = @ \cup {buf[t]}]

(***************************************************************************)
(* Receive thread (network.cc recv_func)                                   *)
(***************************************************************************)
RecvGetBuffer ==
  /\ get_pktbuffer("recv")
  /\ \E n \in 1 .. MaxBlks : CallAlloc("recv", n, "idle", "put_in")
  /\ UNCHANGED <<blk_free, null_blks, blks, queues, blocks, ticks, msg, netif, forgotten>>

(* Without a buffer the packet is dropped and the next one awaited.        *)
RecvNoBuffer == pc["recv"] = "idle" /\ pkt_free = {} /\ UNCHANGED vars

(* Without data blocks: `continue', with the buffer still taken.           *)
RecvAllocFails ==
  /\ AllocFailed("recv", "put_in")
  /\ Goto("recv", "roll_back", "idle") /\ ret' = [ret EXCEPT !["recv"] = "idle"]
  /\ Forget("recv", "recv_alloc")
  /\ UNCHANGED <<packets, queues, blocks, ticks, msg, netif, need, got>>

(***************************************************************************)
(* put_buf_to_in_queue and exmsg_netif_in, by the receive thread and, on   *)
(* the loopback interface, by application threads                          *)
(***************************************************************************)
\* Mutant of PutIn: the caller frees the packet it has queued.
PutInAndFree(t) ==
  LET n == netif[t] IN
  /\ Len(in_q[n]) < InCap
  /\ Goto(t, "put_in", "count_in")
  /\ in_q' = [in_q EXCEPT ![n] = Append(@, buf[t])]
  /\ Hold(t, None) /\ pkt_free' = pkt_free \cup {buf[t]}
  /\ UNCHANGED <<blk_free, null_blks, blks, out_q, in_len, blocks, ticks, msg, netif, calls, forgotten>>

PutIn(t) ==
  LET n == netif[t] IN
  /\ Len(in_q[n]) < InCap
  /\ Goto(t, "put_in", "count_in")
  /\ in_q' = [in_q EXCEPT ![n] = Append(@, buf[t])]
  /\ Hold(t, None)
  /\ UNCHANGED <<packets, out_q, in_len, blocks, ticks, msg, netif, calls, forgotten>>

PutInFull(t) == Len(in_q[netif[t]]) >= InCap /\ Drop(t, "put_in", "idle")

CountIn(t) ==
  /\ Goto(t, "count_in", "announce")
  /\ in_len' = [in_len EXCEPT ![netif[t]] = @ + 1]
  /\ UNCHANGED <<packets, in_q, out_q, blocks, ticks, buf, msg, netif, calls, forgotten>>

GetMsgBlock(t) ==
  /\ Goto(t, "announce", "msg_send")
  /\ \E m \in msg_free :
       /\ msg_free' = msg_free \ {m}
       /\ msg' = [msg EXCEPT ![t] = m]
       /\ msg_netif' = [msg_netif EXCEPT ![m] = netif[t]]
  /\ UNCHANGED <<packets, queues, timer_free, m_msg_queue, ticks, buf, netif, calls, forgotten>>

(* put_buf_to_in_queue does not look at the result of exmsg_netif_in: the  *)
(* packet stays queued without a message.                                  *)
NoMsgBlock(t) ==
  /\ msg_free = {}
  /\ Goto(t, "announce", "idle")
  /\ UNCHANGED <<packets, queues, blocks, ticks, buf, msg, netif, calls, forgotten>>

(* msg_send does not look at the result of push_msg.                       *)
MsgSend(t) ==
  /\ Goto(t, "msg_send", "idle")
  /\ m_msg_queue' = IF Len(m_msg_queue) < MsgCap THEN Append(m_msg_queue, msg[t])
                    ELSE m_msg_queue
  /\ msg' = [msg EXCEPT ![t] = None]
  /\ UNCHANGED <<packets, queues, msg_free, timer_free, msg_netif, ticks, buf, netif, calls, forgotten>>
(***************************************************************************)
(* Application threads: netif_out on either interface                      *)
(***************************************************************************)
(* Applications send a short packet, as tests/test_network.cc:52-64 does:  *)
(* it ignores the result of alloc and may send a packet without blocks.    *)
AppGetBuffer(t) ==
  /\ get_pktbuffer(t)
  /\ \E n \in Netifs : netif' = [netif EXCEPT ![t] = n]
  /\ CallAlloc(t, 1, "idle", "netif_out")
  /\ UNCHANGED <<blk_free, null_blks, blks, queues, blocks, ticks, msg, forgotten>>

AppAllocFails(t) ==
  /\ AllocFailed(t, "netif_out")
  /\ Goto(t, "roll_back", "netif_out") /\ ret' = [ret EXCEPT ![t] = "idle"]
  /\ UNCHANGED <<packets, queues, blocks, ticks, buf, msg, netif, need, got, forgotten>>

(* LoopNet: through the out queue back into the in queue.                  *)
LoopOut(t) ==
  /\ netif[t] = "loop" /\ Len(out_q["loop"]) < OutCap
  /\ Goto(t, "netif_out", "loop_send")
  /\ out_q' = [out_q EXCEPT !["loop"] = Append(@, buf[t])]
  /\ Hold(t, None)
  /\ UNCHANGED <<packets, in_q, in_len, blocks, ticks, msg, netif, calls, forgotten>>

(* netif_out fails, and nobody frees the packet: the application cannot    *)
(* tell this failure from that of PutInFull, where send has freed it.      *)
LoopOutFull(t) ==
  /\ netif[t] = "loop" /\ Len(out_q["loop"]) >= OutCap
  /\ Goto(t, "netif_out", "idle")
  /\ Forget(t, "netif_out")
  /\ UNCHANGED <<packets, queues, blocks, ticks, msg, netif, calls>>

LoopSend(t) ==
  /\ out_q["loop"] # <<>>
  /\ Goto(t, "loop_send", "put_in")
  /\ Hold(t, Head(out_q["loop"]))
  /\ out_q' = [out_q EXCEPT !["loop"] = Tail(@)]
  /\ UNCHANGED <<packets, in_q, in_len, blocks, ticks, msg, netif, calls, forgotten>>

(* EtherNet::link_out to the own address sends the packet itself: one      *)
(* shorter than ETHER_DATA_MIN through resize, any other as it is ...      *)
LinkOutOwn(t) ==
  /\ netif[t] = "eth"
  /\ \/ Goto(t, "netif_out", "raw_out")
     \/ Goto(t, "netif_out", "header") /\ blks[buf[t]] # {}
  /\ UNCHANGED <<packets, queues, blocks, ticks, buf, msg, netif, calls, forgotten>>

(* ... and to any other address an ARP request in its place.               *)
LinkOutOther(t) ==
  /\ netif[t] = "eth"
  /\ Goto(t, "netif_out", "make_request")
  /\ Forget(t, "link_out")
  /\ UNCHANGED <<packets, queues, blocks, ticks, msg, netif, calls>>

ArpGetBuffer(t) ==
  /\ get_pktbuffer(t)
  /\ CallAlloc(t, 1, "make_request", "raw_out")
  /\ UNCHANGED <<blk_free, null_blks, blks, queues, blocks, ticks, msg, netif, forgotten>>

ArpNoBuffer(t) ==
  /\ pkt_free = {}
  /\ Goto(t, "make_request", "idle")
  /\ UNCHANGED <<packets, queues, blocks, ticks, buf, msg, netif, calls, forgotten>>

(* ether_raw_out: resize adds a block (the data ends its block), and ...   *)
RawOutPad(t) ==
  /\ CallAlloc(t, 1, "raw_out", "header")
  /\ UNCHANGED <<packets, queues, blocks, ticks, buf, msg, netif, forgotten>>

(* Neither in make_request nor in resize a block: the packet is freed.     *)
SendAllocFails(t) ==
  /\ AllocFailed(t, "raw_out") \/ AllocFailed(t, "header")
  /\ Drop(t, "roll_back", "idle")

(* ... alloc_header finds room in front of the first block's data, ...     *)
HeaderFits(t) ==
  /\ Goto(t, "header", "put_out")
  /\ UNCHANGED <<packets, queues, blocks, ticks, buf, msg, netif, calls, forgotten>>

(* ... or puts one more block there.                                       *)
HeaderBlock(t) ==
  /\ CallAlloc(t, 1, "header", "put_out")
  /\ UNCHANGED <<packets, queues, blocks, ticks, buf, msg, netif, forgotten>>

(* Without a block it has put the null pointer there, and free hands it to *)
(* the pool with the packet's blocks (pktbuf.cc:183-188, 150-154).         *)
HeaderFails(t) ==
  /\ AllocFailed(t, "put_out")
  /\ Goto(t, "roll_back", "free") /\ ret' = [ret EXCEPT ![t] = "idle"]
  /\ null_blks' = IF Room THEN null_blks + 1 ELSE null_blks
  /\ UNCHANGED <<pkt_free, blk_free, blks, queues, blocks, ticks, buf, msg, netif, need, got, forgotten>>

(* The destination is always ether_broadcast_addr(), so the branch for the *)
(* own address (netif.cc:383-384) is never taken.                          *)
PutOut(t) ==
  /\ Len(out_q["eth"]) < OutCap
  /\ Goto(t, "put_out", "idle")
  /\ out_q' = [out_q EXCEPT !["eth"] = Append(@, buf[t])]
  /\ Hold(t, None)
  /\ UNCHANGED <<packets, in_q, in_len, blocks, ticks, msg, netif, calls, forgotten>>

PutOutFull(t) == Len(out_q["eth"]) >= OutCap /\ Drop(t, "put_out", "idle")

(***************************************************************************)
(* Send thread (network.cc send_func)                                      *)
(***************************************************************************)
SendGet ==
  /\ out_q["eth"] # <<>>
  /\ Goto("send", "idle", "inject")
  /\ Hold("send", Head(out_q["eth"]))
  /\ out_q' = [out_q EXCEPT !["eth"] = Tail(@)]
  /\ UNCHANGED <<packets, in_q, in_len, blocks, ticks, msg, netif, calls, forgotten>>

SendInject == Drop("send", "inject", "idle")

(***************************************************************************)
(* Timer thread (net.cc timer_thread_func), per expired callback           *)
(***************************************************************************)
TimerExpire ==
  /\ ticks < MaxTicks
  /\ Goto("timer", "idle", "tick")
  /\ ticks' = ticks + 1
  /\ UNCHANGED <<packets, queues, blocks, buf, msg, netif, calls, forgotten>>

TimerGetBlock ==
  /\ Goto("timer", "tick", "push")
  /\ \E m \in timer_free : /\ timer_free' = timer_free \ {m}
                           /\ msg' = [msg EXCEPT !["timer"] = m]
  /\ UNCHANGED <<packets, queues, msg_free, m_msg_queue, msg_netif, ticks, buf, netif, calls, forgotten>>

TimerNoBlock ==
  /\ timer_free = {}
  /\ Goto("timer", "tick", "idle")
  /\ UNCHANGED <<packets, queues, blocks, ticks, buf, msg, netif, calls, forgotten>>

\* Mutant of TimerPush: like msg_send, it does not look at push's result.
TimerPushUnchecked ==
  /\ Goto("timer", "push", "idle")
  /\ m_msg_queue' = IF Len(m_msg_queue) < MsgCap THEN Append(m_msg_queue, msg["timer"])
                    ELSE m_msg_queue
  /\ msg' = [msg EXCEPT !["timer"] = None]
  /\ UNCHANGED <<packets, queues, msg_free, timer_free, msg_netif, ticks, buf, netif, calls, forgotten>>

TimerPush ==
  /\ Goto("timer", "push", "idle")
  /\ IF Len(m_msg_queue) < MsgCap
     THEN m_msg_queue' = Append(m_msg_queue, msg["timer"]) /\ UNCHANGED timer_free
     ELSE timer_free' = timer_free \cup {msg["timer"]} /\ UNCHANGED m_msg_queue
  /\ msg' = [msg EXCEPT !["timer"] = None]
  /\ UNCHANGED <<packets, queues, msg_free, msg_netif, ticks, buf, netif, calls, forgotten>>

(***************************************************************************)
(* Worker (net.cc work_thread_func, do_netif_in)                           *)
(***************************************************************************)
WorkerPop ==
  /\ m_msg_queue # <<>>
  /\ LET m == Head(m_msg_queue) IN
       /\ Goto("worker", "idle", IF m \in Timers THEN "run" ELSE "drain")
       /\ msg' = [msg EXCEPT !["worker"] = m]
       /\ netif' = IF m \in Timers THEN netif ELSE [netif EXCEPT !["worker"] = msg_netif[m]]
  /\ m_msg_queue' = Tail(m_msg_queue)
  /\ UNCHANGED <<packets, queues, msg_free, timer_free, msg_netif, ticks, buf, calls, forgotten>>

\* Mutant of RunCallback: an exception of the callback leaves the loop body.
RunCallbackThrows ==
  /\ Goto("worker", "run", "idle")
  /\ msg' = [msg EXCEPT !["worker"] = None]
  /\ UNCHANGED <<packets, queues, blocks, ticks, buf, netif, calls, forgotten>>

RunCallback ==
  /\ Goto("worker", "run", "release")
  /\ UNCHANGED <<packets, queues, blocks, ticks, buf, msg, netif, calls, forgotten>>

\* Mutant of WorkerCheck: the last packet is left in the queue.
WorkerCheckOffByOne ==
  /\ Goto("worker", "drain", IF in_len[netif["worker"]] > 1 THEN "get" ELSE "release")
  /\ UNCHANGED <<packets, queues, blocks, ticks, buf, msg, netif, calls, forgotten>>

WorkerCheck ==
  /\ Goto("worker", "drain", IF in_len[netif["worker"]] # 0 THEN "get" ELSE "release")
  /\ UNCHANGED <<packets, queues, blocks, ticks, buf, msg, netif, calls, forgotten>>

(* Should the queue be empty, do_netif_in gives the message up.            *)
WorkerGet ==
  LET n == netif["worker"] IN
  IF in_q[n] = <<>>
  THEN /\ Goto("worker", "get", "release")
       /\ UNCHANGED <<packets, queues, blocks, ticks, buf, msg, netif, calls, forgotten>>
  ELSE /\ Goto("worker", "get", "link_in")
       /\ Hold("worker", Head(in_q[n]))
       /\ in_q' = [in_q EXCEPT ![n] = Tail(@)]
       /\ in_len' = [in_len EXCEPT ![n] = @ - 1]
       /\ UNCHANGED <<packets, out_q, blocks, ticks, msg, netif, calls, forgotten>>

(* link_in accepts the packet, and nobody frees it; or frees a bad frame.  *)
LinkIn ==
  /\ Goto("worker", "link_in", "drain")
  /\ Forget("worker", "link_in")
  /\ UNCHANGED <<packets, queues, blocks, ticks, msg, netif, calls>>

LinkInFails == netif["worker"] = "eth" /\ Drop("worker", "link_in", "drain")

\* Mutant of WorkerRelease: every block goes back to m_timer_mem_block.
WorkerReleaseOnePool ==
  /\ Goto("worker", "release", "idle")
  /\ timer_free' = timer_free \cup {msg["worker"]}
  /\ msg' = [msg EXCEPT !["worker"] = None]
  /\ UNCHANGED <<packets, queues, msg_free, m_msg_queue, msg_netif, ticks, buf, netif, calls, forgotten>>

WorkerRelease ==
  /\ Goto("worker", "release", "idle")
  /\ IF msg["worker"] \in Timers
     THEN timer_free' = timer_free \cup {msg["worker"]} /\ UNCHANGED msg_free
     ELSE msg_free' = msg_free \cup {msg["worker"]} /\ UNCHANGED timer_free
  /\ msg' = [msg EXCEPT !["worker"] = None]
  /\ UNCHANGED <<packets, queues, m_msg_queue, msg_netif, ticks, buf, netif, calls, forgotten>>
------------------------------------------------------------------------------
Announce(t) == CountIn(t) \/ GetMsgBlock(t) \/ NoMsgBlock(t) \/ MsgSend(t)

Recv == \/ RecvGetBuffer \/ RecvNoBuffer \/ AllocOrFree("recv") \/ RecvAllocFails
        \/ PutIn("recv") \/ PutInFull("recv") \/ Announce("recv")

App(t) == \/ AppGetBuffer(t) \/ AllocOrFree(t) \/ AppAllocFails(t)
          \/ LoopOut(t) \/ LoopOutFull(t) \/ LoopSend(t) \/ PutIn(t) \/ PutInFull(t) \/ Announce(t)
          \/ LinkOutOwn(t) \/ LinkOutOther(t) \/ ArpGetBuffer(t) \/ ArpNoBuffer(t)
          \/ RawOutPad(t) \/ SendAllocFails(t) \/ HeaderFits(t) \/ HeaderBlock(t) \/ HeaderFails(t)
          \/ PutOut(t) \/ PutOutFull(t)

Send == SendGet \/ SendInject \/ AllocOrFree("send")

Timer == TimerExpire \/ TimerGetBlock \/ TimerNoBlock \/ TimerPush

Worker == \/ WorkerPop \/ RunCallback \/ WorkerCheck \/ WorkerGet
          \/ LinkIn \/ LinkInFails \/ AllocOrFree("worker") \/ WorkerRelease

(* Nothing runs once PopNull has ended the program.                        *)
Crashed == pc["worker"] = "crashed" /\ UNCHANGED vars

Next == Recv \/ Send \/ Timer \/ Worker \/ (\E t \in Apps : App(t)) \/ Crashed

Spec == Init /\ [][Next]_vars

(* Every thread of the stack runs; a packet is not bound to arrive, an     *)
(* application not to send.                                                *)
Fairness == /\ WF_vars(Worker) /\ WF_vars(Send)
            /\ WF_vars(pc["recv"] # "idle" /\ Recv)
            /\ WF_vars(TimerGetBlock \/ TimerNoBlock \/ TimerPush)
            /\ \A t \in Apps : WF_vars(pc[t] # "idle" /\ App(t))

FairSpec == Spec /\ Fairness
------------------------------------------------------------------------------
HeldMsgs  == {msg[t] : t \in Threads} \ {None}

TypeOK ==
  /\ pkt_free \subseteq Bufs /\ blk_free \subseteq Blks /\ null_blks \in Nat
  /\ blks \in [Bufs -> SUBSET Blks] /\ got \in [Threads -> SUBSET Blks]
  /\ need \in [Threads -> Nat]
  /\ in_q \in [Netifs -> Seq(Bufs)] /\ out_q \in [Netifs -> Seq(Bufs)]
  /\ in_len \in [Netifs -> Int]
  /\ msg_free \subseteq Msgs /\ timer_free \subseteq Timers
  /\ m_msg_queue \in Seq(Msgs \cup Timers) /\ msg_netif \in [Msgs -> Netifs]
  /\ buf \in [Threads -> Bufs \cup {None}] /\ msg \in [Threads -> Msgs \cup Timers \cup {None}]
  /\ netif \in [Threads -> Netifs]

(* A packet is in one place only: in the pool, in one queue once, held by  *)
(* one thread, or forgotten for one reason.  So no error path frees it     *)
(* twice or goes on using it, whoever runs in between.                     *)
EachPacketInOnePlace ==
  \A b \in Bufs :
    (IF b \in pkt_free THEN 1 ELSE 0)
    + Cardinality({p \in Netifs \X (1 .. InCap) : p[2] <= Len(in_q[p[1]]) /\ in_q[p[1]][p[2]] = b})
    + Cardinality({p \in Netifs \X (1 .. OutCap) : p[2] <= Len(out_q[p[1]]) /\ out_q[p[1]][p[2]] = b})
    + Cardinality({t \in Threads : buf[t] = b})
    + Cardinality({r \in DOMAIN forgotten : b \in forgotten[r]}) = 1

(* Wherever a data block is: in the pool, popped by a thread that is       *)
(* inside alloc, or in a packet.                                           *)
BlockPlaces(k) ==
  (IF k \in blk_free THEN 1 ELSE 0)
  + Cardinality({t \in Threads : k \in got[t]}) + Cardinality({b \in Bufs : k \in blks[b]})

(* However allocations, their roll-backs and frees of several threads mix  *)
(* block by block, no data block is ever in two hands, and none is lost    *)
(* until alloc_header has put a null pointer into the pool.  A packet in   *)
(* the pool has no block left, nor has one that the receive thread could   *)
(* not fill and has forgotten: that leak costs a buffer, no block.         *)
BlocksConserved ==
  /\ \A k \in Blks : BlockPlaces(k) <= 1 /\ (null_blks = 0 => BlockPlaces(k) = 1)
  /\ \A b \in pkt_free \cup forgotten["recv_alloc"] : blks[b] = {}

(* A timer message block survives a full message queue: it is free, queued *)
(* or held.                                                                *)
TimerBlocksConserved == Timers \subseteq timer_free \cup Range(m_msg_queue) \cup HeldMsgs

(* "The worker puts the memory block back when it has consumed the         *)
(* message" (net.cc:80), and exmsg_netif_in does when msg_send fails       *)
(* (network.cc:60-63): a message block is always free, queued or held.     *)
MsgBlocksConserved == Msgs \subseteq msg_free \cup Range(m_msg_queue) \cup HeldMsgs

(* A packet queued at the Ethernet interface is taken by the worker even   *)
(* if no message block was left to announce it, as long as none was lost   *)
(* and the loopback interface does not hold them all.                      *)
EtherPacketsAreTaken ==
  [](MsgBlocksConserved /\ \A m \in Msgs : msg_netif[m] = "eth")
    => \A b \in Bufs : b \in Range(in_q["eth"]) ~> b \notin Range(in_q["eth"])

(* A queued timer message is run and its block returns, provided that the  *)
(* worker now and then gets out of do_netif_in, whose loop lasts as long   *)
(* as packets keep arriving.                                               *)
TimerMessagesAreRun ==
  []<>(pc["worker"] = "idle")
    => \A m \in Timers : m \in Range(m_msg_queue) ~> m \in timer_free
==============================================================================
