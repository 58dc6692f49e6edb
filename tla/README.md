# tinytcp: a TLA+ verification

This directory models the concurrent core of tinytcp: the lock-free ring queue, the
memory pools built from it, the threads that pass packets, messages and timer
callbacks through them, the packet buffer with its list of blocks, the timers, the life
of a network interface, and the configuration with the loggers that follow it. TLC
checks small instances; TLAPS proves the central theorems about the ring queue, the stack's
packets and blocks, the packet buffer, the timers, the interfaces, and the configuration with its
loggers, for every number of threads, packets, blocks, timers, interfaces and documents, every size
and value. Source paths are relative to the repository's root as it is mounted at
`src/`, so `src/src/net/net.cc` is the repository's `src/net/net.cc`.

## 1. Inventory

### Threads

| Thread | Code | What it does |
|---|---|---|
| worker | `ProtocolStack::work_thread_func`, net.cc:44 | pops messages for ever; drains an interface's in queue, or runs a timer callback; releases the message block |
| timer | `timer_thread_func`, net.cc:126 | collects expired callbacks and sends each to the worker as a message |
| receive, one per Ethernet interface | `PcapNetWork::recv_func`, network.cc:203 | takes a packet buffer, fills it, queues it, announces it to the worker |
| send, one per Ethernet interface | `send_func`, network.cc:255 | takes packets from the out queue, frees them, injects the copy |
| applications | outside the library (`tests/test_network.cc`) | take a packet and call `netif_out` |

They share no lock on this path: everything goes through `LockFreeRingQueue`. Any of
them may also log, use a timer, or load a configuration; there read-write locks and
mutexes are shared.

### Components

| Component | State | Operations | What makes it correct | Model |
|---|---|---|---|---|
| `LockFreeRingQueue` (lock_free_ring_queue.h) | `m_read_index`, `m_write_index`, `m_last_write_index`, `m_length`, slots | push, pop, size, is_empty | bounded FIFO; a refusal only when full or empty; exact length at rest; every claimed index gets confirmed | `RingQueue`, `PoolSetup` |
| `MemBlock`, `PktManager` (memblock.cc, pktbuf.cc:507) | ring of free blocks | construct, alloc, free | every block that is handed out is initialised and handed out once | `PoolSetup`, `NetStack` |
| `ProtocolStack` (net.cc, protocol_stack.cc) | message pool, timer message pool, message queue | get/release block, push_msg, worker and timer loops | no block is lost, queued packets are taken, callbacks run | `NetStack` |
| `INetWork`, `PcapNetWork` (network.cc) | list of interfaces, default interface | netif_open, netif_close, set_active, set_deactive, recv_func, send_func, exmsg_netif_in | every packet is announced; error paths keep one owner per packet; the list and the default interface agree with the interfaces' states | `NetStack` (data path), `NetIF` (life cycle) |
| `INetIF`, `LoopNet`, `EtherNet` (netif.cc) | in and out queue, state | netif_out, link_in, link_out, put/get of the queues | one owner per packet, also while queues are cleared; threads work on the pcap handle | `NetStack` (data path), `NetIF` (life cycle) |
| `PktBuffer` (pktbuf.cc) | list of blocks, capacity, cursor, reference count | alloc, free, headers, resize, merge, seek, read, write, copy, fill | capacity is the sum of the block sizes; the cursor points where m_pos says | `PktBuf`; `NetStack` follows its blocks among the threads |
| `ARPProcessor` (arp.cc) | none | make_request | the request is freed if it cannot be sent | `NetStack` |
| `TimerManager`, `Timer` (timer.cc) | sorted set, tickle flag, clock; per timer m_next, m_ms, m_cb | add, cancel, refresh, reset, get_next_time, list_expired_cb | a one-shot callback runs at most once, never after cancel, never early; due timers leave the set; no wakeup is lost | `TimerMgr` |
| `Config`, `ConfigVar` (config.h, config.cc) | value, listeners, lock | look_up, load_from_yaml, set_value, value, add/del/clear_listener, casts | listeners know the value; a load ends; what is written is read back | `ConfigLog`, `LexicalCast` |
| logging (log.cc) | logger registry; per logger level, formatter, appenders | look up, log, rebuild from the configuration, pattern parser | loggers match the configuration; a removed one is silent; a pattern loses no character | `ConfigLog`, `LogPattern` |
| `Thread`, `Semaphore`, `RWMutex`, `Mutex` | pthread objects | constructor and run; lock, unlock | a started thread lets its constructor return | `NetIF` (thread start), `ConfigLog` (read-write lock), steps elsewhere |
| `sys_plat` (sys_plat.cc) | the pcap library | pcap_device_open | | an outcome in `NetIF` |
| link_layer, ipaddr, endiantool, util, magic_enum | none | conversions, printing | | not modelled |

### How they interact

A received packet takes a buffer and data blocks from two pools, enters the
interface's in queue, and is announced with a block from the message pool through
the message queue. The worker pops the message, drains the *whole* in queue of the
interface it names, and releases the block. An outgoing packet enters the out
queue; the send thread frees it. A loopback packet goes through the out queue back
into the in queue on the caller's thread. Timer callbacks use a message pool of
their own but the same message queue. Failures (a pool empty, a queue full) are
error codes on each of these steps, and it is the order of these steps across
threads, and what each error path does with its packet, that tests hardly reach.

The application opens interfaces one after another; opening an Ethernet interface
starts its two threads, which read the pcap handle from it once. Clearing the queues of an
interface races those threads. Timers are added and changed by any thread, and collected by the
timer thread, which is woken through an eventfd when the first deadline moves forward.
Loading a YAML document sets configuration variables; the listener of `logs` rebuilds
the loggers, step by step, while others log through them.
`PROJECT.json` lists the hazards line by line.

## 2. Modules

| Module | Role |
|---|---|
| `BoundedFifo` | abstract: a bounded FIFO queue and the sequence of what it delivered |
| `RingQueue` | `push` and `pop`, one action per atomic access, any producers and consumers |
| `MC_RingQueue` | its instances for TLC |
| `RingQueue_proof` | type correctness; with one producer: delivery, bounds, refusals, and that `RingQueue` implements `BoundedFifo`; with any threads: claims match confirms, `m_length` is accounted for, only a stale read overfills the ring |
| `Words` | unsigned integers of a fixed width: wrapping, `&`, `\|` and `>>` |
| `PoolSetup` | ring sizing with bit arithmetic and wrapping indices, construction of a pool, single-threaded alloc/free |
| `PoolSetup_proof` | the ring size is the least power of two; masked indices may wrap; every block but one is pooled or held; which blocks are initialised |
| `NetStack`, `MC_NetStack` | all threads with all pools and queues; a ring operation is one step, allocating and freeing a packet takes one per block |
| `NetStack_proof` | one owner per packet, no data or timer block lost |
| `PacketBytes` | abstract: a packet is a string of bytes with a position |
| `PktBuf`, `MC_PktBuf` | packets as lists of blocks with gaps, and the cursor; every call is one step |
| `PktBuf_proof` | blocks stay within their payload and have one owner; the capacity is exact; the cursor is where `m_pos` says; `PktBuf` implements `PacketBytes` |
| `TimerMgr` | timers, the threads that use them, the timer thread, the clock; a section under a lock is one step |
| `AlarmClock` | abstract: timers that go off, all due ones together and in order, once their period has passed |
| `TimerMgr_proof` | type correctness and the safety properties of `TimerMgr`; `TimerMgr` implements `AlarmClock` |
| `NetIF` | the life of interfaces: open with thread start, activate, deactivate, close |
| `NetIF_proof` | threads have their handle; the list and the default interface agree with the states; one owner per packet |
| `LexicalCast` | how values are read from YAML and written to it (pure operators) |
| `LogPattern` | the parser of a formatter's pattern (pure operators) |
| `ConfigLog`, `MC_ConfigLog` | threads that load documents, listeners, loggers, threads that log |
| `ConfigLog_proof` | listeners know the value unless left behind; loggers match the configuration; a removed logger is silent; what is saved is read back; a pattern loses no character |
| `DataLemmas` | lemmas about sets, counts and queues the proofs share |

**RingQueue.** The variables are the class's fields, the locals of `push` and `pop`
per thread, a program counter per thread, and two histories (`claimed`: the value
of each claimed index; `popped`: what `pop` returned, in the order of its CAS).
Between two actions of a thread any other thread may run. The confirm loop
(l.90-93) is kept as written: a failing `compare_exchange_weak` changes the local
it is given. Abstractions: accesses interleave in program order (the orderings used
are relaxed and release; on x86-64 the compiled loads and stores keep this order);
spurious failures of `compare_exchange_weak` only repeat a loop and are left out;
indices are natural numbers, since the power of two `m_size` divides 2^32, and
`PoolSetup` has the wrapping arithmetic (`WrappedSlot` in `PoolSetup_proof`: a wrapped
index has the slot of the index); `m_length` does wrap.

**PoolSetup.** Each configured count is an initial state. The constructor's rounding
is the code's bit arithmetic on `IndexBits` bits: in `Words` a number is the sum of the powers
of two at its bits, and `&`, `|` and `>>` act on the set of them. Filling and the initialisation
loop of `PktManager` are one action per iteration. The pool is also used with many
rounds of alloc and free, so that both indices wrap.

**NetStack.** `pc[t]`, `buf[t]`, `msg[t]`, `netif[t]` are a thread's position and what
it holds. A packet's contents are left out; `blks[b]` is the set of its data blocks.
`PktBuffer::alloc` pops its blocks one by one into `got[t]` with `need[t]` still to come; when the
pool runs dry it releases them one by one, and `free` releases a packet's blocks and then the
packet one by one too, any other thread between any two of these; `ret[t]` is where the caller goes on. So
two allocations can both fail where one would have fitted. When `alloc_header` finds the pool empty it has put a
null pointer into the list (pktbuf.cc:183-188), which `free` hands to the pool: `null_blks` counts
those, they take the room of blocks, and the thread that pops one dereferences it (`PopNull`), which
ends the program.

What depends on a packet's bytes is a choice: whether a frame of the own address is short and padded by `resize`
(the data end their block, so that `resize` needs one more),
whether the Ethernet header fits in front of the first block, whether `link_in` accepts the frame. A
packet put out always goes to the broadcast address, so that netif.cc:383-384 is never reached. Interfaces stay
active: nothing in the repository calls `set_deactive`. The clearing of queues it would do, which
pops beside the worker, is `NetIF`'s subject.

A packet that the code drops without freeing it is put in `forgotten`, by the place
where that happens: frames `link_in` accepted (the code has no upper layer yet),
`recv_func` without data blocks, `link_out` to another host (an ARP request is
sent in its place), and `netif_out` to a full loopback queue. These leaks are recorded, no property
calls them wrong: nothing in the repository claims otherwise. An application cannot
tell from the error code whether the packet was freed (network and interface
code free on some paths and not on others), so the model's applications never free after
`netif_out`, as `tests/test_network.cc` does not. The length of an in queue is a variable apart from its contents,
because `push` counts late and the worker's loop reads it. `recv_func` blocks on
pcap, so a packet need never arrive.

**PktBuf.** `list[p]` is `m_blk_list`, each entry a block with where its data starts, its
length and its payload; `cur[p]` is `m_pos`, `m_cur_blk` (an index of the list) and
`m_blk_offset`. The walk that write, read, fill, copy and seek share is `Visit`: a recursive
function, one turn of the code's loop for each number, that goes on by `move_forward` a block at a
time. `Ends(l)[i]` is how many bytes the first i blocks hold; what the loops of `remove_header` and
`resize` stop at is said with it (`Gone`, and the block with byte n). Each branch of `alloc_header` and
`resize` is an action, with what it leaves behind when the allocation inside
fails. `resize` is as written: the growth in place adds the whole size, a
difference below zero wraps, and the shrinking loop releases the wrong blocks. A call
that puts a null or indeterminate pointer into the pool ends the behaviour, so
these runs do not check for deadlock. Three abstractions: a packet's calls are
atomic (packets are handed over, not shared); a fresh block reads as zeros; the cursor
is not used between a change of the list and the next `reset_access`, which is what every
caller in the repository does (netif.cc:356, network.cc:242 and 270). The code itself does
not invalidate the cursor.

The bytes the last call moved (`out`) are read only by that call's own step, so TLC's VIEW
leaves them out; the two packets are symmetric. What a caller writes is `Source`, in which
each byte differs from its neighbours.

**TimerMgr.** `m_timers` is the set; its order is `Before`, by `m_next` and then by address,
for which the timers' numbers stand. A client's `pc` is between the sections of a call: before the
lock of `add_timer` (the constructor has read the clock), between unlock and tickle, between
`reset`'s unlocked comparison and its lock. The timer thread goes through `get_next_time`,
the wait, the reading of the clock, `list_expired_cb`, and hands the callbacks over one by one. The clock
advances at any time and may be set back. Arithmetic on times is modulo `Width`, as
`uint64_t`. The subtraction in `reset` never wraps (`ResetIsExact`); the one in `detect_clock_roll_over` does where the time
read before was less than an hour, which the run's `Hour` of 1 leaves out (the theorems assume nothing of `Hour`).
Histories (`armed_at`, `cancelled`, `done`, `waits_for`,
`written`) feed the properties only, and the mapping to `AlarmClock`, in which a call is one step under the lock and
neither tickles nor clock readings show.

**NetIF.** One thread controls the interfaces (`at`), as `tests/test_network.cc` does; the
code has no lock for more. `run[t]` follows a thread through `pthread_create`,
`Thread::run` and its loop, and `pcap[t]` is its copy of `m_ops_data`. Clearing a queue is test, pop,
free, with other threads in between. When another thread popped in the meantime the code does not notice
(netif.cc:105-108): in the first turn of the loop it frees a pointer it has not set; in a later one the packet of
the turn before, a second time. If that packet is still in the pool, nothing happens, since `m_ref` decides who
returns it; if someone took it again, it goes to the pool under its new user, and `refreed` names it. From there on two users
work on one list of blocks without a lock, and the model stops. Put operations have their full-queue paths:
`link_out` frees the packet, a loopback interface leaves it with the caller. Where the code frees a pointer it has
not set, dereferences `end()` or a null handle, or uses a closed handle, the state is `undefined` and the
behaviour ends there. Ring operations are one step (see `RingQueue` for their inside).

**ConfigLog.** `set_value` is compare and notify under the read lock, then store under
the write lock. A listener of `groups` registers (`add_listener`) and reads the value it starts from (`read_value`) in two calls, with any
calls of others between; it is removed alone (`del_listener`) or with all others
(`clear_listener`), or throws. Histories: `told[u]` is the value u knows, `alone` the `set_value` of `groups` that no
other has overlapped, `behind` the listeners that may not know the stored value: they registered and have not read it yet, or
read while a `set_value` was under way, or two overlapped and one was stored, or they heard a value that was
not stored because a later listener threw. A `set_value` that runs alone takes out of `behind` each listener it
calls. `disturbed` records that two `set_value`s of `logs` have overlapped, each of which would rebuild the loggers. The listener of `logs` is one action per call it makes on a
logger, each of which locks that logger alone. A reload in which a logger is unchanged
uses a null pointer (log.cc:669); the model then stops (`crashed`). A document is the sequence
of nodes `list_all_member` makes of it. The pattern parser and the casts are translated as
operators: `ItemAt` is one turn of the parser's loop with its index arithmetic, and `LexicalCast` has
the casts of each container (vector and list, the sets and the maps are pairwise the same
code), nested in the variable `groups`.

## 3. Runs

| Run | Bounds | What it shows |
|---|---|---|
| ring_spmc | 1 producer, 2 consumers, 2 values, 4 slots, 5 pushes | the ring is a bounded FIFO (`ImplementsFifo`), loses and doubles nothing, refuses only when full or empty |
| ring_mpmc | 2 producers, 2 consumers, one thread both, 2 slots, 4 pushes | index and length accounting; every claimed index gets confirmed, by whichever producer; the ring is overfilled only by a push whose read index was loaded a lap ago |
| ring_confirm (violation) | 2 producers, 1 consumer | an index is confirmed before its element is stored |
| pool_sizes | 4-bit indices, counts 1 to 8, 1 block out at a time | sizing, masks after wrap-around, exactly one unused block, initialisation by rotation for powers of two |
| stack_safety | 3 packets, 2 data blocks, received packets of 1 or 2, 1 message block, 2 applications, queues of 1, no timer callback | one owner per packet on every path, error paths included; every data block in one place while allocations, roll-backs and frees mix block by block, null pointers in the pool included |
| stack_live | 2 packets, 2 data blocks, 3 message blocks, 1 timer block, 2 callbacks, no application | timer blocks conserved; queued Ethernet packets are taken; queued callbacks run |
| stack_leak (violation) | the same | a message block is lost when the queue is full |
| pktbuf | 2 packets, 2 blocks of 3 bytes, sizes to 3, 3 bytes a packet (growth by `alloc_header`, `alloc`, `merge_buf`), byte values 0 and 1 | blocks within their payload and with one owner, `m_capacity` exact, cursor consistent, after every success and failure; `PktBuf` implements `PacketBytes`: the cut into blocks never shows |
| pktbuf_shrink (violation) | the same, one byte value | `resize` to a smaller size loses a block |
| timer | 2 clients, a one-shot and a recurring timer, periods 1 and 2, 3 calls, time to 2, one setting back | a callback exists exactly while its timer is in the set; a one-shot is in one place; `TimerMgr` implements `AlarmClock`: timers due by the time read go off together, in order, and none early; no wakeup is lost; due timers leave the set |
| conflog | 2 loading threads, 4 documents, 2 loads, 2 loggers, 1 logging thread, 1 listener | loggers match the configuration, removed ones stay silent, a listener knows the value unless it was left behind, values and loggers that are written are read back, patterns lose nothing, every load ends |
| netif | 2 interfaces (each `loop` or `eth0`), 2 packets, queues of 1 | the list and the default interface agree with the states; threads have the handle; while queues are cleared beside the threads, one owner for every packet but one freed a second time; `netif_open` returns |

Why these bounds are enough to be interesting. Five pushes write a ring of four slots
round once and meet it full and empty; with two slots, four pushes go
round twice, and two producers are what both defects of the ring need. A second consumer
gives the copy-before-CAS race. Four index bits wrap after sixteen pushes, several
rounds of every ring up to eight slots. In the stack every pool can be exhausted and every
queue filled by fewer threads than there are, so each error path runs with each
other thread anywhere. Two blocks of three bytes are
enough for gaps on either side, calls that touch one and two blocks, sizes
that end inside and at the end of a block, growth in place, and a pool that runs out at every call
that takes a block. Two timers with periods 1 and 2 can be due together, in either order, and one
before the other; three calls of two clients meet a collection in every order; with `Width` 16 and an `Hour` of 1
a clock set back is detected and missed. Four documents add, change and remove a
logger, leave one unchanged, and fail to parse; two loads are enough to overlap. With one listener, one that
throws after another has heard does not occur in the run; the theorem covers it. Two
interfaces give a list in which one is found for the other, and a default that passes from one to
the other. `MaxPush`, `MaxTicks`,
`MaxHeld`, `MaxBlks`, `MaxSize`, `MaxCap`, `MaxNow`, `MaxCalls`, `MaxBack`, `NumTimers`, `MaxLoads`, `MaxOpens` bound the
models; everything else is the code's.

With a single message block the liveness property of stack_live fails: the block in
flight may be past its drain when the next packet is queued without a message, and that packet waits for the
next arrival. The code's default is 1024 blocks; the run
uses three, and `EtherPacketsAreTaken` also assumes that no message block was lost and
that the loopback interface does not hold them all, which `stack_leak` shows is
not always so.

`ClaimsGetConfirmed` is about indices, not about producers. A producer in its confirm loop can wait for ever under
weak fairness if others go on pushing: each of its attempts may find that another producer has just confirmed
its index and that the confirm index has moved on. That a single push returns is therefore not claimed.

### Fairness

Every thread of the stack is an endless loop on its own kernel thread, so weak
fairness of each thread's step is what the scheduler gives. `RingQueue` requires it of
a producer inside a call and of every consumer (all are polling loops); nobody has
to call `push`. `NetStack` requires it of worker, send and timer
threads and of the receive thread inside a call, never of arrivals, of expiries or of
an application's decision to send. `TimerMessagesAreRun` assumes that the worker
comes out of `do_netif_in` now and then: its loop (net.cc:93) lasts as long as
packets keep arriving, so without that assumption callbacks can starve.

`TimerMgr` is fair to the timer thread alone, which never sleeps (see section 5); clients may
stop inside a call. `ConfigLog` assumes that while some loading thread can take a step, one
does: a thread inside `load_from_yaml` is not suspended for ever, and nothing about the order
in which locks are given. `NetIF` assumes it of the thread inside `netif_open` and of the threads it has started;
traffic, and the decision to open or close, are not fair.

## 4. Proofs

The assumptions are `RingAssumption` (m_size at least 2, LengthModulus positive) and,
per theorem, what its statement says: `OneProducer` (any two producers are equal) or
`FiniteThreads`.

* `TypeCorrect`: `Spec => []TypeOK`. The interesting conjunct is that a thread inside
  `push` holds a value and only producers get there.
* **One producer.** `NoLossNoDuplicate` is not inductive: whether the copy made
  before the CAS is the right element depends on what the producer may have done
  since. `OneProducerInv` adds (1) `Bounds`, the order of the three indices and
  the distance of at most m_size - 1; (2) `ProducerInv`: a stale read index only
  makes the producer more careful, and between claim and confirm the write index is
  exactly one ahead; (3) `ConsumerInv`: if m_read_index still is what the consumer
  loaded, the slot it copied has not been reused, since the writer stays within
  m_size - 1 of m_read_index. Slots of distinct unread indices differ by
  `SlotsDistinct`, from `DivMod` arithmetic on `%`. From the invariant follow
  `DeliversInOrder`, `NotOverfullWithOneProducer` and `RefusalsWithOneProducer`.
* `RingImplementsFifo`: under the mapping `items <- Unread`, `delivered <- popped`, the
  confirm of a push is `Put`, the CAS of a pop is `Take`, every other step stutters.
* **Any threads.** `AnyThreadsInv` counts threads by position: m_write_index is
  m_last_write_index plus the producers between claim and confirm, whichever index each
  of them confirms; m_length is off by the calls that have not counted themselves. The
  set cardinalities change by one per step (`AtEnter`, `AtLeave`).
* **The overfull ring.** `OverfullNeedsStaleRead` rests on `ClaimInv`: what a producer loaded as read index is not ahead of
  m_read_index, and at its CAS the slot after the write index it loaded is not that of the read index it loaded. So a
  CAS that overfills the ring finds the write index at least a lap past that read index.

For `PoolSetup` the assumptions are that an index has at least two bits (the code's has 32; with one bit no
power of two from 2 up is a word) and that a count is at most half the indices (`round_uppower_of_two` of more
would not fit a word). No bound on the blocks taken is assumed. The lemmas go up in four steps:

* A set of positions and a word determine each other (`SumsInjective`, `SumsOnto`), so the bits of the results of
  `&`, `|` and `>>` are what they should be (`OperatorBits`); a number below a power of two has no bit from there
  up (`SmallBits`), one at or above it has (`HighestBit`).
* Sizing: `num & (num - 1)` is zero for powers of two only (`PowerTest`). After k of the shifts in `ceil_power_of_two` a bit
  is set where one of the `Power[k]` bits from it upwards was set at first (`SmearsSpread`), so in the end all up to the highest are, and
  the difference is the highest alone (`CeilIsHighestPower`). `RingSizeLeast` puts these together.
* Masks: `& (m_size - 1)` is the remainder (`MaskIsRemainder`), and wrapping first changes nothing because the size divides the number of words
  (`WrappedSlot`); going round by less than a lap leads to another slot (`RoundTheRing`). So `push` and `pop` tell a full and an empty ring
  (`RingTests`) from how far the indices are apart.
* `SetupInv`: the write index is the read index plus the blocks in the ring, wrapped (`IndexInv`); while the ring is
  filled its blocks are the first ones in order (`FillInv`), then every block but one is in it or held, once (`BlocksInv`); during
  the rotation the k-th block in the ring is the one whose turn comes k turns later (`TurnInv`), so after `cnt` turns
  the number of times each was initialised is known (`Turns`).

For `TimerMgr` the assumption is `TimerAssumption`: periods are positive, and the
latest deadline fits the clock's width (of an hour nothing is assumed: it may wrap). The
properties of the run are proved in layers, each inductive given the one before:

* `Typed`: the variables' types, and that what a client holds in the middle of a call is
  a timer that was made, with a period (`CallsOK`).
* `InSetOK`: a timer has a callback iff it is in the set or some client is about to insert it, and no two
  clients are about to insert the same one. Two clients inside `add_timer` hold distinct new timers.
* `OnePlaceOK`: a one-shot callback is in the set, collected, handed over or cancelled. The step
  that matters is `list_expired_cb`, which moves the expired timers from one place to another: `InOrder`
  lists each of them once.
* `DeadlineOK`: `m_next` is where the running period began plus the period, also when the clock was set back
  and after `reset` has computed it in unsigned arithmetic (`ResetIsExact`). `ClockFits` is the
  arithmetic: within the width `% Width` is no wrap.
* `TimingOK`: unless the clock was set back, `m_previous_time` does not lie ahead of the clock (nor, while
  the thread lists, of the time it lists for), so that `detect_clock_roll_over` is false; every timer's period
  starts no later than now.
* `WakeupOK`, about the waiting timer thread: when `m_tickled` is set, the event is written or a tickle is on its
  way; and, unless the clock was set back, no timer of the set is before the time the thread waits
  for, or again the event is written or a tickle is on its way.

`TimersImplementAlarmClock` combines all but the last. A timer's phase (`Phase`) is read off the sets it is in, so a step that
leaves a timer in its sets leaves its phase (`SamePhase`), and every section under the lock is one action
of `AlarmClock` (`AlarmMade` to `AlarmGoesOff`) or none. The step that matters is again `list_expired_cb`: the time it
lists for was read before the lock, and calls may have come between; what it takes is exactly what is due
by that time, or everything after the clock was set back (`ExpiredIsDue`). `CollectedInTime`, which the abstract
specification implies, is proved on its own as well (`NothingCollectedEarly`).

For `NetIF` the assumption is `NetIFAssumption` (bounds are natural numbers). Two inductive invariants:

* `StartInv`, for `ThreadsHaveHandle`: at each place `netif_open` can be in, how far the threads it starts have
  come (`OpenedSoFar`); a thread exists only once the pcap handle is stored, after which
  nothing overwrites `m_ops_data`, and its semaphore is up only after `Thread::run` has passed it
  (`ThreadsOK`). So whoever came through both waits left two running threads (`Started`).
* `NetInv`, on top of it, for `NetworkKnowsInterfaces`: the state the interface in hand has at
  each place (`InHand`), which interfaces are listed (`Listed`) and what the default is (`DefaultOK`). What
  `find_netif_by_name` returns is a place in the list (`FoundIsListed`, from the existence of a
  least element), and removing it keeps the others, once each (`RemoveFromList`).

* `PlacesInv`, for `PacketsInOnePlace`: a queue holds a packet once and at most `QueueSize` of them (`QueuesOK`), and every
  packet is in one of the places the pool, the controlling thread's hands (only between a successful pop and the free
  of a queue it clears), a thread's hands, a queue (`OnePlace`). A step moves one packet from one place to another or
  none; `Move` says once for all that this keeps `OnePlace`. Freeing a packet again (`FreeAgainMoves`) moves nothing if it
  is in the pool; otherwise it breaks `PlacesInv` for that packet alone, so the invariant is `Healthy`, `PlacesInv` until
  then, and what remains true of all other packets is `PlacesCountedAll` before that step.

For `NetStack` the assumption is `StackAssumption`: bounds are natural numbers, the sets of packets, messages and
applications are finite (pools are allocated once, and a kernel runs finitely many threads), message and timer blocks
are different blocks, and no application bears the name of one of the stack's threads.

* `HoldsInv`: the types, and for each place a thread can be in whether it holds a packet, a message block or a
  timer block there (`Holds`). No error path leaves a thread with a packet that it
  neither frees, queues nor forgets.
* `StepKinds`: every step of the program is one of a few kinds (takes a packet, gives it blocks, frees it, puts it into a
  queue, moves on, ...), so that the invariants below are proved per kind and not per line.
* `PlacesInv`, for `EachPacketInOnePlace`, as for `NetIF`, with forgotten packets as places of their own.
* `NoTimerBlockLost`: a timer block is free, queued or held, by the steps that touch one.
* `BlocksInv`, for `NoBlockLost`: no data block is in two places (`NotTwice`: pool, a thread's `got`, a packet), each is
  in one as long as the pool holds no null pointer (`Somewhere`), and packets that are free, about to be filled or forgotten for want of
  blocks have none (`Empty`). Two facts carry the steps: a thread inside `alloc` or `free` is the only one that holds its
  packet (`OwnPacket`, from `PlacesInv`), and a block that comes back finds room in the pool (`RoomForIt`), because
  the pool holds fewer than all of them.

For `PktBuf` the assumption is `PktBufAssumption`: a block has at least a byte, bytes are 0 up to some number, bounds
are natural numbers. The inductive invariant `PktInv` is

* `Typed`: a list is a sequence of blocks of the pool (or null, after a failed `alloc_header`), in each of
  which the data lie within the payload and are not empty (`GoodBlocks`);
* `Owned`: a block is in the pool, leaked or in one list, and there once (`Distinct`);
* `PacketInv`: a packet not in use has no blocks, one in use has the sum of its blocks as its
  capacity, and a cursor in use `Points` into its list: at a byte of its block that is preceded by
  exactly `m_pos` bytes, or behind the last block.

The lemmas go from blocks to calls. First what `Ends` is for a list put together of two (`ConcatLists`), split
(`PartsOfList`), and changed at either end (`FrontGrows`, `BackGrows`); from these, what `CutFront` and the
shrinking `resize` leave (`FrontIsCut`, `EndIsCut`) and what `alloc` adds (`GivenBlocks`: blocks of the pool,
all different, n bytes together, in either order). Then cells: `CellsOf` lists every byte once and in order
(`CellsAre`), a valid cursor is at one of them (`CellsAtCursor`), one turn of the walk keeps it valid
(`TurnIs`), and as many turns as there are blocks finish the walk (`VisitIs`). At last one lemma for
each call, by `ReshapedKeeps`, which says once for all that a call on one packet may take blocks from the pool or
give some back. `Ends`, `CellsOf` and `Visit` are recursive functions; that they exist at all is
`RecursionExists` in `DataLemmas`.

The second part of `PktBuf_proof` shows that `PktBuf` implements `PacketBytes`, under the mapping of `Abstract` (the bytes of a
packet are `Content` of its list, its position the cursor's) and with `PktInv` as the invariant. `Content` is by
definition a walk over all cells; `ContentIs` says that it is the one string which `Holds` what the
blocks hold, each byte at its place. So whether two lists have the same bytes can be shown block by block:

* `ContentConcat`: the bytes of two lists joined are theirs joined. From it, `FrontMoves` and `BackMoves` (a block that
  grows or shrinks at one end), `CutFrontKeepsEnd` and `EndCutKeepsFront` (what `remove_header` and the shrinking
  `resize` leave is the end, or the beginning, of what was there);
* `MovedTogether`: `set_cont_header` does not change the bytes at all;
* `BytesReadAre` and `BytesStoredAre`: what is read, or overwritten, in the cells of a walk is the string from the
  position on (`CellsAfter`), and a write touches no other byte since no cell is visited twice (`OneCell`).

Then one lemma for each call (`...Shows`), and `StepShows`: every step is an abstract one or does not show.

For `ConfigLog` the assumption is `ConfigAssumption`: a logger's name is in `Names` once, a thread either loads or logs,
the default pattern is one `LogFormatter::init` accepts, no logger is named by the empty string (which stands for an undefined field),
and a document is a finite tree: the value of `logs` is a sequence of entries that each have a name, a pattern
and a sequence of appenders, the shape `LexicalCast<std::string, std::set<LogDefine>>` iterates over, and the value
of `groups` is a node whose parts the casts look into are sequences (`MapNode`; of what they hold
nothing is assumed, a scalar may stand where a list should). The
inductive invariant has five parts, each inductive given the ones before:

* `StageInv`: at each stage of `set_value` and of the listener of `logs`, what the thread's document, its new value and its list
  of what is left to notify look like (`AtStage`); in particular the loggers left to handle are
  distinct and in the order of `std::set`, which is where `InNameOrder` and `ParseLogs` need lemmas of their own.
* `OneAtATime`: as long as no overlap has been recorded for `logs`, at most one thread is inside its `set_value`.
* `ListenersInv`, for `ListenersKnowValue`, which holds with overlaps and throwing listeners: a call that is alone is the
  only one between its locks (`AloneInv`); the list of whom to notify has each once (`QueuesInv`); and a listener not
  behind knows the stored value or has been notified by some call under way, and if that call is alone, knows the value it
  is going to store (`Knows`).
* `LoggersInv`, for `LoggersMatchConfig` and `RemovedStaysSilent`: while the listener of `logs` works, the loggers it has
  done have the new definition, the one in hand has as much of it as its stage says (`Progress`), those not reached
  have the old one, and a removed one is at `NEVER` or still to be removed. At rest that is the property.
* `ValuesInv`, for `SavedConfigReloads` and `FormattersAreSound`: values, stored or on their way, are such as the casts
  give (`IsConfig`, `IsGroups`), a logger's level is one that has a name or `NEVER`, its appenders are files with a name or
  the console, and every pattern in use was accepted. `FormattersAreSound` is not inductive as it stands: it
  says nothing of the patterns of a document that is still being applied.

That what is written is read back is a lemma for each container, from the inside out (`VectorPrinted`, `SetPrinted`,
`MapPrinted`; `AppendersPrinted`, `EntriesRead`, `ConfigPrinted`), and that a document, whatever it says, is read as
a value that can be written is another (`MapRead`, `ConfigRead`). The text of a level is read as
that level (`LevelRead`), except that of `NEVER`. For the patterns, `AcceptedIsSound`: at every position the scan
cuts off exactly the characters its item stands for (`CutGood`), or the item is an error, and it always goes on
further right; so the items from a position on stand for the rest of the pattern, by induction from its end (`CutsExist` says that they
are a function at all, which a recursive definition does not promise). The proof found a mistake in the model,
not in the code: an item with empty braces, `%d{}`, was not told apart from one without, so
that such a pattern, which the parser accepts, would have lost its braces. Now `fmt` tells them apart, and
`conflog` has a document with such a pattern.

`DataLemmas` has what these share: a non-empty set of numbers has a least element, a set of
numbers with 0 and with each successor has them all (`CountingUp`), remainders,
appending to and taking from a queue. They are by induction on numbers stated as a *set* of numbers, which the
provers can instantiate where an operator parameter is out of reach; so the lemmas about
`FlattenSeq` in `ConfigLog_proof` are about every sequence.

The in and out queues of `EtherNet` have one producer in the repository only as long as one
thread receives or sends; pools and the message queue have several, which is why
the two violation runs matter.

Every safety invariant and action property of a passing run is stated by a theorem. Only model-checked: the liveness
properties, which are out of the prover's reach, as `ENABLED` is. The library's bit operators are declared recursive and
cannot be reasoned about, which is why `Words` defines its own.

## 5. Disagreements found

See `findings` in `PROJECT.json`: the confirm loop confirms foreign indices
(lock_free_ring_queue.h:90), message blocks are lost when the queue is full (network.cc:122), a
shrinking `resize` releases the successor of the block it removed (pktbuf.cc:283).

`PktBuf` also models, without a run of their own: `resize` to a larger size grows *by* the
size when the last block has room for that much (l.248), although `ether_raw_out` pads to the
minimum frame with it (netif.cc:351); it fails for want of memory when the last block has more room than the
difference but less than the size (l.253-258: the subtraction wraps); `alloc_header` on an empty pool leaves a
null block that `free` then puts into the pool (l.183-188); `resize(0)` frees the packet
itself (l.264-266).

The ring and the pools, seen in traces of earlier runs: with two producers and a consumer `push`'s full
test compares a read index that is stale (lock_free_ring_queue.h:77-82), so more than m_size - 1
elements get in and the ring then looks empty and its elements are lost (`NeverOverfull` is proved for one producer, and
`OverfullOnlyByStaleRead` says how it comes about with several); with a configured count that is no power of two the last
blocks of the pool never get a payload, since `PktManager` rotates the pool only as often as
configured (pktbuf.cc:512; `PowerOfTwoCountInitialisesAll` says when it suffices).

Timers (timer.cc, net.cc). `epoll_wait` is given the eventfd instead of the epoll descriptor (net.cc:143): it
fails at once and the timer thread polls. `refresh` never tickles; only with the clock set back can
that bring a timer forward. A recurring timer's callback that has been collected still runs
after `cancel` returned true. `reset` with an equal period and without from_now returns before it takes the lock, having
read `m_ms` without it.

Configuration and logging. A reload in which some logger is unchanged dereferences null
(log.cc:669; the comment at 652 names only new, changed and removed ones). A record logged between
`clear_appenders` and `add_appender` is lost, and a `FileLogAppender` made anew truncates its
file. A logger without appenders does not fall back to the root logger, since the test for it is
inside the loop over the appenders (log.cc:156-163; the comment at 500 promises it). An
appender's level and formatter in a document are never used. `%%` in a pattern is not a literal percent sign
(log.cc:377-380). `LoggerManager::to_yaml_string` locks a local mutex (log.cc:508), and writes a
removed logger's level as `UNKNOWN`, which is read back as the level that passes everything. Two overlapping
`set_value` calls notify in one order and may store in the other; a listener that throws
leaves some listeners told of a value that is not stored; one that registers and reads the value between the two
locks has the old one. A scalar given to a list variable
makes it empty without an error.

Interfaces. `find_netif_by_name` returns the first interface whose name *differs* (network.cc:39: `strcmp` is not
compared with 0). When pcap cannot be opened, `pcap_getnonblock` is called on the null handle before it is
tested (netif.cc:239-243); `pcap_device_open` leaks the handle when an option cannot be
set. `netif_close` closes the handle under threads that go on using it, and nobody deletes a closed
interface. When another thread pops between the test and the pop of `clear_in_queue` or `clear_out_queue` (netif.cc:104-107), it
frees an unset pointer, or the packet of the turn before a second time, even under a new user.

## 6. Not modelled, and what is left

Left out on purpose: what each format item prints, files, and addresses and header contents
(no property depends on them); link_layer, ipaddr, endiantool and util (pure, without state, printing for the
most part); `sys_plat`'s semaphores, mutexes and threads (unused by the
stack); magic_enum (vendored); `~INetWork`, `Thread::join` and static destruction (the
threads never end); failure of `pthread_create`; several threads controlling interfaces.

Further work: the queues of `NetStack` are one step each, which rests on `RingQueue` implementing `BoundedFifo`; that is
shown with one producer, and with several producers a queue can be overfull (section 5). A `NetStack` over the
ring's own steps would show what remains of its properties there.
