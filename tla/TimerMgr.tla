------------------------------ MODULE TimerMgr ------------------------------
(***************************************************************************)
(* TimerManager and Timer (timer.cc), the timer thread that collects       *)
(* expired callbacks (net.cc).  What becomes of a callback once it is      *)
(* handed to the worker is in NetStack.                                    *)
(*                                                                         *)
(* A section under the write lock is one step; what the code does before   *)
(* the lock (reading the clock, reset's comparison) or after unlock (the   *)
(* tickle) is a step of its own.  Timers are numbers: a number stands for  *)
(* the address, the second key of Comparator.                              *)
(***************************************************************************)
EXTENDS Integers, Sequences, FiniteSets

CONSTANTS
  NumTimers,   \* bound of the model: Timer objects ever made
  m_recurring, \* those their callers make recurring
  Clients,     \* threads that call the timers' operations
  Periods,     \* the values of ms callers pass
  MaxNow,      \* bound of the model: the clock
  MaxCalls,    \* bound of the model: calls of the clients
  MaxBack,     \* bound of the model: times the clock is set back
  Jumps,       \* by how much it is set back
  Hour,        \* 60 * 60 * 1000, at the model's scale
  Width        \* uint64_t holds 0 .. Width - 1

Timers == 1 .. NumTimers

ASSUME TimerAssumption ==
  /\ NumTimers \in Nat /\ m_recurring \subseteq Timers
  /\ Periods \subseteq Nat \ {0}
  /\ MaxNow \in Nat /\ MaxCalls \in Nat /\ MaxBack \in Nat /\ Jumps \subseteq Nat \ {0}
  /\ Hour \in Nat
  /\ Width \in Nat \ {0} /\ \A p \in Periods : MaxNow + p < Width

VARIABLES
  now,             \* get_current_ms: wall clock
  backs,           \* how often the clock was set back
  m_timers,        \* the set
  m_tickled, m_previous_time,
  made,            \* timers whose constructor has run
  m_cb,            \* timers whose m_cb is not null
  m_ms, m_next,
  calls,           \* calls made so far
  pc, arg,         \* each client: where it is, and its call's arguments
  tpc,             \* timer thread: where it is
  now_ms,          \* list_expired_cb: the clock it read
  cbs,             \* callbacks list_expired_cb returned, by timer
  waits_for,       \* history: the deadline get_next_time saw, or Width
  written,         \* history: eventfd_write while the timer thread waits
  armed_at,        \* history: the time the running period began
  cancelled,       \* history: timers for which cancel returned true
  done             \* history: one-shot timers whose callback was handed over

set_vars == <<m_timers, m_tickled, made, m_cb, m_ms, m_next>>
clock    == <<now, backs>>
client   == <<pc, arg, calls>>
thread   == <<tpc, now_ms, cbs>>
history  == <<waits_for, written, armed_at, cancelled, done>>
vars     == <<set_vars, clock, client, thread, m_previous_time, history>>

NoCall == [timer |-> 0, ms |-> 0, from_now |-> FALSE]

Init ==
  /\ now = 0 /\ backs = 0 /\ m_previous_time = now
  /\ m_timers = {} /\ m_tickled = FALSE /\ made = {} /\ m_cb = {}
  /\ m_ms = [t \in Timers |-> 0] /\ m_next = [t \in Timers |-> 0]
  /\ pc = [c \in Clients |-> "idle"] /\ arg = [c \in Clients |-> NoCall]
  /\ calls = 0
  /\ tpc = "get_next" /\ now_ms = 0 /\ cbs = <<>>
  /\ waits_for = Width /\ written = FALSE /\ armed_at = [t \in Timers |-> 0]
  /\ cancelled = {} /\ done = {}

(***************************************************************************)
(* Order of the set                                                        *)
(***************************************************************************)
Before(next, s, t) ==
  \/ next[s] < next[t]
  \/ next[s] = next[t] /\ s < t

IsFront(t, S, next) == \A s \in S \ {t} : Before(next, t, s)

(* The elements of S from front to back: a set of one sequence.            *)
InOrder(S) ==
  {f \in [1 .. Cardinality(S) -> S] :
     /\ \A t \in S : \E i \in DOMAIN f : f[i] = t
     /\ \A i, j \in DOMAIN f : i < j => Before(m_next, f[i], f[j])}

(* Constructed, and not yet in the set.                                    *)
Inserting == {arg[c].timer : c \in {d \in Clients : pc[d] = "insert"}}

(* Timers a caller can hold: those add_timer has returned.                 *)
Known == made \ {arg[c].timer : c \in {d \in Clients : pc[d] \in {"insert", "tickle_new"}}}

(***************************************************************************)
(* The clients' calls                                                      *)
(***************************************************************************)
Return(c) == pc' = [pc EXCEPT ![c] = "idle"] /\ arg' = [arg EXCEPT ![c] = NoCall]

Call(c) == pc[c] = "idle" /\ calls < MaxCalls /\ calls' = calls + 1

(* add_timer(val, lock): insert, and decide under the lock whether the     *)
(* timer thread must be woken; the wake-up comes after unlock.             *)
InsertAt(c, t, next, tickle) ==
  LET at_front == IsFront(t, m_timers \cup {t}, next) /\ ~ m_tickled IN
  /\ m_timers' = m_timers \cup {t}
  /\ m_tickled' = (m_tickled \/ at_front)
  /\ IF at_front THEN pc' = [pc EXCEPT ![c] = tickle] /\ UNCHANGED arg ELSE Return(c)
  /\ UNCHANGED calls

(* The constructor: m_next is computed before the lock is taken.           *)
NewTimer(c, t, ms) ==
  /\ Call(c) /\ t \notin made
  /\ pc' = [pc EXCEPT ![c] = "insert"]
  /\ made' = made \cup {t} /\ m_cb' = m_cb \cup {t}
  /\ m_ms' = [m_ms EXCEPT ![t] = ms]
  /\ m_next' = [m_next EXCEPT ![t] = now + ms]
  /\ armed_at' = [armed_at EXCEPT ![t] = now]
  /\ arg' = [arg EXCEPT ![c] = [NoCall EXCEPT !.timer = t]]
  /\ UNCHANGED <<m_timers, m_tickled, clock, thread, m_previous_time,
                 waits_for, written, cancelled, done>>

add_timer(c) ==
  /\ pc[c] = "insert"
  /\ InsertAt(c, arg[c].timer, m_next, "tickle_new")
  /\ UNCHANGED <<made, m_cb, m_ms, m_next, clock, thread,
                 m_previous_time, history>>

(* on_timer_inserted_at_front, after the lock was released.                *)
tickle_event(c) ==
  /\ pc[c] \in {"tickle", "tickle_new"}
  /\ Return(c) /\ UNCHANGED calls
  /\ written' = (tpc = "wait")
  /\ UNCHANGED <<set_vars, clock, thread, m_previous_time,
                 waits_for, armed_at, cancelled, done>>

\* Mutant of cancel: the timer stays in the set.
cancel_keeps(c, t) ==
  /\ Call(c) /\ t \in Known \cap m_cb
  /\ m_cb' = m_cb \ {t}
  /\ cancelled' = cancelled \cup {t}
  /\ UNCHANGED <<m_timers, m_tickled, made, m_ms, m_next, pc, arg, clock, thread,
                 m_previous_time, waits_for, written, armed_at, done>>

(* cancel erases what find returns without comparing it with end(), and    *)
(* returns false when m_cb is null.                                        *)
cancel(c, t) ==
  /\ Call(c) /\ t \in Known \cap m_cb
  /\ m_cb' = m_cb \ {t} /\ m_timers' = m_timers \ {t}
  /\ cancelled' = cancelled \cup {t}
  /\ UNCHANGED <<m_tickled, made, m_ms, m_next, pc, arg, clock, thread,
                 m_previous_time, waits_for, written, armed_at, done>>

(* Erase, a new m_next, insert: all under the lock; nobody is tickled.     *)
refresh(c, t) ==
  /\ Call(c) /\ t \in Known \cap m_cb \cap m_timers
  /\ m_next' = [m_next EXCEPT ![t] = now + m_ms[t]]
  /\ armed_at' = [armed_at EXCEPT ![t] = now]
  /\ UNCHANGED <<m_timers, m_tickled, made, m_cb, m_ms, pc, arg, clock, thread,
                 m_previous_time, waits_for, written, cancelled, done>>

(* reset's comparison, before the lock; equal and not from_now returns.    *)
ResetCall(c, t, ms, from_now) ==
  /\ Call(c) /\ t \in Known
  /\ ms # m_ms[t] \/ from_now
  /\ pc' = [pc EXCEPT ![c] = "reset"]
  /\ arg' = [arg EXCEPT ![c] = [timer |-> t, ms |-> ms, from_now |-> from_now]]
  /\ UNCHANGED <<set_vars, clock, thread, m_previous_time, history>>

(* m_cb is null, or the timer is not in the set: reset returns false.      *)
ResetRefused(c) ==
  /\ arg[c].timer \notin m_cb \cap m_timers
  /\ pc[c] = "reset" /\ Return(c) /\ UNCHANGED calls
  /\ UNCHANGED <<set_vars, clock, thread, m_previous_time, history>>

\* Mutant of reset_start: m_ms was assigned before start was computed.
reset_start_new_ms(t, a) == IF a.from_now THEN now ELSE (m_next[t] - a.ms) % Width

(* Where the new period begins, in unsigned arithmetic.                    *)
reset_start(t, a) == IF a.from_now THEN now ELSE (m_next[t] - m_ms[t]) % Width

reset(c) ==
  LET t == arg[c].timer
      start == reset_start(t, arg[c])
      next == [m_next EXCEPT ![t] = (start + arg[c].ms) % Width] IN
  /\ pc[c] = "reset"
  /\ t \in m_cb \cap m_timers
  /\ m_ms' = [m_ms EXCEPT ![t] = arg[c].ms]
  /\ m_next' = next
  /\ InsertAt(c, t, next, "tickle")
  /\ armed_at' = [armed_at EXCEPT ![t] = IF arg[c].from_now THEN now ELSE @]
  /\ UNCHANGED <<made, m_cb, clock, thread, m_previous_time,
                 waits_for, written, cancelled, done>>

(***************************************************************************)
(* The timer thread                                                        *)
(***************************************************************************)
\* Mutant of get_next_time: m_tickled is not cleared.
get_next_time_tickled ==
  /\ tpc = "get_next" /\ tpc' = "wait"
  /\ \/ m_timers = {} /\ waits_for' = Width
     \/ \E t \in m_timers : IsFront(t, m_timers, m_next) /\ waits_for' = m_next[t]
  /\ written' = FALSE
  /\ UNCHANGED <<set_vars, clock, client, now_ms, cbs, m_previous_time,
                 armed_at, cancelled, done>>

(* Under the read lock, which keeps out every writer of m_tickled.         *)
get_next_time ==
  /\ tpc = "get_next" /\ tpc' = "wait"
  /\ m_tickled' = FALSE
  /\ \/ m_timers = {} /\ waits_for' = Width
     \/ \E t \in m_timers : IsFront(t, m_timers, m_next) /\ waits_for' = m_next[t]
  /\ written' = FALSE
  /\ UNCHANGED <<m_timers, made, m_cb, m_ms, m_next, clock, client, now_ms, cbs,
                 m_previous_time, armed_at, cancelled, done>>

\* Mutant of epoll_wait: the deadline is taken for the time of the return.
epoll_wait_deadline ==
  /\ tpc = "wait" /\ tpc' = "list"
  /\ now_ms' = waits_for
  /\ waits_for' = Width /\ written' = FALSE
  /\ UNCHANGED <<set_vars, clock, client, cbs, m_previous_time, armed_at, cancelled, done>>

(* epoll_wait is given the eventfd, fails and returns at once; then        *)
(* list_expired_cb reads the clock, before it takes a lock.                *)
epoll_wait ==
  /\ tpc = "wait" /\ tpc' = "list"
  /\ now_ms' = now
  /\ waits_for' = Width /\ written' = FALSE
  /\ UNCHANGED <<set_vars, clock, client, cbs, m_previous_time,
                 armed_at, cancelled, done>>

(* Unsigned, as the code computes it.                                      *)
detect_clock_roll_over ==
  now_ms < m_previous_time /\ now_ms < (m_previous_time - Hour) % Width

ListNone ==
  /\ tpc = "list" /\ tpc' = "get_next"
  /\ m_timers = {} /\ now_ms' = 0
  /\ UNCHANGED <<set_vars, clock, client, cbs, m_previous_time, history>>

\* Mutant of Expired: the timers due exactly at now_ms are left out.
ExpiredBefore == {t \in m_timers : detect_clock_roll_over \/ m_next[t] < now_ms}

(* Everything up to and including now_ms, or everything.                   *)
Expired == {t \in m_timers : detect_clock_roll_over \/ m_next[t] <= now_ms}

\* Mutant of list_expired_cb: m_cb of a one-shot timer is not cleared.
list_expired_cb_keeps ==
  LET recurring == Expired \cap m_recurring IN
  /\ tpc = "list" /\ m_timers # {}
  /\ tpc' = IF Expired = {} THEN "get_next" ELSE "post"
  /\ m_previous_time' = now_ms /\ now_ms' = 0
  /\ cbs' \in InOrder(Expired)
  /\ m_timers' = (m_timers \ Expired) \cup recurring
  /\ m_next' = [t \in Timers |-> IF t \in recurring THEN now_ms + m_ms[t] ELSE m_next[t]]
  /\ armed_at' = [t \in Timers |-> IF t \in recurring THEN now_ms ELSE armed_at[t]]
  /\ UNCHANGED <<m_tickled, made, m_cb, m_ms, clock, client,
                 waits_for, written, cancelled, done>>

list_expired_cb ==
  LET recurring == Expired \cap m_recurring IN
  /\ tpc = "list" /\ m_timers # {}
  /\ tpc' = IF Expired = {} THEN "get_next" ELSE "post"
  /\ m_previous_time' = now_ms /\ now_ms' = 0
  /\ cbs' \in InOrder(Expired)
  /\ m_timers' = (m_timers \ Expired) \cup recurring
  /\ m_cb' = m_cb \ (Expired \ recurring)
  /\ m_next' = [t \in Timers |-> IF t \in recurring THEN now_ms + m_ms[t] ELSE m_next[t]]
  /\ armed_at' = [t \in Timers |-> IF t \in recurring THEN now_ms ELSE armed_at[t]]
  /\ UNCHANGED <<m_tickled, made, m_ms, clock, client,
                 waits_for, written, cancelled, done>>

(* The callback is handed to the worker as a message, or dropped when      *)
(* there is no message block or no room in the queue (module NetStack).    *)
HandOver ==
  /\ tpc = "post" /\ tpc' = IF Len(cbs) = 1 THEN "get_next" ELSE "post"
  /\ cbs' = Tail(cbs)
  /\ done' = done \cup ({Head(cbs)} \ m_recurring)
  /\ UNCHANGED <<set_vars, clock, client, now_ms, m_previous_time,
                 waits_for, written, armed_at, cancelled>>

(***************************************************************************)
(* The wall clock (gettimeofday): it advances, and an administrator or NTP *)
(* may set it back.                                                        *)
(***************************************************************************)
Tick ==
  /\ now < MaxNow /\ now' = now + 1
  /\ UNCHANGED <<backs, set_vars, client, thread, m_previous_time, history>>

SetBack ==
  /\ backs < MaxBack /\ backs' = backs + 1
  /\ \E n \in Jumps : n <= now /\ now' = now - n
  /\ UNCHANGED <<set_vars, client, thread, m_previous_time, history>>

(***************************************************************************)
(* Specification                                                           *)
(***************************************************************************)
ClientCall(c) ==
  \/ \E t \in Timers, ms \in Periods : NewTimer(c, t, ms)
  \/ \E t \in Timers : cancel(c, t)
  \/ \E t \in Timers : refresh(c, t)
  \/ \E t \in Timers, ms \in Periods, from_now \in BOOLEAN : ResetCall(c, t, ms, from_now)

ClientStep(c) == add_timer(c) \/ tickle_event(c) \/ ResetRefused(c) \/ reset(c)

TimerThread ==
  \/ get_next_time \/ epoll_wait \/ ListNone \/ list_expired_cb
  \/ HandOver

Next ==
  \/ \E c \in Clients : ClientCall(c) \/ ClientStep(c)
  \/ TimerThread
  \/ Tick
  \/ SetBack

Spec == Init /\ [][Next]_vars

(* The timer thread is an endless loop, no lock is held for good, and      *)
(* epoll_wait returns.  Nobody has to call, nor the clock to advance.      *)
FairSpec == Spec /\ WF_vars(TimerThread)

(***************************************************************************)
(* Properties                                                              *)
(***************************************************************************)
(* Every variable keeps its type; m_next stays within uint64_t.            *)
TypeOK ==
  /\ calls \in 0 .. MaxCalls /\ now \in 0 .. MaxNow /\ backs \in 0 .. MaxBack /\ m_previous_time \in 0 .. MaxNow
  /\ m_timers \subseteq made /\ m_cb \subseteq made /\ made \subseteq Timers
  /\ m_tickled \in BOOLEAN /\ written \in BOOLEAN
  /\ m_ms \in [Timers -> Periods \cup {0}] /\ m_next \in [Timers -> 0 .. Width - 1]
  /\ pc \in [Clients -> {"idle", "insert", "tickle", "tickle_new", "reset"}]
  /\ arg \in [Clients -> [timer : Timers \cup {0}, ms : Periods \cup {0}, from_now : BOOLEAN]]
  /\ tpc \in {"get_next", "wait", "list", "post"} /\ now_ms \in 0 .. MaxNow
  /\ cbs \in Seq(Timers)
  /\ waits_for \in 0 .. Width /\ armed_at \in [Timers -> 0 .. MaxNow]
  /\ cancelled \subseteq made /\ done \subseteq made

(* A timer has a callback exactly while it is in the set, or on its way    *)
(* into it.  cancel relies on it: it erases what find returns (timer.cc:44)*)
(* without comparing it with end(), and refresh and reset treat a timer    *)
(* with a callback that is not found as impossible.                        *)
CbIffInSet == m_cb = m_timers \cup Inserting

Count(s, t) == Cardinality({i \in DOMAIN s : s[i] = t})

(* A one-shot callback is in exactly one place from construction on: in    *)
(* the set, in the list the timer thread works off, handed over, or        *)
(* cancelled.  So it is handed over at most once whatever refresh, reset   *)
(* and cancel race with list_expired_cb, is not lost on the way, and is    *)
(* never handed over once cancel has returned true.                        *)
OneShotInOnePlace ==
  \A t \in made : t \notin m_recurring =>
    LET is(b) == IF b THEN 1 ELSE 0 IN
    is(t \in m_cb) + Count(cbs, t) + is(t \in done) + is(t \in cancelled) = 1

(* While the timer thread waits, a timer that is due before the deadline   *)
(* it was given has been signalled to it, or is about to be: get_next_time *)
(* clears m_tickled, add_timer and reset tickle only when they set it.     *)
(* (refresh never tickles: with the clock set back it can bring a timer    *)
(* forward unnoticed.)                                                     *)
NoLostWakeup ==
  tpc = "wait" => \/ backs > 0
                  \/ \A t \in m_timers : m_next[t] >= waits_for
                  \/ written
                  \/ \E c \in Clients : pc[c] \in {"tickle", "tickle_new"}

(* No callback is collected before its period, counted from add_timer,     *)
(* refresh, reset or the last expiry, has passed, unless the clock was set *)
(* back.                                                                   *)
CollectedInTime ==
  [][\A t \in Timers : Count(cbs', t) > Count(cbs, t) =>
       now >= armed_at[t] + m_ms[t] \/ backs > 0]_vars

(* The alarm clock a caller sees: the sections under the lock, and what    *)
(* lies between them, are one step or none.  What was collected from the   *)
(* set and is not cancelled is over.                                       *)
Phase(t) ==
  IF t \in m_timers THEN "set"
  ELSE IF t \in Inserting THEN "made"
  ELSE IF t \notin made THEN "none"
  ELSE IF t \in cancelled THEN "cancelled" ELSE "over"

Alarm == INSTANCE AlarmClock
  WITH Times <- 0 .. MaxNow, set_back <- backs > 0, phase <- [t \in Timers |-> Phase(t)],
       began <- armed_at, period <- m_ms, outbox <- cbs

(* Every timer behaves as the alarm clock says: whatever calls race with   *)
(* list_expired_cb, all timers due at the time it read go off together, in *)
(* order and not before, a one-shot once and never after cancel.           *)
ImplementsAlarmClock == Alarm!Spec

Due(t) == t \in m_timers /\ m_next[t] <= now

(* A due timer is collected, cancelled or given a later time.              *)
DueTimersAreCollected == \A t \in Timers : Due(t) ~> ~ Due(t)
==============================================================================
