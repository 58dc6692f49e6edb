--------------------------- MODULE TimerMgr_proof ---------------------------
(***************************************************************************)
(* Proofs about TimerMgr, for every number of timers and clients, every    *)
(* period and every bound.  Each layer of the inductive invariant is       *)
(* proved on top of the ones before it: types, who has a callback, where   *)
(* a one-shot callback is, times while the clock runs forward, wake-ups.   *)
(***************************************************************************)
EXTENDS TimerMgr, FiniteSetTheorems, SequenceTheorems, TLAPS

(* Division with remainder.                                                *)
LEMMA DivMod ==
  ASSUME NEW n \in Nat \ {0}, NEW i \in Int
  PROVE  /\ i = n * (i \div n) + (i % n)
         /\ i \div n \in Int
         /\ i % n \in 0 .. n - 1
OBVIOUS

(* Unsigned arithmetic stays within uint64_t ...                           *)
LEMMA ModRange ==
  ASSUME NEW i \in Int
  PROVE  i % Width \in 0 .. Width - 1
BY TimerAssumption, DivMod

(* ... and is exact where nothing overflows.                               *)
LEMMA SmallMod ==
  ASSUME NEW i \in 0 .. Width - 1
  PROVE  i % Width = i
BY TimerAssumption

(* A clock value and a period do not overflow.                             *)
LEMMA ClockFits == \A p \in Periods, n \in 0 .. MaxNow : n + p \in 0 .. Width - 1
BY TimerAssumption
------------------------------------------------------------------------------
(***************************************************************************)
(* Type correctness.                                                       *)
(***************************************************************************)
(* What the types do not say of the calls under way.                       *)
CallsOK ==
  /\ \A t \in made : m_ms[t] \in Periods
  /\ \A c \in Clients : pc[c] # "idle" => arg[c].timer \in made
  /\ \A c \in Clients : pc[c] = "reset" => arg[c].ms \in Periods
  /\ tpc = "post" <=> cbs # <<>>
  /\ \A i \in DOMAIN cbs : cbs[i] \in made

NumbersOK ==
  /\ calls \in 0 .. MaxCalls /\ now \in 0 .. MaxNow /\ backs \in 0 .. MaxBack
  /\ m_previous_time \in 0 .. MaxNow /\ now_ms \in 0 .. MaxNow

SetsOK ==
  /\ m_timers \subseteq made /\ m_cb \subseteq made /\ made \subseteq Timers
  /\ m_tickled \in BOOLEAN /\ written \in BOOLEAN
  /\ cancelled \subseteq made /\ done \subseteq made

TimesOK ==
  /\ m_ms \in [Timers -> Periods \cup {0}] /\ m_next \in [Timers -> 0 .. Width - 1]
  /\ waits_for \in 0 .. Width /\ armed_at \in [Timers -> 0 .. MaxNow]

ClientsOK ==
  /\ pc \in [Clients -> {"idle", "insert", "tickle", "tickle_new", "reset"}]
  /\ arg \in [Clients -> [timer : Timers \cup {0}, ms : Periods \cup {0}, from_now : BOOLEAN]]

ThreadOK ==
  /\ tpc \in {"get_next", "wait", "list", "post"}
  /\ cbs \in Seq(Timers)

(* What add_timer(val, lock) does, however it decides to tickle.           *)
LEMMA InsertAtEffect ==
  ASSUME NEW c, NEW t, NEW next, NEW tickle, InsertAt(c, t, next, tickle)
  PROVE  /\ m_timers' = m_timers \cup {t} /\ m_tickled' \in BOOLEAN /\ calls' = calls
         /\ \/ pc' = [pc EXCEPT ![c] = tickle] /\ arg' = arg
            \/ Return(c)
BY DEF InsertAt

(* The list of callbacks has each expired timer once.                      *)
LEMMA InOrderFacts ==
  ASSUME TimesOK, NEW S \in SUBSET Timers, NEW f \in InOrder(S)
  PROVE  /\ f \in Seq(S)
         /\ \A t \in S : \E i \in DOMAIN f : f[i] = t
         /\ S # {} => f # <<>>
         /\ \A i, j \in DOMAIN f : f[i] = f[j] => i = j
<1>1. IsFiniteSet(Timers)
  BY TimerAssumption, FS_Interval DEF Timers
<1>2. Cardinality(S) \in Nat
  BY <1>1, FS_Subset, FS_CardinalityType
<1>3. f \in [1 .. Cardinality(S) -> S]
  BY DEF InOrder
<1>4. \A t \in S : \E i \in DOMAIN f : f[i] = t
  BY DEF InOrder
<1>5. \A i, j \in DOMAIN f : i < j => Before(m_next, f[i], f[j])
  BY DEF InOrder
<1>6. ASSUME NEW t \in S PROVE ~ Before(m_next, t, t)
  <2>1. t \in Int /\ m_next[t] \in Int
    BY DEF Timers, TimesOK
  <2>2. QED
    BY <2>1 DEF Before
<1>7. \A i, j \in DOMAIN f : i < j => f[i] # f[j]
  BY <1>3, <1>5, <1>6
<1>8. \A i, j \in DOMAIN f : f[i] = f[j] => i = j
  BY <1>2, <1>3, <1>7
<1>9. f \in Seq(S)
  BY <1>2, <1>3
<1>10. S # {} => f # <<>>
  BY <1>4
<1>11. QED
  BY <1>4, <1>8, <1>9, <1>10

LEMMA NumbersStep == NumbersOK /\ [Next]_vars => NumbersOK'
<1> SUFFICES ASSUME NumbersOK, [Next]_vars PROVE NumbersOK'
  OBVIOUS
<1> USE TimerAssumption DEF NumbersOK, set_vars, clock, client, thread, history
<1>1. ASSUME NEW c \in Clients, ClientCall(c) PROVE NumbersOK'
  BY <1>1 DEF ClientCall, Call, NewTimer, cancel, refresh, ResetCall
<1>2. ASSUME NEW c \in Clients, ClientStep(c) PROVE NumbersOK'
  BY <1>2, InsertAtEffect DEF ClientStep, add_timer, tickle_event, ResetRefused, reset
<1>3. CASE TimerThread
  BY <1>3 DEF TimerThread, get_next_time, epoll_wait, ListNone, list_expired_cb, HandOver
<1>4. CASE Tick \/ SetBack
  BY <1>4 DEF Tick, SetBack
<1>5. CASE UNCHANGED vars
  BY <1>5 DEF vars
<1>6. QED
  BY <1>1, <1>2, <1>3, <1>4, <1>5 DEF Next

LEMMA SetsStep == SetsOK /\ CallsOK /\ ThreadOK /\ [Next]_vars => SetsOK'
<1> SUFFICES ASSUME SetsOK, CallsOK, ThreadOK, [Next]_vars PROVE SetsOK'
  OBVIOUS
<1> USE DEF SetsOK, set_vars, clock, client, thread, history
<1>1. ASSUME NEW c \in Clients, ClientCall(c) PROVE SetsOK'
  BY <1>1 DEF ClientCall, Call, NewTimer, cancel, refresh, ResetCall
<1>2. ASSUME NEW c \in Clients, ClientStep(c) PROVE SetsOK'
  <2>1. CASE add_timer(c)
    BY <2>1, InsertAtEffect DEF add_timer, CallsOK
  <2>2. CASE reset(c)
    BY <2>2, InsertAtEffect DEF reset
  <2>3. CASE tickle_event(c) \/ ResetRefused(c)
    BY <2>3 DEF tickle_event, ResetRefused
  <2>4. QED
    BY <1>2, <2>1, <2>2, <2>3 DEF ClientStep
<1>3. CASE TimerThread
  <2>1. CASE list_expired_cb
    BY <2>1 DEF list_expired_cb, Expired
  <2>2. CASE HandOver
    <3>1. Head(cbs) \in made
      BY <2>2 DEF HandOver, CallsOK, ThreadOK
    <3>2. QED
      BY <2>2, <3>1 DEF HandOver
  <2>3. CASE get_next_time \/ epoll_wait \/ ListNone
    BY <2>3 DEF get_next_time, epoll_wait, ListNone
  <2>4. QED
    BY <1>3, <2>1, <2>2, <2>3 DEF TimerThread
<1>4. CASE Tick \/ SetBack
  BY <1>4 DEF Tick, SetBack
<1>5. CASE UNCHANGED vars
  BY <1>5 DEF vars
<1>6. QED
  BY <1>1, <1>2, <1>3, <1>4, <1>5 DEF Next

LEMMA TimesStep == TimesOK /\ SetsOK /\ NumbersOK /\ ClientsOK /\ CallsOK /\ [Next]_vars => TimesOK'
<1> SUFFICES ASSUME TimesOK, SetsOK, NumbersOK, ClientsOK, CallsOK, [Next]_vars PROVE TimesOK'
  OBVIOUS
<1> USE DEF TimesOK, set_vars, clock, client, thread, history
<1>1. ASSUME NEW c \in Clients, ClientCall(c) PROVE TimesOK'
  <2>1. ASSUME NEW t \in Timers, NEW ms \in Periods, NewTimer(c, t, ms) PROVE TimesOK'
    BY <2>1, ClockFits DEF NewTimer, NumbersOK
  <2>2. ASSUME NEW t \in Timers, refresh(c, t) PROVE TimesOK'
    BY <2>2, ClockFits DEF refresh, Known, CallsOK, NumbersOK
  <2>3. ASSUME NEW t \in Timers, cancel(c, t) PROVE TimesOK'
    BY <2>3 DEF cancel
  <2>4. ASSUME NEW t \in Timers, NEW ms \in Periods, NEW f \in BOOLEAN, ResetCall(c, t, ms, f)
        PROVE TimesOK'
    BY <2>4 DEF ResetCall
  <2>5. QED
    BY <1>1, <2>1, <2>2, <2>3, <2>4 DEF ClientCall
<1>2. ASSUME NEW c \in Clients, ClientStep(c), ~ reset(c) PROVE TimesOK'
  BY <1>2 DEF ClientStep, add_timer, tickle_event, ResetRefused
<1>3. ASSUME NEW c \in Clients, reset(c) PROVE TimesOK'
  <2>1. arg[c].timer \in Timers /\ arg[c].ms \in Periods
    BY <1>3 DEF reset, CallsOK, SetsOK
  <2>2. (\A p \in Periods \cup {0} : p \in Nat) /\ now \in Nat
    BY TimerAssumption DEF NumbersOK
  <2>3. m_ms[arg[c].timer] \in Periods \cup {0}
    BY <2>1
  <2>4. arg[c].ms \in Nat /\ m_ms[arg[c].timer] \in Nat
    BY <2>2, <2>1, <2>3
  <2>5. m_next[arg[c].timer] \in Nat
    BY <2>1
  <2>6. reset_start(arg[c].timer, arg[c]) \in Int
    BY <2>2, <2>4, <2>5, ModRange DEF reset_start
  <2>7. reset_start(arg[c].timer, arg[c]) + arg[c].ms \in Int
    BY <2>4, <2>6
  <2>8. (reset_start(arg[c].timer, arg[c]) + arg[c].ms) % Width \in 0 .. Width - 1
    BY <2>7, ModRange
  <2>9. QED
    BY <1>3, <2>1, <2>8 DEF reset, NumbersOK
<1>4. CASE TimerThread /\ ~ list_expired_cb
  BY <1>4, TimerAssumption DEF TimerThread, get_next_time, epoll_wait, ListNone, HandOver, SetsOK
<1>5. CASE list_expired_cb
  BY <1>5, ClockFits DEF list_expired_cb, Expired, SetsOK, CallsOK, NumbersOK
<1>6. CASE Tick \/ SetBack
  BY <1>6 DEF Tick, SetBack
<1>7. CASE UNCHANGED vars
  BY <1>7 DEF vars
<1>8. QED
  BY <1>1, <1>2, <1>3, <1>4, <1>5, <1>6, <1>7 DEF Next

LEMMA ClientsStep == ClientsOK /\ [Next]_vars => ClientsOK'
<1> SUFFICES ASSUME ClientsOK, [Next]_vars PROVE ClientsOK'
  OBVIOUS
<1>0. NoCall \in [timer : Timers \cup {0}, ms : Periods \cup {0}, from_now : BOOLEAN]
  BY DEF NoCall
<1> USE <1>0 DEF ClientsOK, set_vars, clock, client, thread, history, Return
<1>1. ASSUME NEW c \in Clients, ClientCall(c) PROVE ClientsOK'
  <2>1. ASSUME NEW t \in Timers, NEW ms \in Periods, NewTimer(c, t, ms) PROVE ClientsOK'
    BY <2>1 DEF NewTimer, NoCall
  <2>2. ASSUME NEW t \in Timers, cancel(c, t) \/ refresh(c, t) PROVE ClientsOK'
    BY <2>2 DEF cancel, refresh
  <2>3. ASSUME NEW t \in Timers, NEW ms \in Periods, NEW f \in BOOLEAN, ResetCall(c, t, ms, f)
        PROVE ClientsOK'
    BY <2>3 DEF ResetCall
  <2>4. QED
    BY <1>1, <2>1, <2>2, <2>3 DEF ClientCall
<1>2. ASSUME NEW c \in Clients, ClientStep(c) PROVE ClientsOK'
  <2>1. CASE add_timer(c)
    BY <2>1, InsertAtEffect DEF add_timer
  <2>2. CASE reset(c)
    BY <2>2, InsertAtEffect DEF reset
  <2>3. CASE tickle_event(c) \/ ResetRefused(c)
    BY <2>3 DEF tickle_event, ResetRefused
  <2>4. QED
    BY <1>2, <2>1, <2>2, <2>3 DEF ClientStep
<1>3. CASE TimerThread
  BY <1>3 DEF TimerThread, get_next_time, epoll_wait, ListNone, list_expired_cb, HandOver
<1>4. CASE Tick \/ SetBack
  BY <1>4 DEF Tick, SetBack
<1>5. CASE UNCHANGED vars
  BY <1>5 DEF vars
<1>6. QED
  BY <1>1, <1>2, <1>3, <1>4, <1>5 DEF Next

LEMMA ThreadStep == ThreadOK /\ SetsOK /\ TimesOK /\ CallsOK /\ [Next]_vars => ThreadOK'
<1> SUFFICES ASSUME ThreadOK, SetsOK, TimesOK, CallsOK, [Next]_vars PROVE ThreadOK'
  OBVIOUS
<1> USE DEF ThreadOK, set_vars, clock, client, thread, history
<1>1. ASSUME NEW c \in Clients, ClientCall(c) \/ ClientStep(c) PROVE ThreadOK'
  BY <1>1 DEF ClientCall, NewTimer, cancel, refresh, ResetCall, ClientStep, add_timer, tickle_event, ResetRefused, reset
<1>2. CASE TimerThread
  <2>1. CASE list_expired_cb
    <3>1. Expired \in SUBSET Timers
      BY DEF Expired, SetsOK
    <3>2. cbs' \in Seq(Timers)
      BY <2>1, <3>1, InOrderFacts DEF list_expired_cb
    <3>3. QED
      BY <2>1, <3>2 DEF list_expired_cb
  <2>2. CASE HandOver
    BY <2>2 DEF HandOver, CallsOK
  <2>3. CASE get_next_time \/ epoll_wait \/ ListNone
    BY <2>3 DEF get_next_time, epoll_wait, ListNone
  <2>4. QED
    BY <1>2, <2>1, <2>2, <2>3 DEF TimerThread
<1>3. CASE Tick \/ SetBack
  BY <1>3 DEF Tick, SetBack
<1>4. CASE UNCHANGED vars
  BY <1>4 DEF vars
<1>5. QED
  BY <1>1, <1>2, <1>3, <1>4 DEF Next

LEMMA CallsStep == TimesOK /\ SetsOK /\ ClientsOK /\ ThreadOK /\ CallsOK /\ [Next]_vars => CallsOK'
<1> SUFFICES ASSUME TimesOK, SetsOK, ClientsOK, ThreadOK, CallsOK, [Next]_vars PROVE CallsOK'
  OBVIOUS
<1> USE DEF CallsOK, ClientsOK, set_vars, clock, client, thread, history
<1>1. ASSUME NEW c \in Clients, NEW t \in Timers, NEW ms \in Periods, NewTimer(c, t, ms) PROVE CallsOK'
  BY <1>1 DEF NewTimer, NoCall, Call, TimesOK, SetsOK
<1>2. ASSUME NEW c \in Clients, NEW t \in Timers, cancel(c, t) \/ refresh(c, t) PROVE CallsOK'
  BY <1>2 DEF cancel, refresh
<1>3. ASSUME NEW c \in Clients, NEW t \in Timers, NEW ms \in Periods, NEW f \in BOOLEAN, ResetCall(c, t, ms, f)
      PROVE CallsOK'
  BY <1>3 DEF ResetCall, Known
<1>4. ASSUME NEW c \in Clients, add_timer(c) PROVE CallsOK'
  BY <1>4, InsertAtEffect DEF add_timer, Return
<1>5. ASSUME NEW c \in Clients, reset(c) PROVE CallsOK'
  <2> DEFINE t == arg[c].timer
  <2>1. t \in made /\ arg[c].ms \in Periods /\ made' = made /\ tpc' = tpc /\ cbs' = cbs
    BY <1>5 DEF reset
  <2>2. m_ms' = [m_ms EXCEPT ![t] = arg[c].ms]
    BY <1>5 DEF reset
  <2>3. \A s \in made : m_ms'[s] \in Periods
    BY <2>1, <2>2 DEF TimesOK, SetsOK
  <2>4. \/ pc' = [pc EXCEPT ![c] = "tickle"] /\ arg' = arg
        \/ Return(c)
    BY <1>5, InsertAtEffect DEF reset
  <2>5. \A d \in Clients : (pc'[d] # "idle" => arg'[d].timer \in made) /\ (pc'[d] = "reset" => arg'[d].ms \in Periods)
    BY <2>4, <2>1 DEF Return
  <2>6. QED
    BY <2>1, <2>3, <2>5
<1>6. ASSUME NEW c \in Clients, tickle_event(c) \/ ResetRefused(c) PROVE CallsOK'
  BY <1>6 DEF tickle_event, ResetRefused, Return
<1>7. CASE list_expired_cb
  <2>1. Expired \in SUBSET Timers /\ Expired \subseteq made
    BY DEF Expired, SetsOK
  <2>2. PICK f \in InOrder(Expired) : cbs' = f
    BY <1>7 DEF list_expired_cb
  <2>3. f \in Seq(Expired) /\ (Expired # {} <=> f # <<>>)
    BY <2>1, <2>2, InOrderFacts
  <2>4. QED
    BY <1>7, <2>1, <2>2, <2>3 DEF list_expired_cb
<1>8. CASE HandOver
  <2>1. cbs \in Seq(Timers) /\ cbs # <<>>
    BY <1>8 DEF HandOver, ThreadOK
  <2>2. /\ \A i \in DOMAIN Tail(cbs) : Tail(cbs)[i] \in made
        /\ Len(cbs) = 1 <=> Tail(cbs) = <<>>
    <3>1. /\ Len(Tail(cbs)) = Len(cbs) - 1 /\ Tail(cbs) \in Seq(Timers)
          /\ \A i \in 1 .. Len(Tail(cbs)) : Tail(cbs)[i] = cbs[i + 1]
      BY <2>1, HeadTailProperties
    <3>2. \A i \in DOMAIN Tail(cbs) : i + 1 \in DOMAIN cbs
      BY <2>1, <3>1
    <3>3. QED
      BY <2>1, <3>1, <3>2
  <2>3. QED
    BY <1>8, <2>2 DEF HandOver
<1>9. CASE get_next_time \/ epoll_wait \/ ListNone
  BY <1>9 DEF get_next_time, epoll_wait, ListNone
<1>10. CASE Tick \/ SetBack
  BY <1>10 DEF Tick, SetBack
<1>11. CASE UNCHANGED vars
  BY <1>11 DEF vars
<1>12. QED
  BY <1>1, <1>2, <1>3, <1>4, <1>5, <1>6, <1>7, <1>8, <1>9, <1>10, <1>11
  DEF Next, ClientCall, ClientStep, TimerThread

Typed == NumbersOK /\ SetsOK /\ TimesOK /\ ClientsOK /\ ThreadOK /\ CallsOK

LEMMA TypedIsTypeOK == Typed <=> TypeOK /\ CallsOK
BY DEF Typed, TypeOK, NumbersOK, SetsOK, TimesOK, ClientsOK, ThreadOK

LEMMA TypedInit == Init => Typed
<1> SUFFICES ASSUME Init PROVE Typed
  OBVIOUS
<1> USE TimerAssumption DEF Init, NoCall
<1>1. NumbersOK
  BY DEF NumbersOK
<1>2. SetsOK
  BY DEF SetsOK
<1>3. TimesOK
  BY DEF TimesOK
<1>4. ClientsOK
  BY DEF ClientsOK
<1>5. ThreadOK
  BY DEF ThreadOK
<1>6. CallsOK
  BY DEF CallsOK
<1>7. QED
  BY <1>1, <1>2, <1>3, <1>4, <1>5, <1>6 DEF Typed

LEMMA TypedStep == Typed /\ [Next]_vars => Typed'
BY NumbersStep, SetsStep, TimesStep, ClientsStep, ThreadStep, CallsStep DEF Typed

(* Every variable keeps its type; no time overflows uint64_t.              *)
THEOREM TypeCorrect == Spec => []TypeOK
<1>1. Typed => TypeOK
  BY TypedIsTypeOK
<1>2. QED
  BY <1>1, TypedInit, TypedStep, PTL DEF Spec

------------------------------------------------------------------------------
(***************************************************************************)
(* A timer has a callback exactly while it is in the set.                  *)
(***************************************************************************)
IsInserting(t) == \E c \in Clients : pc[c] = "insert" /\ arg[c].timer = t

InSetOK ==
  /\ \A t \in made : t \in m_cb <=> t \in m_timers \/ IsInserting(t)
  /\ \A c, d \in Clients :
       pc[c] = "insert" /\ pc[d] = "insert" /\ arg[c].timer = arg[d].timer => c = d
  /\ \A c \in Clients : pc[c] = "insert" => arg[c].timer \notin m_timers

LEMMA InSetInit == Init => InSetOK
BY DEF Init, InSetOK, IsInserting

LEMMA InSetStep == Typed /\ InSetOK /\ [Next]_vars => InSetOK'
<1> SUFFICES ASSUME Typed, InSetOK, [Next]_vars PROVE InSetOK'
  OBVIOUS
<1> USE DEF Typed, InSetOK, IsInserting, SetsOK, ClientsOK, set_vars, clock, client, thread, history
<1>1. ASSUME NEW c \in Clients, NEW t \in Timers, NEW ms \in Periods, NewTimer(c, t, ms) PROVE InSetOK'
  BY <1>1 DEF NewTimer, NoCall, Call, CallsOK
<1>2. ASSUME NEW c \in Clients, NEW t \in Timers, cancel(c, t) PROVE InSetOK'
  BY <1>2 DEF cancel, Known
<1>3. ASSUME NEW c \in Clients, NEW t \in Timers, refresh(c, t) PROVE InSetOK'
  BY <1>3 DEF refresh
<1>4. ASSUME NEW c \in Clients, NEW t \in Timers, NEW ms \in Periods, NEW f \in BOOLEAN, ResetCall(c, t, ms, f)
      PROVE InSetOK'
  <2>1. /\ \A d \in Clients : (pc'[d] = "insert" <=> pc[d] = "insert")
        /\ \A d \in Clients : pc[d] = "insert" => arg'[d] = arg[d]
    BY <1>4 DEF ResetCall, Call
  <2>2. made' = made /\ m_timers' = m_timers /\ m_cb' = m_cb
    BY <1>4 DEF ResetCall
  <2>3. QED
    BY <2>1, <2>2
<1>5. ASSUME NEW c \in Clients, add_timer(c) PROVE InSetOK'
  BY <1>5, InsertAtEffect DEF add_timer, Return
<1>6. ASSUME NEW c \in Clients, reset(c) PROVE InSetOK'
  <2>1. /\ \A d \in Clients : (pc'[d] = "insert" <=> pc[d] = "insert")
        /\ \A d \in Clients : pc[d] = "insert" => arg'[d] = arg[d]
    BY <1>6, InsertAtEffect DEF reset, Return
  <2>2. arg[c].timer \in m_timers /\ m_timers' = m_timers \cup {arg[c].timer}
    BY <1>6, InsertAtEffect DEF reset
  <2>3. made' = made /\ m_timers' = m_timers /\ m_cb' = m_cb
    BY <1>6, <2>2 DEF reset
  <2>4. QED
    BY <2>1, <2>3
<1>7. ASSUME NEW c \in Clients, tickle_event(c) \/ ResetRefused(c) PROVE InSetOK'
  BY <1>7, SMTT(30) DEF tickle_event, ResetRefused, Return
<1>8. CASE list_expired_cb
  BY <1>8 DEF list_expired_cb, Expired
<1>9. CASE get_next_time \/ epoll_wait \/ ListNone \/ HandOver
  BY <1>9 DEF get_next_time, epoll_wait, ListNone, HandOver
<1>10. CASE Tick \/ SetBack
  BY <1>10 DEF Tick, SetBack
<1>11. CASE UNCHANGED vars
  BY <1>11 DEF vars
<1>12. QED
  BY <1>1, <1>2, <1>3, <1>4, <1>5, <1>6, <1>7, <1>8, <1>9, <1>10, <1>11
  DEF Next, ClientCall, ClientStep, TimerThread

(* cancel, refresh and reset find every timer that has a callback, so what *)
(* cancel erases without comparing it with end() is never end().           *)
THEOREM CallbackIffInSet == Spec => []CbIffInSet
<1>1. Typed /\ InSetOK => CbIffInSet
  BY DEF Typed, InSetOK, IsInserting, CbIffInSet, Inserting, SetsOK, CallsOK
<1>2. QED
  BY <1>1, TypedInit, TypedStep, InSetInit, InSetStep, PTL DEF Spec

------------------------------------------------------------------------------
(***************************************************************************)
(* A one-shot callback is in one place.                                    *)
(***************************************************************************)
Listed(t) == \E i \in DOMAIN cbs : cbs[i] = t

OnePlaceOK ==
  /\ \A i, j \in DOMAIN cbs : cbs[i] = cbs[j] => i = j
  /\ \A t \in made \ m_recurring :
       /\ t \in m_cb \/ Listed(t) \/ t \in done \/ t \in cancelled
       /\ ~ (t \in m_cb /\ Listed(t)) /\ ~ (t \in m_cb /\ t \in done)
       /\ ~ (t \in m_cb /\ t \in cancelled) /\ ~ (Listed(t) /\ t \in done)
       /\ ~ (Listed(t) /\ t \in cancelled) /\ ~ (t \in done /\ t \in cancelled)

LEMMA OnePlaceInit == Init => OnePlaceOK
BY DEF Init, OnePlaceOK, Listed

LEMMA OnePlaceStep == Typed /\ InSetOK /\ OnePlaceOK /\ [Next]_vars => OnePlaceOK'
<1> SUFFICES ASSUME Typed, InSetOK, OnePlaceOK, [Next]_vars PROVE OnePlaceOK'
  OBVIOUS
<1> USE DEF Typed, OnePlaceOK, Listed, SetsOK, CallsOK, set_vars, clock, client, thread, history
<1>1. ASSUME NEW c \in Clients, NEW t \in Timers, NEW ms \in Periods, NewTimer(c, t, ms) PROVE OnePlaceOK'
  BY <1>1 DEF NewTimer
<1>2. ASSUME NEW c \in Clients, NEW t \in Timers, cancel(c, t) PROVE OnePlaceOK'
  BY <1>2 DEF cancel
<1>3. ASSUME NEW c \in Clients, NEW t \in Timers, refresh(c, t) PROVE OnePlaceOK'
  BY <1>3 DEF refresh
<1>4. ASSUME NEW c \in Clients, NEW t \in Timers, NEW ms \in Periods, NEW f \in BOOLEAN, ResetCall(c, t, ms, f)
      PROVE OnePlaceOK'
  BY <1>4 DEF ResetCall
<1>5. ASSUME NEW c \in Clients, ClientStep(c) PROVE OnePlaceOK'
  BY <1>5 DEF ClientStep, add_timer, reset, tickle_event, ResetRefused
<1>6. CASE list_expired_cb
  <2>1. Expired \in SUBSET Timers /\ Expired \subseteq m_timers /\ Expired \subseteq m_cb
    BY DEF Expired, InSetOK
  <2>2. PICK f \in InOrder(Expired) : cbs' = f
    BY <1>6 DEF list_expired_cb
  <2>3. /\ f \in Seq(Expired) /\ \A t \in Expired : \E i \in DOMAIN f : f[i] = t
        /\ \A i, j \in DOMAIN f : f[i] = f[j] => i = j
    BY <2>1, <2>2, InOrderFacts
  <2>4. \A t : Listed(t)' <=> t \in Expired
    BY <2>2, <2>3
  <2>5. cbs = <<>>
    BY <1>6 DEF list_expired_cb
  <2>6. /\ m_cb' = m_cb \ (Expired \ m_recurring) /\ made' = made
        /\ done' = done /\ cancelled' = cancelled
    BY <1>6, <2>1 DEF list_expired_cb
  <2>7. QED
    BY <2>1, <2>2, <2>3, <2>4, <2>5, <2>6
<1>7. CASE HandOver
  <2>1. /\ cbs # <<>> /\ cbs \in Seq(Timers)
    BY <1>7 DEF HandOver, ThreadOK
  <2>2. /\ Len(cbs') = Len(cbs) - 1 /\ cbs' \in Seq(Timers)
        /\ \A i \in 1 .. Len(cbs') : cbs'[i] = cbs[i + 1]
    BY <1>7, <2>1, HeadTailProperties DEF HandOver
  <2>3. \A t : Listed(t) <=> t = Head(cbs) \/ Listed(t)'
    <3>1. DOMAIN cbs = 1 .. Len(cbs) /\ DOMAIN cbs' = 1 .. Len(cbs')
      BY <2>1, <2>2
    <3>2. ASSUME NEW i \in DOMAIN cbs, i # 1 PROVE i - 1 \in DOMAIN cbs' /\ cbs'[i - 1] = cbs[i]
      BY <2>1, <2>2, <3>1, <3>2
    <3>3. ASSUME NEW i \in DOMAIN cbs' PROVE i + 1 \in DOMAIN cbs /\ cbs[i + 1] = cbs'[i]
      BY <2>1, <2>2, <3>1
    <3>4. 1 \in DOMAIN cbs /\ Head(cbs) = cbs[1]
      BY <2>1
    <3>5. QED
      BY <3>2, <3>3, <3>4
  <2>4. ~ \E i \in DOMAIN cbs' : cbs'[i] = Head(cbs)
    <3>1. SUFFICES ASSUME NEW i \in 1 .. Len(cbs'), cbs'[i] = Head(cbs) PROVE FALSE
      BY <2>2
    <3>2. i + 1 \in DOMAIN cbs /\ 1 \in DOMAIN cbs /\ cbs[i + 1] = cbs[1]
      BY <2>1, <2>2, <3>1
    <3>3. QED
      BY <3>1, <3>2
  <2>5. ASSUME NEW i \in DOMAIN cbs', NEW j \in DOMAIN cbs', cbs'[i] = cbs'[j] PROVE i = j
    <3>1. i \in 1 .. Len(cbs') /\ j \in 1 .. Len(cbs')
      BY <2>2
    <3>2. i + 1 \in DOMAIN cbs /\ j + 1 \in DOMAIN cbs /\ cbs[i + 1] = cbs[j + 1]
      BY <2>1, <2>2, <2>5, <3>1
    <3>3. QED
      BY <3>1, <3>2
  <2>6. done' = done \cup ({Head(cbs)} \ m_recurring)
    BY <1>7 DEF HandOver
  <2>7. m_cb' = m_cb /\ made' = made /\ cancelled' = cancelled
    BY <1>7 DEF HandOver
  <2>8. \A t : t = Head(cbs) => Listed(t) /\ ~ Listed(t)'
    BY <2>3, <2>4
  <2> HIDE DEF Listed
  <2>9. ASSUME NEW t \in made \ m_recurring
        PROVE  /\ t \in m_cb \/ Listed(t)' \/ t \in done' \/ t \in cancelled
               /\ ~ (t \in m_cb /\ Listed(t)') /\ ~ (t \in m_cb /\ t \in done')
               /\ ~ (t \in m_cb /\ t \in cancelled) /\ ~ (Listed(t)' /\ t \in done')
               /\ ~ (Listed(t)' /\ t \in cancelled) /\ ~ (t \in done' /\ t \in cancelled)
    <3>1. CASE t = Head(cbs)
      BY <2>6, <2>9, <2>8, <3>1
    <3>2. CASE t # Head(cbs)
      <4>1. (Listed(t) <=> Listed(t)') /\ (t \in done <=> t \in done')
        BY <2>3, <2>6, <3>2
      <4>2. QED
        BY <2>9, <4>1
    <3>3. QED
      BY <3>1, <3>2
  <2>10. QED
    BY <2>7, <2>9, <2>5
<1>8. CASE get_next_time \/ epoll_wait \/ ListNone
  BY <1>8 DEF get_next_time, epoll_wait, ListNone
<1>9. CASE Tick \/ SetBack
  BY <1>9 DEF Tick, SetBack
<1>10. CASE UNCHANGED vars
  BY <1>10 DEF vars
<1>11. QED
  BY <1>1, <1>2, <1>3, <1>4, <1>5, <1>6, <1>7, <1>8, <1>9, <1>10
  DEF Next, ClientCall, TimerThread

LEMMA CountOnce ==
  ASSUME Typed, OnePlaceOK, NEW t
  PROVE  Count(cbs, t) = IF Listed(t) THEN 1 ELSE 0
<1>1. CASE ~ Listed(t)
  <2>1. {i \in DOMAIN cbs : cbs[i] = t} = {}
    BY <1>1 DEF Listed
  <2>2. QED
    BY <1>1, <2>1, FS_EmptySet DEF Count
<1>2. CASE Listed(t)
  <2>1. PICK i \in DOMAIN cbs : cbs[i] = t
    BY <1>2 DEF Listed
  <2>2. {j \in DOMAIN cbs : cbs[j] = t} = {i}
    BY <2>1 DEF OnePlaceOK
  <2>3. QED
    BY <1>2, <2>2, FS_Singleton DEF Count
<1>3. QED
  BY <1>1, <1>2

(* A one-shot callback is handed over at most once, is not lost, and is not*)
(* handed over once cancel has returned true, whatever calls race with     *)
(* list_expired_cb.                                                        *)
THEOREM OneShotIsInOnePlace == Spec => []OneShotInOnePlace
<1>1. ASSUME Typed, OnePlaceOK PROVE OneShotInOnePlace
  <2>1. SUFFICES ASSUME NEW t \in made, t \notin m_recurring
                 PROVE (IF t \in m_cb THEN 1 ELSE 0) + Count(cbs, t)
                       + (IF t \in done THEN 1 ELSE 0) + (IF t \in cancelled THEN 1 ELSE 0) = 1
    BY DEF OneShotInOnePlace
  <2>2. Count(cbs, t) = IF Listed(t) THEN 1 ELSE 0
    BY <1>1, CountOnce
  <2>3. QED
    BY <1>1, <2>1, <2>2 DEF OnePlaceOK
<1>2. QED
  BY <1>1, TypedInit, TypedStep, InSetInit, InSetStep, OnePlaceInit, OnePlaceStep, PTL DEF Spec

------------------------------------------------------------------------------
(***************************************************************************)
(* Deadlines: m_next is where the running period began, and the period.    *)
(***************************************************************************)
DeadlineOK == \A t \in made : m_next[t] = armed_at[t] + m_ms[t]

LEMMA DeadlineInit == Init => DeadlineOK
BY DEF Init, DeadlineOK

(* reset counts the new period from where the old one began.               *)
LEMMA ResetIsExact ==
  ASSUME Typed, DeadlineOK, NEW c \in Clients, reset(c)
  PROVE  LET t == arg[c].timer
             start == IF arg[c].from_now THEN now ELSE armed_at[t] IN
         /\ m_next' = [m_next EXCEPT ![t] = start + arg[c].ms]
         /\ armed_at' = [armed_at EXCEPT ![t] = start]
         /\ m_ms' = [m_ms EXCEPT ![t] = arg[c].ms]
         /\ t \in made /\ arg[c].ms \in Periods /\ start \in 0 .. MaxNow
<1> DEFINE t == arg[c].timer
           start == IF arg[c].from_now THEN now ELSE armed_at[t]
<1>1. t \in made /\ t \in Timers /\ arg[c].ms \in Periods
  BY DEF reset, Typed, CallsOK, SetsOK
<1>2. m_ms[t] \in Nat /\ armed_at[t] \in 0 .. MaxNow /\ now \in 0 .. MaxNow
  <2>1. \A p \in Periods \cup {0} : p \in Nat
    BY TimerAssumption
  <2>2. m_ms[t] \in Periods \cup {0}
    BY <1>1 DEF Typed, TimesOK
  <2>3. QED
    BY <1>1, <2>1, <2>2 DEF Typed, TimesOK, NumbersOK
<1>3. m_next[t] = armed_at[t] + m_ms[t]
  BY <1>1 DEF DeadlineOK
<1>4. start \in 0 .. MaxNow
  BY <1>2
<1>5. armed_at[t] \in 0 .. Width - 1
  <2>1. arg[c].ms \in Nat /\ armed_at[t] + arg[c].ms \in 0 .. Width - 1
    BY <1>1, <1>2, ClockFits, TimerAssumption
  <2>2. QED
    BY <1>2, <2>1, TimerAssumption
<1>6. reset_start(t, arg[c]) = start
  <2>1. m_next[t] - m_ms[t] = armed_at[t]
    BY <1>2, <1>3
  <2>2. (m_next[t] - m_ms[t]) % Width = armed_at[t]
    BY <1>5, <2>1, SmallMod
  <2>3. QED
    BY <2>2 DEF reset_start
<1>7. start + arg[c].ms \in 0 .. Width - 1
  BY <1>1, <1>4, ClockFits
<1>8. (reset_start(t, arg[c]) + arg[c].ms) % Width = start + arg[c].ms
  BY <1>6, <1>7, SmallMod
<1>9. m_next' = [m_next EXCEPT ![t] = start + arg[c].ms]
  BY <1>8 DEF reset
<1>10. armed_at' = [armed_at EXCEPT ![t] = start]
  BY <1>1 DEF reset, Typed, TimesOK
<1>11. m_ms' = [m_ms EXCEPT ![t] = arg[c].ms]
  BY DEF reset
<1>12. QED
  BY <1>1, <1>4, <1>9, <1>10, <1>11

LEMMA DeadlineStep == Typed /\ DeadlineOK /\ [Next]_vars => DeadlineOK'
<1> SUFFICES ASSUME Typed, DeadlineOK, [Next]_vars PROVE DeadlineOK'
  OBVIOUS
<1> USE DEF set_vars, clock, client, thread, history
<1>0. made \subseteq Timers
  BY DEF Typed, SetsOK
<1>1. ASSUME NEW c \in Clients, NEW t \in Timers, NEW ms \in Periods, NewTimer(c, t, ms) PROVE DeadlineOK'
  BY <1>0, <1>1 DEF NewTimer, DeadlineOK, Typed, TimesOK
<1>2. ASSUME NEW c \in Clients, NEW t \in Timers, refresh(c, t) \/ cancel(c, t) PROVE DeadlineOK'
  BY <1>0, <1>2 DEF refresh, cancel, DeadlineOK, Typed, TimesOK
<1>3. ASSUME NEW c \in Clients, NEW t \in Timers, NEW ms \in Periods, NEW f \in BOOLEAN,
             ResetCall(c, t, ms, f)
      PROVE  DeadlineOK'
  BY <1>3 DEF ResetCall, DeadlineOK
<1>4. ASSUME NEW c \in Clients, add_timer(c) \/ tickle_event(c) \/ ResetRefused(c) PROVE DeadlineOK'
  BY <1>4 DEF add_timer, tickle_event, ResetRefused, DeadlineOK
<1>5. ASSUME NEW c \in Clients, reset(c) PROVE DeadlineOK'
  <2>1. made' = made
    BY <1>5 DEF reset
  <2>2. QED
    BY <1>0, <1>5, <2>1, ResetIsExact DEF DeadlineOK, Typed, TimesOK
<1>6. CASE list_expired_cb
  <2>1. made' = made /\ m_ms' = m_ms
    BY <1>6 DEF list_expired_cb
  <2> DEFINE recurring == Expired \cap m_recurring
  <2>2. /\ m_next' = [t \in Timers |-> IF t \in recurring THEN now_ms + m_ms[t] ELSE m_next[t]]
        /\ armed_at' = [t \in Timers |-> IF t \in recurring THEN now_ms ELSE armed_at[t]]
    BY <1>6 DEF list_expired_cb
  <2> HIDE DEF recurring
  <2>3. QED
    BY <1>0, <2>1, <2>2 DEF DeadlineOK
<1>7. CASE get_next_time \/ epoll_wait \/ ListNone \/ HandOver
  BY <1>7 DEF get_next_time, epoll_wait, ListNone, HandOver, DeadlineOK
<1>8. CASE Tick \/ SetBack
  BY <1>8 DEF Tick, SetBack, DeadlineOK
<1>9. CASE UNCHANGED vars
  BY <1>9 DEF vars, DeadlineOK
<1>10. QED
  BY <1>1, <1>2, <1>3, <1>4, <1>5, <1>6, <1>7, <1>8, <1>9
  DEF Next, ClientCall, ClientStep, TimerThread

------------------------------------------------------------------------------
(***************************************************************************)
(* Times, while the clock is not set back.                                 *)
(***************************************************************************)
TimingOK ==
  backs = 0 =>
    /\ m_previous_time <= now
    /\ tpc = "list" => m_previous_time <= now_ms /\ now_ms <= now
    /\ \A t \in made : armed_at[t] <= now

LEMMA TimingInit == Init => TimingOK
BY DEF Init, TimingOK

LEMMA NotRolledOver ==
  ASSUME Typed, TimingOK, backs = 0, tpc = "list"
  PROVE  Expired = {t \in m_timers : m_next[t] <= now_ms}
<1>1. ~ (now_ms < m_previous_time)
  BY DEF TimingOK, Typed, NumbersOK
<1>2. QED
  BY <1>1 DEF Expired, detect_clock_roll_over

LEMMA TimingStep == Typed /\ DeadlineOK /\ TimingOK /\ [Next]_vars => TimingOK'
<1> SUFFICES ASSUME Typed, DeadlineOK, TimingOK, [Next]_vars, backs' = 0 PROVE TimingOK'
  BY DEF TimingOK
<1> USE DEF set_vars, clock, client, thread, history
<1>0. /\ now \in Int /\ now_ms \in Int /\ m_previous_time \in Int /\ backs \in Nat
      /\ made \subseteq Timers
  BY DEF Typed, NumbersOK, SetsOK
<1>1. ASSUME NEW c \in Clients, NEW t \in Timers, NEW ms \in Periods, NewTimer(c, t, ms) PROVE TimingOK'
  BY <1>0, <1>1 DEF NewTimer, TimingOK, Typed, TimesOK
<1>2. ASSUME NEW c \in Clients, NEW t \in Timers, refresh(c, t) \/ cancel(c, t) PROVE TimingOK'
  BY <1>0, <1>2 DEF refresh, cancel, TimingOK, Typed, TimesOK
<1>3. ASSUME NEW c \in Clients, NEW t \in Timers, NEW ms \in Periods, NEW f \in BOOLEAN,
             ResetCall(c, t, ms, f)
      PROVE  TimingOK'
  BY <1>3 DEF ResetCall, TimingOK
<1>4. ASSUME NEW c \in Clients, add_timer(c) \/ tickle_event(c) \/ ResetRefused(c) PROVE TimingOK'
  BY <1>4 DEF add_timer, tickle_event, ResetRefused, TimingOK
<1>5. ASSUME NEW c \in Clients, reset(c) PROVE TimingOK'
  <2>1. backs = 0 /\ UNCHANGED <<now, made, m_previous_time, tpc, now_ms>>
    BY <1>5 DEF reset
  <2>2. QED
    BY <1>0, <1>5, <2>1, ResetIsExact DEF TimingOK, Typed, TimesOK
<1>6. CASE list_expired_cb
  <2>1. /\ backs = 0 /\ tpc = "list" /\ m_previous_time' = now_ms /\ now' = now /\ made' = made
        /\ tpc' # "list" /\ m_ms' = m_ms
    BY <1>6 DEF list_expired_cb
  <2> DEFINE recurring == Expired \cap m_recurring
  <2>2. /\ m_next' = [t \in Timers |-> IF t \in recurring THEN now_ms + m_ms[t] ELSE m_next[t]]
        /\ armed_at' = [t \in Timers |-> IF t \in recurring THEN now_ms ELSE armed_at[t]]
    BY <1>6 DEF list_expired_cb
  <2> HIDE DEF recurring
  <2>3. QED
    BY <1>0, <2>1, <2>2 DEF TimingOK
<1>7. CASE get_next_time \/ epoll_wait \/ ListNone \/ HandOver
  BY <1>0, <1>7 DEF get_next_time, epoll_wait, ListNone, HandOver, TimingOK
<1>8. CASE Tick
  BY <1>0, <1>8 DEF Tick, TimingOK, Typed, TimesOK
<1>9. CASE SetBack
  BY <1>0, <1>9 DEF SetBack
<1>10. CASE UNCHANGED vars
  BY <1>10 DEF vars, TimingOK
<1>11. QED
  BY <1>1, <1>2, <1>3, <1>4, <1>5, <1>6, <1>7, <1>8, <1>9, <1>10
  DEF Next, ClientCall, ClientStep, TimerThread


(* Only list_expired_cb adds to the list.                                  *)
LEMMA OnlyExpiryCollects ==
  ASSUME Typed, [Next]_vars, NEW t, ~ Listed(t), Listed(t)'
  PROVE  list_expired_cb
<1> USE DEF Listed, set_vars, clock, client, thread, history
<1>1. ASSUME NEW c \in Clients, ClientCall(c) \/ ClientStep(c) PROVE FALSE
  BY <1>1 DEF ClientCall, ClientStep, NewTimer, cancel, refresh, ResetCall,
     add_timer, tickle_event, ResetRefused, reset
<1>2. CASE HandOver
  <2>1. /\ cbs # <<>> /\ cbs \in Seq(Timers) /\ cbs' = Tail(cbs)
    BY <1>2 DEF HandOver, Typed, CallsOK, ThreadOK
  <2>2. /\ Len(cbs') = Len(cbs) - 1 /\ cbs' \in Seq(Timers)
        /\ \A i \in 1 .. Len(cbs') : cbs'[i] = cbs[i + 1]
    BY <2>1, HeadTailProperties
  <2>3. QED
    BY <2>1, <2>2
<1>3. CASE get_next_time \/ epoll_wait \/ ListNone
  BY <1>3 DEF get_next_time, epoll_wait, ListNone
<1>4. CASE Tick \/ SetBack
  BY <1>4 DEF Tick, SetBack
<1>5. CASE UNCHANGED vars
  BY <1>5 DEF vars
<1>6. QED
  BY <1>1, <1>2, <1>3, <1>4, <1>5 DEF Next, TimerThread

LEMMA CollectedStep ==
  ASSUME Typed, OnePlaceOK, DeadlineOK, TimingOK, Typed', OnePlaceOK', [Next]_vars,
         NEW t \in Timers, Count(cbs', t) > Count(cbs, t), ~ backs > 0
  PROVE  now >= armed_at[t] + m_ms[t]
<1>1. Count(cbs, t) = IF Listed(t) THEN 1 ELSE 0
  BY CountOnce
<1>2. (Typed /\ OnePlaceOK => Count(cbs, t) = IF Listed(t) THEN 1 ELSE 0)'
  BY CountOnce, PTL
<1>3. Count(cbs', t) = IF Listed(t)' THEN 1 ELSE 0
  BY <1>2 DEF Count
<1>4. ~ Listed(t) /\ Listed(t)'
  BY <1>1, <1>3
<1>5. list_expired_cb /\ backs = 0
  BY <1>4, OnlyExpiryCollects DEF Typed, NumbersOK
<1>6. t \in Expired
  <2>1. Expired \in SUBSET Timers
    BY DEF Expired, Typed, SetsOK
  <2>2. cbs' \in Seq(Expired)
    BY <1>5, <2>1, InOrderFacts DEF list_expired_cb, Typed
  <2>3. QED
    BY <1>4, <2>2 DEF Listed
<1>7. t \in made /\ m_next[t] <= now_ms
  BY <1>5, <1>6, NotRolledOver DEF list_expired_cb, Typed, SetsOK
<1>8. now_ms <= now /\ m_next[t] = armed_at[t] + m_ms[t]
  BY <1>5, <1>7 DEF TimingOK, DeadlineOK, list_expired_cb
<1>9. m_next[t] \in Int /\ now_ms \in Int /\ now \in Int
  BY DEF Typed, TimesOK, NumbersOK
<1>10. QED
  BY <1>7, <1>8, <1>9

(* list_expired_cb collects no callback before its period has passed since *)
(* add_timer, refresh, reset or the last expiry.                           *)
THEOREM NothingCollectedEarly == Spec => CollectedInTime
<1>1. Typed /\ OnePlaceOK /\ DeadlineOK /\ TimingOK /\ Typed' /\ OnePlaceOK' /\ [Next]_vars
      => [\A t \in Timers : Count(cbs', t) > Count(cbs, t) =>
            now >= armed_at[t] + m_ms[t] \/ backs > 0]_vars
  BY CollectedStep
<1>2. QED
  BY <1>1, TypedInit, TypedStep, InSetInit, InSetStep, OnePlaceInit, OnePlaceStep,
     DeadlineInit, DeadlineStep, TimingInit, TimingStep, PTL DEF Spec, CollectedInTime

------------------------------------------------------------------------------
(***************************************************************************)
(* Wake-ups of the timer thread.                                           *)
(***************************************************************************)
Tickling == \E c \in Clients : pc[c] \in {"tickle", "tickle_new"}

WakeupOK ==
  tpc = "wait" =>
    /\ m_tickled => written \/ Tickling
    /\ backs = 0 => (\A t \in m_timers : m_next[t] >= waits_for) \/ written \/ Tickling

LEMMA WakeupInit == Init => WakeupOK
BY DEF Init, WakeupOK

LEMMA NotAtFront ==
  ASSUME NEW c, NEW t, NEW next, NEW tickle, InsertAt(c, t, next, tickle),
         m_tickled \in BOOLEAN, ~ m_tickled
  PROVE  \/ pc' = [pc EXCEPT ![c] = tickle] /\ m_tickled'
         \/ /\ Return(c) /\ ~ m_tickled'
            /\ \E s \in m_timers \ {t} : ~ Before(next, t, s)
BY DEF InsertAt, IsFront

LEMMA StillTickling ==
  ASSUME ClientsOK, Tickling, [Next]_vars, \A c \in Clients : ~ tickle_event(c)
  PROVE  Tickling'
<1>1. PICK c \in Clients : pc[c] \in {"tickle", "tickle_new"}
  BY DEF Tickling
<1>2. pc'[c] = pc[c]
  <2> USE <1>1 DEF ClientsOK, set_vars, clock, client, thread, history
  <2>1. ASSUME NEW d \in Clients, ClientCall(d) PROVE pc'[c] = pc[c]
    BY <2>1 DEF ClientCall, Call, NewTimer, cancel, refresh, ResetCall
  <2>2. ASSUME NEW d \in Clients, add_timer(d) \/ reset(d) PROVE pc'[c] = pc[c]
    BY <2>2, InsertAtEffect DEF add_timer, reset, Return
  <2>3. ASSUME NEW d \in Clients, ResetRefused(d) PROVE pc'[c] = pc[c]
    BY <2>3 DEF ResetRefused, Return
  <2>4. CASE TimerThread
    BY <2>4 DEF TimerThread, get_next_time, epoll_wait, ListNone, list_expired_cb, HandOver
  <2> QED
    BY <2>4, <2>1, <2>3, <2>2 DEF Next, ClientStep, Tick, SetBack, vars
<1>3. QED
  BY <1>1, <1>2 DEF Tickling

(* The end of add_timer(val, lock): what it brings forward it signals.     *)
LEMMA InsertedIsSignalled ==
  ASSUME Typed, WakeupOK, tpc = "wait", backs = 0, ~ written, ~ Tickling,
         NEW c \in Clients, NEW t \in Timers, NEW next \in [Timers -> 0 .. Width - 1],
         \A s \in Timers \ {t} : next[s] = m_next[s],
         NEW tickle \in {"tickle", "tickle_new"}, InsertAt(c, t, next, tickle)
  PROVE  (\A s \in m_timers' : next[s] >= waits_for) \/ Tickling'
<1>1. ~ m_tickled /\ \A s \in m_timers : m_next[s] >= waits_for
  BY DEF WakeupOK
<1>2. m_timers' = m_timers \cup {t} /\ m_timers \subseteq Timers /\ m_tickled \in BOOLEAN
  BY InsertAtEffect DEF Typed, SetsOK
<1>3. CASE pc' = [pc EXCEPT ![c] = tickle]
  BY <1>3 DEF Tickling, Typed, ClientsOK
<1>4. CASE \E s \in m_timers \ {t} : ~ Before(next, t, s)
  <2>1. PICK s \in m_timers \ {t} : ~ Before(next, t, s)
    BY <1>4
  <2>2. next[s] \in Int /\ next[t] \in Int /\ s \in Int /\ t \in Int /\ s # t
    BY <1>2, <2>1, TimerAssumption DEF Timers
  <2>3. next[t] >= next[s]
    BY <2>1, <2>2 DEF Before
  <2>4. next[s] >= waits_for
    BY <1>1, <1>2, <2>1
  <2>5. next[t] >= waits_for
    BY <2>2, <2>3, <2>4 DEF Typed, TimesOK
  <2>6. QED
    BY <1>1, <1>2, <2>5
<1>5. \/ pc' = [pc EXCEPT ![c] = tickle]
      \/ \E s \in m_timers \ {t} : ~ Before(next, t, s)
  BY <1>1, <1>2, NotAtFront
<1>6. QED
  BY <1>3, <1>4, <1>5

LEMMA WakeupStep == Typed /\ DeadlineOK /\ TimingOK /\ WakeupOK /\ [Next]_vars => WakeupOK'
<1> SUFFICES ASSUME Typed, DeadlineOK, TimingOK, WakeupOK, [Next]_vars, tpc' = "wait" PROVE WakeupOK'
  BY DEF WakeupOK
<1> USE DEF set_vars, clock, client, thread, history
<1>0. /\ backs \in Nat /\ m_timers \subseteq Timers /\ made \subseteq Timers /\ waits_for \in Int
      /\ m_tickled \in BOOLEAN /\ written \in BOOLEAN
  BY TimerAssumption DEF Typed, NumbersOK, SetsOK, TimesOK
<1>1. ASSUME NEW c \in Clients, tickle_event(c) PROVE WakeupOK'
  BY <1>1 DEF tickle_event, WakeupOK
<1>2. CASE get_next_time
  <2>1. ~ m_tickled' /\ m_timers' = m_timers /\ m_next' = m_next
    BY <1>2 DEF get_next_time
  <2>2. ASSUME NEW t \in m_timers, IsFront(t, m_timers, m_next), waits_for' = m_next[t],
               NEW s \in m_timers
        PROVE  m_next[s] >= waits_for'
    <3>1. m_next[s] \in Int /\ m_next[t] \in Int
      BY <1>0 DEF Typed, TimesOK
    <3>2. s = t \/ m_next[t] < m_next[s] \/ m_next[t] = m_next[s]
      BY <2>2 DEF IsFront, Before
    <3>3. QED
      BY <2>2, <3>1, <3>2
  <2>3. \A s \in m_timers : m_next[s] >= waits_for'
    BY <1>2, <2>2 DEF get_next_time
  <2>4. QED
    BY <2>1, <2>3 DEF WakeupOK
<1>3. CASE epoll_wait \/ ListNone \/ list_expired_cb \/ HandOver
  BY <1>3 DEF epoll_wait, ListNone, list_expired_cb, HandOver
<1>4. CASE UNCHANGED vars \/ Tick \/ SetBack
  <2>1. UNCHANGED <<tpc, m_tickled, m_timers, m_next, waits_for, written, pc>> /\ (backs' = 0 => backs = 0)
    BY <1>0, <1>4 DEF vars, Tick, SetBack
  <2>2. QED
    BY <2>1 DEF WakeupOK, Tickling
<1>5. ASSUME NEW c \in Clients, ClientCall(c) \/ add_timer(c) \/ reset(c) \/ ResetRefused(c)
      PROVE  WakeupOK'
  <2>1. UNCHANGED <<tpc, backs, waits_for, written>>
    BY <1>5 DEF ClientCall, NewTimer, cancel, refresh, ResetCall, add_timer, reset, ResetRefused
  <2>2. CASE written
    BY <2>1, <2>2 DEF WakeupOK
  <2>3. CASE Tickling /\ \A d \in Clients : ~ tickle_event(d)
    BY <2>3, StillTickling DEF Typed, WakeupOK
  <2>4. CASE ~ written /\ ~ Tickling
    <3>1. ~ m_tickled /\ (backs = 0 => \A t \in m_timers : m_next[t] >= waits_for)
      BY <2>1, <2>4 DEF WakeupOK
    <3>2. ASSUME NEW t \in Timers, NEW ms \in Periods, NewTimer(c, t, ms) PROVE WakeupOK'
      <4>1. UNCHANGED <<m_timers, m_tickled>> /\ t \notin m_timers /\ m_next' = [m_next EXCEPT ![t] = now + ms]
        BY <3>2 DEF NewTimer, Typed, SetsOK
      <4>2. \A s \in m_timers : m_next'[s] = m_next[s]
        BY <1>0, <4>1 DEF Typed, TimesOK
      <4>3. QED
        BY <2>1, <3>1, <4>1, <4>2 DEF WakeupOK
    <3>3. ASSUME NEW t \in Timers, refresh(c, t) PROVE WakeupOK'
      <4>1. /\ UNCHANGED <<m_timers, m_tickled>> /\ t \in made /\ t \in m_timers
            /\ m_next' = [m_next EXCEPT ![t] = now + m_ms[t]]
        BY <3>3 DEF refresh, Known
      <4>2. ASSUME backs = 0 PROVE \A s \in m_timers : m_next'[s] >= waits_for
        <5>1. armed_at[t] <= now /\ m_next[t] = armed_at[t] + m_ms[t]
          BY <4>1, <4>2 DEF TimingOK, DeadlineOK
        <5>2. m_ms[t] \in Int /\ armed_at[t] \in Int /\ now \in Int
          <6>1. \A p \in Periods : p \in Int
            BY TimerAssumption
          <6>2. QED
            BY <6>1, <4>1 DEF Typed, TimesOK, NumbersOK, CallsOK
        <5>3. now + m_ms[t] >= waits_for
          <6>1. m_next[t] >= waits_for
            BY <3>1, <4>1, <4>2
          <6>2. QED
            BY <1>0, <5>1, <5>2, <6>1
        <5>4. QED
          BY <1>0, <3>1, <4>1, <4>2, <5>3 DEF Typed, TimesOK
      <4>3. QED
        BY <2>1, <3>1, <4>1, <4>2 DEF WakeupOK
    <3>4. ASSUME NEW t \in Timers, cancel(c, t) PROVE WakeupOK'
      BY <2>1, <3>1, <3>4 DEF cancel, WakeupOK
    <3>5. ASSUME NEW t \in Timers, NEW ms \in Periods, NEW f \in BOOLEAN, ResetCall(c, t, ms, f) PROVE WakeupOK'
      BY <2>1, <3>1, <3>5 DEF ResetCall, WakeupOK
    <3>6. CASE ResetRefused(c)
      BY <2>1, <3>1, <3>6 DEF ResetRefused, WakeupOK
    <3>7. CASE add_timer(c)
      <4>1. InsertAt(c, arg[c].timer, m_next, "tickle_new") /\ m_next' = m_next /\ arg[c].timer \in Timers
        BY <1>0, <3>7 DEF add_timer, Typed, CallsOK
      <4>2. m_tickled' => Tickling'
        BY <1>0, <3>1, <4>1, NotAtFront DEF Tickling, Typed, ClientsOK
      <4>3. backs = 0 => (\A s \in m_timers' : m_next[s] >= waits_for) \/ Tickling'
        BY <2>1, <2>4, <4>1, InsertedIsSignalled DEF Typed, TimesOK
      <4>4. QED
        BY <2>1, <4>1, <4>2, <4>3 DEF WakeupOK
    <3>8. CASE reset(c)
      <4> DEFINE t == arg[c].timer
                 next == [m_next EXCEPT ![t] = (reset_start(t, arg[c]) + arg[c].ms) % Width]
      <4>1. InsertAt(c, t, next, "tickle") /\ m_next' = next /\ t \in Timers
        BY <1>0, <3>8 DEF reset, Typed, CallsOK
      <4>2. next \in [Timers -> 0 .. Width - 1]
        BY <4>1, TypedStep DEF Typed, TimesOK
      <4>3. \A s \in Timers \ {t} : next[s] = m_next[s]
        BY DEF Typed, TimesOK
      <4> HIDE DEF next
      <4>4. m_tickled' => Tickling'
        BY <1>0, <3>1, <4>1, NotAtFront DEF Tickling, Typed, ClientsOK
      <4>5. backs = 0 => (\A s \in m_timers' : next[s] >= waits_for) \/ Tickling'
        BY <2>1, <2>4, <4>1, <4>2, <4>3, InsertedIsSignalled
      <4>6. QED
        BY <2>1, <4>1, <4>4, <4>5 DEF WakeupOK
    <3>9. QED
      BY <1>5, <3>2, <3>3, <3>4, <3>5, <3>6, <3>7, <3>8 DEF ClientCall
  <2>5. QED
    BY <1>1, <2>2, <2>3, <2>4
<1>6. QED
  BY <1>1, <1>2, <1>3, <1>4, <1>5 DEF Next, ClientStep, TimerThread

(* A timer due before the deadline get_next_time returned is signalled, or *)
(* about to be: clearing m_tickled in get_next_time loses no wake-up.      *)
THEOREM NoWakeupIsLost == Spec => []NoLostWakeup
<1>1. Typed /\ WakeupOK => NoLostWakeup
  BY DEF WakeupOK, NoLostWakeup, Tickling, Typed, NumbersOK
<1>2. QED
  BY <1>1, TypedInit, TypedStep, DeadlineInit, DeadlineStep, TimingInit, TimingStep, WakeupInit, WakeupStep, PTL
  DEF Spec
------------------------------------------------------------------------------
(***************************************************************************)
(* TimerMgr implements AlarmClock.                                         *)
(***************************************************************************)
AlarmOK == Typed /\ InSetOK /\ OnePlaceOK /\ DeadlineOK /\ TimingOK

Phases == [t \in Timers |-> Phase(t)]

LEMMA InsertingIs == \A t : t \in Inserting <=> IsInserting(t)
BY DEF Inserting, IsInserting

LEMMA PhaseIs ==
  ASSUME Typed, InSetOK, NEW t \in Timers
  PROVE  /\ Phases[t] = Phase(t)
         /\ t \in m_timers => Phase(t) = "set"
         /\ IsInserting(t) => Phase(t) = "made"
         /\ t \notin made => Phase(t) = "none"
         /\ t \in made /\ t \notin m_timers /\ ~ IsInserting(t)
            => Phase(t) = IF t \in cancelled THEN "cancelled" ELSE "over"
<1>1. /\ t \in m_timers => t \in made /\ ~ IsInserting(t)
      /\ IsInserting(t) => t \in made
  BY DEF Typed, SetsOK, CallsOK, InSetOK, IsInserting
<1>2. QED
  BY <1>1, InsertingIs DEF Phase, Phases

LEMMA PhaseThen ==
  ASSUME NEW t
  PROVE  Phase(t)' = IF t \in m_timers' THEN "set"
                     ELSE IF IsInserting(t)' THEN "made"
                     ELSE IF t \notin made' THEN "none"
                     ELSE IF t \in cancelled' THEN "cancelled" ELSE "over"
BY DEF Phase, Inserting, IsInserting

(* The phases depend on where a timer is: a step that leaves a timer where *)
(* it is leaves its phase.                                                 *)
SamePlace(t) ==
  /\ t \in m_timers' <=> t \in m_timers
  /\ t \in made' <=> t \in made
  /\ t \in cancelled' <=> t \in cancelled
  /\ IsInserting(t)' <=> IsInserting(t)

LEMMA SamePhase ==
  ASSUME NEW t \in Timers, SamePlace(t)
  PROVE  Phase(t)' = Phase(t)
<1>1. /\ (t \in Inserting <=> IsInserting(t))
      /\ (t \in Inserting)' <=> IsInserting(t)'
  BY DEF Inserting, IsInserting
<1>2. QED
  BY <1>1 DEF Phase, SamePlace

LEMMA PhasesStay ==
  ASSUME \A t \in Timers : SamePlace(t)
  PROVE  Phases' = Phases
BY SamePhase DEF Phases

LEMMA PhaseMoves ==
  ASSUME NEW t \in Timers, \A s \in Timers \ {t} : SamePlace(s)
  PROVE  Phases' = [Phases EXCEPT ![t] = Phase(t)']
BY SamePhase DEF Phases

LEMMA AlarmInit == Init => Alarm!Init
<1> SUFFICES ASSUME Init PROVE Alarm!Init
  OBVIOUS
<1>1. \A t \in Timers : Phase(t) = "none"
  BY DEF Init, Phase, Inserting
<1>2. ~ backs > 0 /\ now \in 0 .. MaxNow
  BY TimerAssumption DEF Init
<1>3. QED
  BY <1>1, <1>2 DEF Init, Alarm!Init

(* What a step does not do to the alarm clock.                             *)
LEMMA AlarmStutters ==
  ASSUME UNCHANGED <<now, backs, armed_at, m_ms, cbs>>, \A t \in Timers : SamePlace(t)
  PROVE  UNCHANGED Alarm!alarm_vars
BY PhasesStay DEF Alarm!alarm_vars, Phases

(* A call that starts or ends outside add_timer inserts nothing.           *)
LEMMA NotInserting ==
  ASSUME NEW c, \A d \in Clients \ {c} : pc'[d] = pc[d] /\ arg'[d] = arg[d],
         pc[c] # "insert", pc'[c] # "insert", NEW t
  PROVE  IsInserting(t)' <=> IsInserting(t)
BY DEF IsInserting

LEMMA AlarmMade ==
  ASSUME AlarmOK, AlarmOK', NEW c \in Clients, NEW t \in Timers, NEW ms \in Periods, NewTimer(c, t, ms)
  PROVE  Alarm!Make(t)
<1> USE DEF AlarmOK
<1>1. /\ pc[c] = "idle" /\ pc'[c] = "insert" /\ arg'[c].timer = t
      /\ \A d \in Clients \ {c} : pc'[d] = pc[d] /\ arg'[d] = arg[d]
  BY DEF NewTimer, Call, NoCall, Typed, ClientsOK
<1>2. t \notin made /\ made' = made \cup {t} /\ UNCHANGED <<m_timers, cancelled>>
  BY DEF NewTimer
<1>3. \A s \in Timers \ {t} : SamePlace(s)
  BY <1>1, <1>2 DEF SamePlace, IsInserting
<1>4. IsInserting(t)' /\ t \notin m_timers'
  BY <1>1, <1>2 DEF IsInserting, Typed, SetsOK
<1>5. Phases[t] = "none" /\ Phase(t)' = "made"
  BY <1>2, <1>4, PhaseIs, PhaseThen
<1>6. Phases' = [Phases EXCEPT ![t] = "made"]
  BY <1>3, <1>5, PhaseMoves
<1>7. QED
  BY <1>5, <1>6 DEF NewTimer, clock, thread, Alarm!Make, Alarm!Moves, Phases

LEMMA AlarmInserted ==
  ASSUME AlarmOK, AlarmOK', NEW c \in Clients, add_timer(c)
  PROVE  \E t \in Timers : Alarm!Insert(t)
<1> USE DEF AlarmOK
<1>1. PICK t \in Timers : pc[c] = "insert" /\ t = arg[c].timer /\ t \in made
  BY DEF add_timer, Typed, CallsOK, SetsOK
<1>2. /\ pc'[c] # "insert" /\ m_timers' = m_timers \cup {t} /\ UNCHANGED <<made, cancelled>>
      /\ \A d \in Clients \ {c} : pc'[d] = pc[d] /\ arg'[d] = arg[d]
  BY <1>1, InsertAtEffect DEF add_timer, Return, history, Typed, ClientsOK
<1>3. \A s \in Timers \ {t} : SamePlace(s)
  BY <1>1, <1>2 DEF SamePlace, IsInserting
<1>4. IsInserting(t)
  BY <1>1 DEF IsInserting
<1>5. Phases[t] = "made" /\ Phase(t)' = "set"
  BY <1>1, <1>2, <1>4, PhaseIs, PhaseThen
<1>6. Phases' = [Phases EXCEPT ![t] = "set"]
  BY <1>1, <1>3, <1>5, PhaseMoves
<1>7. Alarm!Insert(t)
  BY <1>5, <1>6 DEF add_timer, clock, thread, history, Alarm!Insert, Alarm!Moves, Phases
<1>8. QED
  BY <1>1, <1>7

LEMMA AlarmCancelled ==
  ASSUME AlarmOK, AlarmOK', NEW c \in Clients, NEW t \in Timers, cancel(c, t)
  PROVE  Alarm!Cancel(t)
<1> USE DEF AlarmOK
<1>1. UNCHANGED <<pc, arg, made>> /\ m_timers' = m_timers \ {t} /\ cancelled' = cancelled \cup {t}
  BY DEF cancel
<1>2. t \in m_timers /\ t \in made /\ ~ IsInserting(t)
  BY DEF cancel, Known, InSetOK, IsInserting
<1>3. \A s \in Timers \ {t} : SamePlace(s)
  BY <1>1 DEF SamePlace, IsInserting
<1>4. ~ IsInserting(t)'
  BY <1>1, <1>2 DEF IsInserting
<1>5. Phases[t] = "set" /\ Phase(t)' = "cancelled"
  BY <1>1, <1>2, <1>4, PhaseIs, PhaseThen
<1>6. Phases' = [Phases EXCEPT ![t] = "cancelled"]
  BY <1>3, <1>5, PhaseMoves
<1>7. QED
  BY <1>5, <1>6 DEF cancel, clock, thread, Alarm!Cancel, Alarm!Moves, Phases

LEMMA AlarmRefreshed ==
  ASSUME AlarmOK, AlarmOK', NEW c \in Clients, NEW t \in Timers, refresh(c, t)
  PROVE  Alarm!Refresh(t)
<1>1. UNCHANGED <<pc, arg, made, m_timers, cancelled>> /\ t \in m_timers
  BY DEF refresh
<1>2. \A s \in Timers : SamePlace(s)
  BY <1>1 DEF SamePlace, IsInserting
<1>3. Phases' = Phases /\ Phases[t] = "set"
  BY <1>1, <1>2, PhasesStay, PhaseIs DEF AlarmOK
<1>4. QED
  BY <1>3 DEF refresh, clock, thread, Alarm!Refresh, Phases

LEMMA AlarmReset ==
  ASSUME AlarmOK, AlarmOK', NEW c \in Clients, reset(c)
  PROVE  \E t \in Timers : Alarm!Reset(t)
<1> USE DEF AlarmOK
<1> DEFINE t == arg[c].timer
<1>1. /\ pc[c] = "reset" /\ t \in m_timers /\ t \in Timers /\ arg[c].ms \in Periods
      /\ UNCHANGED <<made, cancelled, now, backs, cbs>>
  BY DEF reset, clock, thread, Typed, CallsOK, SetsOK
<1>2. /\ pc'[c] # "insert" /\ m_timers' = m_timers
      /\ \A d \in Clients \ {c} : pc'[d] = pc[d] /\ arg'[d] = arg[d]
  <2>1. m_timers' = m_timers
    BY <1>1, InsertAtEffect DEF reset
  <2>2. CASE Return(c)
    BY <2>1, <2>2 DEF Return, Typed, ClientsOK
  <2>3. CASE pc' = [pc EXCEPT ![c] = "tickle"] /\ arg' = arg
    BY <2>1, <2>3 DEF Typed, ClientsOK
  <2>4. QED
    BY <2>2, <2>3, InsertAtEffect DEF reset
<1>3. \A s \in Timers : SamePlace(s)
  BY <1>1, <1>2, NotInserting DEF SamePlace
<1>4. Phases' = Phases /\ Phases[t] = "set"
  BY <1>1, <1>3, PhasesStay, PhaseIs
<1>5. m_ms' = [m_ms EXCEPT ![t] = arg[c].ms]
  BY DEF reset
<1>6. armed_at' = armed_at \/ armed_at' = [armed_at EXCEPT ![t] = now]
  BY <1>1 DEF reset, Typed, TimesOK
<1>7. Alarm!Reset(t)
  BY <1>1, <1>4, <1>5, <1>6 DEF Alarm!Reset, Phases
<1>8. QED
  BY <1>1, <1>7

(* What list_expired_cb takes for expired is what is due by the time it    *)
(* read, or everything after the clock was set back.                       *)
LEMMA ExpiredIsDue ==
  ASSUME AlarmOK, tpc = "list"
  PROVE  /\ Expired \in {Alarm!DueBy(now_ms), Alarm!Set}
         /\ backs > 0 \/ (now_ms <= now /\ Expired = Alarm!DueBy(now_ms))
<1> USE DEF AlarmOK
<1>1. \A t \in Timers : Phase(t) = "set" <=> t \in m_timers
  <2>1. SUFFICES ASSUME NEW t \in Timers PROVE Phase(t) = "set" <=> t \in m_timers
    OBVIOUS
  <2>2. QED
    BY PhaseIs
<1>2. m_timers \subseteq Timers /\ m_timers \subseteq made
  BY DEF Typed, SetsOK
<1>3. Alarm!Set = m_timers
  BY <1>1, <1>2 DEF Alarm!Set
<1>4. Alarm!DueBy(now_ms) = {t \in m_timers : m_next[t] <= now_ms}
  BY <1>2, <1>3 DEF Alarm!DueBy, Alarm!Deadline, DeadlineOK
<1>5. CASE backs = 0
  BY <1>3, <1>4, <1>5, NotRolledOver DEF TimingOK
<1>6. CASE backs # 0
  <2>1. Expired \in {Alarm!DueBy(now_ms), Alarm!Set}
    BY <1>3, <1>4 DEF Expired
  <2>2. QED
    BY <1>3, <1>6, <2>1 DEF Typed, NumbersOK
<1>7. QED
  BY <1>5, <1>6

LEMMA AlarmGoesOff ==
  ASSUME AlarmOK, AlarmOK', list_expired_cb, Expired # {}
  PROVE  Alarm!GoOff(now_ms, Expired)
<1> USE DEF AlarmOK
<1> DEFINE once == Expired \ m_recurring
           again == Expired \cap m_recurring
<1>1. /\ tpc = "list" /\ cbs = <<>> /\ cbs' \in InOrder(Expired)
      /\ m_timers' = (m_timers \ Expired) \cup again
      /\ armed_at' = [t \in Timers |-> IF t \in again THEN now_ms ELSE armed_at[t]]
      /\ UNCHANGED <<now, backs, m_ms, made, cancelled, pc, arg>>
  BY DEF list_expired_cb, clock, client, Typed, CallsOK
<1>2. Expired \subseteq m_timers /\ m_timers \subseteq made /\ made \subseteq Timers
  BY DEF Expired, Typed, SetsOK
<1>3. \A t : IsInserting(t)' <=> IsInserting(t)
  BY <1>1 DEF IsInserting
<1>4. ASSUME NEW t \in Timers PROVE Phase(t)' = IF t \in once THEN "over" ELSE Phase(t)
  <2>1. CASE t \in once
    <3>1. t \notin m_timers' /\ t \in made' /\ t \in m_timers
      BY <1>1, <1>2, <2>1
    <3>2. ~ IsInserting(t)'
      BY <1>3, <3>1 DEF InSetOK, IsInserting
    <3>3. t \notin cancelled'
      BY <1>1, <1>2, <2>1, <3>1 DEF InSetOK, OnePlaceOK
    <3>4. QED
      BY <2>1, <3>1, <3>2, <3>3, PhaseThen
  <2>2. CASE t \notin once
    <3>1. SamePlace(t)
      BY <1>1, <1>2, <1>3, <2>2 DEF SamePlace
    <3>2. QED
      BY <2>2, <3>1, SamePhase
  <2>3. QED
    BY <2>1, <2>2
<1>5. Phases' = [t \in Timers |-> IF t \in once THEN "over" ELSE Phases[t]]
  BY <1>4 DEF Phases
<1>6. Alarm!Lists(cbs', Expired)
  <2>1. \A t \in Expired : Alarm!Deadline(t) = m_next[t]
    BY <1>2 DEF Alarm!Deadline, DeadlineOK
  <2>2. PICK f \in InOrder(Expired) : cbs' = f
    BY <1>1
  <2>3. f \in Seq(Expired) /\ \A t \in Expired : \E i \in DOMAIN f : f[i] = t
    BY <1>2, InOrderFacts DEF Typed
  <2>4. ASSUME NEW i \in DOMAIN f, NEW j \in DOMAIN f, i < j
        PROVE  \/ Alarm!Deadline(f[i]) < Alarm!Deadline(f[j])
               \/ Alarm!Deadline(f[i]) = Alarm!Deadline(f[j]) /\ f[i] < f[j]
    <3>1. Before(m_next, f[i], f[j])
      BY <2>4 DEF InOrder
    <3>2. f[i] \in Expired /\ f[j] \in Expired
      BY <2>3, <2>4
    <3>3. QED
      BY <2>1, <3>1, <3>2 DEF Before
  <2>5. Alarm!Lists(f, Expired)
    BY <2>3, <2>4 DEF Alarm!Lists
  <2>6. QED
    BY <2>2, <2>5
<1>7. backs > 0 \/ (now_ms <= now /\ Expired = Alarm!DueBy(now_ms))
  BY <1>1, ExpiredIsDue
<1>8. QED
  BY <1>1, <1>5, <1>6, <1>7 DEF Alarm!GoOff, Phases

LEMMA NothingExpired ==
  ASSUME AlarmOK, list_expired_cb, Expired = {}
  PROVE  UNCHANGED Alarm!alarm_vars
<1> USE DEF AlarmOK
<1>1. /\ tpc = "list" /\ cbs = <<>> /\ cbs' \in InOrder({})
      /\ UNCHANGED <<now, backs, m_ms, made, cancelled, pc, arg, m_timers>>
  BY DEF list_expired_cb, clock, client, Typed, CallsOK
<1>2. armed_at' = armed_at
  BY DEF list_expired_cb, Typed, TimesOK
<1>3. cbs' = <<>>
  <2>1. cbs' \in Seq({})
    BY <1>1, InOrderFacts DEF Typed
  <2>2. QED
    BY <2>1, EmptySeq
<1>4. \A t \in Timers : SamePlace(t)
  BY <1>1 DEF SamePlace, IsInserting
<1>5. QED
  BY <1>1, <1>2, <1>3, <1>4, AlarmStutters

LEMMA AlarmStep == AlarmOK /\ AlarmOK' /\ [Next]_vars => [Alarm!Next]_(Alarm!alarm_vars)
<1> SUFFICES ASSUME AlarmOK, AlarmOK', [Next]_vars PROVE Alarm!Next \/ UNCHANGED Alarm!alarm_vars
  OBVIOUS
<1> USE DEF set_vars, clock, client, thread, history
<1>1. ASSUME NEW c \in Clients, ClientCall(c) PROVE Alarm!Next \/ UNCHANGED Alarm!alarm_vars
  <2>1. ASSUME NEW t \in Timers, NEW ms \in Periods, NewTimer(c, t, ms) PROVE Alarm!Next
    BY <2>1, AlarmMade DEF Alarm!Next
  <2>2. ASSUME NEW t \in Timers, cancel(c, t) PROVE Alarm!Next
    BY <2>2, AlarmCancelled DEF Alarm!Next
  <2>3. ASSUME NEW t \in Timers, refresh(c, t) PROVE Alarm!Next
    BY <2>3, AlarmRefreshed DEF Alarm!Next
  <2>4. ASSUME NEW t \in Timers, NEW ms \in Periods, NEW f \in BOOLEAN, ResetCall(c, t, ms, f)
        PROVE  UNCHANGED Alarm!alarm_vars
    <3>1. UNCHANGED <<now, backs, armed_at, m_ms, cbs, made, m_timers, cancelled>>
      BY <2>4 DEF ResetCall
    <3>2. /\ \A d \in Clients : pc'[d] = "insert" <=> pc[d] = "insert"
          /\ \A d \in Clients : pc[d] = "insert" => arg'[d] = arg[d]
      BY <2>4 DEF ResetCall, Call, AlarmOK, Typed, ClientsOK
    <3>3. \A s \in Timers : SamePlace(s)
      BY <3>1, <3>2 DEF SamePlace, IsInserting
    <3>4. QED
      BY <3>1, <3>3, AlarmStutters
  <2>5. QED
    BY <1>1, <2>1, <2>2, <2>3, <2>4 DEF ClientCall
<1>2. ASSUME NEW c \in Clients, ClientStep(c) PROVE Alarm!Next \/ UNCHANGED Alarm!alarm_vars
  <2>1. CASE add_timer(c)
    BY <2>1, AlarmInserted DEF Alarm!Next
  <2>2. CASE reset(c)
    BY <2>2, AlarmReset DEF Alarm!Next
  <2>3. CASE tickle_event(c) \/ ResetRefused(c)
    <3>1. UNCHANGED <<now, backs, armed_at, m_ms, cbs, made, m_timers, cancelled>>
      BY <2>3 DEF tickle_event, ResetRefused
    <3>2. /\ pc[c] # "insert" /\ pc'[c] # "insert"
          /\ \A d \in Clients \ {c} : pc'[d] = pc[d] /\ arg'[d] = arg[d]
      BY <2>3 DEF tickle_event, ResetRefused, Return, AlarmOK, Typed, ClientsOK
    <3>3. \A s \in Timers : SamePlace(s)
      BY <3>1, <3>2, NotInserting DEF SamePlace
    <3>4. QED
      BY <3>1, <3>3, AlarmStutters
  <2>4. QED
    BY <1>2, <2>1, <2>2, <2>3 DEF ClientStep
<1>3. CASE list_expired_cb
  <2>1. CASE Expired = {}
    BY <1>3, <2>1, NothingExpired
  <2>2. CASE Expired # {}
    <3>1. now_ms \in 0 .. MaxNow /\ Expired \in {Alarm!DueBy(now_ms), Alarm!Set}
      BY <1>3, ExpiredIsDue DEF list_expired_cb, AlarmOK, Typed, NumbersOK
    <3>2. QED
      BY <1>3, <2>2, <3>1, AlarmGoesOff DEF Alarm!Next
  <2>3. QED
    BY <2>1, <2>2
<1>4. CASE HandOver \/ Tick \/ SetBack
  <2>1. UNCHANGED <<armed_at, m_ms, made, m_timers, cancelled, pc, arg>>
    BY <1>4 DEF HandOver, Tick, SetBack
  <2>2. Phases' = Phases
    BY <2>1, PhasesStay DEF SamePlace, IsInserting
  <2>3. CASE HandOver
    <3>1. cbs # <<>> /\ cbs' = Tail(cbs) /\ UNCHANGED <<now, backs>>
      BY <2>3 DEF HandOver, AlarmOK, Typed, CallsOK
    <3>2. Alarm!Leave
      BY <2>1, <2>2, <3>1 DEF Alarm!Leave, Phases
    <3>3. QED
      BY <3>2 DEF Alarm!Next
  <2>4. CASE Tick \/ SetBack
    <3>1. now' \in 0 .. MaxNow /\ cbs' = cbs
      BY <2>4 DEF Tick, SetBack, AlarmOK, Typed, NumbersOK
    <3>2. (backs > 0)' <=> backs > 0 \/ now' < now
      BY <2>4, TimerAssumption DEF Tick, SetBack, AlarmOK, Typed, NumbersOK
    <3>3. Alarm!ClockChanges
      BY <2>1, <2>2, <3>1, <3>2 DEF Alarm!ClockChanges, Phases
    <3>4. QED
      BY <3>3 DEF Alarm!Next
  <2>5. QED
    BY <1>4, <2>3, <2>4
<1>5. CASE get_next_time \/ epoll_wait \/ ListNone \/ UNCHANGED vars
  <2>1. UNCHANGED <<now, backs, armed_at, m_ms, cbs, made, m_timers, cancelled, pc, arg>>
    BY <1>5 DEF get_next_time, epoll_wait, ListNone, vars
  <2>2. QED
    BY <2>1, AlarmStutters DEF SamePlace, IsInserting
<1>6. QED
  BY <1>1, <1>2, <1>3, <1>4, <1>5 DEF Next, TimerThread

(* Whatever calls race with list_expired_cb, the timers due at the time it *)
(* read go off together, in order of their deadlines and not before them;  *)
(* a one-shot goes off once, and not after cancel; a recurring timer       *)
(* begins again at the time read.                                          *)
THEOREM TimersImplementAlarmClock == Spec => ImplementsAlarmClock
<1>1. Spec => []AlarmOK
  BY TypedInit, TypedStep, InSetInit, InSetStep, OnePlaceInit, OnePlaceStep,
     DeadlineInit, DeadlineStep, TimingInit, TimingStep, PTL DEF Spec, AlarmOK
<1>2. QED
  BY <1>1, AlarmInit, AlarmStep, PTL DEF Spec, ImplementsAlarmClock, Alarm!Spec
==============================================================================
