----------------------------- MODULE AlarmClock ------------------------------
(***************************************************************************)
(* What TimerManager promises: an alarm clock.  A timer that is set goes   *)
(* off once its period has passed since it began; all timers due by the    *)
(* time that was read go off together, and their callbacks leave in order  *)
(* of their deadlines.  One-shot timers go off once; recurring ones begin  *)
(* again at the time read.  Locks, wakeups, unsigned numbers and the       *)
(* detection of a clock that was set back do not show.                     *)
(***************************************************************************)
EXTENDS Integers, Sequences

CONSTANTS Timers, m_recurring, Periods,
          Times           \* what the clock can show

VARIABLES now,            \* what it shows
          set_back,       \* whether it was ever set back
          phase,          \* of each timer
          began, period,  \* of each timer: its running period
          outbox          \* callbacks that went off and have not left yet

alarm_vars == <<now, set_back, phase, began, period, outbox>>

Init ==
  /\ now \in Times /\ set_back = FALSE
  /\ phase = [t \in Timers |-> "none"]
  /\ began = [t \in Timers |-> now] /\ period = [t \in Timers |-> 0]
  /\ outbox = <<>>

Deadline(t) == began[t] + period[t]

Set == {t \in Timers : phase[t] = "set"}

DueBy(time) == {t \in Set : Deadline(t) <= time}

(* The callbacks of S, in the order in which they leave.                   *)
Lists(f, S) ==
  /\ f \in Seq(S) /\ \A t \in S : \E i \in DOMAIN f : t = f[i]
  /\ \A i, j \in DOMAIN f : i < j =>
       \/ Deadline(f[i]) < Deadline(f[j])
       \/ Deadline(f[i]) = Deadline(f[j]) /\ f[i] < f[j]

Moves(t, from, to) == phase[t] = from /\ phase' = [phase EXCEPT ![t] = to]

(* A timer begins when it is made, and can go off from when it is set.     *)
Make(t) ==
  /\ Moves(t, "none", "made")
  /\ began' = [began EXCEPT ![t] = now]
  /\ \E p \in Periods : period' = [period EXCEPT ![t] = p]
  /\ UNCHANGED <<now, set_back, outbox>>

Insert(t) == Moves(t, "made", "set") /\ UNCHANGED <<now, set_back, began, period, outbox>>

Cancel(t) == Moves(t, "set", "cancelled") /\ UNCHANGED <<now, set_back, began, period, outbox>>

Refresh(t) ==
  /\ phase[t] = "set" /\ began' = [began EXCEPT ![t] = now]
  /\ UNCHANGED <<now, set_back, phase, period, outbox>>

(* A new period, from now or from when the old one began.                  *)
Reset(t) ==
  /\ phase[t] = "set"
  /\ \E p \in Periods : period' = [period EXCEPT ![t] = p]
  /\ began' = began \/ began' = [began EXCEPT ![t] = now]
  /\ UNCHANGED <<now, set_back, phase, outbox>>

(* The clock is read, and what is due by then goes off.  Once the clock    *)
(* was set back, everything may go off.                                    *)
GoOff(time, S) ==
  /\ outbox = <<>> /\ S # {}
  /\ set_back \/ (time <= now /\ S = DueBy(time))
  /\ Lists(outbox', S)
  /\ phase' = [t \in Timers |-> IF t \in S \ m_recurring THEN "over" ELSE phase[t]]
  /\ began' = [t \in Timers |-> IF t \in S \cap m_recurring THEN time ELSE began[t]]
  /\ UNCHANGED <<now, set_back, period>>

Leave ==
  /\ outbox # <<>> /\ outbox' = Tail(outbox)
  /\ UNCHANGED <<now, set_back, phase, began, period>>

ClockChanges ==
  /\ now' \in Times /\ set_back' = (set_back \/ now' < now)
  /\ UNCHANGED <<phase, began, period, outbox>>

Next ==
  \/ \E t \in Timers : Make(t) \/ Insert(t) \/ Cancel(t) \/ Refresh(t) \/ Reset(t)
  \/ \E time \in Times : \E S \in {DueBy(time), Set} : GoOff(time, S)
  \/ Leave
  \/ ClockChanges

Spec == Init /\ [][Next]_alarm_vars
==============================================================================
