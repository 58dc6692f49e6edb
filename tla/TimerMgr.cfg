\* Two threads calling the operations of two timers, against the timer thread.
SPECIFICATION FairSpec
CONSTANTS
  NumTimers = 2
  m_recurring = {2}
  Clients = {c1, c2}
  Periods = {1, 2}
  MaxNow = 2
  MaxCalls = 3
  MaxBack = 1
  Jumps = {2}
  Hour = 1
  Width = 16
INVARIANTS TypeOK CbIffInSet OneShotInOnePlace NoLostWakeup
PROPERTIES ImplementsAlarmClock DueTimersAreCollected
