\* Ethernet only: packets and timer callbacks reach the worker.
SPECIFICATION FairSpec
CONSTANTS
  Bufs = {b1, b2}
  Blks = {k1, k2}
  MaxBlks = 1
  Msgs = {m1, m2, m3}
  Timers = {t1}
  Apps = {}
  InCap = 1
  OutCap = 1
  MaxTicks = 2
  None = None
INVARIANT TimerBlocksConserved
PROPERTIES EtherPacketsAreTaken TimerMessagesAreRun
