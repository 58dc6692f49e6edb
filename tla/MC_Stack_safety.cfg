\* Receive, send, worker and two application threads share the pools.
SPECIFICATION Spec
CONSTANTS
  Bufs = {b1, b2, b3}
  Blks = {k1, k2}
  MaxBlks = 2
  Msgs = {m1}
  Timers = {t1}
  Apps = {a1, a2}
  InCap = 1
  OutCap = 1
  MaxTicks = 0
  None = None
SYMMETRY Symmetry
INVARIANTS TypeOK EachPacketInOnePlace BlocksConserved
