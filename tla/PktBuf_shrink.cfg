\* resize to a smaller size.
SPECIFICATION Spec
CONSTANTS
  Pkts = {p, q}
  NumBlks = 2
  BlkSize = 2
  MaxSize = 3
  MaxCap = 4
  Bytes = {0}
CHECK_DEADLOCK FALSE
INVARIANTS NothingLeaks
