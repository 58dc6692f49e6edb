\* Two packets on two blocks of three bytes, with two values of a byte.
SPECIFICATION Spec
CONSTANTS
  Pkts = {p, q}
  NumBlks = 2
  BlkSize = 3
  MaxSize = 3
  MaxCap = 3
  Bytes = {0,1}
CHECK_DEADLOCK FALSE
INVARIANTS TypeOK CapacityIsSum BlocksConserved CursorPointsAtPos
PROPERTIES ImplementsBytes
SYMMETRY Symmetry
VIEW View
