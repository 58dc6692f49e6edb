\* One producer, two consumers, more pushes than the ring has slots.
SPECIFICATION Spec
CONSTANTS
  Producers = {p}
  Consumers = {c1, c2}
  Values = {v1, v2}
  Empty = Empty
  m_size = 4
  LengthModulus = 8
  MaxPush = 5
SYMMETRY Symmetry
INVARIANTS NoLossNoDuplicate
PROPERTIES ImplementsFifo RefusalsAreJustified
