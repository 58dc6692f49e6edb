\* Two producers: one confirms the index of the other.
SPECIFICATION Spec
CONSTANTS
  Producers = {p1, p2}
  Consumers = {c}
  Values = {v}
  Empty = Empty
  m_size = 4
  LengthModulus = 8
  MaxPush = 2
SYMMETRY Symmetry
INVARIANT ConfirmedIsStored
