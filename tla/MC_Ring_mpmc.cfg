\* Several producers and consumers, one thread playing both roles: the
\* block pools and the worker's message queue.
SPECIFICATION FairSpec
CONSTANTS
  Producers = {p, b}
  Consumers = {c, b}
  Values = {v}
  Empty = Empty
  m_size = 2
  LengthModulus = 8
  MaxPush = 4
INVARIANTS TypeOK ConfirmsMatchClaims LengthAccounting
PROPERTIES ClaimsGetConfirmed OverfullOnlyByStaleRead
