\* Two interfaces at most, two packets, full queues.
SPECIFICATION FairSpec
CONSTANTS
  MaxOpens = 2
  Bufs = {b1, b2}
  QueueSize = 1
  None = None
INVARIANTS NetworkKnowsInterfaces ThreadsHaveHandle PacketsInOnePlace
PROPERTIES OpenReturns
