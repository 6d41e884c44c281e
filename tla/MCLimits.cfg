SPECIFICATION Within
CONSTANTS
  d1 = d1
  d2 = d2
  Domains = {d1, d2}
  Global = Global
  Clients = {client}
  Token = 5
  Rate <- Rates
  Burst <- Bursts
  Configs <- Delays
  DefaultConfig <- Short
  Asks = {1}
  Failing = {d1}
  MaxTime = 2
  MaxStreak = 2
  None = None
  Header = 2
  Slack = 1
  Sizes = {2, 3}
  Alignments = {1, 4}
  MemoryConfigs <- MergingOrNot
  Limits = {9, 100}
  Stride = 40
  MaxUsed = 8
 
INVARIANT FreeListExact
INVARIANT WindowBound
PROPERTY WaitsLongEnough
CHECK_DEADLOCK FALSE
