SPECIFICATION Network
CONSTANTS
  Urls = {u1, u2}
  Clients = {c1, c2}
  MaxAges = {3}
  DefaultTtl = 1
  MinTtl = 1
  MaxTtl = 1
  StaleMaxAge = 1
  Configs <- Limits
  MaxVersion = 1
  MaxTime = 3
  None = None
  timeout = timeout
  maintenance = maintenance
  network = network
  temporary = temporary
  CUSTOM = CUSTOM
  Callers = {c1, c2}
  Errors = {timeout, maintenance}
  Default <- BuiltIn
  Added <- Own
  RetryConfigs <- Retries
  Thresholds = {1, 2}
  MaxOperations = 2
SYMMETRY Symmetric
INVARIANT EndsAccounted
INVARIANT StaleMarkHonest
PROPERTY AnswersRecent
PROPERTY EvictsLeastRecent
