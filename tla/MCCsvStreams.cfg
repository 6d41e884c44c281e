SPECIFICATION BothFair
CONSTANTS
  Texts <- SomeTexts
  Later <- Short
  Configs <- SomeConfigs
  Api = {"parse", "parseAsync", "pause", "resume", "stop", "setConfig", "wait", "destroy"}
  Probe = 4
  MaxParses = 2
  MaxLength = 2
  Sizes = {3, 12}
  main = main
  worker = worker
  None = None
  Callers = {main, worker}
  Background = background
  Uses <- UsesOf
  Capacity = 3
  Threshold = 2
  Triggers = {"ROW_COUNT"}
  MaxBatch = 1
  MaxRows = 3
 
 
PROPERTY ParsesEnd
 
PROPERTY CallsReturn
CHECK_DEADLOCK FALSE
