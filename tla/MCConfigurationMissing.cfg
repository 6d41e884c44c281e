SPECIFICATION FairBegin
CONSTANTS
  Callers = {c1, c2}
  Watchers = {w1, w2}
  Nobody = nobody
  Files = {f1}
  NoFile = nofile
  Sections = {"a"}
  Keys = {"k"}
  Nodes <- SomeNodes
  Documents <- SomeDocuments
  Missing = missing
  Unparsable = unparsable
  Emitted <- SomeEmitted
  Environment <- SomeEnvironment
  Unset = unset
  Overridden = TRUE
  Callbacks = {"none", "disables", "resets"}
  MaxEdits = 1
  MaxCalls = 3
  NaN = NaN
  None = None
  Shape <- ShapeOf
  Number <- NumberOf
  Items <- ItemsOf
  Offered <- SomeOptions
  Sets <- SomeSets
  CommandLines <- SomeCommandLines
  MaxChanges = 3
  Threads = {t1, t2}
  Tables <- SomeTables
  Lines <- SomeLines
  Paths <- SomePaths
  Internal = {"_dry"}
  Rule <- SomeRule
  Urls = {}
  Outside <- FromOutside
  RecentSize = 2
  CallbackAsks = FALSE
  MaxRequests = 4
  t1 = t1
  t2 = t2
CHECK_DEADLOCK FALSE
INVARIANT MissingValueFails
