SPECIFICATION EFairSpec
CONSTANTS
  Callers = {app, detached}
  Components = {k1}
  Api = {"trigger", "forceImmediate", "cancel"}
  MaxTriggers = 2
  Free = Free
  App = app
  Main = main
  Detached = detached
  Switch = switch
  Emergency = emergency
  CsvFiles = {}
INVARIANT SignalReachesSwitch
PROPERTY BothShutdownsEnd
CHECK_DEADLOCK FALSE
