---------------------------- MODULE EmergencyStop ----------------------------
(***************************************************************************)
(* The kill switch and the signal handler of one process.  Each can start  *)
(* the other: KillSwitch::initialize registers a cleanup callback with the *)
(* signal handler that triggers the switch, and the last phase of the      *)
(* switch triggers the signal handler.                                     *)
(***************************************************************************)
EXTENDS KillSwitch

CONSTANTS
  App,        \* the application thread that uses both
  Main,       \* a thread signals are delivered to, outside both APIs
  Detached,   \* the shutdown thread of the signal handler, as a caller of the switch
  Switch,     \* the shutdown thread of the switch, as a user of the handler
  Emergency,  \* "kill_switch_emergency", the callback the switch registers
  CsvFiles    \* files with a CSV flush callback

ASSUME EmergencyAssumption ==
  /\ {App, Detached} \subseteq Callers
  /\ App # Detached /\ Switch # App
  /\ Emergency \notin CsvFiles

VARIABLES
  shEnabled, shInitialized, shRequested, shShutting, shComplete, shCsv, shCleanups,
  shMutex, shDoes, shHandler, shStage, shTodo, shCalled, shSkipped, \* see SignalHandler
  calling,    \* the emergency callback is inside KillSwitch::trigger
  exited      \* main has returned: the process is gone

shVars == <<shEnabled, shInitialized, shRequested, shShutting, shComplete, shCsv,
            shCleanups, shMutex, shDoes, shHandler, shStage, shTodo, shCalled, shSkipped>>
all == <<vars, shVars, calling, exited>>

Handler == INSTANCE SignalHandler WITH
  Threads <- {App, Switch}, Interruptible <- {Main}, Cleanups <- {Emergency},
  Calls <- {"initialize", "registerCsv", "trigger"},
  enabled <- shEnabled, catching <- shInitialized, requested <- shRequested,
  shutting <- shShutting, complete <- shComplete, csv <- shCsv, cleanups <- shCleanups,
  mutex <- shMutex, does <- shDoes, handler <- shHandler, stage <- shStage,
  todo <- shTodo, called <- shCalled, skipped <- shSkipped

handlerVars == <<shVars, calling, exited>>

-----------------------------------------------------------------------------
(* The application.                                                        *)

\* KillSwitch::initialize registers the callback while it holds its mutex.
InitializesSwitch ==
  /\ pc[App] = "out" /\ mutex = Free
  /\ Emergency \notin shCleanups
  /\ mutex' = App
  /\ \E ok \in BOOLEAN : Handler!Enters(App, Handler!Call("registerCleanup", Emergency, ok))
  /\ UNCHANGED <<flags, config, registered, callers, thread, stage, run, ghosts, calling, exited>>

SwitchInitialized ==
  /\ shDoes[App].op = "registerCleanup"
  /\ Handler!Leaves(App)
  /\ mutex' = Free
  /\ UNCHANGED <<flags, config, registered, callers, thread, stage, run, ghosts, calling, exited>>

UsesHandler ==
  /\ pc[App] = "out"
  /\ \/ \E r \in Handler!Requests : Handler!Enters(App, r)
     \/ shDoes[App].op # "registerCleanup" /\ Handler!Leaves(App)
     \/ Handler!Triggers(App)
  /\ UNCHANGED <<vars, calling, exited>>

UsesSwitch ==
  /\ shDoes[App] = Handler!Idle
  /\ Caller(App)
  /\ UNCHANGED handlerVars

\* main sits in waitForShutdown and returns.
MainExits ==
  /\ shComplete
  /\ exited' = TRUE
  /\ UNCHANGED <<vars, shVars, calling>>

-----------------------------------------------------------------------------
(* The signal handler: a signal, its shutdown thread, and the callback.    *)

Signal ==
  /\ Handler!SignalArrives(Main) \/ Handler!HandlerSpawns(Main)
  /\ UNCHANGED <<vars, calling, exited>>

DetachedFlushes ==
  /\ ~calling
  /\ \/ Handler!CopiesCsv \/ Handler!FlushesEnd \/ Handler!CopiesCleanups \/ Handler!Completes
     \/ \E f \in shTodo : Handler!Flushes(f)
  /\ UNCHANGED <<vars, calling, exited>>

DetachedIsLate ==
  /\ ~calling
  /\ Handler!DeadlinePasses
  /\ UNCHANGED <<vars, calling, exited>>

\* Fault: the callback looks at the handler's flag instead of the switch's.
EmergencyAsksHandler ==
  /\ ~calling /\ shShutting
  /\ Handler!Cleans(Emergency)
  /\ UNCHANGED <<vars, calling, exited>>

\* The callback reads triggered_ without the lock: nothing to do.
EmergencyNeedless ==
  /\ ~calling /\ triggered
  /\ Handler!Cleans(Emergency)
  /\ UNCHANGED <<vars, calling, exited>>

\* Otherwise it calls trigger; that may find the switch triggered meanwhile.
EmergencyCalls ==
  /\ ~calling /\ ~triggered
  /\ shStage = "clean" /\ Emergency \in shTodo
  /\ CallsTrigger(Detached)
  /\ calling' = TRUE
  /\ UNCHANGED <<shVars, exited>>

EmergencyTriggers ==
  /\ calling
  /\ TriggerRefused(Detached) \/ TriggerEnters(Detached) \/ TriggerSpawns(Detached)
  /\ UNCHANGED handlerVars

EmergencyReturns ==
  /\ calling /\ pc[Detached] = "out"
  /\ Handler!Cleans(Emergency)
  /\ calling' = FALSE
  /\ UNCHANGED <<vars, exited>>

HandlerThread ==
  DetachedFlushes \/ EmergencyNeedless \/ EmergencyCalls \/ EmergencyTriggers \/ EmergencyReturns

-----------------------------------------------------------------------------
(* The shutdown thread of the switch.                                      *)

SwitchPhases ==
  /\ stage # "finalizing"
  /\ ShutdownThread
  /\ UNCHANGED handlerVars

\* Fault: finalizeShutdown waits for the handler it has triggered.
FinalizeWaits ==
  /\ Finalizes
  /\ shComplete
  /\ UNCHANGED handlerVars

\* finalizeShutdown calls triggerShutdown: no effect once a shutdown began.
SwitchFinalizes ==
  /\ Finalizes
  /\ Handler!Triggers(Switch) \/ (shShutting /\ UNCHANGED shVars)
  /\ UNCHANGED <<calling, exited>>

-----------------------------------------------------------------------------
EInit == Init /\ Handler!SignalInit /\ calling = FALSE /\ exited = FALSE

ENext ==
  /\ ~crashed /\ ~exited
  /\ \/ InitializesSwitch \/ SwitchInitialized \/ UsesHandler \/ UsesSwitch \/ MainExits
     \/ Signal \/ HandlerThread \/ DetachedIsLate
     \/ SwitchPhases \/ SwitchFinalizes

ESpec == EInit /\ [][ENext]_all

\* As in the two modules: threads are scheduled, callbacks return, a mutex
\* that is free again and again is taken, calls that began are finished.
Alive(A) == ~crashed /\ ~exited /\ A
EFairness ==
  /\ WF_all(Alive(SwitchInitialized))
  /\ SF_all(Alive(UsesHandler /\ Handler!Leaves(App)))
  /\ SF_all(Alive(UsesSwitch /\ CallerContinues(App)))
  /\ SF_all(Alive(Signal /\ Handler!HandlerSpawns(Main)))
  /\ SF_all(Alive(HandlerThread))
  /\ SF_all(Alive(SwitchPhases \/ SwitchFinalizes))

EFairSpec == ESpec /\ EFairness

-----------------------------------------------------------------------------
(* Properties.                                                             *)

\* A signalled shutdown that ends has set off the kill switch, unless the
\* deadline cut the callback off: a signal during a trigger, a trigger during
\* the handler's shutdown, in whatever order, leave the switch triggered, or
\* cancelled by the application.
SignalReachesSwitch ==
  shStage = "done" /\ Emergency \in shCleanups \ shSkipped => triggered \/ cancelled

\* The two shutdowns, each able to start the other, never wait for each
\* other: a triggered shutdown is completed, even one that is forced while it
\* runs or whose phases fail, unless it is cancelled; and so is a signalled
\* one; unless main returns first or, after a cancellation, a second trigger
\* terminates the program.
BothShutdownsEnd ==
  /\ triggered ~> completed \/ cancelled \/ crashed \/ exited
  /\ Main \in shHandler ~> shComplete \/ crashed

(***************************************************************************)
(* Promises of the documentation that the code does not keep.              *)
(***************************************************************************)

\* The kill switch ends with the signal handler's shutdown, which flushes the
\* CSV files.
SwitchFlushesFiles == completed /\ shCsv # {} ~> shComplete

\* When a signal has set off the kill switch, its phases are gone through
\* before waitForShutdown lets main return.
SwitchDoneBeforeExit == exited /\ triggered => outcome # "none"
=============================================================================
