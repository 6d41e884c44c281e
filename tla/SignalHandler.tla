---------------------------- MODULE SignalHandler ----------------------------
(***************************************************************************)
(* BBP::SignalHandler: SIGINT and SIGTERM start, once in the life of the   *)
(* process, a detached thread that calls the CSV flush callbacks, then the *)
(* cleanup callbacks, each group until a deadline.                         *)
(*                                                                         *)
(* The operations are critical sections of mutex_, entered and left in two *)
(* steps because a signal may interrupt the thread in between: the handler *)
(* runs on the interrupted thread, which is suspended until it returns,    *)
(* and the handler takes mutex_ too.                                       *)
(***************************************************************************)
CONSTANTS
  Threads,        \* application threads that call the API
  Interruptible,  \* threads the operating system may deliver a signal to
  CsvFiles,       \* paths a CSV flush callback may be registered for
  Cleanups,       \* names a cleanup callback may be registered under
  Calls,          \* names of the operations the threads of this instance use
  Free            \* mutex_ is not held

Operations == {"registerCsv", "registerCleanup", "unregisterCsv", "unregisterCleanup",
               "initialize", "enable", "disable", "reset", "trigger"}

ASSUME SignalsAssumption ==
  /\ Free \notin Threads
  /\ Calls \subseteq Operations

VARIABLES
  enabled,     \* enabled_
  catching, \* initialized_: the C handler is installed
  requested,   \* shutdown_requested_
  shutting,    \* shutting_down_
  complete,    \* shutdown_complete_
  csv,         \* csv_flush_callbacks_: its keys
  cleanups,    \* cleanup_callbacks_: its keys
  mutex,       \* the thread inside a critical section of mutex_, or Free
  does,        \* what each thread does inside its critical section
  handler,     \* the threads suspended under handleSignal, before it locks
  stage,       \* where the shutdown thread is
  todo,        \* its copy of the callbacks, less those called
  called,      \* the callbacks it has called
  skipped      \* the callbacks it left out at a deadline

atomics == <<enabled, catching, requested, shutting, complete>>
callbacks == <<csv, cleanups>>
progress == <<stage, todo, called, skipped>>
signalVars == <<enabled, catching, requested, shutting, complete, csv, cleanups,
          mutex, does, handler, stage, todo, called, skipped>>

\* An operation: its argument, and whether it got past its early return.
Call(op, on, ok) == [op |-> op, on |-> on, ok |-> ok]
Idle == Call("none", "none", FALSE)

Runs(t) == t \notin handler

-----------------------------------------------------------------------------
(* The operations.  enable and disable are the two calls of setEnabled.    *)

Requests ==
  [op : {"registerCsv", "unregisterCsv"} \cap Calls, on : CsvFiles, ok : BOOLEAN]
    \cup [op : {"registerCleanup", "unregisterCleanup"} \cap Calls, on : Cleanups, ok : BOOLEAN]
    \cup [op : {"initialize", "reset", "enable", "disable"} \cap Calls, on : {"none"}, ok : BOOLEAN]

\* The early return of each operation, tested right after the lock is taken.
Refused(op) ==
  \/ op \in {"registerCsv", "registerCleanup", "reset"} /\ shutting
  \/ op = "initialize" /\ (catching \/ ~enabled)

Enters(t, r) ==
  /\ Runs(t) /\ does[t] = Idle
  /\ mutex = Free
  /\ r.ok = ~Refused(r.op)
  /\ mutex' = t
  /\ does' = [does EXCEPT ![t] = r]
  /\ UNCHANGED <<atomics, callbacks, handler, progress>>

Does(t, op) == does[t].op = op /\ does[t].ok

\* A map of callbacks after the operation of t.
Updated(t, register, unregister, map) ==
  CASE Does(t, register)   -> map \cup {does[t].on}
    [] Does(t, unregister) -> map \ {does[t].on}
    [] Does(t, "reset")    -> {}
    [] OTHER               -> map

CsvAfter(t) == Updated(t, "registerCsv", "unregisterCsv", csv)

CleanupsAfter(t) == Updated(t, "registerCleanup", "unregisterCleanup", cleanups)

\* What the operation does; the lock is released with its last assignment.
Leaves(t) ==
  /\ Runs(t) /\ does[t] # Idle
  /\ does' = [does EXCEPT ![t] = Idle]
  /\ mutex' = Free
  /\ csv' = CsvAfter(t)
  /\ cleanups' = CleanupsAfter(t)
  /\ enabled' = (Does(t, "enable") \/ (enabled /\ ~Does(t, "disable")))
  /\ catching' = (catching \/ Does(t, "initialize"))
  /\ requested' = (requested /\ ~Does(t, "reset"))
  /\ complete' = (complete /\ ~Does(t, "reset"))
  /\ UNCHANGED <<shutting, handler, progress>>

\* triggerShutdown: the exchange in it succeeds, so the one in handleSignal
\* finds the flag set and handleSignal returns after setting the request.
Triggers(t) ==
  /\ "trigger" \in Calls
  /\ Runs(t) /\ does[t] = Idle
  /\ ~shutting
  /\ shutting' = TRUE
  /\ requested' = TRUE
  /\ UNCHANGED <<enabled, catching, complete, callbacks, mutex, does, handler, progress>>

-----------------------------------------------------------------------------
(* A signal.                                                               *)

\* initialize installs the C handler before it sets initialized_.
Installed ==
  catching \/ \E t \in Threads : Does(t, "initialize")

\* Fault: shutting_down_ is set but its old value is not tested.
ArrivesAgain(t) ==
  /\ t \in Interruptible \ handler
  /\ Installed /\ enabled
  /\ requested' = TRUE
  /\ shutting' = TRUE
  /\ handler' = handler \cup {t}
  /\ UNCHANGED <<enabled, catching, complete, callbacks, mutex, does, progress>>

\* signalCallback and handleSignal up to the exchange, on thread t.
SignalArrives(t) ==
  /\ t \in Interruptible \ handler
  /\ Installed /\ enabled
  /\ requested' = TRUE
  /\ shutting' = TRUE
  /\ handler' = IF shutting THEN handler ELSE handler \cup {t}
  /\ UNCHANGED <<enabled, catching, complete, callbacks, mutex, does, progress>>

\* The rest of handleSignal: the statistics, under mutex_, then the detached
\* thread.  mutex_ is not recursive: a thread interrupted while it holds it
\* never gets past this point.
HandlerSpawns(t) ==
  /\ t \in handler
  /\ mutex = Free
  /\ handler' = handler \ {t}
  /\ stage' = "csv"
  /\ UNCHANGED <<atomics, callbacks, mutex, does, todo, called, skipped>>

-----------------------------------------------------------------------------
(* executeShutdown, on the detached thread.                                *)

\* The copy of one group of callbacks, under mutex_.
Copies(from, to, group) ==
  /\ stage = from /\ mutex = Free
  /\ stage' = to
  /\ todo' = group
  /\ UNCHANGED <<atomics, callbacks, mutex, does, handler, called, skipped>>

CopiesCsv == Copies("csv", "flush", csv)
CopiesCleanups == Copies("cleanups", "clean", cleanups)

\* A callback; whether it returns or throws, the loop goes on.
CallsBack(s, n) ==
  /\ stage = s /\ n \in todo
  /\ todo' = todo \ {n}
  /\ called' = called \cup {n}
  /\ UNCHANGED <<atomics, callbacks, mutex, does, handler, stage, skipped>>

Flushes(f) == CallsBack("flush", f)
Cleans(n) == CallsBack("clean", n)

\* Fault: a callback that throws ends the loop over the files.
FlushesAbandoned ==
  /\ stage = "flush" /\ mutex = Free
  /\ stage' = "cleanups"
  /\ UNCHANGED <<atomics, callbacks, mutex, does, handler, todo, called, skipped>>

\* The end of executeCsvFlushCallbacks: the duration, under mutex_.
FlushesEnd ==
  /\ stage = "flush" /\ todo = {} /\ mutex = Free
  /\ stage' = "cleanups"
  /\ UNCHANGED <<atomics, callbacks, mutex, does, handler, todo, called, skipped>>

\* The deadline of a group has passed: break out of its loop.  No exception
\* is thrown, so the emergency flush of executeShutdown is not reached.
DeadlinePasses ==
  /\ stage \in {"flush", "clean"} /\ todo # {}
  /\ skipped' = skipped \cup todo
  /\ todo' = {}
  /\ UNCHANGED <<atomics, callbacks, mutex, does, handler, stage, called>>

\* Fault: the completion flag is forgotten.
EndsSilently ==
  /\ stage = "clean" /\ todo = {} /\ mutex = Free
  /\ stage' = "done"
  /\ UNCHANGED <<atomics, callbacks, mutex, does, handler, todo, called, skipped>>

\* The two updates of the statistics, under mutex_, then the flag.
Completes ==
  /\ stage = "clean" /\ todo = {} /\ mutex = Free
  /\ stage' = "done"
  /\ complete' = TRUE
  /\ UNCHANGED <<enabled, catching, requested, shutting, callbacks, mutex, does,
                 handler, todo, called, skipped>>

ShutdownThread ==
  \/ CopiesCsv \/ FlushesEnd \/ CopiesCleanups \/ Completes
  \/ \E f \in todo : Flushes(f) \/ Cleans(f)

-----------------------------------------------------------------------------
SignalInit ==
  /\ enabled = TRUE
  /\ catching = FALSE /\ requested = FALSE /\ shutting = FALSE /\ complete = FALSE
  /\ csv = {} /\ cleanups = {}
  /\ mutex = Free
  /\ does = [t \in Threads |-> Idle]
  /\ handler = {}
  /\ stage = "none"
  /\ todo = {} /\ called = {} /\ skipped = {}

SignalNext ==
  \/ \E t \in Threads :
       (\E r \in Requests : Enters(t, r)) \/ Leaves(t) \/ Triggers(t)
  \/ \E t \in Interruptible : SignalArrives(t) \/ HandlerSpawns(t)
  \/ ShutdownThread
  \/ DeadlinePasses

SignalSpec == SignalInit /\ [][SignalNext]_signalVars

(***************************************************************************)
(* Threads are scheduled and callbacks return.  The handler and the        *)
(* shutdown thread get the mutex in the end if it is free again and again. *)
(***************************************************************************)
SignalFairness ==
  /\ \A t \in Threads : WF_signalVars(Leaves(t))
  /\ \A t \in Interruptible : SF_signalVars(HandlerSpawns(t))
  /\ SF_signalVars(ShutdownThread)

SignalFairSpec == SignalSpec /\ SignalFairness

-----------------------------------------------------------------------------
(* Properties.                                                             *)

Stages == {"none", "csv", "flush", "cleanups", "clean", "done"}
Names == CsvFiles \cup Cleanups

\* Every variable has its type.
SignalTypeOK ==
  /\ enabled \in BOOLEAN /\ catching \in BOOLEAN
  /\ requested \in BOOLEAN /\ shutting \in BOOLEAN /\ complete \in BOOLEAN
  /\ csv \subseteq CsvFiles /\ cleanups \subseteq Cleanups
  /\ mutex \in Threads \cup {Free}
  /\ does \in [Threads -> Requests \cup {Idle}]
  /\ handler \subseteq Interruptible
  /\ stage \in Stages
  /\ todo \subseteq Names /\ called \subseteq Names /\ skipped \subseteq Names

\* A file whose registration was accepted is flushed before any cleanup
\* callback runs, even one registered while the signal was being handled, and
\* a shutdown that completes has called every accepted cleanup callback: only
\* the deadline, or unregistering, leaves one out.
AcceptedCallbacksCalled ==
  /\ stage \in {"cleanups", "clean", "done"} => csv \subseteq called \cup skipped
  /\ stage = "done" => cleanups \subseteq called \cup skipped

\* The types are kept and, whatever signals and manual triggers arrive and
\* whenever they do, the shutdown sequence runs at most once: only one handler
\* gets to spawn it.
OneShutdownSequence ==
  /\ SignalTypeOK
  /\ \A t, u \in handler : t = u
  /\ handler # {} => stage = "none" /\ shutting
  /\ stage # "none" => shutting

\* The one sequence that runs leaves nothing out on its way: whatever was
\* registered when, only the deadline takes a callback from it.
OneFullShutdown == OneShutdownSequence /\ AcceptedCallbacksCalled

\* A signal whose handler starts the shutdown gets it completed, whatever the
\* other threads do, if it was delivered to a thread that is not inside the
\* handler's own API.
SignalledShutdownCompletes ==
  \A t \in Interruptible \ Threads : t \in handler ~> complete

(***************************************************************************)
(* Promises of the documentation and the tests that the code does not keep *)
(***************************************************************************)

\* "Guaranteed graceful shutdown": the same, for a signal on any thread.
EverySignalCompletesShutdown ==
  \A t \in Interruptible : t \in handler ~> complete

\* A manual trigger runs the shutdown: waitForShutdown after it returns.
TriggeredShutdownCompletes == shutting ~> complete

\* A completed shutdown has flushed every registered file: "Guaranteed CSV
\* Flush" with an "Emergency flush on timeout".
EveryFileFlushed == complete => csv \subseteq called

\* A disabled handler does not react to triggerShutdown.
DisabledIgnoresTrigger == [][~enabled => requested' = requested]_signalVars

\* reset makes the handler ready for another shutdown.
ResetRearms ==
  [][\A t \in Threads : does[t].op = "reset" /\ does'[t] = Idle => ~complete']_signalVars
=============================================================================
