------------------------------ MODULE KillSwitch ------------------------------
(***************************************************************************)
(* BBP::Orchestrator::KillSwitch: trigger starts a thread that goes through*)
(* the phases of an emergency shutdown (stop the tasks, save the state of  *)
(* the components, clean up, finalize), while application threads trigger  *)
(* it again, force it, cancel it, wait for it or reset it.                 *)
(*                                                                         *)
(* A critical section of mutex_ is one step unless something outside the   *)
(* lock can change what it reads or see what it writes; then it is entered *)
(* and left in two steps.  The shutdown thread takes the lock only to      *)
(* update the statistics at its end.                                       *)
(***************************************************************************)
EXTENDS Naturals

CONSTANTS
  Callers,     \* threads that call the public API
  Components,  \* components a state preservation callback may be registered for
  Api,         \* the operations the callers of this instance use
  MaxTriggers, \* bound: effective triggers in a behaviour
  Free         \* mutex_ is not held

Operations == {"trigger", "triggerWithTimeout", "forceImmediate", "cancel", "reset",
               "wait", "setEnabled", "register"}

ASSUME KillSwitchAssumption ==
  /\ Free \notin Callers
  /\ Api \subseteq Operations
  /\ MaxTriggers \in Nat

VARIABLES
  enabled,    \* enabled_
  triggered,  \* triggered_
  shutting,   \* shutting_down_
  completed,  \* shutdown_completed_
  phase,      \* current_phase_
  force,      \* config_.force_immediate_stop
  preserve,   \* config_.preserve_partial_results
  timeout,    \* config_.total_shutdown_timeout: "configured" or "custom"
  registered, \* state_callbacks_: its keys
  mutex,      \* the caller that holds mutex_ between two steps, or Free
  pc,         \* where each caller is
  after,      \* where a caller goes on when its call of trigger returns
  original,   \* original_timeout of triggerWithTimeout
  thread,     \* shutdown_thread_: none, joinable or joined
  stage,      \* where the shutdown thread is
  success,    \* its local flag
  todo,       \* components it has not asked for their state
  asked,      \* components it has asked
  snaps,      \* snapshots it has collected
  file,       \* snapshots in the state file it has written
  outcome,    \* what it counted the shutdown as
  triggers,   \* stats_.total_triggers, never reset here
  cancelled,  \* cancelShutdown has returned true since the last trigger
  crashed     \* std::terminate was called

config == <<force, preserve, timeout>>
flags == <<enabled, triggered, shutting, completed, phase>>
callers == <<pc, after, original>>
run == <<success, todo, asked, snaps, file, outcome>>
ghosts == <<triggers, cancelled, crashed>>
vars == <<enabled, triggered, shutting, completed, phase, force, preserve, timeout,
          registered, mutex, pc, after, original, thread, stage, success, todo,
          asked, snaps, file, outcome, triggers, cancelled, crashed>>

Phases == <<"INACTIVE", "TRIGGERED", "STOPPING_TASKS", "SAVING_STATE", "CLEANUP",
            "FINALIZING", "COMPLETED">>

Goto(c, from, to) == pc[c] = from /\ pc' = [pc EXCEPT ![c] = to]

-----------------------------------------------------------------------------
(* trigger, called by the application or by two operations below.          *)

CallsTrigger(c) ==
  /\ "trigger" \in Api
  /\ Goto(c, "out", "trigger")
  /\ after' = [after EXCEPT ![c] = "out"]
  /\ UNCHANGED <<flags, config, registered, mutex, original, thread, stage, run, ghosts>>

TriggerRefused(c) ==
  /\ mutex = Free
  /\ ~enabled \/ triggered
  /\ Goto(c, "trigger", after[c])
  /\ UNCHANGED <<flags, config, registered, mutex, after, original, thread, stage, run, ghosts>>

\* Fault: the flags are tested and set before the lock is taken.
TriggerUnlocked(c) ==
  /\ triggers < MaxTriggers
  /\ enabled /\ (~triggered \/ \E d \in Callers \ {c} : pc[d] = "spawn")
  /\ Goto(c, "trigger", "spawn")
  /\ triggered' = TRUE
  /\ triggers' = triggers + 1
  /\ cancelled' = FALSE
  /\ UNCHANGED <<enabled, shutting, completed, phase, config, registered, mutex, after,
                 original, thread, stage, run, crashed>>

\* The flags and the statistics; the notifications are sent under the lock.
TriggerEnters(c) ==
  /\ triggers < MaxTriggers
  /\ mutex = Free
  /\ enabled /\ ~triggered
  /\ Goto(c, "trigger", "spawn")
  /\ mutex' = c
  /\ triggered' = TRUE
  /\ triggers' = triggers + 1
  /\ cancelled' = FALSE
  /\ UNCHANGED <<enabled, shutting, completed, phase, config, registered, after, original,
                 thread, stage, run, crashed>>

\* shutdown_thread_ = make_unique<thread>: assigning over a joinable thread
\* destroys it, which terminates the program.
TriggerSpawns(c) ==
  /\ Goto(c, "spawn", after[c])
  /\ mutex' = Free
  /\ IF thread = "joinable"
     THEN crashed' = TRUE /\ UNCHANGED <<thread, stage>>
     ELSE thread' = "joinable" /\ stage' = "start" /\ UNCHANGED crashed
  /\ UNCHANGED <<flags, config, registered, after, original, run, triggers, cancelled>>

\* The timeout is replaced for the duration of trigger, outside the lock.
TimeoutReplaced(c) ==
  /\ "triggerWithTimeout" \in Api
  /\ mutex = Free
  /\ Goto(c, "out", "trigger")
  /\ after' = [after EXCEPT ![c] = "restore"]
  /\ original' = [original EXCEPT ![c] = timeout]
  /\ timeout' = "custom"
  /\ UNCHANGED <<flags, force, preserve, registered, mutex, thread, stage, run, ghosts>>

TimeoutRestored(c) ==
  /\ mutex = Free
  /\ Goto(c, "restore", "out")
  /\ timeout' = original[c]
  /\ UNCHANGED <<flags, force, preserve, registered, mutex, after, original, thread, stage,
                 run, ghosts>>

\* forceImmediate: it unlocks by hand to call trigger, and its lock_guard
\* unlocks once more when it returns.
Forces(c) ==
  /\ "forceImmediate" \in Api
  /\ pc[c] = "out" /\ mutex = Free
  /\ force' = TRUE
  /\ pc' = [pc EXCEPT ![c] = IF triggered THEN "out" ELSE "trigger"]
  /\ after' = [after EXCEPT ![c] = "unlock"]
  /\ UNCHANGED <<flags, preserve, timeout, registered, mutex, original, thread, stage, run, ghosts>>

\* Undefined behaviour; a pthread mutex is simply released, whoever holds it.
UnlocksTwice(c) ==
  /\ Goto(c, "unlock", "out")
  /\ mutex' = Free
  /\ UNCHANGED <<flags, config, registered, after, original, thread, stage, run, ghosts>>

-----------------------------------------------------------------------------
(* The other operations.                                                   *)

\* cancelShutdown reads the phase, which the shutdown thread writes without
\* the lock; in a later phase it returns false and changes nothing.
CancelEnters(c) ==
  /\ "cancel" \in Api
  /\ mutex = Free
  /\ phase \in {"INACTIVE", "TRIGGERED"}
  /\ Goto(c, "out", "cancel")
  /\ mutex' = c
  /\ UNCHANGED <<flags, config, registered, after, original, thread, stage, run, ghosts>>

CancelWrites(c) ==
  /\ Goto(c, "cancel", "out")
  /\ mutex' = Free
  /\ triggered' = FALSE /\ shutting' = FALSE /\ phase' = "INACTIVE"
  /\ cancelled' = TRUE
  /\ UNCHANGED <<enabled, completed, config, registered, after, original, thread, stage,
                 run, triggers, crashed>>

\* reset keeps mutex_ while it joins the shutdown thread.
ResetEnters(c) ==
  /\ "reset" \in Api
  /\ mutex = Free
  /\ Goto(c, "out", IF thread = "joinable" THEN "join" ELSE "clear")
  /\ mutex' = c
  /\ UNCHANGED <<flags, config, registered, after, original, thread, stage, run, ghosts>>

ResetJoins(c) ==
  /\ stage = "ended"
  /\ Goto(c, "join", "clear")
  /\ thread' = "joined" /\ stage' = "none"
  /\ UNCHANGED <<flags, config, registered, mutex, after, original, run, ghosts>>

\* Fault: shutdown_completed_ is not cleared.
ResetKeepsCompletion(c) ==
  /\ Goto(c, "clear", "out")
  /\ mutex' = Free
  /\ triggered' = FALSE /\ shutting' = FALSE /\ phase' = "INACTIVE"
  /\ registered' = {}
  /\ UNCHANGED <<enabled, completed, config, after, original, thread, stage, run, ghosts>>

\* The flags, the callbacks, the statistics; not the configuration.
ResetClears(c) ==
  /\ Goto(c, "clear", "out")
  /\ mutex' = Free
  /\ triggered' = FALSE /\ shutting' = FALSE /\ completed' = FALSE /\ phase' = "INACTIVE"
  /\ registered' = {}
  /\ UNCHANGED <<enabled, config, after, original, thread, stage, run, ghosts>>

\* waitForCompletion: true at once when nothing is triggered.
WaitStarts(c) ==
  /\ "wait" \in Api
  /\ mutex = Free /\ triggered
  /\ Goto(c, "out", "wait")
  /\ UNCHANGED <<flags, config, registered, mutex, after, original, thread, stage, run, ghosts>>

\* The shutdown is complete, or the timeout has passed.  The default timeout,
\* milliseconds::max, overflows when it is added to the clock: with libstdc++
\* it has passed already.
WaitReturns(c) ==
  /\ mutex = Free
  /\ Goto(c, "wait", "out")
  /\ UNCHANGED <<flags, config, registered, mutex, after, original, thread, stage, run, ghosts>>

SetsEnabled(c) ==
  /\ "setEnabled" \in Api
  /\ pc[c] = "out"
  /\ enabled' = ~enabled
  /\ UNCHANGED <<triggered, shutting, completed, phase, config, registered, mutex, callers,
                 thread, stage, run, ghosts>>

\* registerStatePreservationCallback.  The shutdown thread iterates over the
\* same map without the lock: it may see the new entry or not.
Registers(c) ==
  /\ "register" \in Api
  /\ pc[c] = "out" /\ mutex = Free
  /\ \E k \in Components \ registered :
       /\ registered' = registered \cup {k}
       /\ \/ UNCHANGED todo
          \/ stage = "saving" /\ k \notin asked /\ todo' = todo \cup {k}
  /\ UNCHANGED <<flags, config, mutex, callers, thread, stage, success, asked, snaps, file,
                 outcome, ghosts>>

Caller(c) ==
  \/ CallsTrigger(c) \/ TriggerRefused(c) \/ TriggerEnters(c) \/ TriggerSpawns(c)
  \/ TimeoutReplaced(c) \/ TimeoutRestored(c) \/ Forces(c) \/ UnlocksTwice(c)
  \/ CancelEnters(c) \/ CancelWrites(c)
  \/ ResetEnters(c) \/ ResetJoins(c) \/ ResetClears(c)
  \/ WaitStarts(c) \/ WaitReturns(c) \/ SetsEnabled(c) \/ Registers(c)

-----------------------------------------------------------------------------
(* executeShutdown, on the shutdown thread.                                *)

\* A step of the thread from one stage to the next, in phase ph from then on.
Advances(from, to, ph) ==
  /\ stage = from /\ stage' = to
  /\ phase' = ph
  /\ UNCHANGED <<enabled, triggered, completed, config, registered, mutex, callers,
                 thread, ghosts>>

\* Fault: the snapshots of an earlier shutdown are kept.
StartsWithOld ==
  /\ Advances("start", IF force THEN "stopped" ELSE "stopping",
              IF force THEN phase ELSE "STOPPING_TASKS")
  /\ shutting' = TRUE
  /\ success' = TRUE
  /\ todo' = {} /\ asked' = {} /\ outcome' = "none"
  /\ UNCHANGED <<snaps, file>>

Starts ==
  /\ Advances("start", IF force THEN "stopped" ELSE "stopping",
              IF force THEN phase ELSE "STOPPING_TASKS")
  /\ shutting' = TRUE
  /\ success' = TRUE
  /\ todo' = {} /\ asked' = {} /\ snaps' = {} /\ file' = {} /\ outcome' = "none"

\* Every task stopped in time, or some callback failed, threw or was skipped.
StopsTasks ==
  /\ Advances("stopping", "stopped", phase)
  /\ success' \in BOOLEAN
  /\ UNCHANGED <<shutting, todo, asked, snaps, file, outcome>>

BeginsSaving ==
  /\ IF success /\ preserve
     THEN Advances("stopped", "saving", "SAVING_STATE") /\ todo' = registered
     ELSE Advances("stopped", "saved", phase) /\ UNCHANGED todo
  /\ UNCHANGED <<shutting, success, asked, snaps, file, outcome>>

\* A component returns a snapshot, has none, or throws.
AsksComponent(k) ==
  /\ k \in todo
  /\ Advances("saving", "saving", phase)
  /\ todo' = todo \ {k}
  /\ asked' = asked \cup {k}
  /\ snaps' \in {snaps, snaps \cup {k}}
  /\ success' \in IF k \in snaps' THEN {success} ELSE {success, FALSE}
  /\ UNCHANGED <<shutting, file, outcome>>

\* Fault: reaching the deadline is not counted as a failure.
DeadlineIgnored ==
  /\ todo # {}
  /\ Advances("saving", "writing", phase)
  /\ UNCHANGED <<shutting, run>>

SavingDeadline ==
  /\ todo # {}
  /\ Advances("saving", "writing", phase)
  /\ success' = FALSE
  /\ UNCHANGED <<shutting, todo, asked, snaps, file, outcome>>

EveryoneAsked ==
  /\ todo = {}
  /\ Advances("saving", "writing", phase)
  /\ UNCHANGED <<shutting, run>>

\* The file is written, if there is anything to write; that may fail.
WritesFile ==
  /\ Advances("writing", "saved", phase)
  /\ \/ file' = snaps /\ UNCHANGED success
     \/ snaps # {} /\ success' = FALSE /\ UNCHANGED file
  /\ UNCHANGED <<shutting, todo, asked, snaps, outcome>>

BeginsCleanup ==
  /\ IF success \/ force
     THEN Advances("saved", "cleaning", "CLEANUP")
     ELSE Advances("saved", "cleaned", phase)
  /\ UNCHANGED <<shutting, run>>

\* Fault: the result of the earlier phases is forgotten.
CleanupDecides ==
  /\ Advances("cleaning", "cleaned", phase)
  /\ success' \in BOOLEAN
  /\ UNCHANGED <<shutting, todo, asked, snaps, file, outcome>>

CleansUp ==
  /\ Advances("cleaning", "cleaned", phase)
  /\ success' \in {success, FALSE}
  /\ UNCHANGED <<shutting, todo, asked, snaps, file, outcome>>

BeginsFinalizing ==
  /\ Advances("cleaned", "finalizing", "FINALIZING")
  /\ UNCHANGED <<shutting, run>>

\* finalizeShutdown calls SignalHandler::triggerShutdown, then the phase
\* becomes COMPLETED and the shutdown is counted.
Finalizes ==
  /\ Advances("finalizing", "counting", "COMPLETED")
  /\ outcome' = IF success THEN "successful" ELSE "timeout"
  /\ UNCHANGED <<shutting, success, todo, asked, snaps, file>>

\* updateStats takes mutex_.
UpdatesStats ==
  /\ mutex = Free
  /\ Advances("counting", "flagging", phase)
  /\ UNCHANGED <<shutting, run>>

Ends ==
  /\ stage = "flagging" /\ stage' = "ended"
  /\ completed' = TRUE
  /\ UNCHANGED <<enabled, triggered, shutting, phase, config, registered, mutex, callers,
                 thread, run, ghosts>>

ShutdownThread ==
  \/ Starts \/ StopsTasks \/ BeginsSaving \/ SavingDeadline \/ EveryoneAsked \/ WritesFile
  \/ \E k \in todo : AsksComponent(k)
  \/ BeginsCleanup \/ CleansUp \/ BeginsFinalizing \/ Finalizes \/ UpdatesStats \/ Ends

-----------------------------------------------------------------------------
Init ==
  /\ enabled = TRUE
  /\ triggered = FALSE /\ shutting = FALSE /\ completed = FALSE
  /\ phase = "INACTIVE"
  /\ force = FALSE
  /\ preserve \in BOOLEAN
  /\ timeout = "configured"
  /\ registered = {}
  /\ mutex = Free
  /\ pc = [c \in Callers |-> "out"]
  /\ after = [c \in Callers |-> "out"]
  /\ original = [c \in Callers |-> "configured"]
  /\ thread = "none" /\ stage = "none"
  /\ success = TRUE
  /\ todo = {} /\ asked = {} /\ snaps = {} /\ file = {}
  /\ outcome = "none"
  /\ triggers = 0
  /\ cancelled = FALSE /\ crashed = FALSE

\* Nothing happens in a program that has terminated.
Next ==
  /\ ~crashed
  /\ \/ \E c \in Callers : Caller(c)
     \/ ShutdownThread

Spec == Init /\ [][Next]_vars

\* Threads are scheduled, callbacks return, and the shutdown thread gets the
\* mutex in the end; a caller finishes the operation it is in.
CallerContinues(c) ==
  \/ TriggerRefused(c) \/ TriggerEnters(c) \/ TriggerSpawns(c)
  \/ TimeoutRestored(c) \/ UnlocksTwice(c) \/ CancelWrites(c)
  \/ ResetJoins(c) \/ ResetClears(c)

Fairness ==
  /\ \A c \in Callers : SF_vars(~crashed /\ CallerContinues(c))
  /\ SF_vars(~crashed /\ ShutdownThread)

FairSpec == Spec /\ Fairness

-----------------------------------------------------------------------------
(* Properties.                                                             *)

\* Every variable has its type.
TypeOK ==
  /\ {enabled, triggered, shutting, completed, force, preserve, success, cancelled,
      crashed} \subseteq BOOLEAN
  /\ phase \in {Phases[i] : i \in DOMAIN Phases}
  /\ timeout \in {"configured", "custom"}
  /\ registered \subseteq Components
  /\ mutex \in Callers \cup {Free}
  /\ pc \in [Callers -> {"out", "trigger", "spawn", "restore", "unlock", "cancel",
                         "join", "clear", "wait"}]
  /\ after \in [Callers -> {"out", "restore", "unlock"}]
  /\ original \in [Callers -> {"configured", "custom"}]
  /\ thread \in {"none", "joinable", "joined"}
  /\ stage \in {"none", "start", "stopping", "stopped", "saving", "writing", "saved",
                "cleaning", "cleaned", "finalizing", "counting", "flagging", "ended"}
  /\ todo \subseteq Components /\ asked \subseteq Components
  /\ snaps \subseteq asked /\ file \subseteq snaps
  /\ outcome \in {"none", "successful", "timeout"}
  /\ triggers \in 0 .. MaxTriggers

\* However many threads trigger at once, and however often the switch is
\* reset between two shutdowns, a running shutdown thread is never replaced.
NeverTerminates == ~crashed

\* The types are kept, and a completion that waitForCompletion reports belongs
\* to the last trigger: no flag of an earlier shutdown survives reset.
CompletionIsCurrent ==
  /\ TypeOK
  /\ completed => stage \in {"ended", "none"} /\ phase = "COMPLETED"

\* A shutdown is counted as successful only if every snapshot the components
\* gave is in the state file and no component was left out at the deadline.
SuccessMeansSaved ==
  outcome = "successful" => snaps = file /\ todo = {}

\* What the switch says of a shutdown, that it is complete and that it was
\* successful, is said of the last one and is so.
ReportsTrue == CompletionIsCurrent /\ SuccessMeansSaved

(***************************************************************************)
(* Promises of the documentation and the comments that the code does not   *)
(* keep.                                                                   *)
(***************************************************************************)

\* A cancelled shutdown does not go on: "Cancel shutdown if still in early
\* phases".
CancelStops == cancelled => phase = "INACTIVE"

\* With preserve_partial_results, no shutdown that stops the tasks passes over
\* the state of the components registered for it.
PartialResultsKept ==
  [][stage = "stopped" /\ stage' = "saved" => ~preserve \/ registered = {}]_vars

\* mutex_ protects every operation: no two callers are inside at once.
InCriticalSection(c) == pc[c] \in {"spawn", "cancel", "join", "clear"}
MutualExclusion ==
  \A c, d \in Callers : InCriticalSection(c) /\ InCriticalSection(d) => c = d

\* reset returns.
ResetReturns == \A c \in Callers : pc[c] = "join" ~> pc[c] = "out"

\* waitForCompletion with its default timeout "blocks until finished".
WaitsUntilFinished ==
  [][\A c \in Callers : pc[c] = "wait" /\ pc'[c] = "out" => completed]_vars

\* triggerWithTimeout modifies the timeout only temporarily.
TimeoutIsTemporary ==
  (\A c \in Callers : pc[c] = "out") => timeout = "configured"
=============================================================================
