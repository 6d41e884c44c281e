------------------------------ MODULE ThreadPool ------------------------------
(***************************************************************************)
(* BBP::ThreadPool: worker threads that share one priority queue, one      *)
(* mutex (queue_mutex_) and one condition variable (queue_condition_) with *)
(* the application threads that call the public API, and an optional       *)
(* scaling thread that adds workers.                                       *)
(*                                                                         *)
(* A step is a stretch of code between two points where another thread can *)
(* observe or change the shared state.  A critical section of              *)
(* queue_mutex_ is one step when nothing outside the lock can change what  *)
(* it reads; it is two steps (the mutex held in between) when an atomic    *)
(* flag or counter can: between the evaluation of a wait predicate and     *)
(* blocking, and between the checks of submit and the insertion.           *)
(***************************************************************************)
EXTENDS Integers, FiniteSets

CONSTANTS
  Workers,        \* slots for worker threads; config_.max_threads is their number
  InitialWorkers, \* the workers the constructor starts (config_.initial_threads)
  Callers,        \* application threads that use the pool
  Scaler,         \* the thread that runs scalingLoop
  AutoScaling,    \* config_.enable_auto_scaling
  Tasks,          \* the tasks the application may submit, each once
  Priority,       \* TaskPriority of each task
  QueueLimits,    \* the values max_queue_size takes; 0 is "no limit"
  Api,            \* the operations the callers of this instance use
  NoTask,         \* "has_task" is false
  Free            \* queue_mutex_ is not held

Threads == Workers \cup Callers \cup {Scaler}

Operations == {"submit", "waitForAll", "shutdown", "forceShutdown", "pause", "updateConfig"}

ASSUME ThreadsAssumption ==
  /\ IsFiniteSet(Workers)
  /\ InitialWorkers \subseteq Workers
  /\ Workers \cap Callers = {}
  /\ Scaler \notin Workers \cup Callers
  /\ Free \notin Threads

ASSUME TasksAssumption ==
  /\ NoTask \notin Tasks
  /\ Priority \in [Tasks -> Nat]

ASSUME ConfigAssumption ==
  /\ AutoScaling \in BOOLEAN
  /\ QueueLimits \subseteq Nat
  /\ QueueLimits # {}
  /\ Api \subseteq Operations

VARIABLES
  shutdown,   \* shutdown_requested_
  force,      \* force_shutdown_
  paused,     \* paused_
  active,     \* active_threads_
  queue,      \* task_queue_: the tasks in it (the order is Priority's)
  limit,      \* config_.max_queue_size
  pool,       \* workers_: the threads created and not yet joined and cleared
  qmutex,     \* the thread that holds queue_mutex_ across steps, or Free
  pc,         \* where each thread is
  carries,    \* the task a worker has popped, or a caller is submitting
  fresh,      \* tasks not submitted yet
  refused,    \* tasks whose submission threw
  done,       \* tasks whose function has run: their future is ready
  dropped,    \* tasks destroyed by forceShutdown: their promise is broken
  closed      \* the call that performed the shutdown has returned

flags == <<shutdown, force, paused>>
ledger == <<fresh, refused, done, dropped>>
allButPc == <<flags, active, queue, limit, pool, qmutex, carries, ledger, closed>>
vars == <<shutdown, force, paused, active, queue, limit, pool, qmutex, pc,
          carries, fresh, refused, done, dropped, closed>>

Max(S) == CHOOSE m \in S : \A n \in S : n <= m

(***************************************************************************)
(* The condition variable.  "blocked" labels are threads inside wait();    *)
(* a woken thread goes back to where it takes the mutex and tests its      *)
(* predicate again.                                                        *)
(***************************************************************************)
Blocked == {"blocked", "waitBlocked", "drainBlocked"}

Woken(label) ==
  CASE label = "blocked"      -> "wait"
    [] label = "waitBlocked"  -> "waiting"
    [] label = "drainBlocked" -> "draining"
    [] OTHER                  -> label

Goto(t, from, to) ==
  /\ pc[t] = from
  /\ pc' = [pc EXCEPT ![t] = to]

\* A step that changes nothing but the place of the thread.
Moves(t, from, to) == Goto(t, from, to) /\ UNCHANGED allButPc

\* queue_condition_.notify_all() by t, which then continues at label "to".
NotifyAll(t, from, to) ==
  /\ pc[t] = from
  /\ pc' = [u \in Threads |-> IF u = t THEN to ELSE Woken(pc[u])]
  /\ UNCHANGED allButPc

\* A wait predicate was false: the thread holds queue_mutex_ until it blocks.
Park(t, from, to) ==
  /\ qmutex = Free
  /\ qmutex' = t
  /\ Goto(t, from, to)

\* Blocking releases the mutex and joins the waiters in one atomic step.
Block(t, from, to) ==
  /\ Goto(t, from, to)
  /\ qmutex' = Free

-----------------------------------------------------------------------------
(* workerLoop, one action per step.                                        *)

\* while (!shutdown_requested_)
WorkerLoop(w) ==
  IF shutdown THEN Moves(w, "loop", "exited") ELSE Moves(w, "loop", "wait")

\* The predicate of the wait.  Its third disjunct is implied by the first.
HasWork == queue # {} \/ shutdown

WorkerParks(w) ==
  /\ ~HasWork
  /\ Park(w, "wait", "park")
  /\ UNCHANGED <<flags, active, queue, limit, pool, carries, ledger, closed>>

WorkerBlocks(w) ==
  /\ Block(w, "park", "blocked")
  /\ UNCHANGED <<flags, active, queue, limit, pool, carries, ledger, closed>>

\* Woken for the shutdown with nothing queued: leave the loop.
WorkerBreaks(w) ==
  /\ qmutex = Free
  /\ shutdown /\ queue = {}
  /\ Moves(w, "wait", "exited")

\* Work, but the pool is paused: back to the head of the loop.
WorkerPaused(w) ==
  /\ qmutex = Free
  /\ queue # {} /\ paused
  /\ Moves(w, "wait", "loop")

\* task_queue_.top(): any of the most urgent tasks.
Tops == {t \in queue : \A u \in queue : Priority[u] <= Priority[t]}

\* Fault: top() is copied and pop() forgotten.
PopForgotten(w) ==
  /\ qmutex = Free /\ ~paused
  /\ \E t \in Tops : carries' = [carries EXCEPT ![w] = t]
  /\ Goto(w, "wait", "popped")
  /\ UNCHANGED <<flags, active, queue, limit, pool, qmutex, ledger, closed>>

WorkerPops(w) ==
  /\ qmutex = Free
  /\ ~paused
  /\ \E t \in Tops :
       /\ queue' = queue \ {t}
       /\ carries' = [carries EXCEPT ![w] = t]
  /\ Goto(w, "wait", "popped")
  /\ UNCHANGED <<flags, active, limit, pool, qmutex, ledger, closed>>

\* Fault: the increment is missing.
StartUncounted(w) == Moves(w, "popped", "running")

\* active_threads_++, after queue_mutex_ was released.
WorkerStarts(w) ==
  /\ Goto(w, "popped", "running")
  /\ active' = active + 1
  /\ UNCHANGED <<flags, queue, limit, pool, qmutex, carries, ledger, closed>>

\* task.function(): a packaged_task, so an exception ends in the future.
WorkerRuns(w) ==
  /\ Goto(w, "running", "ran")
  /\ done' = done \cup {carries[w]}
  /\ carries' = [carries EXCEPT ![w] = NoTask]
  /\ UNCHANGED <<flags, active, queue, limit, pool, qmutex, fresh, refused, dropped, closed>>

\* Fault: the decrement is missing.
FinishUncounted(w) == Moves(w, "ran", "notify")

\* completed_tasks_++ and active_threads_--, without queue_mutex_.
WorkerFinishes(w) ==
  /\ Goto(w, "ran", "notify")
  /\ active' = active - 1
  /\ UNCHANGED <<flags, queue, limit, pool, qmutex, carries, ledger, closed>>

\* updateStats, then notify_all without queue_mutex_.
WorkerNotifies(w) == NotifyAll(w, "notify", "loop")

Worker(w) ==
  \/ WorkerLoop(w) \/ WorkerParks(w) \/ WorkerBlocks(w) \/ WorkerBreaks(w)
  \/ WorkerPaused(w) \/ WorkerPops(w) \/ WorkerStarts(w) \/ WorkerRuns(w)
  \/ WorkerFinishes(w) \/ WorkerNotifies(w)

-----------------------------------------------------------------------------
(* scalingLoop.  scaleDown and cleanupThreads change nothing: a worker     *)
(* stays joinable until shutdown joins it.                                 *)

\* calculateLoad() > 0.8, in integers; 0 when there is no worker at all.
HighLoad ==
  LET total == Cardinality(pool)
  IN  /\ total > 0
      /\ \/ 5 * active > 4 * total
         \/ 5 * Cardinality(queue) > 8 * total

\* After the sleep: leave on shutdown, otherwise sample the load.
ScalerWakes ==
  \/ shutdown /\ Moves(Scaler, "loop", "exited")
  \/ /\ ~shutdown /\ qmutex = Free
     /\ HighLoad /\ pool # Workers
     /\ Moves(Scaler, "loop", "grow")

\* scaleUp: one or two new workers, never more than max_threads.
ScalerGrows ==
  /\ pc[Scaler] = "grow"
  /\ \E new \in SUBSET (Workers \ pool) :
       /\ Cardinality(new) = 2 \/ (new = Workers \ pool /\ Cardinality(new) = 1)
       /\ pool' = pool \cup new
       /\ pc' = [t \in Threads |-> IF t = Scaler \/ t \in new THEN "loop" ELSE pc[t]]
  /\ UNCHANGED <<flags, active, queue, limit, qmutex, carries, ledger, closed>>

-----------------------------------------------------------------------------
(* The public API, called by application threads.                          *)

Full == limit > 0 /\ Cardinality(queue) >= limit

\* submit, submitNamed, submitWithTimeout: the two checks, under the mutex.
SubmitThrows(c, t) ==
  /\ "submit" \in Api
  /\ pc[c] = "out" /\ qmutex = Free
  /\ shutdown \/ Full
  /\ fresh' = fresh \ {t}
  /\ refused' = refused \cup {t}
  /\ UNCHANGED <<flags, active, queue, limit, pool, qmutex, pc, carries, done, dropped, closed>>

\* Fault: the checks are made before queue_mutex_ is taken.
SubmitChecksUnlocked(c, t) ==
  /\ "submit" \in Api
  /\ ~shutdown /\ ~Full
  /\ Goto(c, "out", "push")
  /\ carries' = [carries EXCEPT ![c] = t]
  /\ fresh' = fresh \ {t}
  /\ UNCHANGED <<flags, active, queue, limit, pool, qmutex, refused, done, dropped, closed>>

SubmitEnters(c, t) ==
  /\ "submit" \in Api
  /\ qmutex = Free
  /\ ~shutdown /\ ~Full
  /\ Goto(c, "out", "push")
  /\ qmutex' = c
  /\ carries' = [carries EXCEPT ![c] = t]
  /\ fresh' = fresh \ {t}
  /\ UNCHANGED <<flags, active, queue, limit, pool, refused, done, dropped, closed>>

\* task_queue_.emplace, then the lock is released.
SubmitPushes(c) ==
  /\ Goto(c, "push", "signal")
  /\ queue' = queue \cup {carries[c]}
  /\ carries' = [carries EXCEPT ![c] = NoTask]
  /\ qmutex' = Free
  /\ UNCHANGED <<flags, active, limit, pool, ledger, closed>>

\* Fault: notify_one is missing.
SubmitSilent(c) == Moves(c, "signal", "out")

\* notify_one wakes any one waiter: a worker or a thread in waitForAll.
SubmitSignals(c) ==
  /\ LET waiters == {u \in Threads : pc[u] \in Blocked}
     IN  \/ waiters = {} /\ Goto(c, "signal", "out")
         \/ \E u \in waiters :
              /\ pc[c] = "signal"
              /\ pc' = [pc EXCEPT ![c] = "out", ![u] = Woken(@)]
  /\ UNCHANGED allButPc

\* Fault: the queue is not looked at.
IdleIgnoresQueue == active = 0

\* The predicate of waitForAll.
AllIdle == queue = {} /\ active = 0

CallsWaitForAll(c) ==
  /\ "waitForAll" \in Api
  /\ Moves(c, "out", "waiting")

\* waitForAll from the application ("waiting") or from shutdown ("draining").
WaitReturns(c) ==
  /\ qmutex = Free /\ AllIdle
  /\ Moves(c, "waiting", "out") \/ Moves(c, "draining", "stopNotify")

WaitParks(c) ==
  /\ ~AllIdle
  /\ Park(c, "waiting", "waitPark") \/ Park(c, "draining", "drainPark")
  /\ UNCHANGED <<flags, active, queue, limit, pool, carries, ledger, closed>>

WaitBlocks(c) ==
  /\ Block(c, "waitPark", "waitBlocked") \/ Block(c, "drainPark", "drainBlocked")
  /\ UNCHANGED <<flags, active, queue, limit, pool, carries, ledger, closed>>

\* shutdown(): the exchange lets one caller through, for good.
CallsShutdown(c) ==
  /\ "shutdown" \in Api
  /\ ~shutdown
  /\ shutdown' = TRUE
  /\ Goto(c, "out", "draining")
  /\ UNCHANGED <<force, paused, active, queue, limit, pool, qmutex, carries, ledger, closed>>

CallsForceShutdown(c) ==
  /\ "forceShutdown" \in Api
  /\ ~shutdown
  /\ shutdown' = TRUE
  /\ force' = TRUE
  /\ Goto(c, "out", "clearing")
  /\ UNCHANGED <<paused, active, queue, limit, pool, qmutex, carries, ledger, closed>>

\* Fault: queue_mutex_ is not taken.
ForceClearsUnlocked(c) ==
  /\ Goto(c, "clearing", "stopNotify")
  /\ dropped' = dropped \cup queue
  /\ queue' = {}
  /\ UNCHANGED <<flags, active, limit, pool, qmutex, carries, fresh, refused, done, closed>>

\* task_queue_.swap(empty), under queue_mutex_.
ForceClears(c) ==
  /\ qmutex = Free
  /\ Goto(c, "clearing", "stopNotify")
  /\ dropped' = dropped \cup queue
  /\ queue' = {}
  /\ UNCHANGED <<flags, active, limit, pool, qmutex, carries, fresh, refused, done, closed>>

\* Fault: notify_all is missing.
StopSilent(c) == Moves(c, "stopNotify", "joinScaler")

StopNotifies(c) == NotifyAll(c, "stopNotify", "joinScaler")

\* Fault: the scaling thread is not joined before the workers.
ScalerNotJoined(c) == Moves(c, "joinScaler", "joinWorkers")

JoinsScaler(c) ==
  /\ pc[Scaler] = "exited"
  /\ Moves(c, "joinScaler", "joinWorkers")

\* Fault: workers_ is cleared without joining.
WorkersNotJoined(c) ==
  /\ Goto(c, "joinWorkers", "out")
  /\ pool' = {}
  /\ closed' = TRUE
  /\ UNCHANGED <<flags, active, queue, limit, qmutex, carries, ledger>>

\* Join every thread of workers_, clear it and return.
JoinsWorkers(c) ==
  /\ \A w \in pool : pc[w] = "exited"
  /\ Goto(c, "joinWorkers", "out")
  /\ pool' = {}
  /\ closed' = TRUE
  /\ UNCHANGED <<flags, active, queue, limit, qmutex, carries, ledger>>

Pauses(c) ==
  /\ "pause" \in Api
  /\ pc[c] = "out"
  /\ paused' = TRUE
  /\ UNCHANGED <<shutdown, force, active, queue, limit, pool, qmutex, pc, carries, ledger, closed>>

Resumes(c) ==
  /\ "pause" \in Api
  /\ paused' = FALSE
  /\ Goto(c, "out", "resumed")
  /\ UNCHANGED <<shutdown, force, active, queue, limit, pool, qmutex, carries, ledger, closed>>

ResumeNotifies(c) == NotifyAll(c, "resumed", "out")

\* updateConfig takes threads_mutex_, which shutdown holds while it joins.
UpdatesConfig(c) ==
  /\ "updateConfig" \in Api
  /\ pc[c] = "out"
  /\ \A d \in Callers : pc[d] # "joinWorkers"
  /\ \E n \in QueueLimits \ {limit} : limit' = n
  /\ UNCHANGED <<flags, active, queue, pool, qmutex, pc, carries, ledger, closed>>

Caller(c) ==
  \/ \E t \in fresh : SubmitThrows(c, t) \/ SubmitEnters(c, t)
  \/ SubmitPushes(c) \/ SubmitSignals(c)
  \/ CallsWaitForAll(c) \/ WaitReturns(c) \/ WaitParks(c) \/ WaitBlocks(c)
  \/ CallsShutdown(c) \/ CallsForceShutdown(c) \/ ForceClears(c)
  \/ StopNotifies(c) \/ JoinsScaler(c) \/ JoinsWorkers(c)
  \/ Pauses(c) \/ Resumes(c) \/ ResumeNotifies(c) \/ UpdatesConfig(c)

\* A wait on a condition variable may return without a notification.
SpuriousWakeup(t) ==
  /\ pc[t] \in Blocked
  /\ pc' = [pc EXCEPT ![t] = Woken(@)]
  /\ UNCHANGED allButPc

-----------------------------------------------------------------------------
Init ==
  /\ shutdown = FALSE /\ force = FALSE /\ paused = FALSE
  /\ active = 0
  /\ queue = {}
  /\ limit \in QueueLimits
  /\ pool = InitialWorkers
  /\ qmutex = Free
  /\ pc = [t \in Threads |->
             CASE t \in InitialWorkers -> "loop"
               [] t \in Workers \ InitialWorkers -> "unborn"
               [] t = Scaler -> IF AutoScaling THEN "loop" ELSE "exited"
               [] OTHER -> "out"]
  /\ carries = [t \in Workers \cup Callers |-> NoTask]
  /\ fresh = Tasks
  /\ refused = {} /\ done = {} /\ dropped = {}
  /\ closed = FALSE

Next ==
  \/ \E w \in Workers : Worker(w)
  \/ ScalerWakes
  \/ ScalerGrows
  \/ \E c \in Callers : Caller(c)
  \/ \E t \in Workers \cup Callers : SpuriousWakeup(t)

Spec == Init /\ [][Next]_vars

(***************************************************************************)
(* Threads are scheduled, task functions return, and a thread that keeps   *)
(* asking for queue_mutex_ gets it in the end (strong fairness: a thread   *)
(* that is woken over and over takes the mutex away in between).  What a   *)
(* caller starts it also finishes, but no caller has to call anything.     *)
(***************************************************************************)
CallerContinues(c) ==
  \/ SubmitPushes(c) \/ SubmitSignals(c)
  \/ WaitReturns(c) \/ WaitParks(c) \/ WaitBlocks(c)
  \/ ForceClears(c) \/ StopNotifies(c) \/ JoinsScaler(c) \/ JoinsWorkers(c)
  \/ ResumeNotifies(c)

Fairness ==
  /\ \A w \in Workers : SF_vars(Worker(w))
  /\ WF_vars(ScalerWakes) /\ WF_vars(ScalerGrows)
  /\ \A c \in Callers : SF_vars(CallerContinues(c))

FairSpec == Spec /\ Fairness

-----------------------------------------------------------------------------
(* Derived state.                                                          *)

Held == {carries[h] : h \in Workers \cup Callers} \ {NoTask}

\* A caller that has drained or cleared the queue and is stopping the threads.
Stopping(c) == pc[c] \in {"stopNotify", "joinScaler", "joinWorkers"}
Sealed == closed \/ \E c \in Callers : Stopping(c)

WorkerLabels == {"unborn", "loop", "wait", "park", "blocked", "popped", "running",
                 "ran", "notify", "exited"}
ScalerLabels == {"loop", "grow", "exited"}
CallerLabels == {"out", "push", "signal", "waiting", "waitPark", "waitBlocked",
                 "draining", "drainPark", "drainBlocked", "clearing", "stopNotify",
                 "joinScaler", "joinWorkers", "resumed"}

\* Every variable has its type; active_threads_, a size_t, never goes below 0.
TypeOK ==
  /\ shutdown \in BOOLEAN /\ force \in BOOLEAN /\ paused \in BOOLEAN
  /\ active \in Nat
  /\ queue \subseteq Tasks
  /\ limit \in QueueLimits
  /\ pool \subseteq Workers
  /\ qmutex \in Workers \cup Callers \cup {Free}
  /\ DOMAIN pc = Threads
  /\ \A w \in Workers : pc[w] \in WorkerLabels
  /\ pc[Scaler] \in ScalerLabels
  /\ \A c \in Callers : pc[c] \in CallerLabels
  /\ carries \in [Workers \cup Callers -> Tasks \cup {NoTask}]
  /\ fresh \subseteq Tasks /\ refused \subseteq Tasks
  /\ done \subseteq Tasks /\ dropped \subseteq Tasks
  /\ closed \in BOOLEAN

(***************************************************************************)
(* Properties.                                                             *)
(***************************************************************************)

\* No task is lost, duplicated or run twice, whatever the interleaving of
\* submit, the workers and forceShutdown: each task is in exactly one place.
EachTaskInOnePlace ==
  /\ Tasks = fresh \cup refused \cup queue \cup Held \cup done \cup dropped
  /\ fresh \cap (refused \cup queue \cup Held \cup done \cup dropped) = {}
  /\ queue \cap (refused \cup Held \cup done \cup dropped) = {}
  /\ Held \cap (refused \cup done \cup dropped) = {}
  /\ refused \cap (done \cup dropped) = {}
  /\ done \cap dropped = {}
  /\ \A g, h \in Workers \cup Callers :
        carries[g] = carries[h] => g = h \/ carries[g] = NoTask

\* active_threads_ counts the workers that run a task, so that idle_threads in
\* getStats (total - active, unsigned) does not underflow before the joins.
ActiveCountsRunners ==
  /\ active = Cardinality({w \in Workers : pc[w] \in {"running", "ran"}})
  /\ active <= Cardinality(pool)

\* Both at once, and every variable has its type: the tasks and the workers are
\* accounted for at every moment.
TasksAccounted == TypeOK /\ EachTaskInOnePlace /\ ActiveCountsRunners

\* A submission that passed its shutdown check cannot put a task in a queue
\* that shutdown has seen drained or forceShutdown has cleared.
SealedQueueStaysEmpty == Sealed => queue = {}

\* Once the stop notification is out, no worker is in the wait or about to
\* enter it: no worker sleeps through the shutdown it would be joined in.
NoWorkerSleepsThroughStop ==
  (\E c \in Callers : pc[c] \in {"joinScaler", "joinWorkers"}) =>
    \A w \in Workers : pc[w] \notin {"park", "blocked"}

\* When shutdown or forceShutdown has returned to the caller that performed
\* it, no thread of the pool is left, not even one scaleUp was creating.
ClosedPoolHasNoThreads ==
  closed => /\ pc[Scaler] = "exited"
            /\ \A w \in Workers : pc[w] \in {"unborn", "exited"}

\* What is closed stays closed: a submission that was under way when the pool
\* was sealed, and a thread that was being created when it was closed, change
\* nothing.
ClosedForGood == SealedQueueStaysEmpty /\ ClosedPoolHasNoThreads

\* A graceful shutdown that returned has run every task that was accepted.
GracefulShutdownRanEverything ==
  closed /\ ~force => \A t \in Tasks : t \in fresh \cup refused \cup done

\* forceShutdown returns once the tasks that were running have returned.
ForceShutdownReturns == force ~> closed

\* With a worker, no pause and no shutdown, every accepted task is run: the
\* notification of its submission, or of a task that ends, is never lost.
AcceptedTasksRun ==
  \A t \in Tasks : t \in queue ~> t \in done \/ paused \/ shutdown

\* The pool implements TaskService: "queued" is task_queue_, "taken" is in a
\* worker's hands, "drained" and "cancelled" start where waitForAll returned
\* to shutdown and where forceShutdown cleared the queue.
TaskStateOf(t) ==
  CASE t \in fresh   -> "new"
    [] t \in refused -> "refused"
    [] t \in queue   -> "queued"
    [] t \in done    -> "done"
    [] t \in dropped -> "cancelled"
    [] OTHER -> IF \E w \in Workers : carries[w] = t THEN "taken" ELSE "entering"

AbsState == [t \in Tasks |-> TaskStateOf(t)]
AbsService ==
  IF closed THEN "closed"
  ELSE IF Sealed THEN (IF force THEN "cancelled" ELSE "drained") ELSE "open"

Service == INSTANCE TaskService WITH state <- AbsState, service <- AbsService

ImplementsTaskService == Service!SSpec

(***************************************************************************)
(* The inductive invariant behind the safety properties.                   *)
(***************************************************************************)

\* queue_mutex_ is held across steps exactly at these labels.
Locking == {"park", "push", "waitPark", "drainPark"}
MutexInv == \A h \in Workers \cup Callers : pc[h] \in Locking <=> qmutex = h

\* A thread has a task in hand exactly between pop and run, or check and push.
CarriesInv ==
  /\ \A w \in Workers : carries[w] # NoTask <=> pc[w] \in {"popped", "running"}
  /\ \A c \in Callers : carries[c] # NoTask <=> pc[c] = "push"

\* One caller at most performs the shutdown, once.
Draining == {"draining", "drainPark", "drainBlocked"}
InShutdown(c) == pc[c] \in Draining \cup {"clearing"} \/ Stopping(c)
ShutdownInv ==
  /\ force => shutdown
  /\ closed => shutdown
  /\ \A c \in Callers : InShutdown(c) => shutdown /\ ~closed
  /\ \A c, d \in Callers : InShutdown(c) /\ InShutdown(d) => c = d
  /\ \A c \in Callers : pc[c] \in Draining => ~force
  /\ \A c \in Callers : pc[c] = "clearing" => force
  /\ dropped # {} => force

\* From the seal on, nobody is about to push a task or to block as a worker.
SealInv ==
  Sealed => /\ queue = {}
            /\ \A c \in Callers : pc[c] # "push"
            /\ \A w \in Workers : pc[w] # "park"

\* workers_ holds the workers that were created, until they are joined.
PoolInv ==
  /\ ~closed => \A w \in Workers : pc[w] = "unborn" <=> w \notin pool
  /\ \A c \in Callers : pc[c] = "joinWorkers" => pc[Scaler] = "exited"

\* All of it: what a step needs of the state to keep each part true.
IInv ==
  /\ TypeOK /\ ActiveCountsRunners /\ EachTaskInOnePlace
  /\ MutexInv /\ CarriesInv /\ ShutdownInv /\ SealInv /\ PoolInv
  /\ NoWorkerSleepsThroughStop /\ ClosedPoolHasNoThreads

(***************************************************************************)
(* Promises of the comments that the code does not keep.                   *)
(***************************************************************************)

\* waitForAll returns when every task submitted before the call is done (with
\* one caller, every task is): "Wait for all currently queued tasks".
WaitForAllSeesTasksDone ==
  [][\A c \in Callers : pc[c] = "waiting" /\ pc'[c] = "out"
        => \A w \in Workers : carries[w] = NoTask]_vars

\* waitForAll returns once all tasks are done and nothing else is submitted.
WaitForAllReturns ==
  \A c \in Callers :
    pc[c] = "waiting" /\ fresh = {} ~> pc[c] = "out" \/ queue # {} \/ Held # {}

\* shutdown "waits for all tasks to complete and stops all threads".
ShutdownReturns == shutdown ~> closed
=============================================================================
