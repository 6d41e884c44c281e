--------------------------- MODULE ThreadPoolProofs ---------------------------
(***************************************************************************)
(* The safety properties of ThreadPool, for every set of workers, callers  *)
(* and tasks.  IInv is inductive: each lemma ...Step shows that one of its *)
(* parts is kept by every step; actions that leave it alone share a step.    *)
(***************************************************************************)
EXTENDS ThreadPool, FiniteSetTheorems, TLAPS

USE DEF Threads, flags, ledger, allButPc, vars

\* The workers scaleUp creates are threads that did not exist before.
LEMMA GrowsUnborn ==
  ASSUME TypeOK, PoolInv, ClosedPoolHasNoThreads, ScalerGrows
  PROVE  \A w \in Workers \ pool : pc[w] = "unborn"
BY DEF TypeOK, PoolInv, ClosedPoolHasNoThreads, ScalerGrows

LEMMA TypeStep ==
  ASSUME TypeOK, CarriesInv, [Next]_vars, active' \in Nat
  PROVE  TypeOK'
<1> USE ThreadsAssumption, TasksAssumption, ConfigAssumption DEF Goto, Moves,
    NotifyAll, Park, Block, Woken, Blocked, TypeOK, WorkerLabels,
    ScalerLabels, CallerLabels, CarriesInv
<1>1. ASSUME NEW w \in Workers, WorkerPops(w) PROVE TypeOK'
  BY <1>1 DEF WorkerPops, Tops
<1>2. ASSUME NEW w \in Workers, WorkerRuns(w) PROVE TypeOK'
  BY <1>2 DEF WorkerRuns
<1>3. ASSUME NEW w \in Workers, WorkerNotifies(w) PROVE TypeOK'
  BY <1>3 DEF WorkerNotifies
<1>4. ASSUME NEW w \in Workers, WorkerLoop(w) \/ WorkerParks(w) \/
            WorkerBlocks(w) \/ WorkerBreaks(w) \/ WorkerPaused(w) \/
            WorkerStarts(w) \/ WorkerFinishes(w)
      PROVE  TypeOK'
  BY <1>4 DEF WorkerLoop, WorkerParks, WorkerBlocks, WorkerBreaks, WorkerPaused,
     WorkerStarts, WorkerFinishes
<1>5. ASSUME ScalerGrows PROVE TypeOK'
  BY <1>5 DEF ScalerGrows
<1>6. ASSUME ScalerWakes
      PROVE  TypeOK'
  BY <1>6 DEF ScalerWakes
<1>7. ASSUME NEW c \in Callers, NEW t \in fresh, SubmitThrows(c, t) \/
            SubmitEnters(c, t)
      PROVE  TypeOK'
  BY <1>7 DEF SubmitThrows, SubmitEnters
<1>8. ASSUME NEW c \in Callers, SubmitPushes(c) PROVE TypeOK'
  <2>1. queue' \subseteq Tasks
    BY <1>8 DEF SubmitPushes
  <2>2. DOMAIN pc' = Threads /\ pc' = [pc EXCEPT ![c] = "signal"]
    BY <1>8 DEF SubmitPushes
  <2>3. /\ \A w \in Workers : pc'[w] \in WorkerLabels
        /\ pc'[Scaler] \in ScalerLabels
        /\ \A d \in Callers : pc'[d] \in CallerLabels
    BY <2>2
  <2>4. carries' \in [Workers \cup Callers -> Tasks \cup {NoTask}]
    BY <1>8 DEF SubmitPushes
  <2>5. QED
    BY <1>8, <2>1, <2>2, <2>3, <2>4 DEF SubmitPushes
<1>9. ASSUME NEW c \in Callers, SubmitSignals(c) PROVE TypeOK'
  <2>1. /\ UNCHANGED allButPc
        /\ \/ pc' = [pc EXCEPT ![c] = "out"]
           \/ \E u \in Threads :
                /\ pc[u] \in Blocked
                /\ pc' = [pc EXCEPT ![c] = "out", ![u] = Woken(@)]
    BY <1>9 DEF SubmitSignals
  <2>2. CASE pc' = [pc EXCEPT ![c] = "out"]
    BY <2>1, <2>2
  <2>3. ASSUME NEW u \in Threads, pc[u] \in Blocked,
               pc' = [pc EXCEPT ![c] = "out", ![u] = Woken(@)]
        PROVE  TypeOK'
    <3>1. pc[c] = "signal" => u # c
      BY <2>3
    <3>2. pc[c] = "signal"
      BY <1>9 DEF SubmitSignals
    <3>3. DOMAIN pc' = Threads
      BY <2>3
    <3>4. \A v \in Threads : pc'[v] = IF v = u THEN Woken(pc[u])
                                     ELSE IF v = c THEN "out" ELSE pc[v]
      BY <2>3, <3>1, <3>2
    <3>5. \A v \in Workers : pc'[v] \in WorkerLabels
      BY <3>4
    <3>6. pc'[Scaler] \in ScalerLabels
      BY <3>4
    <3>7. \A v \in Callers : pc'[v] \in CallerLabels
      BY <3>4
    <3>8. QED
      BY <2>1, <3>3, <3>5, <3>6, <3>7
  <2>4. QED
    BY <2>1, <2>2, <2>3
<1>10. ASSUME NEW c \in Callers, StopNotifies(c) PROVE TypeOK'
  BY <1>10 DEF StopNotifies
<1>11. ASSUME NEW c \in Callers, ResumeNotifies(c) PROVE TypeOK'
  BY <1>11 DEF ResumeNotifies
<1>12. ASSUME NEW c \in Callers, CallsWaitForAll(c) \/ WaitReturns(c) \/
            WaitParks(c) \/ WaitBlocks(c) \/ CallsShutdown(c) \/
            CallsForceShutdown(c) \/ ForceClears(c) \/ JoinsScaler(c) \/
            JoinsWorkers(c) \/ Pauses(c) \/ Resumes(c) \/ UpdatesConfig(c)
      PROVE  TypeOK'
  <2>1. CASE CallsWaitForAll(c)
    BY <2>1 DEF CallsWaitForAll
  <2>2. CASE WaitReturns(c)
    BY <2>2 DEF WaitReturns
  <2>3. CASE WaitParks(c)
    BY <2>3 DEF WaitParks
  <2>4. CASE WaitBlocks(c)
    BY <2>4 DEF WaitBlocks
  <2>5. CASE CallsShutdown(c)
    BY <2>5 DEF CallsShutdown
  <2>6. CASE CallsForceShutdown(c)
    BY <2>6 DEF CallsForceShutdown
  <2>7. CASE ForceClears(c)
    BY <2>7 DEF ForceClears
  <2>8. CASE JoinsScaler(c)
    BY <2>8 DEF JoinsScaler
  <2>9. CASE JoinsWorkers(c)
    BY <2>9 DEF JoinsWorkers
  <2>10. CASE Pauses(c)
    BY <2>10 DEF Pauses
  <2>11. CASE Resumes(c)
    BY <2>11 DEF Resumes
  <2>12. CASE UpdatesConfig(c)
    BY <2>12 DEF UpdatesConfig
  <2>13. QED
    BY <1>12, <2>1, <2>2, <2>3, <2>4, <2>5, <2>6, <2>7, <2>8, <2>9, <2>10, <2>11, <2>12
<1>13. ASSUME NEW t \in Workers \cup Callers, SpuriousWakeup(t)
      PROVE  TypeOK'
  BY <1>13 DEF SpuriousWakeup
<1>14. CASE UNCHANGED vars
  BY <1>14
<1>15. QED
  BY <1>1, <1>2, <1>3, <1>4, <1>5, <1>6, <1>7, <1>8, <1>9, <1>10, <1>11,
     <1>12, <1>13, <1>14 DEF Next, Worker, Caller

LEMMA MutexStep ==
  ASSUME TypeOK, TypeOK', MutexInv, PoolInv, ClosedPoolHasNoThreads, [Next]_vars
  PROVE  MutexInv'
<1> USE ThreadsAssumption, TasksAssumption, ConfigAssumption DEF Goto, Moves,
    NotifyAll, Park, Block, Woken, Blocked, TypeOK, WorkerLabels,
    ScalerLabels, CallerLabels, MutexInv, Locking
<1>1. ASSUME NEW w \in Workers, WorkerLoop(w) \/ WorkerParks(w) \/
            WorkerBlocks(w) \/ WorkerBreaks(w) \/ WorkerPaused(w) \/
            WorkerPops(w) \/ WorkerStarts(w) \/ WorkerRuns(w) \/
            WorkerFinishes(w) \/ WorkerNotifies(w)
      PROVE  MutexInv'
  BY <1>1 DEF WorkerLoop, WorkerParks, WorkerBlocks, WorkerBreaks, WorkerPaused,
     WorkerPops, WorkerStarts, WorkerRuns, WorkerFinishes, WorkerNotifies
<1>2. ASSUME ScalerGrows PROVE MutexInv'
  BY <1>2, GrowsUnborn DEF ScalerGrows
<1>3. ASSUME ScalerWakes
      PROVE  MutexInv'
  BY <1>3 DEF ScalerWakes
<1>4. ASSUME NEW c \in Callers, NEW t \in fresh, SubmitThrows(c, t) \/
            SubmitEnters(c, t)
      PROVE  MutexInv'
  BY <1>4 DEF SubmitThrows, SubmitEnters
<1>5. ASSUME NEW c \in Callers, SubmitPushes(c) \/ SubmitSignals(c) \/
            CallsWaitForAll(c) \/ WaitReturns(c) \/ WaitParks(c) \/
            WaitBlocks(c) \/ CallsShutdown(c) \/ CallsForceShutdown(c) \/
            ForceClears(c) \/ StopNotifies(c) \/ JoinsScaler(c) \/
            JoinsWorkers(c) \/ Pauses(c) \/ Resumes(c) \/
            ResumeNotifies(c) \/ UpdatesConfig(c)
      PROVE  MutexInv'
  BY <1>5 DEF SubmitPushes, SubmitSignals, CallsWaitForAll, WaitReturns,
     WaitParks, WaitBlocks, CallsShutdown, CallsForceShutdown, ForceClears,
     StopNotifies, JoinsScaler, JoinsWorkers, Pauses, Resumes, ResumeNotifies,
     UpdatesConfig
<1>6. ASSUME NEW t \in Workers \cup Callers, SpuriousWakeup(t)
      PROVE  MutexInv'
  BY <1>6 DEF SpuriousWakeup
<1>7. CASE UNCHANGED vars
  BY <1>7
<1>8. QED
  BY <1>1, <1>2, <1>3, <1>4, <1>5, <1>6, <1>7 DEF Next, Worker, Caller

LEMMA CarriesStep ==
  ASSUME TypeOK, CarriesInv, PoolInv, ClosedPoolHasNoThreads, [Next]_vars
  PROVE  CarriesInv'
<1> USE ThreadsAssumption, TasksAssumption, ConfigAssumption DEF Goto, Moves,
    NotifyAll, Park, Block, Woken, Blocked, TypeOK, WorkerLabels,
    ScalerLabels, CallerLabels, CarriesInv
<1>1. ASSUME NEW w \in Workers, WorkerLoop(w) \/ WorkerParks(w) \/
            WorkerBlocks(w) \/ WorkerBreaks(w) \/ WorkerPaused(w) \/
            WorkerPops(w) \/ WorkerStarts(w) \/ WorkerRuns(w) \/
            WorkerFinishes(w) \/ WorkerNotifies(w)
      PROVE  CarriesInv'
  BY <1>1 DEF WorkerLoop, WorkerParks, WorkerBlocks, WorkerBreaks, WorkerPaused,
     WorkerPops, WorkerStarts, WorkerRuns, WorkerFinishes, WorkerNotifies,
     Tops
<1>2. ASSUME ScalerGrows PROVE CarriesInv'
  BY <1>2, GrowsUnborn DEF ScalerGrows
<1>3. ASSUME ScalerWakes
      PROVE  CarriesInv'
  BY <1>3 DEF ScalerWakes
<1>4. ASSUME NEW c \in Callers, NEW t \in fresh, SubmitThrows(c, t) \/
            SubmitEnters(c, t)
      PROVE  CarriesInv'
  BY <1>4 DEF SubmitThrows, SubmitEnters
<1>5. ASSUME NEW c \in Callers, SubmitPushes(c) \/ SubmitSignals(c) \/
            CallsWaitForAll(c) \/ WaitReturns(c) \/ WaitParks(c) \/
            WaitBlocks(c) \/ CallsShutdown(c) \/ CallsForceShutdown(c) \/
            ForceClears(c) \/ StopNotifies(c) \/ JoinsScaler(c) \/
            JoinsWorkers(c) \/ Pauses(c) \/ Resumes(c) \/
            ResumeNotifies(c) \/ UpdatesConfig(c)
      PROVE  CarriesInv'
  BY <1>5 DEF SubmitPushes, SubmitSignals, CallsWaitForAll, WaitReturns,
     WaitParks, WaitBlocks, CallsShutdown, CallsForceShutdown, ForceClears,
     StopNotifies, JoinsScaler, JoinsWorkers, Pauses, Resumes, ResumeNotifies,
     UpdatesConfig
<1>6. ASSUME NEW t \in Workers \cup Callers, SpuriousWakeup(t)
      PROVE  CarriesInv'
  BY <1>6 DEF SpuriousWakeup
<1>7. CASE UNCHANGED vars
  BY <1>7
<1>8. QED
  BY <1>1, <1>2, <1>3, <1>4, <1>5, <1>6, <1>7 DEF Next, Worker, Caller

LEMMA ShutdownStep ==
  ASSUME TypeOK, ShutdownInv, [Next]_vars
  PROVE  ShutdownInv'
<1> USE ThreadsAssumption, TasksAssumption, ConfigAssumption DEF Goto, Moves,
    NotifyAll, Park, Block, Woken, Blocked, TypeOK, WorkerLabels,
    ScalerLabels, CallerLabels, ShutdownInv, InShutdown, Draining, Stopping
<1>1. ASSUME NEW w \in Workers, WorkerLoop(w) \/ WorkerParks(w) \/
            WorkerBlocks(w) \/ WorkerBreaks(w) \/ WorkerPaused(w) \/
            WorkerPops(w) \/ WorkerStarts(w) \/ WorkerRuns(w) \/
            WorkerFinishes(w) \/ WorkerNotifies(w)
      PROVE  ShutdownInv'
  BY <1>1 DEF WorkerLoop, WorkerParks, WorkerBlocks, WorkerBreaks, WorkerPaused,
     WorkerPops, WorkerStarts, WorkerRuns, WorkerFinishes, WorkerNotifies
<1>2. ASSUME ScalerWakes \/ ScalerGrows
      PROVE  ShutdownInv'
  BY <1>2 DEF ScalerWakes, ScalerGrows
<1>3. ASSUME NEW c \in Callers, NEW t \in fresh, SubmitThrows(c, t) \/
            SubmitEnters(c, t)
      PROVE  ShutdownInv'
  BY <1>3 DEF SubmitThrows, SubmitEnters
<1>4. ASSUME NEW c \in Callers, SubmitPushes(c) \/ SubmitSignals(c) \/
            CallsWaitForAll(c) \/ WaitReturns(c) \/ WaitParks(c) \/
            WaitBlocks(c) \/ CallsShutdown(c) \/ CallsForceShutdown(c) \/
            ForceClears(c) \/ StopNotifies(c) \/ JoinsScaler(c) \/
            JoinsWorkers(c) \/ Pauses(c) \/ Resumes(c) \/
            ResumeNotifies(c) \/ UpdatesConfig(c)
      PROVE  ShutdownInv'
  BY <1>4 DEF SubmitPushes, SubmitSignals, CallsWaitForAll, WaitReturns,
     WaitParks, WaitBlocks, CallsShutdown, CallsForceShutdown, ForceClears,
     StopNotifies, JoinsScaler, JoinsWorkers, Pauses, Resumes, ResumeNotifies,
     UpdatesConfig
<1>5. ASSUME NEW t \in Workers \cup Callers, SpuriousWakeup(t)
      PROVE  ShutdownInv'
  BY <1>5 DEF SpuriousWakeup
<1>6. CASE UNCHANGED vars
  BY <1>6
<1>7. QED
  BY <1>1, <1>2, <1>3, <1>4, <1>5, <1>6 DEF Next, Worker, Caller

LEMMA SealStep ==
  ASSUME TypeOK, MutexInv, ShutdownInv, SealInv, [Next]_vars
  PROVE  SealInv'
<1> USE ThreadsAssumption, TasksAssumption, ConfigAssumption DEF Goto, Moves,
    NotifyAll, Park, Block, Woken, Blocked, TypeOK, WorkerLabels,
    ScalerLabels, CallerLabels, SealInv, Sealed, ShutdownInv, InShutdown,
    Draining, Stopping, MutexInv, Locking, HasWork, AllIdle
<1>1. ASSUME NEW w \in Workers, WorkerLoop(w) \/ WorkerParks(w) \/
            WorkerBlocks(w) \/ WorkerBreaks(w) \/ WorkerPaused(w) \/
            WorkerPops(w) \/ WorkerStarts(w) \/ WorkerRuns(w) \/
            WorkerFinishes(w) \/ WorkerNotifies(w)
      PROVE  SealInv'
  BY <1>1 DEF WorkerLoop, WorkerParks, WorkerBlocks, WorkerBreaks, WorkerPaused,
     WorkerPops, WorkerStarts, WorkerRuns, WorkerFinishes, WorkerNotifies,
     Tops
<1>2. ASSUME ScalerWakes \/ ScalerGrows
      PROVE  SealInv'
  BY <1>2 DEF ScalerWakes, ScalerGrows
<1>3. ASSUME NEW c \in Callers, NEW t \in fresh, SubmitThrows(c, t) \/
            SubmitEnters(c, t)
      PROVE  SealInv'
  BY <1>3 DEF SubmitThrows, SubmitEnters
<1>4. ASSUME NEW c \in Callers, SubmitPushes(c) \/ SubmitSignals(c) \/
            CallsWaitForAll(c) \/ WaitReturns(c) \/ WaitParks(c) \/
            WaitBlocks(c) \/ CallsShutdown(c) \/ CallsForceShutdown(c) \/
            ForceClears(c) \/ StopNotifies(c) \/ JoinsScaler(c) \/
            JoinsWorkers(c) \/ Pauses(c) \/ Resumes(c) \/
            ResumeNotifies(c) \/ UpdatesConfig(c)
      PROVE  SealInv'
  BY <1>4 DEF SubmitPushes, SubmitSignals, CallsWaitForAll, WaitReturns,
     WaitParks, WaitBlocks, CallsShutdown, CallsForceShutdown, ForceClears,
     StopNotifies, JoinsScaler, JoinsWorkers, Pauses, Resumes, ResumeNotifies,
     UpdatesConfig
<1>5. ASSUME NEW t \in Workers \cup Callers, SpuriousWakeup(t)
      PROVE  SealInv'
  BY <1>5 DEF SpuriousWakeup
<1>6. CASE UNCHANGED vars
  BY <1>6
<1>7. QED
  BY <1>1, <1>2, <1>3, <1>4, <1>5, <1>6 DEF Next, Worker, Caller

LEMMA SleepStep ==
  ASSUME TypeOK, MutexInv, ShutdownInv, SealInv, NoWorkerSleepsThroughStop, [Next]_vars
  PROVE  NoWorkerSleepsThroughStop'
<1> USE ThreadsAssumption, TasksAssumption, ConfigAssumption DEF Goto, Moves,
    NotifyAll, Park, Block, Woken, Blocked, TypeOK, WorkerLabels,
    ScalerLabels, CallerLabels, SealInv, Sealed, ShutdownInv, InShutdown,
    Draining, Stopping, NoWorkerSleepsThroughStop, HasWork
<1>1. ASSUME NEW w \in Workers, WorkerLoop(w) \/ WorkerParks(w) \/
            WorkerBlocks(w) \/ WorkerBreaks(w) \/ WorkerPaused(w) \/
            WorkerPops(w) \/ WorkerStarts(w) \/ WorkerRuns(w) \/
            WorkerFinishes(w) \/ WorkerNotifies(w)
      PROVE  NoWorkerSleepsThroughStop'
  BY <1>1 DEF WorkerLoop, WorkerParks, WorkerBlocks, WorkerBreaks, WorkerPaused,
     WorkerPops, WorkerStarts, WorkerRuns, WorkerFinishes, WorkerNotifies
<1>2. ASSUME ScalerWakes \/ ScalerGrows
      PROVE  NoWorkerSleepsThroughStop'
  BY <1>2 DEF ScalerWakes, ScalerGrows
<1>3. ASSUME NEW c \in Callers, NEW t \in fresh, SubmitThrows(c, t) \/
            SubmitEnters(c, t)
      PROVE  NoWorkerSleepsThroughStop'
  BY <1>3 DEF SubmitThrows, SubmitEnters
<1>4. ASSUME NEW c \in Callers, SubmitPushes(c) \/ SubmitSignals(c) \/
            CallsWaitForAll(c) \/ WaitReturns(c) \/ WaitParks(c) \/
            WaitBlocks(c) \/ CallsShutdown(c) \/ CallsForceShutdown(c) \/
            ForceClears(c) \/ StopNotifies(c) \/ JoinsScaler(c) \/
            JoinsWorkers(c) \/ Pauses(c) \/ Resumes(c) \/
            ResumeNotifies(c) \/ UpdatesConfig(c)
      PROVE  NoWorkerSleepsThroughStop'
  BY <1>4 DEF SubmitPushes, SubmitSignals, CallsWaitForAll, WaitReturns,
     WaitParks, WaitBlocks, CallsShutdown, CallsForceShutdown, ForceClears,
     StopNotifies, JoinsScaler, JoinsWorkers, Pauses, Resumes, ResumeNotifies,
     UpdatesConfig
<1>5. ASSUME NEW t \in Workers \cup Callers, SpuriousWakeup(t)
      PROVE  NoWorkerSleepsThroughStop'
  BY <1>5 DEF SpuriousWakeup
<1>6. CASE UNCHANGED vars
  BY <1>6
<1>7. QED
  BY <1>1, <1>2, <1>3, <1>4, <1>5, <1>6 DEF Next, Worker, Caller

LEMMA PoolStep ==
  ASSUME TypeOK, ShutdownInv, PoolInv, ClosedPoolHasNoThreads, [Next]_vars
  PROVE  PoolInv'
<1> USE ThreadsAssumption, TasksAssumption, ConfigAssumption DEF Goto, Moves,
    NotifyAll, Park, Block, Woken, Blocked, TypeOK, WorkerLabels,
    ScalerLabels, CallerLabels, ShutdownInv, InShutdown, Stopping, PoolInv,
    ClosedPoolHasNoThreads
<1>1. ASSUME NEW w \in Workers, WorkerLoop(w) \/ WorkerParks(w) \/
            WorkerBlocks(w) \/ WorkerBreaks(w) \/ WorkerPaused(w) \/
            WorkerPops(w) \/ WorkerStarts(w) \/ WorkerRuns(w) \/
            WorkerFinishes(w) \/ WorkerNotifies(w)
      PROVE  PoolInv'
  BY <1>1 DEF WorkerLoop, WorkerParks, WorkerBlocks, WorkerBreaks, WorkerPaused,
     WorkerPops, WorkerStarts, WorkerRuns, WorkerFinishes, WorkerNotifies
<1>2. ASSUME ScalerGrows PROVE PoolInv'
  BY <1>2, GrowsUnborn DEF ScalerGrows
<1>3. ASSUME ScalerWakes
      PROVE  PoolInv'
  BY <1>3 DEF ScalerWakes
<1>4. ASSUME NEW c \in Callers, NEW t \in fresh, SubmitThrows(c, t) \/
            SubmitEnters(c, t)
      PROVE  PoolInv'
  <2>1. CASE SubmitThrows(c, t)
    BY <2>1 DEF SubmitThrows
  <2>2. CASE SubmitEnters(c, t)
    BY <2>2 DEF SubmitEnters
  <2>3. QED
    BY <1>4, <2>1, <2>2
<1>5. ASSUME NEW c \in Callers, SubmitPushes(c) \/ SubmitSignals(c) \/
            CallsWaitForAll(c) \/ WaitReturns(c) \/ WaitParks(c) \/
            WaitBlocks(c) \/ CallsShutdown(c) \/ CallsForceShutdown(c) \/
            ForceClears(c) \/ StopNotifies(c) \/ JoinsScaler(c) \/
            JoinsWorkers(c) \/ Pauses(c) \/ Resumes(c) \/
            ResumeNotifies(c) \/ UpdatesConfig(c)
      PROVE  PoolInv'
  BY <1>5 DEF SubmitPushes, SubmitSignals, CallsWaitForAll, WaitReturns,
     WaitParks, WaitBlocks, CallsShutdown, CallsForceShutdown, ForceClears,
     StopNotifies, JoinsScaler, JoinsWorkers, Pauses, Resumes, ResumeNotifies,
     UpdatesConfig
<1>6. ASSUME NEW t \in Workers \cup Callers, SpuriousWakeup(t)
      PROVE  PoolInv'
  BY <1>6 DEF SpuriousWakeup
<1>7. CASE UNCHANGED vars
  BY <1>7
<1>8. QED
  BY <1>1, <1>2, <1>3, <1>4, <1>5, <1>6, <1>7 DEF Next, Worker, Caller

LEMMA ClosedStep ==
  ASSUME TypeOK, ShutdownInv, PoolInv, ClosedPoolHasNoThreads, [Next]_vars
  PROVE  ClosedPoolHasNoThreads'
<1> USE ThreadsAssumption, TasksAssumption, ConfigAssumption DEF Goto, Moves,
    NotifyAll, Park, Block, Woken, Blocked, TypeOK, WorkerLabels,
    ScalerLabels, CallerLabels, ShutdownInv, InShutdown, Stopping, PoolInv,
    ClosedPoolHasNoThreads
<1>1. ASSUME NEW w \in Workers, WorkerLoop(w) \/ WorkerParks(w) \/
            WorkerBlocks(w) \/ WorkerBreaks(w) \/ WorkerPaused(w) \/
            WorkerPops(w) \/ WorkerStarts(w) \/ WorkerRuns(w) \/
            WorkerFinishes(w) \/ WorkerNotifies(w)
      PROVE  ClosedPoolHasNoThreads'
  BY <1>1 DEF WorkerLoop, WorkerParks, WorkerBlocks, WorkerBreaks, WorkerPaused,
     WorkerPops, WorkerStarts, WorkerRuns, WorkerFinishes, WorkerNotifies
<1>2. ASSUME ScalerGrows PROVE ClosedPoolHasNoThreads'
  BY <1>2, GrowsUnborn DEF ScalerGrows
<1>3. ASSUME ScalerWakes
      PROVE  ClosedPoolHasNoThreads'
  BY <1>3 DEF ScalerWakes
<1>4. ASSUME NEW c \in Callers, NEW t \in fresh, SubmitThrows(c, t) \/
            SubmitEnters(c, t)
      PROVE  ClosedPoolHasNoThreads'
  BY <1>4 DEF SubmitThrows, SubmitEnters
<1>5. ASSUME NEW c \in Callers, SubmitPushes(c) \/ SubmitSignals(c) \/
            CallsWaitForAll(c) \/ WaitReturns(c) \/ WaitParks(c) \/
            WaitBlocks(c) \/ CallsShutdown(c) \/ CallsForceShutdown(c) \/
            ForceClears(c) \/ StopNotifies(c) \/ JoinsScaler(c) \/
            JoinsWorkers(c) \/ Pauses(c) \/ Resumes(c) \/
            ResumeNotifies(c) \/ UpdatesConfig(c)
      PROVE  ClosedPoolHasNoThreads'
  <2>1. CASE SubmitPushes(c)
    BY <2>1 DEF SubmitPushes
  <2>2. CASE SubmitSignals(c)
    BY <2>2 DEF SubmitSignals
  <2>3. CASE CallsWaitForAll(c)
    BY <2>3 DEF CallsWaitForAll
  <2>4. CASE WaitReturns(c)
    <3>1. /\ UNCHANGED closed
          /\ \A u \in Workers \cup {Scaler} : pc'[u] = pc[u]
      BY <2>4 DEF WaitReturns
    <3>2. QED
      BY <3>1
  <2>5. CASE WaitParks(c)
    BY <2>5 DEF WaitParks
  <2>6. CASE WaitBlocks(c)
    BY <2>6 DEF WaitBlocks
  <2>7. CASE CallsShutdown(c)
    BY <2>7 DEF CallsShutdown
  <2>8. CASE CallsForceShutdown(c)
    BY <2>8 DEF CallsForceShutdown
  <2>9. CASE ForceClears(c)
    BY <2>9 DEF ForceClears
  <2>10. CASE StopNotifies(c)
    BY <2>10 DEF StopNotifies
  <2>11. CASE JoinsScaler(c)
    BY <2>11 DEF JoinsScaler
  <2>12. CASE JoinsWorkers(c)
    BY <2>12 DEF JoinsWorkers
  <2>13. CASE Pauses(c)
    BY <2>13 DEF Pauses
  <2>14. CASE Resumes(c)
    BY <2>14 DEF Resumes
  <2>15. CASE ResumeNotifies(c)
    BY <2>15 DEF ResumeNotifies
  <2>16. CASE UpdatesConfig(c)
    BY <2>16 DEF UpdatesConfig
  <2>17. QED
    BY <1>5, <2>1, <2>2, <2>3, <2>4, <2>5, <2>6, <2>7, <2>8, <2>9, <2>10, <2>11, <2>12, <2>13,
       <2>14, <2>15, <2>16
<1>6. ASSUME NEW t \in Workers \cup Callers, SpuriousWakeup(t)
      PROVE  ClosedPoolHasNoThreads'
  BY <1>6 DEF SpuriousWakeup
<1>7. CASE UNCHANGED vars
  BY <1>7
<1>8. QED
  BY <1>1, <1>2, <1>3, <1>4, <1>5, <1>6, <1>7 DEF Next, Worker, Caller

LEMMA PlaceStep ==
  ASSUME TypeOK, CarriesInv, EachTaskInOnePlace, [Next]_vars
  PROVE  EachTaskInOnePlace'
<1> USE ThreadsAssumption, TasksAssumption, ConfigAssumption DEF Goto, Moves,
    NotifyAll, Park, Block, Woken, Blocked, TypeOK, WorkerLabels,
    ScalerLabels, CallerLabels, CarriesInv, EachTaskInOnePlace, Held
<1>1. ASSUME NEW w \in Workers, WorkerLoop(w) \/ WorkerParks(w) \/
            WorkerBlocks(w) \/ WorkerBreaks(w) \/ WorkerPaused(w) \/
            WorkerPops(w) \/ WorkerStarts(w) \/ WorkerRuns(w) \/
            WorkerFinishes(w) \/ WorkerNotifies(w)
      PROVE  EachTaskInOnePlace'
  BY <1>1 DEF WorkerLoop, WorkerParks, WorkerBlocks, WorkerBreaks, WorkerPaused,
     WorkerPops, WorkerStarts, WorkerRuns, WorkerFinishes, WorkerNotifies,
     Tops
<1>2. ASSUME ScalerWakes \/ ScalerGrows
      PROVE  EachTaskInOnePlace'
  BY <1>2 DEF ScalerWakes, ScalerGrows
<1>3. ASSUME NEW c \in Callers, NEW t \in fresh, SubmitThrows(c, t) \/
            SubmitEnters(c, t)
      PROVE  EachTaskInOnePlace'
  BY <1>3 DEF SubmitThrows, SubmitEnters
<1>4. ASSUME NEW c \in Callers, SubmitPushes(c) \/ SubmitSignals(c) \/
            CallsWaitForAll(c) \/ WaitReturns(c) \/ WaitParks(c) \/
            WaitBlocks(c) \/ CallsShutdown(c) \/ CallsForceShutdown(c) \/
            ForceClears(c) \/ StopNotifies(c) \/ JoinsScaler(c) \/
            JoinsWorkers(c) \/ Pauses(c) \/ Resumes(c) \/
            ResumeNotifies(c) \/ UpdatesConfig(c)
      PROVE  EachTaskInOnePlace'
  <2>1. CASE SubmitPushes(c)
    BY <2>1 DEF SubmitPushes
  <2>2. CASE SubmitSignals(c)
    BY <2>2 DEF SubmitSignals
  <2>3. CASE CallsWaitForAll(c)
    BY <2>3 DEF CallsWaitForAll
  <2>4. CASE WaitReturns(c)
    BY <2>4 DEF WaitReturns
  <2>5. CASE WaitParks(c)
    BY <2>5 DEF WaitParks
  <2>6. CASE WaitBlocks(c)
    BY <2>6 DEF WaitBlocks
  <2>7. CASE CallsShutdown(c)
    BY <2>7 DEF CallsShutdown
  <2>8. CASE CallsForceShutdown(c)
    BY <2>8 DEF CallsForceShutdown
  <2>9. CASE ForceClears(c)
    BY <2>9 DEF ForceClears
  <2>10. CASE StopNotifies(c)
    BY <2>10 DEF StopNotifies
  <2>11. CASE JoinsScaler(c)
    BY <2>11 DEF JoinsScaler
  <2>12. CASE JoinsWorkers(c)
    BY <2>12 DEF JoinsWorkers
  <2>13. CASE Pauses(c)
    BY <2>13 DEF Pauses
  <2>14. CASE Resumes(c)
    BY <2>14 DEF Resumes
  <2>15. CASE ResumeNotifies(c)
    BY <2>15 DEF ResumeNotifies
  <2>16. CASE UpdatesConfig(c)
    BY <2>16 DEF UpdatesConfig
  <2>17. QED
    BY <1>4, <2>1, <2>2, <2>3, <2>4, <2>5, <2>6, <2>7, <2>8, <2>9, <2>10, <2>11, <2>12, <2>13,
       <2>14, <2>15, <2>16
<1>5. ASSUME NEW t \in Workers \cup Callers, SpuriousWakeup(t)
      PROVE  EachTaskInOnePlace'
  BY <1>5 DEF SpuriousWakeup
<1>6. CASE UNCHANGED vars
  BY <1>6
<1>7. QED
  BY <1>1, <1>2, <1>3, <1>4, <1>5, <1>6 DEF Next, Worker, Caller

Runners == {w \in Workers : pc[w] \in {"running", "ran"}}

\* Runners is a finite set and active_threads_, its size, a natural number.
LEMMA RunnersFinite == IsFiniteSet(Runners) /\ Cardinality(Runners) \in Nat
BY ThreadsAssumption, FS_Subset, FS_CardinalityType DEF Runners

LEMMA RunnersFinitePrime == IsFiniteSet(Runners') /\ Cardinality(Runners') \in Nat
BY ThreadsAssumption, FS_Subset, FS_CardinalityType DEF Runners

LEMMA RunnersStep ==
  ASSUME TypeOK, PoolInv, ClosedPoolHasNoThreads, ActiveCountsRunners, [Next]_vars
  PROVE  active' = Cardinality(Runners')
<1> USE ThreadsAssumption, TasksAssumption, ConfigAssumption DEF Goto, Moves,
    NotifyAll, Park, Block, Woken, Blocked, TypeOK, ScalerLabels,
    CallerLabels, ActiveCountsRunners, Runners
<1>1. ASSUME NEW w \in Workers, WorkerStarts(w) PROVE active' = Cardinality(Runners')
  <2>1. Runners' = Runners \cup {w} /\ w \notin Runners
    BY <1>1 DEF WorkerStarts
  <2>2. Cardinality(Runners \cup {w}) = Cardinality(Runners) + 1
    <3> HIDE DEF Runners, TypeOK, Goto, Moves, ActiveCountsRunners
    <3>1. QED
      BY <2>1, RunnersFinite, FS_AddElement
  <2>3. active = Cardinality(Runners) /\ active' = active + 1
    BY <1>1 DEF WorkerStarts
  <2>4. QED
    BY <2>1, <2>2, <2>3
<1>2. ASSUME NEW w \in Workers, WorkerFinishes(w) PROVE active' = Cardinality(Runners')
  <2>1. Runners' = Runners \ {w} /\ w \in Runners
    BY <1>2 DEF WorkerFinishes
  <2>2. Cardinality(Runners \ {w}) = Cardinality(Runners) - 1
    <3> HIDE DEF Runners, TypeOK, Goto, Moves, ActiveCountsRunners
    <3>1. QED
      BY <2>1, RunnersFinite, FS_RemoveElement
  <2>3. active = Cardinality(Runners) /\ active' = active - 1
    BY <1>2 DEF WorkerFinishes
  <2>4. QED
    BY <2>1, <2>2, <2>3
<1>3. ASSUME NEW w \in Workers, WorkerLoop(w) \/ WorkerParks(w) \/
            WorkerBlocks(w) \/ WorkerBreaks(w) \/ WorkerPaused(w) \/
            WorkerPops(w) \/ WorkerRuns(w) \/ WorkerNotifies(w)
      PROVE  UNCHANGED <<active, Runners>>
  <2>1. CASE WorkerLoop(w)
    BY <2>1 DEF WorkerLoop
  <2>2. CASE WorkerParks(w)
    BY <2>2 DEF WorkerParks
  <2>3. CASE WorkerBlocks(w)
    BY <2>3 DEF WorkerBlocks
  <2>4. CASE WorkerBreaks(w)
    BY <2>4 DEF WorkerBreaks
  <2>5. CASE WorkerPaused(w)
    BY <2>5 DEF WorkerPaused
  <2>6. CASE WorkerPops(w)
    BY <2>6 DEF WorkerPops
  <2>7. CASE WorkerRuns(w)
    BY <2>7 DEF WorkerRuns
  <2>8. CASE WorkerNotifies(w)
    BY <2>8 DEF WorkerNotifies
  <2>9. QED
    BY <1>3, <2>1, <2>2, <2>3, <2>4, <2>5, <2>6, <2>7, <2>8
<1>4. ASSUME ScalerGrows PROVE UNCHANGED <<active, Runners>>
  BY <1>4, GrowsUnborn DEF ScalerGrows
<1>5. ASSUME ScalerWakes
      PROVE  UNCHANGED <<active, Runners>>
  BY <1>5 DEF ScalerWakes
<1>6. ASSUME NEW c \in Callers, NEW t \in fresh, SubmitThrows(c, t) \/
            SubmitEnters(c, t)
      PROVE  UNCHANGED <<active, Runners>>
  <2>1. CASE SubmitThrows(c, t)
    BY <2>1 DEF SubmitThrows
  <2>2. CASE SubmitEnters(c, t)
    BY <2>2 DEF SubmitEnters
  <2>3. QED
    BY <1>6, <2>1, <2>2
<1>7. ASSUME NEW c \in Callers, SubmitPushes(c) PROVE UNCHANGED <<active, Runners>>
  BY <1>7 DEF SubmitPushes
<1>8. ASSUME NEW c \in Callers, SubmitSignals(c) PROVE UNCHANGED <<active, Runners>>
  BY <1>8 DEF SubmitSignals
<1>9. ASSUME NEW c \in Callers, WaitReturns(c) PROVE UNCHANGED <<active, Runners>>
  BY <1>9 DEF WaitReturns
<1>10. ASSUME NEW c \in Callers, WaitParks(c) PROVE UNCHANGED <<active, Runners>>
  BY <1>10 DEF WaitParks
<1>11. ASSUME NEW c \in Callers, WaitBlocks(c) PROVE UNCHANGED <<active, Runners>>
  BY <1>11 DEF WaitBlocks
<1>12. ASSUME NEW c \in Callers, ForceClears(c) PROVE UNCHANGED <<active, Runners>>
  BY <1>12 DEF ForceClears
<1>13. ASSUME NEW c \in Callers, StopNotifies(c) PROVE UNCHANGED <<active, Runners>>
  BY <1>13 DEF StopNotifies
<1>14. ASSUME NEW c \in Callers, JoinsWorkers(c) PROVE UNCHANGED <<active, Runners>>
  BY <1>14 DEF JoinsWorkers
<1>15. ASSUME NEW c \in Callers, ResumeNotifies(c) PROVE UNCHANGED <<active, Runners>>
  BY <1>15 DEF ResumeNotifies
<1>16. ASSUME NEW c \in Callers, CallsWaitForAll(c) \/ CallsShutdown(c) \/
            CallsForceShutdown(c) \/ JoinsScaler(c) \/ Pauses(c) \/
            Resumes(c) \/ UpdatesConfig(c)
      PROVE  active' = Cardinality(Runners')
  <2>1. CASE CallsWaitForAll(c)
    BY <2>1 DEF CallsWaitForAll
  <2>2. CASE CallsShutdown(c)
    BY <2>2 DEF CallsShutdown
  <2>3. CASE CallsForceShutdown(c)
    BY <2>3 DEF CallsForceShutdown
  <2>4. CASE JoinsScaler(c)
    BY <2>4 DEF JoinsScaler
  <2>5. CASE Pauses(c)
    BY <2>5 DEF Pauses
  <2>6. CASE Resumes(c)
    BY <2>6 DEF Resumes
  <2>7. CASE UpdatesConfig(c)
    BY <2>7 DEF UpdatesConfig
  <2>8. QED
    BY <1>16, <2>1, <2>2, <2>3, <2>4, <2>5, <2>6, <2>7
<1>17. ASSUME NEW t \in Workers \cup Callers, SpuriousWakeup(t)
      PROVE  active' = Cardinality(Runners')
  BY <1>17 DEF SpuriousWakeup
<1>18. CASE UNCHANGED vars
  BY <1>18
<1>19. QED
  BY <1>1, <1>2, <1>3, <1>4, <1>5, <1>6, <1>7, <1>8, <1>9, <1>10, <1>11,
     <1>12, <1>13, <1>14, <1>15, <1>16, <1>17, <1>18 DEF Next, Worker, Caller

LEMMA IInvInit == Init => IInv
<1> SUFFICES ASSUME Init PROVE IInv
  OBVIOUS
<1> USE ThreadsAssumption, TasksAssumption, ConfigAssumption DEF Init
<1>1. TypeOK
  BY DEF TypeOK, WorkerLabels, ScalerLabels, CallerLabels
<1>2. PoolInv /\ ClosedPoolHasNoThreads
  BY DEF PoolInv, ClosedPoolHasNoThreads
<1>3. ActiveCountsRunners
  <2>1. Runners = {}
    BY DEF Runners
  <2>2. IsFiniteSet(pool)
    BY FS_Subset
  <2>3. Cardinality(pool) \in Nat
    BY <2>2, FS_CardinalityType
  <2>4. Cardinality(Runners) = 0
    BY <2>1, FS_EmptySet
  <2>5. QED
    BY <2>3, <2>4 DEF ActiveCountsRunners, Runners
<1>4. EachTaskInOnePlace
  <2>1. Held = {}
    BY DEF Held
  <2>2. QED
    BY <2>1 DEF EachTaskInOnePlace
<1>5. MutexInv /\ CarriesInv
  BY DEF MutexInv, CarriesInv, Locking
<1>6. ShutdownInv /\ SealInv /\ NoWorkerSleepsThroughStop
  BY DEF ShutdownInv, SealInv, NoWorkerSleepsThroughStop, Sealed, Stopping, InShutdown, Draining
<1>7. QED
  BY <1>1, <1>2, <1>3, <1>4, <1>5, <1>6 DEF IInv

LEMMA IInvStep == IInv /\ [Next]_vars => IInv'
<1> SUFFICES ASSUME IInv, [Next]_vars PROVE IInv'
  OBVIOUS
<1> USE DEF IInv
<1>1. active' = Cardinality(Runners')
  BY RunnersStep
<1>2. TypeOK'
  BY <1>1, RunnersFinitePrime, TypeStep
<1>3. PoolInv' /\ ClosedPoolHasNoThreads'
  BY PoolStep, ClosedStep
<1>4. ActiveCountsRunners'
  <2>1. IsFiniteSet(pool')
    BY <1>2, ThreadsAssumption, FS_Subset DEF TypeOK
  <2>2. Runners' \subseteq pool'
    BY <1>2, <1>3 DEF Runners, TypeOK, PoolInv, ClosedPoolHasNoThreads
  <2>3. Cardinality(Runners') <= Cardinality(pool')
    BY <2>1, <2>2, FS_Subset
  <2>4. QED
    BY <1>1, <2>3 DEF ActiveCountsRunners, Runners
<1>5. EachTaskInOnePlace' /\ CarriesInv'
  BY PlaceStep, CarriesStep
<1>6. MutexInv' /\ ShutdownInv'
  BY <1>2, MutexStep, ShutdownStep
<1>7. SealInv' /\ NoWorkerSleepsThroughStop'
  BY SealStep, SleepStep
<1>8. QED
  BY <1>2, <1>3, <1>4, <1>5, <1>6, <1>7

LEMMA IInvAlways == Spec => []IInv
  BY IInvInit, IInvStep, PTL DEF Spec

\* Type correctness: in particular active_threads_ never wraps below zero.
THEOREM TypeCorrect == Spec => []TypeOK
<1>1. IInv => TypeOK
  BY DEF IInv
<1>2. QED
  BY <1>1, IInvAlways, PTL

\* No interleaving of submit, workers and forceShutdown loses or repeats a task.
THEOREM TasksConserved == Spec => []EachTaskInOnePlace
<1>1. IInv => EachTaskInOnePlace
  BY DEF IInv
<1>2. QED
  BY <1>1, IInvAlways, PTL

\* active_threads_ is the number of workers that run a task, and idle_threads
\* in getStats does not underflow.
THEOREM ActiveCorrect == Spec => []ActiveCountsRunners
<1>1. IInv => ActiveCountsRunners
  BY DEF IInv
<1>2. QED
  BY <1>1, IInvAlways, PTL

\* The three together: no task is lost or runs twice, and the count of the
\* workers that run one is right.
THEOREM TasksCounted == Spec => []TasksAccounted
<1>1. IInv => TasksAccounted
  BY DEF IInv, TasksAccounted
<1>2. QED
  BY <1>1, IInvAlways, PTL

\* No submission reaches a queue that was drained or cleared for good.
THEOREM SealedForGood == Spec => []SealedQueueStaysEmpty
<1>1. IInv => SealedQueueStaysEmpty
  BY DEF IInv, SealInv, SealedQueueStaysEmpty
<1>2. QED
  BY <1>1, IInvAlways, PTL

\* No worker is in the wait of the condition variable when it is joined.
THEOREM StopWakesEveryWorker == Spec => []NoWorkerSleepsThroughStop
<1>1. IInv => NoWorkerSleepsThroughStop
  BY DEF IInv
<1>2. QED
  BY <1>1, IInvAlways, PTL

\* The call that performed the shutdown leaves no thread behind.
THEOREM NoThreadSurvives == Spec => []ClosedPoolHasNoThreads
<1>1. IInv => ClosedPoolHasNoThreads
  BY DEF IInv
<1>2. QED
  BY <1>1, IInvAlways, PTL

\* A closed pool is never filled and has no thread, whatever was under way
\* when it was closed.
THEOREM ClosingIsFinal == Spec => []ClosedForGood
<1>1. IInv => ClosedForGood
  BY DEF IInv, SealInv, SealedQueueStaysEmpty, ClosedForGood
<1>2. QED
  BY <1>1, IInvAlways, PTL

\* A graceful shutdown that returned ran every task it had accepted.
THEOREM GracefulIsComplete == Spec => []GracefulShutdownRanEverything
<1>1. IInv => GracefulShutdownRanEverything
  <2> SUFFICES ASSUME IInv, closed, ~force PROVE Tasks \subseteq fresh \cup refused \cup done
    BY DEF GracefulShutdownRanEverything
  <2>1. queue = {} /\ dropped = {}
    BY DEF IInv, SealInv, Sealed, ShutdownInv
  <2>2. \A h \in Workers \cup Callers : carries[h] = NoTask
    BY DEF IInv, CarriesInv, ClosedPoolHasNoThreads, SealInv, Sealed
  <2>3. Held = {}
    BY <2>2 DEF Held
  <2>4. QED
    BY <2>1, <2>3 DEF IInv, EachTaskInOnePlace
<1>2. QED
  BY <1>1, IInvAlways, PTL

(***************************************************************************)
(* Refinement: the pool implements TaskService.                            *)
(***************************************************************************)

\* With every task in one place, TaskStateOf tells which.
LEMMA PlaceOf ==
  ASSUME IInv, NEW t \in Tasks
  PROVE  /\ t \in fresh   <=> TaskStateOf(t) = "new"
         /\ t \in refused <=> TaskStateOf(t) = "refused"
         /\ t \in queue   <=> TaskStateOf(t) = "queued"
         /\ t \in done    <=> TaskStateOf(t) = "done"
         /\ t \in dropped <=> TaskStateOf(t) = "cancelled"
         /\ (\E w \in Workers : carries[w] = t) <=> TaskStateOf(t) = "taken"
         /\ (\E c \in Callers : carries[c] = t) <=> TaskStateOf(t) = "entering"
<1>1. /\ t \in fresh \cup refused \cup queue \cup Held \cup done \cup dropped
      /\ t \in Held <=> \E h \in Workers \cup Callers : carries[h] = t
  BY TasksAssumption DEF IInv, EachTaskInOnePlace, Held
<1>2. \A w \in Workers, c \in Callers : ~(carries[w] = t /\ carries[c] = t)
  BY ThreadsAssumption, TasksAssumption DEF IInv, EachTaskInOnePlace
<1>3. QED
  BY <1>1, <1>2 DEF IInv, EachTaskInOnePlace, TaskStateOf

\* The same in the state a step leads to.
LEMMA PlaceOfPrime ==
  ASSUME IInv', NEW t \in Tasks
  PROVE  /\ t \in fresh'   <=> TaskStateOf(t)' = "new"
         /\ t \in refused' <=> TaskStateOf(t)' = "refused"
         /\ t \in queue'   <=> TaskStateOf(t)' = "queued"
         /\ t \in done'    <=> TaskStateOf(t)' = "done"
         /\ t \in dropped' <=> TaskStateOf(t)' = "cancelled"
         /\ (\E w \in Workers : carries'[w] = t) <=> TaskStateOf(t)' = "taken"
         /\ (\E c \in Callers : carries'[c] = t) <=> TaskStateOf(t)' = "entering"
<1>1. /\ t \in fresh' \cup refused' \cup queue' \cup Held' \cup done' \cup dropped'
      /\ t \in Held' <=> \E h \in Workers \cup Callers : carries'[h] = t
  BY TasksAssumption DEF IInv, EachTaskInOnePlace, Held
<1>2. \A w \in Workers, c \in Callers : ~(carries'[w] = t /\ carries'[c] = t)
  BY ThreadsAssumption, TasksAssumption DEF IInv, EachTaskInOnePlace
<1>3. QED
  BY <1>1, <1>2 DEF IInv, EachTaskInOnePlace, TaskStateOf

\* A step that moves no task, neither seals nor closes, is a stutter.
LEMMA KeepsAbs ==
  ASSUME UNCHANGED <<queue, carries, ledger, closed>>, Sealed' = Sealed, Sealed => force' = force
  PROVE  AbsState' = AbsState /\ AbsService' = AbsService
<1>1. \A t \in Tasks : TaskStateOf(t)' = TaskStateOf(t)
  BY DEF TaskStateOf
<1>2. QED
  BY <1>1 DEF AbsState, AbsService

\* A step that moves one task from one place to another.
LEMMA MovesTask ==
  ASSUME NEW x \in Tasks, NEW from, NEW to,
         TaskStateOf(x) = from, TaskStateOf(x)' = to,
         \A t \in Tasks \ {x} : TaskStateOf(t)' = TaskStateOf(t),
         closed' = closed, Sealed' = Sealed, force' = force
  PROVE  Service!Becomes(x, from, to)
<1>1. AbsState' = [AbsState EXCEPT ![x] = to]
  BY DEF AbsState
<1>2. AbsState[x] = from
  BY DEF AbsState
<1>3. AbsService' = AbsService
  BY DEF AbsService
<1>4. QED
  BY <1>1, <1>2, <1>3 DEF Service!Becomes

\* Every step of the pool is a step of the service or changes nothing in it.
LEMMA RefinementStep ==
  ASSUME IInv, IInv', [Next]_vars
  PROVE  [Service!SNext]_Service!svars
<1> USE ThreadsAssumption, TasksAssumption DEF IInv, TypeOK, WorkerLabels, ScalerLabels, CallerLabels,
        Goto, Moves, NotifyAll, Park, Block, Woken, Blocked, Sealed, Stopping
<1>1. ASSUME NEW w \in Workers, WorkerPops(w) PROVE [Service!SNext]_Service!svars
  <2>0. PICK x \in Tops : queue' = queue \ {x} /\ carries' = [carries EXCEPT ![w] = x]
    BY <1>1 DEF WorkerPops
  <2> x \in Tasks /\ x \in queue
    BY <2>0 DEF Tops
  <2>1. TaskStateOf(x) = "queued" /\ TaskStateOf(x)' = "taken"
    BY <1>1, PlaceOf, PlaceOfPrime, <2>0 DEF WorkerPops
  <2>2. \A t \in Tasks \ {x} : TaskStateOf(t)' = TaskStateOf(t)
    BY <1>1, <2>0 DEF WorkerPops, CarriesInv, TaskStateOf
  <2>3. closed' = closed /\ force' = force /\ Sealed' = Sealed
    BY <1>1 DEF WorkerPops
  <2>4. Service!Becomes(x, "queued", "taken")
    BY <2>1, <2>2, <2>3, MovesTask, <2>0
  <2>5. AbsService = "open"
    BY <1>1, <2>0 DEF WorkerPops, AbsService, SealInv, ShutdownInv, InShutdown
  <2>6. QED
    BY <2>4, <2>5, <2>0 DEF Service!SNext, Service!Take
<1>2. ASSUME NEW w \in Workers, WorkerRuns(w) PROVE [Service!SNext]_Service!svars
  <2>0. PICK x \in Tasks : x = carries[w]
    BY <1>2 DEF WorkerRuns, CarriesInv
  <2>1. TaskStateOf(x) = "taken" /\ TaskStateOf(x)' = "done"
    BY <1>2, PlaceOf, PlaceOfPrime, <2>0 DEF WorkerRuns
  <2>2. \A t \in Tasks \ {x} : TaskStateOf(t)' = TaskStateOf(t)
    BY <1>2, <2>0 DEF WorkerRuns, CarriesInv, TaskStateOf
  <2>3. closed' = closed /\ force' = force /\ Sealed' = Sealed
    BY <1>2 DEF WorkerRuns
  <2>4. Service!Becomes(x, "taken", "done")
    BY <2>1, <2>2, <2>3, MovesTask, <2>0
  <2>6. QED
    BY <2>4, <2>0 DEF Service!SNext, Service!Complete
<1>3. ASSUME NEW w \in Workers, WorkerLoop(w) \/ WorkerParks(w) \/
            WorkerBlocks(w) \/ WorkerBreaks(w) \/ WorkerPaused(w) \/
            WorkerStarts(w) \/ WorkerFinishes(w) \/ WorkerNotifies(w)
      PROVE  [Service!SNext]_Service!svars
  <2>1. UNCHANGED <<queue, carries, ledger, closed>> /\ Sealed' = Sealed /\ (Sealed => force' = force)
    BY <1>3 DEF WorkerLoop, WorkerParks, WorkerBlocks, WorkerBreaks,
      WorkerPaused, WorkerStarts, WorkerFinishes, WorkerNotifies
  <2>2. QED
    BY <2>1, KeepsAbs DEF Service!svars
<1>4. ASSUME ScalerWakes \/ ScalerGrows
      PROVE  [Service!SNext]_Service!svars
  <2>1. UNCHANGED <<queue, carries, ledger, closed>> /\ Sealed' = Sealed /\ (Sealed => force' = force)
    BY <1>4 DEF ScalerWakes, ScalerGrows
  <2>2. QED
    BY <2>1, KeepsAbs DEF Service!svars
<1>5. ASSUME NEW c \in Callers, NEW x \in fresh, SubmitThrows(c, x) PROVE [Service!SNext]_Service!svars
  <2> x \in Tasks
    OBVIOUS
  <2>1. TaskStateOf(x) = "new" /\ TaskStateOf(x)' = "refused"
    BY <1>5, PlaceOf, PlaceOfPrime DEF SubmitThrows
  <2>2. \A t \in Tasks \ {x} : TaskStateOf(t)' = TaskStateOf(t)
    BY <1>5 DEF SubmitThrows, CarriesInv, TaskStateOf
  <2>3. closed' = closed /\ force' = force /\ Sealed' = Sealed
    BY <1>5 DEF SubmitThrows
  <2>4. Service!Becomes(x, "new", "refused")
    BY <2>1, <2>2, <2>3, MovesTask
  <2>6. QED
    BY <2>4 DEF Service!SNext, Service!Refuse
<1>6. ASSUME NEW c \in Callers, NEW x \in fresh, SubmitEnters(c, x) PROVE [Service!SNext]_Service!svars
  <2> x \in Tasks
    OBVIOUS
  <2>1. TaskStateOf(x) = "new" /\ TaskStateOf(x)' = "entering"
    BY <1>6, PlaceOf, PlaceOfPrime DEF SubmitEnters
  <2>2. \A t \in Tasks \ {x} : TaskStateOf(t)' = TaskStateOf(t)
    BY <1>6 DEF SubmitEnters, CarriesInv, TaskStateOf
  <2>3. closed' = closed /\ force' = force /\ Sealed' = Sealed
    BY <1>6 DEF SubmitEnters
  <2>4. Service!Becomes(x, "new", "entering")
    BY <2>1, <2>2, <2>3, MovesTask
  <2>5. AbsService = "open"
    BY <1>6 DEF SubmitEnters, AbsService, SealInv, ShutdownInv, InShutdown
  <2>6. QED
    BY <2>4, <2>5 DEF Service!SNext, Service!Admit
<1>7. ASSUME NEW c \in Callers, SubmitPushes(c) PROVE [Service!SNext]_Service!svars
  <2>0. PICK x \in Tasks : x = carries[c]
    BY <1>7 DEF SubmitPushes, CarriesInv
  <2>1. TaskStateOf(x) = "entering" /\ TaskStateOf(x)' = "queued"
    BY <1>7, PlaceOf, PlaceOfPrime, <2>0 DEF SubmitPushes
  <2>2. \A t \in Tasks \ {x} : TaskStateOf(t)' = TaskStateOf(t)
    BY <1>7, <2>0 DEF SubmitPushes, CarriesInv, TaskStateOf
  <2>3. closed' = closed /\ force' = force /\ Sealed' = Sealed
    BY <1>7 DEF SubmitPushes
  <2>4. Service!Becomes(x, "entering", "queued")
    BY <2>1, <2>2, <2>3, MovesTask, <2>0
  <2>5. AbsService = "open"
    BY <1>7, <2>0 DEF SubmitPushes, AbsService, SealInv, ShutdownInv, InShutdown
  <2>6. QED
    BY <2>4, <2>5, <2>0 DEF Service!SNext, Service!Enqueue
<1>8. ASSUME NEW c \in Callers, WaitReturns(c) PROVE [Service!SNext]_Service!svars
  <2>1. CASE pc[c] = "waiting"
    <3>1. UNCHANGED <<queue, carries, ledger, closed>> /\ Sealed' = Sealed /\ (Sealed => force' = force)
      BY <1>8, <2>1 DEF WaitReturns
    <3>2. QED
      BY <3>1, KeepsAbs DEF Service!svars
  <2>2. CASE pc[c] = "draining"
    <3>1. AbsService = "open" /\ AbsService' = "drained"
      BY <1>8, <2>2 DEF WaitReturns, AbsService, ShutdownInv, InShutdown, Draining
    <3>2. \A t \in Tasks : TaskStateOf(t)' = TaskStateOf(t)
      BY <1>8 DEF WaitReturns, TaskStateOf
    <3>3. queue = {} /\ \A d \in Callers : carries[d] = NoTask
      BY <1>8 DEF WaitReturns, AllIdle, CarriesInv, MutexInv, Locking
    <3>4. \A t \in Tasks : TaskStateOf(t) \notin {"entering", "queued"}
      BY <3>3, PlaceOf
    <3>5. Service!Drain
      BY <3>1, <3>2, <3>4 DEF Service!Drain, AbsState
    <3>6. QED
      BY <3>5 DEF Service!SNext
  <2>3. QED
    BY <1>8, <2>1, <2>2 DEF WaitReturns
<1>9. ASSUME NEW c \in Callers, CallsForceShutdown(c) PROVE [Service!SNext]_Service!svars
  <2>1. UNCHANGED <<queue, carries, ledger, closed>> /\ Sealed' = Sealed /\ (Sealed => force' = force)
    BY <1>9 DEF CallsForceShutdown, ShutdownInv, InShutdown
  <2>2. QED
    BY <2>1, KeepsAbs DEF Service!svars
<1>10. ASSUME NEW c \in Callers, ForceClears(c) PROVE [Service!SNext]_Service!svars
  <2>1. AbsService = "open" /\ AbsService' = "cancelled"
    BY <1>10 DEF ForceClears, AbsService, ShutdownInv, InShutdown
  <2>2. \A d \in Callers : carries[d] = NoTask
    BY <1>10 DEF ForceClears, CarriesInv, MutexInv, Locking
  <2>3. \A t \in Tasks : TaskStateOf(t) # "entering"
    BY <2>2, PlaceOf
  <2>4. \A t \in queue : TaskStateOf(t) = "queued" /\ TaskStateOf(t)' = "cancelled"
    BY <1>10, PlaceOf, PlaceOfPrime DEF ForceClears
  <2>5. \A t \in Tasks \ queue : TaskStateOf(t) # "queued" /\ TaskStateOf(t)' = TaskStateOf(t)
    BY <1>10, PlaceOf DEF ForceClears, TaskStateOf
  <2>6. Service!Cancel
    BY <2>1, <2>3, <2>4, <2>5 DEF Service!Cancel, AbsState
  <2>7. QED
    BY <2>6 DEF Service!SNext
<1>11. ASSUME NEW c \in Callers, JoinsWorkers(c) PROVE [Service!SNext]_Service!svars
  <2>1. AbsService \in {"drained", "cancelled"} /\ AbsService' = "closed"
    BY <1>11 DEF JoinsWorkers, AbsService, ShutdownInv, InShutdown
  <2>2. \A t \in Tasks : TaskStateOf(t)' = TaskStateOf(t)
    BY <1>11 DEF JoinsWorkers, TaskStateOf
  <2>3. \A w \in Workers : carries[w] = NoTask
    BY <1>11 DEF JoinsWorkers, CarriesInv, PoolInv, ShutdownInv, InShutdown
  <2>4. \A t \in Tasks : TaskStateOf(t) # "taken"
    BY <2>3, PlaceOf
  <2>5. Service!Close
    BY <2>1, <2>2, <2>4 DEF Service!Close, AbsState
  <2>6. QED
    BY <2>5 DEF Service!SNext
<1>12. ASSUME NEW c \in Callers, SubmitSignals(c) \/ CallsWaitForAll(c) \/
            WaitParks(c) \/ WaitBlocks(c) \/ CallsShutdown(c) \/
            StopNotifies(c) \/ JoinsScaler(c) \/ Pauses(c) \/ Resumes(c)
            \/ ResumeNotifies(c) \/ UpdatesConfig(c)
      PROVE  [Service!SNext]_Service!svars
  <2>1. UNCHANGED <<queue, carries, ledger, closed>> /\ Sealed' = Sealed /\ (Sealed => force' = force)
    BY <1>12 DEF SubmitSignals, CallsWaitForAll, WaitParks, WaitBlocks,
      CallsShutdown, StopNotifies, JoinsScaler, Pauses, Resumes,
      ResumeNotifies, UpdatesConfig
  <2>2. QED
    BY <2>1, KeepsAbs DEF Service!svars
<1>13. ASSUME NEW t \in Workers \cup Callers, SpuriousWakeup(t)
      PROVE  [Service!SNext]_Service!svars
  <2>1. UNCHANGED <<queue, carries, ledger, closed>> /\ Sealed' = Sealed /\ (Sealed => force' = force)
    BY <1>13 DEF SpuriousWakeup
  <2>2. QED
    BY <2>1, KeepsAbs DEF Service!svars
<1>14. CASE UNCHANGED vars
  <2>1. UNCHANGED <<queue, carries, ledger, closed>> /\ Sealed' = Sealed /\ (Sealed => force' = force)
    BY <1>14
  <2>2. QED
    BY <2>1, KeepsAbs DEF Service!svars
<1>15. QED
  BY <1>1, <1>2, <1>3, <1>4, <1>5, <1>6, <1>7, <1>8, <1>9, <1>10, <1>11,
     <1>12, <1>13, <1>14 DEF Next, Worker, Caller

\* The pool implements the abstract service: whatever the interleaving, what a
\* user sees of the tasks and of the two shutdowns is a behaviour of TaskService.
THEOREM Refinement == Spec => ImplementsTaskService
<1>1. Init => Service!SInit
  <2> SUFFICES ASSUME Init PROVE Service!SInit
    OBVIOUS
  <2>1. \A t \in Tasks : TaskStateOf(t) = "new"
    BY DEF Init, TaskStateOf
  <2>2. AbsService = "open"
    BY ThreadsAssumption DEF Init, AbsService, Sealed, Stopping
  <2>3. QED
    BY <2>1, <2>2 DEF Service!SInit, AbsState
<1>2. IInv /\ IInv' /\ [Next]_vars => [Service!SNext]_Service!svars
  BY RefinementStep
<1>3. QED
  BY <1>1, <1>2, IInvAlways, PTL DEF Spec, ImplementsTaskService, Service!SSpec

=============================================================================
