---------------------------- MODULE CacheCleaner -----------------------------
(***************************************************************************)
(* The background cleanup of BBP::CacheSystem: enableAutoCleanup starts    *)
(* and stops a thread that sleeps, looks at a flag and cleans up.  Unlike  *)
(* the cache itself it takes no mutex: the flags are atomics, the handle   *)
(* of the thread is a plain unique_ptr.                                    *)
(***************************************************************************)
EXTENDS FiniteSets, Naturals

CONSTANTS
  Callers,   \* threads that call enableAutoCleanup
  Cleaners,  \* the threads there are for the cleanup, used again once joined
  NoThread       \* no thread

VARIABLES
  cleaning,  \* cleanup_enabled_
  stop,      \* should_stop_cleanup_
  handle,    \* cleanup_thread_, or NoThread
  cleaner,   \* what each cleanup thread is doing
  pc,        \* where each caller is
  joins,     \* the thread each caller is joining, or NoThread
  aborted,   \* a running thread was destroyed or a thread joined twice
  overlapped \* observer: two calls have overlapped

cleanerVars == <<cleaning, stop, handle, cleaner, pc, joins, aborted, overlapped>>

Alive == {w \in Cleaners : cleaner[w] \in {"awake", "sleep", "clean"}}
At(c, label) == ~aborted /\ pc[c] = label
Goes(c, label) == pc' = [pc EXCEPT ![c] = label]

\* A call begins when its first test has passed.
Begins(c, label) ==
  /\ At(c, "idle")
  /\ Goes(c, label)
  /\ overlapped' = (overlapped \/ \E d \in Callers : pc[d] # "idle")
  /\ UNCHANGED <<cleaning, stop, handle, cleaner, joins, aborted>>

-----------------------------------------------------------------------------
(* enableAutoCleanup(true) and startCleanupThread.                         *)

EnableTests(c) == ~cleaning /\ Begins(c, "enabling")

EnableSets(c) ==
  /\ At(c, "enabling")
  /\ cleaning' = TRUE
  /\ Goes(c, "starting")
  /\ UNCHANGED <<stop, handle, cleaner, joins, aborted, overlapped>>

\* Fault: the stop flag set for the thread before is left set.
LeavesStopSet(c) ==
  /\ At(c, "starting")
  /\ Goes(c, "spawning")
  /\ UNCHANGED <<cleaning, stop, handle, cleaner, joins, aborted, overlapped>>

ClearsStop(c) ==
  /\ At(c, "starting")
  /\ stop' = FALSE
  /\ Goes(c, "spawning")
  /\ UNCHANGED <<cleaning, handle, cleaner, joins, aborted, overlapped>>

\* The assignment destroys the thread object there was: std::terminate, for
\* it has not been joined.
Spawns(c) ==
  /\ At(c, "spawning")
  /\ \E w \in Cleaners \ Alive :
       /\ cleaner[w] = "none"
       /\ cleaner' = [cleaner EXCEPT ![w] = "awake"]
       /\ handle' = w
  /\ aborted' = (handle # NoThread)
  /\ Goes(c, "idle")
  /\ UNCHANGED <<cleaning, stop, joins, overlapped>>

-----------------------------------------------------------------------------
(* enableAutoCleanup(false) and stopCleanupThread.                         *)

DisableTests(c) == cleaning /\ Begins(c, "disabling")

DisableSets(c) ==
  /\ At(c, "disabling")
  /\ cleaning' = FALSE
  /\ Goes(c, "stopping")
  /\ UNCHANGED <<stop, handle, cleaner, joins, aborted, overlapped>>

\* Nothing to stop when there is no thread.
SetsStop(c) ==
  /\ At(c, "stopping")
  /\ stop' = (stop \/ handle # NoThread)
  /\ joins' = [joins EXCEPT ![c] = handle]
  /\ Goes(c, IF handle = NoThread THEN "idle" ELSE "joining")
  /\ UNCHANGED <<cleaning, handle, cleaner, aborted, overlapped>>

\* join, then reset of the handle; another caller that joined the same
\* thread, or replaced it, makes either of them undefined.
Joins(c) ==
  /\ At(c, "joining")
  /\ cleaner[joins[c]] \in {"ended", "none"}
  /\ joins' = [joins EXCEPT ![c] = NoThread]
  /\ cleaner' = [cleaner EXCEPT ![joins[c]] = IF @ = "ended" THEN "none" ELSE @]
  /\ aborted' = (handle # joins[c])
  /\ handle' = NoThread
  /\ Goes(c, "idle")
  /\ UNCHANGED <<cleaning, stop, overlapped>>

-----------------------------------------------------------------------------
(* cleanupLoop.                                                            *)

Moves(w, from, to) ==
  /\ ~aborted /\ cleaner[w] = from
  /\ cleaner' = [cleaner EXCEPT ![w] = to]
  /\ UNCHANGED <<cleaning, stop, handle, pc, joins, aborted, overlapped>>

\* Fault: only the cleanup, not the loop, depends on the flag.
LoopsForEver(w) == Moves(w, "awake", "sleep")

\* The flag is looked at before the sleep and after it.
LoopTests(w) == Moves(w, "awake", IF stop THEN "ended" ELSE "sleep")
SleepEnds(w) == Moves(w, "sleep", IF stop THEN "awake" ELSE "clean")
CleansUp(w) == Moves(w, "clean", "awake")

CleanerWorks(w) == LoopTests(w) \/ SleepEnds(w) \/ CleansUp(w)

-----------------------------------------------------------------------------
CleanerInit ==
  /\ cleaning = FALSE /\ stop = FALSE
  /\ handle = NoThread
  /\ cleaner = [w \in Cleaners |-> "none"]
  /\ pc = [c \in Callers |-> "idle"]
  /\ joins = [c \in Callers |-> NoThread]
  /\ aborted = FALSE /\ overlapped = FALSE

Continues(c) ==
  \/ EnableSets(c) \/ ClearsStop(c) \/ Spawns(c)
  \/ DisableSets(c) \/ SetsStop(c) \/ Joins(c)

CleanerNext ==
  \/ \E c \in Callers : EnableTests(c) \/ DisableTests(c) \/ Continues(c)
  \/ \E w \in Cleaners : CleanerWorks(w)

CleanerSpec == CleanerInit /\ [][CleanerNext]_cleanerVars

\* Threads are scheduled; sleeps and cleanups end.
CleanerFairness ==
  /\ \A c \in Callers : WF_cleanerVars(Continues(c))
  /\ \A w \in Cleaners : WF_cleanerVars(CleanerWorks(w))

CleanerFairSpec == CleanerSpec /\ CleanerFairness

-----------------------------------------------------------------------------
(* Properties.                                                             *)

\* Every variable has its type; a caller joins when it has a thread to join.
CleanerTypeOK ==
  /\ cleaning \in BOOLEAN /\ stop \in BOOLEAN
  /\ aborted \in BOOLEAN /\ overlapped \in BOOLEAN
  /\ handle \in Cleaners \cup {NoThread}
  /\ cleaner \in [Cleaners -> {"none", "awake", "sleep", "clean", "ended"}]
  /\ pc \in [Callers -> {"idle", "enabling", "starting", "spawning",
                         "disabling", "stopping", "joining"}]
  /\ joins \in [Callers -> Cleaners \cup {NoThread}]
  /\ \A c \in Callers : joins[c] # NoThread <=> pc[c] = "joining"

\* The types are kept, and calls that follow one another, from whichever
\* threads, keep the thread and the flags together: between two calls a
\* cleanup thread runs, and has not been told to stop, exactly when cleanup is
\* enabled.
SerialCallsSafe ==
  /\ CleanerTypeOK
  /\ aborted => overlapped
  /\ ~overlapped /\ (\A c \in Callers : pc[c] = "idle") =>
       IF cleaning THEN Alive = {handle} /\ ~stop ELSE Alive = {} /\ handle = NoThread

\* The thread does as it was told, unless calls overlap: a call that stops the
\* cleanup returns, even if the thread has only just gone to sleep, and while
\* cleanup stays enabled the cache is cleaned up again and again.
CleanerObeys ==
  /\ \A c \in Callers : pc[c] = "disabling" ~> pc[c] = "idle" \/ overlapped
  /\ (cleaning /\ ~overlapped)
       ~> (~cleaning \/ overlapped \/ \E w \in Cleaners : cleaner[w] = "clean")

(***************************************************************************)
(* A promise of the documentation that the code does not keep.             *)
(***************************************************************************)

\* "Thread-safe HTTP cache": callers need not take turns.
CallersNeedNoTurns == ~aborted
=============================================================================
