----------------------------- MODULE MCBackground -----------------------------
(***************************************************************************)
(* Instances for TLC of the two components that work in a thread of their  *)
(* own: the signal handler, on the way to the end of the process, and the  *)
(* cleanup of the cache.  They share no state, so a behaviour is one of    *)
(* one of them, chosen at the beginning.                                   *)
(***************************************************************************)
EXTENDS SignalHandler, CacheCleaner

VARIABLE part

-----------------------------------------------------------------------------

Begin == part \in {"signals", "cleaner"} /\ SignalInit /\ CleanerInit

Step ==
  \/ part = "signals" /\ SignalNext /\ UNCHANGED <<part, cleanerVars>>
  \/ part = "cleaner" /\ CleanerNext /\ UNCHANGED <<part, signalVars>>

all == <<part, signalVars, cleanerVars>>

\* The fairness of the two modules, for the part that runs.
Signals(A) == part = "signals" /\ A /\ UNCHANGED <<part, cleanerVars>>
Cleaning(A) == part = "cleaner" /\ A /\ UNCHANGED <<part, signalVars>>

FairBackground ==
  /\ Begin /\ [][Step]_all
  /\ \A t \in Threads : WF_all(Signals(Leaves(t)))
  /\ \A t \in Interruptible : SF_all(Signals(HandlerSpawns(t)))
  /\ SF_all(Signals(ShutdownThread))
  /\ \A c \in Callers : WF_all(Cleaning(Continues(c)))
  /\ \A w \in Cleaners : WF_all(Cleaning(CleanerWorks(w)))

\* What the threads are asked for gets done: the shutdown of a signal (see
\* SignalHandler), a cleanup and its end (see CacheCleaner).
BothGetOn == SignalledShutdownCompletes /\ CleanerObeys
=============================================================================
