---------------------------- MODULE MCThreadPool ----------------------------
(* Instances of ThreadPool for TLC.                                        *)
EXTENDS ThreadPool, TLC

CONSTANTS t1

\* One task is more urgent than the others.
OneUrgent == [t \in Tasks |-> IF t = t1 THEN 3 ELSE 1]

\* The other tasks are alike, and so are the callers; the first worker is not
\* like the second.
Alike == Permutations(Callers) \cup Permutations(Tasks \ {t1})

Everything == Operations
NoWaiting == {"submit", "forceShutdown", "pause"}
SubmitAndWait == {"submit", "waitForAll"}
SubmitAndShutdown == {"submit", "shutdown"}
=============================================================================
