----------------------------- MODULE TaskService -----------------------------
(***************************************************************************)
(* What a user of the thread pool is promised, without threads, locks or   *)
(* notifications: a task that is accepted is run once, or cancelled by a   *)
(* forced stop; nothing is accepted once the service is stopping; and when  *)
(* the stop is over nothing is queued or running.                          *)
(***************************************************************************)
CONSTANT Tasks

VARIABLES
  state,    \* the state of each task
  service   \* "open", stopping ("drained" or "cancelled"), or "closed"

svars == <<state, service>>

TaskState == {"new", "entering", "refused", "queued", "taken", "done", "cancelled"}

STypeOK ==
  /\ state \in [Tasks -> TaskState]
  /\ service \in {"open", "drained", "cancelled", "closed"}

SInit ==
  /\ state = [t \in Tasks |-> "new"]
  /\ service = "open"

Becomes(t, from, to) ==
  /\ state[t] = from
  /\ state' = [state EXCEPT ![t] = to]
  /\ UNCHANGED service

\* The service may turn a task away at any time (full, or stopping).
Refuse(t) == Becomes(t, "new", "refused")

Admit(t) == service = "open" /\ Becomes(t, "new", "entering")

Enqueue(t) == service = "open" /\ Becomes(t, "entering", "queued")

Take(t) == service = "open" /\ Becomes(t, "queued", "taken")

Complete(t) == Becomes(t, "taken", "done")

\* A graceful stop begins to stop threads only when nothing is queued any more.
Drain ==
  /\ service = "open"
  /\ \A t \in Tasks : state[t] \notin {"entering", "queued"}
  /\ service' = "drained"
  /\ UNCHANGED state

\* A forced stop cancels what is queued, all of it and at once.
Cancel ==
  /\ service = "open"
  /\ \A t \in Tasks : state[t] # "entering"
  /\ service' = "cancelled"
  /\ state' = [t \in Tasks |-> IF state[t] = "queued" THEN "cancelled" ELSE state[t]]

\* The stop is over only when the tasks that were taken are done.
Close ==
  /\ service \in {"drained", "cancelled"}
  /\ \A t \in Tasks : state[t] # "taken"
  /\ service' = "closed"
  /\ UNCHANGED state

SNext ==
  \/ \E t \in Tasks : \/ Refuse(t) \/ Admit(t) \/ Enqueue(t) \/ Take(t) \/ Complete(t)
  \/ Drain
  \/ Cancel
  \/ Close

SSpec == SInit /\ [][SNext]_svars
=============================================================================
