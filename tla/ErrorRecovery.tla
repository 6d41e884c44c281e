---------------------------- MODULE ErrorRecovery ----------------------------
(***************************************************************************)
(* BBP::ErrorRecoveryManager: operations are called again after failures   *)
(* of a recoverable class, with growing delays, and a circuit breaker for  *)
(* the whole process stops new operations after too many have failed.      *)
(*                                                                         *)
(* The breaker is three atomics, read and written one at a time; the       *)
(* statistics are updated under a mutex.  An operation refused by an open  *)
(* breaker changes nothing and is left out.                                *)
(***************************************************************************)
EXTENDS Integers, FiniteSets

CONSTANTS
  Callers,
  Errors,        \* what the exceptions of the operations say
  Default,       \* the class the built-in classifier gives each error
  Added,         \* the class an added classifier gives it
  CUSTOM,        \* the class that means: not classified
  RetryConfigs,  \* retry configurations in use
  Thresholds,    \* circuit breaker thresholds in use
  MaxOperations  \* bound: operations between two resets of the statistics

Config == [max_attempts : Nat, initial_delay : Nat, backoff_multiplier : Nat \ {0},
           max_delay : Nat, jitter_range : Nat,
           recoverable_errors : SUBSET ({Default[e] : e \in Errors} \cup
                                        {Added[e] : e \in Errors} \cup {CUSTOM})]

\* What is assumed of the constants.
ASSUME RecoveryAssumption ==
  /\ RetryConfigs \subseteq Config
  /\ Thresholds \subseteq Nat
  /\ MaxOperations \in Nat

VARIABLES
  default_config, \* default_config_
  classifiers,    \* a classifier was added to error_classifiers_
  threshold,      \* circuit_breaker_threshold_
  failures,       \* consecutive_failures_
  open,           \* circuit_breaker_open_
  resetting,      \* resetCircuitBreaker has closed the breaker, not yet counted from 0
  statistics,     \* the counters of statistics_
  op,             \* the operation of each caller
  begun           \* observer: operations begun since the statistics were reset

breaker == <<threshold, failures, open, resetting>>
recoveryVars ==
  <<default_config, classifiers, threshold, failures, open, resetting, statistics, op, begun>>

\* An operation: where it is, the configuration it was given, which is a
\* reference to the default one or a copy (live), the context's copy of it,
\* current_attempt_, the delay it sleeps.
NoOperation(f) ==
  [at |-> "idle", live |-> FALSE, config |-> f, current_attempt |-> 0, delay |-> 0]

At(c, label) == op[c].at = label
Goes(c, label) == op' = [op EXCEPT ![c].at = label]

-----------------------------------------------------------------------------
(* RetryContext.                                                           *)

Lower(a, b) == IF a <= b THEN a ELSE b

BaseDelay(f, n) ==
  Lower(f.initial_delay * f.backoff_multiplier ^ (n - 1), f.max_delay)

\* getNextDelay: the jitter is applied after the cap.
NextDelays(f, n) ==
  {d \in 0 .. f.max_delay + f.jitter_range :
     BaseDelay(f, n) - f.jitter_range <= d /\ d <= BaseDelay(f, n) + f.jitter_range}

CanRetry(f, n) == n < f.max_attempts

\* classifyError: the first classifier that says anything; the built-in one
\* was put in the list first.
Classified(e) ==
  IF Default[e] # CUSTOM \/ ~classifiers THEN Default[e] ELSE Added[e]

Recoverable(c) ==
  IF op[c].live THEN default_config.recoverable_errors ELSE op[c].config.recoverable_errors

-----------------------------------------------------------------------------
(* executeWithRetryInternal.                                               *)

\* With the default configuration (live) or with one of the caller's.
Begins(c, live, f) ==
  /\ At(c, "idle") /\ ~open
  /\ live => f = default_config
  /\ begun < MaxOperations
  /\ op' = [op EXCEPT ![c] = [NoOperation(f) EXCEPT !.at = "call", !.live = live]]
  /\ begun' = begun + 1
  /\ UNCHANGED <<default_config, classifiers, breaker, statistics>>

Called(c, label, attempt, delay) ==
  /\ At(c, "call")
  /\ op' = [op EXCEPT ![c].at = label, ![c].current_attempt = attempt, ![c].delay = delay]
  /\ UNCHANGED <<default_config, classifiers, breaker, statistics, begun>>

Succeeds(c) == Called(c, "succeeded", op[c].current_attempt, 0)

\* A NonRecoverableError, whatever the configuration, or an error of a class
\* that is not to be retried.
FailsForGood(c) == Called(c, "refused", op[c].current_attempt, 0)

Fails(c) ==
  LET n == op[c].current_attempt + 1 IN
  \E e \in Errors :
    /\ Classified(e) \in Recoverable(c)
    /\ IF CanRetry(op[c].config, n)
       THEN \E d \in NextDelays(op[c].config, n) : Called(c, "sleep", n, d)
       ELSE Called(c, "exhausted", n, 0)

SleepEnds(c) ==
  /\ At(c, "sleep")
  /\ Goes(c, "call")
  /\ UNCHANGED <<default_config, classifiers, breaker, statistics, begun>>

\* Fault: the handler of NonRecoverableError sees the one the other throws.
Recorded(c) ==
  [total |-> statistics.total + (IF At(c, "refused") THEN 2 ELSE 1),
   successful |-> statistics.successful + (IF At(c, "succeeded") THEN 1 ELSE 0),
   retries |-> statistics.retries + op[c].current_attempt]

\* updateStatistics.
Updated(c) ==
  [total |-> statistics.total + 1,
   successful |-> statistics.successful + (IF At(c, "succeeded") THEN 1 ELSE 0),
   retries |-> statistics.retries + op[c].current_attempt]

UpdateStatistics(c) ==
  /\ op[c].at \in {"succeeded", "refused", "exhausted"}
  /\ statistics' = Updated(c)
  /\ Goes(c, CASE At(c, "succeeded") -> "clearing"
               [] At(c, "exhausted") -> "counting"
               [] OTHER -> "idle")
  /\ UNCHANGED <<default_config, classifiers, breaker, begun>>

ClearsFailures(c) ==
  /\ At(c, "clearing")
  /\ failures' = 0
  /\ Goes(c, "idle")
  /\ UNCHANGED <<default_config, classifiers, threshold, open, resetting, statistics, begun>>

CountsFailure(c) ==
  /\ At(c, "counting")
  /\ failures' = failures + 1
  /\ Goes(c, "testing")
  /\ UNCHANGED <<default_config, classifiers, threshold, open, resetting, statistics, begun>>

\* Fault: one failure too many is allowed.
TestsLate(c) ==
  /\ At(c, "testing")
  /\ open' = (open \/ failures > threshold)
  /\ Goes(c, "idle")
  /\ UNCHANGED <<default_config, classifiers, threshold, failures, resetting, statistics, begun>>

\* The counter is read again: it may have changed since it was increased.
TestsBreaker(c) ==
  /\ At(c, "testing")
  /\ open' = (open \/ failures >= threshold)
  /\ Goes(c, "idle")
  /\ UNCHANGED <<default_config, classifiers, threshold, failures, resetting, statistics, begun>>

Continues(c) ==
  \/ SleepEnds(c) \/ UpdateStatistics(c)
  \/ ClearsFailures(c) \/ CountsFailure(c) \/ TestsBreaker(c)

FuncEnds(c) == Succeeds(c) \/ FailsForGood(c) \/ Fails(c)

-----------------------------------------------------------------------------
(* The other operations.                                                   *)

SetDefaultConfig(f) ==
  /\ default_config' = f
  /\ UNCHANGED <<classifiers, breaker, statistics, op, begun>>

AddErrorClassifier ==
  /\ classifiers' = TRUE
  /\ UNCHANGED <<default_config, breaker, statistics, op, begun>>

SetCircuitBreakerThreshold(n) ==
  /\ threshold' = n
  /\ UNCHANGED <<default_config, classifiers, failures, open, resetting, statistics, op, begun>>

\* resetCircuitBreaker: the flag, then the counter.
ResetCloses ==
  /\ open /\ ~resetting
  /\ open' = FALSE /\ resetting' = TRUE
  /\ UNCHANGED <<default_config, classifiers, threshold, failures, statistics, op, begun>>

ResetCounts ==
  /\ resetting
  /\ failures' = 0 /\ resetting' = FALSE
  /\ UNCHANGED <<default_config, classifiers, threshold, open, statistics, op, begun>>

Unrecorded ==
  {c \in Callers : op[c].at \in {"call", "sleep", "succeeded", "refused", "exhausted"}}

ResetStatistics ==
  /\ statistics' = [total |-> 0, successful |-> 0, retries |-> 0]
  /\ begun' = Cardinality(Unrecorded)
  /\ UNCHANGED <<default_config, classifiers, breaker, op>>

-----------------------------------------------------------------------------
RecoveryInit ==
  /\ default_config \in RetryConfigs
  /\ classifiers = FALSE
  /\ threshold \in Thresholds
  /\ failures = 0 /\ open = FALSE /\ resetting = FALSE
  /\ statistics = [total |-> 0, successful |-> 0, retries |-> 0]
  /\ op = [c \in Callers |-> NoOperation(default_config)]
  /\ begun = 0

RecoveryNext ==
  \/ \E c \in Callers :
       \/ \E live \in BOOLEAN, f \in RetryConfigs : Begins(c, live, f)
       \/ FuncEnds(c) \/ Continues(c)
  \/ \E f \in RetryConfigs : SetDefaultConfig(f)
  \/ AddErrorClassifier
  \/ \E n \in Thresholds : SetCircuitBreakerThreshold(n)
  \/ ResetCloses \/ ResetCounts \/ ResetStatistics

RecoverySpec == RecoveryInit /\ [][RecoveryNext]_recoveryVars

-----------------------------------------------------------------------------
(* Properties.                                                             *)

Labels == {"idle", "call", "sleep", "succeeded", "refused", "exhausted",
           "clearing", "counting", "testing"}

\* Every variable has its type.
RecoveryTypeOK ==
  /\ default_config \in RetryConfigs
  /\ classifiers \in BOOLEAN /\ open \in BOOLEAN /\ resetting \in BOOLEAN
  /\ threshold \in Thresholds /\ failures \in Nat
  /\ begun \in 0 .. MaxOperations
  /\ statistics \in [total : Nat, successful : Nat, retries : Nat]
  /\ op \in [Callers -> [at : Labels, live : BOOLEAN, config : RetryConfigs,
                         current_attempt : Nat, delay : Nat]]

\* The types are kept, and every operation is recorded once, as it ends, on
\* whichever of the four paths, also if the statistics are reset while it runs.
OperationsRecordedOnce ==
  /\ RecoveryTypeOK
  /\ statistics.total + Cardinality(Unrecorded) = begun
  /\ statistics.successful <= statistics.total

\* Between the calls of resetCircuitBreaker the breaker is open once the
\* counter has reached the threshold, whichever of those in use it is, and
\* whoever counted has tested it.
TripsAtThreshold ==
  (\A n \in Thresholds : failures >= n) /\ ~resetting /\ (\A c \in Callers : ~At(c, "testing"))
    => open

\* However operations end, beside whatever resets: each is in the books once,
\* and those that exhausted their attempts have the breaker tested.
EndsAccounted == OperationsRecordedOnce /\ TripsAtThreshold

(***************************************************************************)
(* Promises of the documentation that the code does not keep.              *)
(***************************************************************************)

\* "Opens after 10 consecutive failures": an operation that has failed is
\* counted, whatever it failed of.
FailuresCounted ==
  [][\A c \in Callers :
       op[c].at \in {"refused", "exhausted"} /\ op'[c].at # op[c].at
         => op'[c].at = "counting"]_recoveryVars

\* "Try custom classifiers first".
AddedClassifiersFirst ==
  classifiers => \A e \in Errors : Added[e] # CUSTOM => Classified(e) = Added[e]

\* "Maximum delay between retries".
DelaysCapped == \A c \in Callers : op[c].delay <= op[c].config.max_delay

\* "Total number of retries performed": an operation whose attempts are
\* exhausted has called its function current_attempt times, and records as
\* many retries as it made calls after the first.
RetriesAreCalls ==
  [][\A c \in Callers :
       At(c, "exhausted") /\ op'[c].at # op[c].at
         => statistics'.retries - statistics.retries = op[c].current_attempt - 1]_recoveryVars
=============================================================================
