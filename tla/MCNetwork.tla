------------------------------ MODULE MCNetwork ------------------------------
(***************************************************************************)
(* Instances for TLC of what is around an HTTP request: the cache that is  *)
(* asked first, and the recovery that makes the request again.             *)
(* They share no state, so a behaviour is one of one of them, chosen at    *)
(* the beginning; the variables of the other keep an initial value.        *)
(***************************************************************************)
EXTENDS CacheSystem, ErrorRecovery, TLC

CONSTANTS timeout, maintenance, network, temporary

VARIABLE part

-----------------------------------------------------------------------------
(* The cache: two urls, and room for one of them.                          *)

Limits == {[max_entries |-> 1, swr |-> TRUE], [max_entries |-> 2, swr |-> FALSE]}

-----------------------------------------------------------------------------
(* The recovery: the built-in classifier knows timeouts; the added one     *)
(* also maintenance, and has another opinion of timeouts.                  *)

BuiltIn == (timeout :> network) @@ (maintenance :> CUSTOM)
Own == (timeout :> temporary) @@ (maintenance :> temporary)

Twice == [max_attempts |-> 2, initial_delay |-> 1, backoff_multiplier |-> 2, max_delay |-> 2,
          jitter_range |-> 0, recoverable_errors |-> {network, temporary}]
Never == [max_attempts |-> 0, initial_delay |-> 1, backoff_multiplier |-> 2, max_delay |-> 2,
          jitter_range |-> 0, recoverable_errors |-> {network}]

Retries == {Twice, Never}

Symmetric == Permutations(Urls) \cup Permutations(Clients)

-----------------------------------------------------------------------------

Begin ==
  /\ part \in {"recovery", "cache"}
  /\ Init /\ RecoveryInit
  /\ part = "cache" => default_config = Twice /\ threshold = 1
  /\ part = "recovery" => config.swr

Step ==
  \/ part = "recovery" /\ RecoveryNext /\ UNCHANGED <<part, vars>>
  \/ part = "cache" /\ Next /\ UNCHANGED <<part, recoveryVars>>

Network == Begin /\ [][Step]_<<part, vars, recoveryVars>>
=============================================================================
