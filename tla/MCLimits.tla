------------------------------- MODULE MCLimits -------------------------------
(***************************************************************************)
(* Instances for TLC of the two components that keep the program within    *)
(* limits: the memory manager and the rate limiter.  They share no state,  *)
(* so a behaviour is one of one of them, chosen at the beginning; the      *)
(* variables of the other keep an initial value.                           *)
(***************************************************************************)
EXTENDS RateLimiter, MemoryManager

CONSTANTS d1, d2

VARIABLE part

-----------------------------------------------------------------------------
(* The limiter: two parts a millisecond and five parts a token, so that a  *)
(* wait for one token is not a whole number of milliseconds.               *)

Rates == [k \in {d1, d2, Global} |-> IF k = Global THEN 3 ELSE 2]
Bursts == [d \in {d1, d2} |-> IF d = d1 THEN 5 ELSE 0]

Short == [initial |-> 1, max |-> 4, multiplier |-> 2]
Long == [initial |-> 2, max |-> 3, multiplier |-> 3]
Delays == {Short, Long}

-----------------------------------------------------------------------------
(* The memory: pools of 13 bytes, merged again or not.                     *)

Merging == [initial_pool_size |-> 13, max_pool_size |-> 39, growth_factor |-> 2,
            enable_defragmentation |-> TRUE]
Splitting == [Merging EXCEPT !.enable_defragmentation = FALSE]

MergingOrNot == {Merging, Splitting}

-----------------------------------------------------------------------------

Begin ==
  /\ part \in {"memory", "limiter"}
  /\ Init /\ MemoryInit
  /\ part = "memory" => watched = d1
  /\ part = "limiter" => watched # d2 /\ settings = Merging /\ limit = 9

Step ==
  \/ part = "memory" /\ MemoryNext /\ UNCHANGED <<part, vars>>
  \/ part = "limiter" /\ Next /\ UNCHANGED <<part, memoryVars>>

Within == Begin /\ [][Step]_<<part, vars, memoryVars>>
=============================================================================
