---------------------------- MODULE PlacesInOrder ----------------------------
(***************************************************************************)
(* The places of a sequence at which something holds, as a loop over the   *)
(* sequence comes to them.                                                 *)
(***************************************************************************)
EXTENDS Integers, Sequences

\* The members of a set of numbers up to n, in their order.
Places(set, n) ==
  LET upto[k \in Nat] ==
        IF k = 0 THEN <<>> ELSE IF k \in set THEN Append(upto[k - 1], k) ELSE upto[k - 1]
  IN  upto[n]
=============================================================================
