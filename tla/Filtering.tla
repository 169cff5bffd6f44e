------------------------------ MODULE Filtering ------------------------------
(* The part of a sequence that belongs to a set, in order: Array.prototype  *)
(* .filter.  A recursive function, so that proofs can reason about it.      *)
EXTENDS Integers, Sequences

Filtered(q, S) ==
    LET kept[i \in 0..Len(q)] ==
          IF i = 0 THEN <<>>
          ELSE IF q[i] \in S THEN Append(kept[i - 1], q[i]) ELSE kept[i - 1]
    IN  kept[Len(q)]
==============================================================================
