---------------------------- MODULE Reservations ----------------------------
(***************************************************************************)
(* What a set of live BudgetReservations amounts to.  The ResourceBudget   *)
(* class (packages/session-broker-core/src/budgets.ts) keeps one number,   *)
(* `reserved', per budget; the modules that use it keep that number as a   *)
(* variable and say with Reserved what it should be.                       *)
(***************************************************************************)
EXTENDS Integers, Sequences, FiniteSets

(* The reserved units: f[x] of them for every member x of S.               *)
Units(f, S) == UNION {{x} \X (1..f[x]) : x \in S}

(* The total amount of the reservations f holds for the members of S.      *)
Reserved(f, S) == Cardinality(Units(f, S))

(* The total amount of a sequence whose member x stands for c[x] units.    *)
Weights(c, q) == [i \in 1..Len(q) |-> c[q[i]]]
Weight(c, q) == Reserved(Weights(c, q), 1..Len(q))
=============================================================================
