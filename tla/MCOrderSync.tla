----------------------------- MODULE MCOrderSync -----------------------------
(* An order of two items under two overlapping saves, its pushes retried.  *)
EXTENDS OrderSync, TLC

MCItems == {1, 2}
MCCarts == {[state |-> "OPEN", final |-> TRUE, lines |-> [i \in MCItems |-> 1]],
            [state |-> "OPEN", final |-> FALSE, lines |-> [i \in MCItems |-> 2 - i]]}
Symmetry == Permutations(Calls)
=============================================================================
