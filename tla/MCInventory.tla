---------------------------- MODULE MCInventory ----------------------------
(* A small instance of Inventory for TLC. *)
EXTENDS Inventory, TLC

CONSTANTS tea, large, o1, o2, c1

Line(g, n) == [good |-> g, qty |-> n]

\* One line, the same product twice, and a product with a variant.
MCOrders == {<<Line(tea, 1)>>, <<Line(tea, 2)>>, <<Line(tea, 1), Line(tea, 2)>>,
             <<Line(tea, 1), Line(large, 1)>>}
MCVariantStock == large :> 1
MCAdjustments == {-1, 2}
=============================================================================
