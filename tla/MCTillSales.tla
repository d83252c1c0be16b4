---------------------------- MODULE MCTillSales ----------------------------
(* A small instance of TillSales for TLC. *)
EXTENDS TillSales, TLC

CONSTANTS s1, s2, s3, a1, a2, b1, A, B, tea, large

\* Two sales are drafted in tab A, where two calls may run, one in tab B.
MCHome == a1 :> A @@ a2 :> A @@ b1 :> B
MCTill == s1 :> A @@ s2 :> A @@ s3 :> B

\* One product, sold as it is or in one variant.
MCProductOf == large :> tea
MCOnHand == tea :> 2
MCVariantStock == large :> 1
MCCarts == {tea :> 2 @@ large :> 0, tea :> 1 @@ large :> 1, tea :> 0 @@ large :> 1}
=============================================================================
