--------------------------- MODULE MCSyncPipeline ---------------------------
(* A small instance of SyncPipeline for TLC. *)
EXTENDS SyncPipeline, TLC

CONSTANTS d1, d2, t1, t2

MCQty == [j \in Sales |-> 1]
=============================================================================
