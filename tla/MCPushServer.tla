---------------------------- MODULE MCPushServer ----------------------------
(* Small instances of PushServer for TLC. *)
EXTENDS PushServer, TLC

CONSTANTS t1, t2, p1, p2, r1, r2

\* Sale t1 takes one unit, t2 two of them.
MCQty == [t \in Txs |-> IF t = t1 THEN 1 ELSE 2]

\* Requests and payloads are interchangeable.
Symmetry == Permutations(Requests) \cup Permutations(Payloads)
=============================================================================
