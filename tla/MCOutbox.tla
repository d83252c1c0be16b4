------------------------------ MODULE MCOutbox ------------------------------
(* Small instances of Outbox for TLC. *)
EXTENDS Outbox, TLC

CONSTANTS d1, d2, t1, t2, o1

\* Drains are interchangeable, and so are sales: no action orders them.  Used
\* by the runs without liveness only.
Symmetry == Permutations(Drains) \cup Permutations(TxJobs)
=============================================================================
