--------------------------- MODULE MCLeaderLease ---------------------------
(* Small instances of LeaderLease for TLC. *)
EXTENDS LeaderLease, TLC

CONSTANTS a1, a2, b1, A, B

\* Two calls in tab A and one in tab B.
MCTab == [r \in Runs |-> IF r = b1 THEN B ELSE A]
=============================================================================
