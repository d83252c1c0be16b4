------------------------------ MODULE Delivery ------------------------------
(***************************************************************************)
(* What offline-first synchronisation promises about a sale, whatever the  *)
(* till and the server do to keep it: a sale taken at the till is recorded *)
(* on the server at most once, its stock is charged at most once and only  *)
(* for a recorded sale, and the till takes it for delivered only when it   *)
(* is recorded.                                                            *)
(***************************************************************************)
EXTENDS Naturals

CONSTANT Sales

VARIABLES
  placed,    \* sales completed at the till
  recorded,  \* sales the server has a document for
  charges,   \* how often the stock of a sale was deducted
  confirmed  \* sales the till takes for delivered

deliveryVars == <<placed, recorded, charges, confirmed>>

Init == /\ placed = {} /\ recorded = {} /\ confirmed = {}
        /\ charges = [s \in Sales |-> 0]

Place(s) == /\ s \notin placed
            /\ placed' = placed \cup {s}
            /\ UNCHANGED <<recorded, charges, confirmed>>

Record(s) == /\ s \in placed \ recorded
             /\ recorded' = recorded \cup {s}
             /\ UNCHANGED <<placed, charges, confirmed>>

Charge(s) == /\ s \in recorded
             /\ charges[s] = 0
             /\ charges' = [charges EXCEPT ![s] = 1]
             /\ UNCHANGED <<placed, recorded, confirmed>>

Confirm(s) == /\ s \in recorded \ confirmed
              /\ confirmed' = confirmed \cup {s}
              /\ UNCHANGED <<placed, recorded, charges>>

Next == \E s \in Sales : Place(s) \/ Record(s) \/ Charge(s) \/ Confirm(s)

Spec == Init /\ [][Next]_deliveryVars
=============================================================================
