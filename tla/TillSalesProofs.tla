-------------------------- MODULE TillSalesProofs --------------------------
(***************************************************************************)
(* What holds of TillSales for any number of sales, tabs and calls: the    *)
(* lock of a tab keeps two calls off one sale, so what completeSale read   *)
(* before its transaction still holds in it.  What the rows of the stock   *)
(* say agrees with the reservations, sums over any number of sales, so a   *)
(* check that nothing overtook leaves room for what it let pass.           *)
(***************************************************************************)
EXTENDS TillSales, SumLemmas

-----------------------------------------------------------------------------
(* The inductive invariant. *)

CallRecord == [pc : PCs, sale : Sales \cup {NoSale}, cart : Carts \cup {Nothing},
               todo : SUBSET Goods, fresh : BOOLEAN]

\* The part of TypeOK that needs no sum over the reservations.
Typed ==
  /\ status \in [Sales -> Status]
  /\ tx \in [Sales -> Nat]
  /\ docs \subseteq [sale : Sales, tx : Nat, cart : Carts]
  /\ jobs \subseteq [sale : Sales, tx : Nat]
  /\ held \in [Sales -> [Goods -> Nat]]
  /\ call \in [Calls -> CallRecord]

\* A call under way works on a sale of its own tab, and no other call does.
OneCall ==
  /\ \A c \in Calls :
       /\ call[c].pc = "idle" <=> call[c].sale = NoSale
       /\ call[c].pc # "idle" => Home[c] = Till[call[c].sale]
  /\ \A c, d \in Calls : call[c].pc # "idle" /\ call[c].sale = call[d].sale => c = d

\* What completeSale read of the sale still holds when its transaction begins.
StillDraft ==
  \A c \in Calls : call[c].pc \in {"checking", "reserving"} =>
                     status[call[c].sale] = "DRAFT" /\ call[c].cart \in Carts

IInv == Typed /\ OneCall /\ StillDraft /\ SaleIsOnce /\ HeldByCompleted

-----------------------------------------------------------------------------
\* What the steps write to a call leaves it a call.
LEMMA CallType ==
  ASSUME NEW k \in CallRecord, NEW where \in PCs
  PROVE  /\ [k EXCEPT !.pc = where] \in CallRecord
         /\ [k EXCEPT !.pc = where, !.fresh = FALSE] \in CallRecord
         /\ [k EXCEPT !.pc = where, !.fresh = FALSE].pc = where
         /\ [k EXCEPT !.pc = where, !.fresh = FALSE].sale = k.sale
         /\ [k EXCEPT !.pc = where, !.fresh = FALSE].cart = k.cart
BY DEF CallRecord

LEMMA NothingType == Nothing \in [Goods -> Nat]
BY DEF Nothing

LEMMA InitInv == Init => IInv
<1> SUFFICES ASSUME Init PROVE IInv
  OBVIOUS
<1>1. Typed
  BY NothingType DEF Init, Typed, CallRecord, Idle, Status, PCs
<1>2. OneCall /\ StillDraft
  BY TillSalesAssumption DEF Init, OneCall, StillDraft, Idle
<1>3. SaleIsOnce
  BY DEF Init, SaleIsOnce, DocsOf, JobsOf
<1>4. HeldByCompleted
  BY DEF Init, HeldByCompleted
<1> QED BY <1>1, <1>2, <1>3, <1>4 DEF IInv

\* A step that leaves the sales alone and moves calls only in ways that keep
\* the lock: every call stays where it was, goes on with its sale, or ends.
LEMMA CallsStep ==
  ASSUME IInv, UNCHANGED <<status, tx, docs, jobs, held>>,
         call' \in [Calls -> CallRecord],
         \A c \in Calls :
           \/ call'[c] = Idle
           \/ /\ call'[c].sale = call[c].sale /\ call'[c].cart = call[c].cart
              /\ call[c].pc # "idle" /\ call'[c].pc # "idle"
              /\ call'[c].pc \in {"checking", "reserving"} => call[c].pc \in {"checking", "reserving"}
           \/ call'[c] = call[c]
  PROVE  IInv'
<1>1. Typed'
  BY DEF IInv, Typed
<1>2. OneCall'
  <2>1. \A c \in Calls : /\ call'[c].pc = "idle" <=> call'[c].sale = NoSale
                         /\ call'[c].pc # "idle" => Home[c] = Till[call'[c].sale]
    BY DEF IInv, OneCall, Idle
  <2>2. \A c \in Calls : call'[c].pc # "idle" => call[c].pc # "idle" /\ call'[c].sale = call[c].sale
    BY DEF IInv, OneCall, Idle
  <2>3. ASSUME NEW c \in Calls, NEW d \in Calls,
               call'[c].pc # "idle", call'[c].sale = call'[d].sale
        PROVE  c = d
    <3>1. call'[d].pc # "idle"
      BY <2>1, <2>3
    <3> QED BY <2>2, <2>3, <3>1 DEF IInv, OneCall
  <2> QED BY <2>1, <2>3 DEF OneCall
<1>3. StillDraft'
  BY DEF IInv, StillDraft, Idle
<1>4. SaleIsOnce' /\ HeldByCompleted'
  BY DEF IInv, SaleIsOnce, HeldByCompleted, DocsOf, JobsOf
<1> QED BY <1>1, <1>2, <1>3, <1>4 DEF IInv

\* A call that takes the lock of a sale.
LEMMA LockStep ==
  ASSUME IInv, UNCHANGED <<status, tx, docs, jobs, held>>,
         NEW c \in Calls, NEW s \in Sales, NEW k \in CallRecord,
         Home[c] = Till[s], ~Locked(Home[c], s),
         call' = [call EXCEPT ![c] = k],
         k.sale = s, k.pc \in {"checking", "voiding"},
         k.pc = "checking" => status[s] = "DRAFT" /\ k.cart \in Carts
  PROVE  IInv'
<1>0. s # NoSale
  BY TillSalesAssumption
<1>1. Typed'
  BY DEF IInv, Typed
<1>2. \A d \in Calls : call[d].sale # s
  <2> SUFFICES ASSUME NEW d \in Calls, call[d].sale = s PROVE FALSE
    OBVIOUS
  <2>1. Home[d] = Till[s]
    BY <1>0 DEF IInv, OneCall
  <2> QED BY <2>1 DEF Locked
<1>3. OneCall'
  BY <1>0, <1>2 DEF IInv, Typed, OneCall
<1>4. StillDraft'
  BY DEF IInv, Typed, StillDraft
<1>5. SaleIsOnce' /\ HeldByCompleted'
  BY DEF IInv, SaleIsOnce, HeldByCompleted, DocsOf, JobsOf
<1> QED BY <1>1, <1>3, <1>4, <1>5 DEF IInv

LEMMA CreateDraftInv ==
  ASSUME IInv, NEW s \in Sales, CreateDraft(s)
  PROVE  IInv'
<1>1. Typed'
  BY DEF IInv, Typed, CreateDraft, Status
<1>2. OneCall'
  BY DEF IInv, OneCall, CreateDraft
<1>3. StillDraft'
  BY DEF IInv, Typed, StillDraft, CreateDraft
<1>4. SaleIsOnce'
  BY DEF IInv, Typed, SaleIsOnce, CreateDraft, DocsOf, JobsOf
<1>5. HeldByCompleted'
  BY DEF IInv, Typed, HeldByCompleted, CreateDraft
<1> QED BY <1>1, <1>2, <1>3, <1>4, <1>5 DEF IInv

-----------------------------------------------------------------------------
(* The two transactions. *)

\* A draft's transaction gives it its first client_tx_id, its rows and its
\* job, and holds exactly its cart.
LEMMA CommitEffect ==
  ASSUME IInv, NEW c \in Calls, Commit(c)
  PROVE  LET s == call[c].sale IN
         /\ s \in Sales /\ status[s] = "DRAFT" /\ call[c].cart \in Carts
         /\ tx[s] = 0 /\ DocsOf(s) = {} /\ JobsOf(s) = {}
         /\ tx' = [tx EXCEPT ![s] = 1]
         /\ docs' = docs \cup {[sale |-> s, tx |-> 1, cart |-> call[c].cart]}
         /\ jobs' = jobs \cup {[sale |-> s, tx |-> 1]}
         /\ held' = [held EXCEPT ![s] = call[c].cart]
<1> DEFINE s == call[c].sale
<1>1. s \in Sales /\ status[s] = "DRAFT" /\ call[c].cart \in Carts
  <2>1. call[c] \in CallRecord /\ call[c].pc = "reserving"
    BY DEF IInv, Typed, Commit
  <2>2. s # NoSale
    BY <2>1 DEF IInv, OneCall
  <2> QED BY <2>1, <2>2 DEF IInv, StillDraft, CallRecord
<1>2. tx[s] = 0 /\ DocsOf(s) = {} /\ JobsOf(s) = {}
  BY <1>1 DEF IInv, SaleIsOnce
<1>3. 1 + Cardinality({d \in docs : d.sale = s}) = 1
  <2>1. {d \in docs : d.sale = s} = {}
    BY <1>2 DEF DocsOf
  <2> QED BY <2>1, FS_EmptySet
<1>4. held' = [held EXCEPT ![s] = call[c].cart]
  <2>1. held[s] = Nothing
    BY <1>1 DEF IInv, HeldByCompleted
  <2>2. held' = [held EXCEPT ![s] = [g \in Goods |-> held[s][g] + call[c].cart[g]]]
    BY DEF Commit, Reserve
  <2>3. call[c].cart \in [Goods -> Nat]
    BY <1>1, TillSalesAssumption
  <2>4. [g \in Goods |-> held[s][g] + call[c].cart[g]] = call[c].cart
    BY <2>1, <2>3 DEF Nothing
  <2> QED BY <2>2, <2>4
<1>5. /\ tx' = [tx EXCEPT ![s] = 1]
      /\ docs' = docs \cup {[sale |-> s, tx |-> 1, cart |-> call[c].cart]}
      /\ jobs' = jobs \cup {[sale |-> s, tx |-> 1]}
  BY <1>3 DEF Commit
<1> QED BY <1>1, <1>2, <1>4, <1>5

LEMMA CommitInv ==
  ASSUME IInv, NEW c \in Calls, Commit(c)
  PROVE  IInv'
<1> DEFINE s == call[c].sale
<1> DEFINE cart == call[c].cart
<1>1. /\ s \in Sales /\ status[s] = "DRAFT" /\ cart \in Carts
      /\ tx[s] = 0 /\ DocsOf(s) = {} /\ JobsOf(s) = {}
      /\ tx' = [tx EXCEPT ![s] = 1]
      /\ docs' = docs \cup {[sale |-> s, tx |-> 1, cart |-> cart]}
      /\ jobs' = jobs \cup {[sale |-> s, tx |-> 1]}
      /\ held' = [held EXCEPT ![s] = cart]
  BY CommitEffect
<1>2. status' = [status EXCEPT ![s] = "COMPLETED"] /\ call[c].pc = "reserving"
  BY DEF Commit
<1>3. call' = [d \in Calls |-> [call[d] EXCEPT !.pc = IF d = c THEN "verifying" ELSE @,
                                               !.fresh = FALSE]]
  BY DEF Commit
<1>4. call' \in [Calls -> CallRecord]
  <2>1. \A d \in Calls : call[d] \in CallRecord /\ call[d].pc \in PCs
    BY DEF IInv, Typed, CallRecord
  <2>2. \A d \in Calls : (IF d = c THEN "verifying" ELSE call[d].pc) \in PCs
    BY <2>1 DEF PCs
  <2> QED BY <1>3, <2>1, <2>2, CallType
<1>5. \A d \in Calls : /\ call'[d].sale = call[d].sale /\ call'[d].cart = call[d].cart
                       /\ call'[d].pc = IF d = c THEN "verifying" ELSE call[d].pc
  BY <1>3 DEF IInv, Typed, CallRecord
<1> HIDE DEF s, cart
<1>6. Typed'
  <2>1. cart \in [Goods -> Nat]
    BY <1>1, TillSalesAssumption
  <2>2. held' \in [Sales -> [Goods -> Nat]]
    BY <1>1, <2>1 DEF IInv, Typed
  <2>3. status' \in [Sales -> Status] /\ tx' \in [Sales -> Nat]
    BY <1>1, <1>2 DEF IInv, Typed, Status
  <2>4. /\ docs' \subseteq [sale : Sales, tx : Nat, cart : Carts]
        /\ jobs' \subseteq [sale : Sales, tx : Nat]
    BY <1>1 DEF IInv, Typed
  <2> QED BY <1>4, <2>2, <2>3, <2>4 DEF Typed
<1>7. OneCall'
  BY <1>2, <1>5 DEF IInv, OneCall
<1>8. StillDraft'
  <2> SUFFICES ASSUME NEW d \in Calls, call'[d].pc \in {"checking", "reserving"}
               PROVE  status'[call'[d].sale] = "DRAFT" /\ call'[d].cart \in Carts
    BY DEF StillDraft
  <2>1. d # c /\ call[d].pc \in {"checking", "reserving"}
    BY <1>5
  <2>2. call[d].sale # s
    BY <2>1 DEF IInv, OneCall, s
  <2> QED BY <1>1, <1>2, <1>5, <2>1, <2>2 DEF IInv, Typed, StillDraft
<1>9. SaleIsOnce'
  <2> SUFFICES ASSUME NEW t \in Sales
               PROVE  /\ status'[t] \in {"NONE", "DRAFT"} => tx'[t] = 0
                      /\ status'[t] = "COMPLETED" => tx'[t] # 0
                      /\ IF tx'[t] = 0 THEN DocsOf(t)' = {} /\ JobsOf(t)' = {}
                         ELSE /\ JobsOf(t)' = {[sale |-> t, tx |-> tx'[t]]}
                              /\ \E k \in Carts :
                                   DocsOf(t)' = {[sale |-> t, tx |-> tx'[t], cart |-> k]}
    BY DEF SaleIsOnce, DocsOf, JobsOf
  <2>1. CASE t = s
    <3>1. tx'[t] = 1 /\ status'[t] = "COMPLETED"
      BY <1>1, <1>2, <2>1 DEF IInv, Typed
    <3>2. JobsOf(t)' = {[sale |-> t, tx |-> 1]}
      BY <1>1, <2>1 DEF JobsOf
    <3>3. DocsOf(t)' = {[sale |-> t, tx |-> 1, cart |-> cart]}
      BY <1>1, <2>1 DEF DocsOf
    <3> QED BY <1>1, <3>1, <3>2, <3>3
  <2>2. CASE t # s
    <3>1. tx'[t] = tx[t] /\ status'[t] = status[t]
      BY <1>1, <1>2, <2>2 DEF IInv, Typed
    <3>2. JobsOf(t)' = JobsOf(t)
      BY <1>1, <2>2 DEF JobsOf
    <3>3. DocsOf(t)' = DocsOf(t)
      BY <1>1, <2>2 DEF DocsOf
    <3> QED BY <3>1, <3>2, <3>3 DEF IInv, SaleIsOnce
  <2> QED BY <2>1, <2>2
<1>10. HeldByCompleted'
  <2> SUFFICES ASSUME NEW t \in Sales
               PROVE  IF status'[t] = "COMPLETED"
                        THEN \E d \in docs' : d.sale = t /\ held'[t] = d.cart
                        ELSE held'[t] = Nothing
    BY DEF HeldByCompleted, Nothing
  <2>1. CASE t = s
    <3>1. held'[t] = cart /\ status'[t] = "COMPLETED"
      BY <1>1, <1>2, <2>1 DEF IInv, Typed
    <3>2. [sale |-> s, tx |-> 1, cart |-> cart] \in docs'
      BY <1>1
    <3> QED BY <2>1, <3>1, <3>2
  <2>2. CASE t # s
    <3>1. held'[t] = held[t] /\ status'[t] = status[t] /\ docs \subseteq docs'
      BY <1>1, <1>2, <2>2 DEF IInv, Typed
    <3> QED BY <3>1 DEF IInv, HeldByCompleted
  <2> QED BY <2>1, <2>2
<1> QED BY <1>6, <1>7, <1>8, <1>9, <1>10 DEF IInv

LEMMA VoidInv ==
  ASSUME IInv, NEW c \in Calls, Void(c)
  PROVE  IInv'
<1> DEFINE s == call[c].sale
<1>1. /\ status[s] \in {"DRAFT", "COMPLETED"} /\ call[c].pc = "voiding"
      /\ status' = [status EXCEPT ![s] = "VOID"]
      /\ held' = [held EXCEPT ![s] = Nothing]
      /\ call' = [call EXCEPT ![c].pc = "voided"]
      /\ UNCHANGED <<tx, docs, jobs>>
  BY DEF Void, Release, Goto
<1>2. s \in Sales
  <2>1. call[c] \in CallRecord
    BY DEF IInv, Typed
  <2>2. s # NoSale
    BY <1>1 DEF IInv, OneCall
  <2> QED BY <2>1, <2>2 DEF CallRecord
<1>3. call' \in [Calls -> CallRecord]
  <2>1. call[c] \in CallRecord /\ "voided" \in PCs
    BY DEF IInv, Typed, PCs
  <2> QED BY <1>1, <2>1, CallType DEF IInv, Typed
<1>4. \A d \in Calls : /\ call'[d].sale = call[d].sale /\ call'[d].cart = call[d].cart
                       /\ call'[d].pc = IF d = c THEN "voided" ELSE call[d].pc
  BY <1>1 DEF IInv, Typed, CallRecord
<1> HIDE DEF s
<1>5. Typed'
  BY <1>1, <1>2, <1>3, NothingType DEF IInv, Typed, Status
<1>6. OneCall'
  BY <1>1, <1>4 DEF IInv, OneCall
<1>7. StillDraft'
  <2> SUFFICES ASSUME NEW d \in Calls, call'[d].pc \in {"checking", "reserving"}
               PROVE  status'[call'[d].sale] = "DRAFT" /\ call'[d].cart \in Carts
    BY DEF StillDraft
  <2>1. d # c /\ call[d].pc \in {"checking", "reserving"}
    BY <1>4
  <2>2. call[d].sale # s
    BY <2>1 DEF IInv, OneCall, s
  <2> QED BY <1>1, <1>2, <1>4, <2>1, <2>2 DEF IInv, Typed, StillDraft
<1>8. SaleIsOnce'
  BY <1>1, <1>2 DEF IInv, Typed, SaleIsOnce, DocsOf, JobsOf
<1>9. HeldByCompleted'
  BY <1>1, <1>2 DEF IInv, Typed, HeldByCompleted
<1> QED BY <1>5, <1>6, <1>7, <1>8, <1>9 DEF IInv

-----------------------------------------------------------------------------
LEMMA NextInv == IInv /\ [Next]_vars => IInv'
<1> SUFFICES ASSUME IInv, [Next]_vars PROVE IInv'
  OBVIOUS
<1>1. ASSUME NEW s \in Sales, CreateDraft(s) PROVE IInv'
  BY <1>1, CreateDraftInv
<1>2. ASSUME NEW c \in Calls, NEW s \in Sales, NEW cart \in Carts, Begin(c, s, cart)
      PROVE  IInv'
  <2> DEFINE k == [pc |-> "checking", sale |-> s, cart |-> cart,
                   todo |-> {g \in Goods : cart[g] > 0}, fresh |-> TRUE]
  <2>1. k \in CallRecord
    BY DEF CallRecord, PCs
  <2>2. /\ k.sale = s /\ k.pc = "checking" /\ k.cart = cart
        /\ call' = [call EXCEPT ![c] = k]
    BY <1>2 DEF Begin
  <2> HIDE DEF k
  <2> QED BY <1>2, <2>1, <2>2, LockStep DEF Begin
<1>3. ASSUME NEW c \in Calls, NEW s \in Sales, BeginVoid(c, s) PROVE IInv'
  <2> DEFINE k == [Idle EXCEPT !.pc = "voiding", !.sale = s]
  <2>1. k \in CallRecord
    BY DEF CallRecord, PCs, Idle
  <2>2. /\ k.sale = s /\ k.pc = "voiding"
        /\ call' = [call EXCEPT ![c] = k]
    BY <1>3 DEF BeginVoid, Idle
  <2> HIDE DEF k
  <2> QED BY <1>3, <2>1, <2>2, LockStep DEF BeginVoid
<1>4. Idle \in CallRecord
  BY DEF Idle, CallRecord, PCs
<1>5. ASSUME NEW c \in Calls, NEW g \in Goods, CheckItem(c, g) PROVE IInv'
  <2>1. UNCHANGED <<status, tx, docs, jobs, held>> /\ call[c].pc = "checking"
    BY <1>5 DEF CheckItem
  <2>2. \/ call' = [call EXCEPT ![c].todo = @ \ {g}]
        \/ call' = [call EXCEPT ![c] = Idle]
    BY <1>5 DEF CheckItem, Return
  <2>3. call' \in [Calls -> CallRecord]
    <3>1. CASE call' = [call EXCEPT ![c].todo = @ \ {g}]
      BY <3>1 DEF IInv, Typed, CallRecord
    <3>2. CASE call' = [call EXCEPT ![c] = Idle]
      BY <1>4, <3>2 DEF IInv, Typed
    <3> QED BY <2>2, <3>1, <3>2
  <2>4. \A d \in Calls :
           \/ call'[d] = Idle
           \/ call'[d].sale = call[d].sale /\ call'[d].cart = call[d].cart
              /\ call'[d].pc = call[d].pc /\ call[d].pc = "checking"
           \/ call'[d] = call[d]
    BY <2>1, <2>2 DEF IInv, Typed, CallRecord
  <2> QED BY <2>1, <2>3, <2>4, CallsStep
<1>6. ASSUME NEW c \in Calls, Checked(c) PROVE IInv'
  <2>1. /\ UNCHANGED <<status, tx, docs, jobs, held>> /\ call[c].pc = "checking"
        /\ call' = [call EXCEPT ![c].pc = "reserving"]
    BY <1>6 DEF Checked, Goto
  <2>2. call' \in [Calls -> CallRecord]
    <3>1. call[c] \in CallRecord /\ "reserving" \in PCs
      BY DEF IInv, Typed, PCs
    <3> QED BY <2>1, <3>1, CallType DEF IInv, Typed
  <2>3. \A d \in Calls :
           \/ call'[d].sale = call[d].sale /\ call'[d].cart = call[d].cart
              /\ call'[d].pc = "reserving" /\ call[d].pc = "checking"
           \/ call'[d] = call[d]
    BY <2>1 DEF IInv, Typed, CallRecord
  <2> QED BY <2>1, <2>2, <2>3, CallsStep
<1>7. ASSUME NEW c \in Calls, Abort(c) \/ Finish(c) PROVE IInv'
  <2>1. /\ UNCHANGED <<status, tx, docs, jobs, held>>
        /\ call' = [call EXCEPT ![c] = Idle]
    BY <1>7 DEF Abort, Finish, Return
  <2>2. call' \in [Calls -> CallRecord]
    BY <1>4, <2>1 DEF IInv, Typed
  <2>3. \A d \in Calls : call'[d] = Idle \/ call'[d] = call[d]
    BY <2>1 DEF IInv, Typed
  <2> QED BY <2>1, <2>2, <2>3, CallsStep
<1>8. ASSUME NEW t \in Tabs, CloseTab(t) PROVE IInv'
  <2>1. /\ UNCHANGED <<status, tx, docs, jobs, held>>
        /\ call' = [c \in Calls |-> IF Home[c] = t THEN Idle ELSE call[c]]
    BY <1>8 DEF CloseTab
  <2>2. call' \in [Calls -> CallRecord]
    BY <1>4, <2>1 DEF IInv, Typed
  <2>3. \A d \in Calls : call'[d] = Idle \/ call'[d] = call[d]
    BY <2>1
  <2> QED BY <2>1, <2>2, <2>3, CallsStep
<1>9. ASSUME NEW c \in Calls, Commit(c) PROVE IInv'
  BY <1>9, CommitInv
<1>10. ASSUME NEW c \in Calls, Void(c) PROVE IInv'
  BY <1>10, VoidInv
<1>11. CASE UNCHANGED vars
  <2>1. \A d \in Calls : call'[d] = call[d]
    BY <1>11 DEF vars
  <2> QED BY <1>11, <2>1, CallsStep DEF vars, IInv, Typed
<1> QED BY <1>1, <1>2, <1>3, <1>5, <1>6, <1>7, <1>8, <1>9, <1>10, <1>11 DEF Next, Complete

THEOREM Invariance == Spec => []IInv
BY InitInv, NextInv, PTL DEF Spec

\* A sale is completed at most once, with one set of rows and one job, for any
\* number of calls and tabs (withSaleCompletionLock, completeSale).
THEOREM CompletedOnce == Spec => []SaleIsOnce
<1>1. IInv => SaleIsOnce
  BY DEF IInv
<1> QED BY <1>1, Invariance, PTL

\* The reservations of a sale are those of its items while it is completed,
\* and none otherwise (reserveStock, releaseStock).
THEOREM HoldsItsItems == Spec => []HeldByCompleted
<1>1. IInv => HeldByCompleted
  BY DEF IInv
<1> QED BY <1>1, Invariance, PTL

\* No call under way brings a voided sale back or gives a completed one another
\* client_tx_id (completeSale, voidSale).
THEOREM FinalSale == Spec => SaleIsFinal
<1> DEFINE Kept == \A s \in Sales : /\ status[s] = "VOID" => status'[s] = "VOID"
                                    /\ tx[s] # 0 => tx'[s] = tx[s]
<1>1. IInv /\ [Next]_vars => [Kept]_vars
  <2> SUFFICES ASSUME IInv, Next PROVE Kept
    BY DEF vars
  <2>1. ASSUME NEW c \in Calls, Commit(c) PROVE Kept
    <3>1. status' = [status EXCEPT ![call[c].sale] = "COMPLETED"]
      BY <2>1 DEF Commit
    <3> QED BY <2>1, <3>1, CommitEffect DEF IInv, Typed
  <2>2. ASSUME NEW c \in Calls, Void(c) PROVE Kept
    BY <2>2 DEF Void, IInv, Typed
  <2>3. ASSUME NEW s \in Sales, CreateDraft(s) PROVE Kept
    BY <2>3 DEF CreateDraft, IInv, Typed
  <2>4. CASE UNCHANGED <<status, tx>>
    BY <2>4
  <2> QED BY <2>1, <2>2, <2>3, <2>4
          DEF Next, Complete, Begin, CheckItem, Checked, Abort, Finish, BeginVoid, CloseTab
<1> QED BY <1>1, Invariance, PTL DEF Spec, SaleIsFinal

-----------------------------------------------------------------------------
(***************************************************************************)
(* The stock.  What the reservations hold of a good, and what the stock    *)
(* checks of a call under way still say of it.                             *)
(***************************************************************************)

StockTyped == /\ stock \in [Products -> [reserved : Nat, available : Int]]
              /\ raced \subseteq Sales /\ leaked \subseteq Products

\* quantity_available is what quantity_reserved leaves, bounded or not.
AvailableFits ==
  \A p \in Products :
    stock[p].available \in {OnHand[p] - stock[p].reserved, Floor(OnHand[p] - stock[p].reserved)}

\* What is left of a good.
Room(g) == IF g \in Variants THEN VariantStock[g] - Held(Sales, {g})
           ELSE OnHand[g] - stock[g].reserved

\* A check that no other sale overtook still holds: the only step that takes
\* room away is a transaction, which makes every check out of date.
ChecksHold ==
  \A c \in Calls :
    /\ call[c].pc = "reserving" => call[c].todo = {}
    /\ call[c].pc \in {"checking", "reserving"} /\ call[c].fresh =>
         \A g \in Goods \ call[c].todo : call[c].cart[g] > 0 => call[c].cart[g] <= Room(g)

SInv == StockTyped /\ AvailableFits /\ ReservedIsHeld /\ ChecksHold /\ SoldWithinStock

-----------------------------------------------------------------------------
(* What the reservations of some sales hold of one good. *)

LEMMA GoodsFinite == \A G \in SUBSET Goods : IsFiniteSet(G)
BY TillSalesAssumption, FS_Union, FS_Subset DEF Goods

HeldOf(g) == [s \in Sales |-> held[s][g]]

LEMMA HeldIsSum ==
  ASSUME Typed, NEW S \in SUBSET Sales, NEW g \in Goods
  PROVE  Held(S, {g}) = SumFunctionOnSet(HeldOf(g), S)
<1> DEFINE f == [s \in Sales |-> SumFunctionOnSet(held[s], {g})]
<1>1. \A s \in S : HeldOf(g)[s] \in Int /\ f[s] = HeldOf(g)[s]
  <2> TAKE s \in S
  <2>1. held[s][g] \in Int
    BY DEF Typed
  <2>2. SumFunctionOnSet(held[s], {g}) = held[s][g]
    BY <2>1, SumSingle
  <2> QED BY <2>1, <2>2 DEF HeldOf
<1>2. IsFiniteSet(S)
  BY TillSalesAssumption, FS_Subset
<1> HIDE DEF f
<1>3. SumFunctionOnSet(f, S) = SumFunctionOnSet(HeldOf(g), S)
  BY <1>1, <1>2, SumSame
<1> QED BY <1>3 DEF Held, f

LEMMA HeldType ==
  ASSUME Typed, NEW S \in SUBSET Sales, NEW g \in Goods
  PROVE  Held(S, {g}) \in Nat /\ \A R \in SUBSET S : Held(R, {g}) <= Held(S, {g})
<1>1. \A s \in Sales : HeldOf(g)[s] \in Nat
  BY DEF Typed, HeldOf
<1>2. IsFiniteSet(S)
  BY TillSalesAssumption, FS_Subset
<1>3. SumFunctionOnSet(HeldOf(g), S) \in Nat
  BY <1>1, <1>2, SumNonNegative
<1>4. \A R \in SUBSET S : SumFunctionOnSet(HeldOf(g), R) <= SumFunctionOnSet(HeldOf(g), S)
  BY <1>1, <1>2, SumOfSubset
<1> QED BY <1>3, <1>4, HeldIsSum

\* The reservations of one sale.
LEMMA HeldBySale ==
  ASSUME Typed, NEW s \in Sales, NEW G \in SUBSET Goods
  PROVE  /\ Held({s}, G) \in Nat
         /\ \A g \in G : held[s][g] <= Held({s}, G)
         /\ \A g \in G : G = {g} => Held({s}, G) = held[s][g]
<1> DEFINE f == [t \in Sales |-> SumFunctionOnSet(held[t], G)]
<1>1. IsFiniteSet(G) /\ \A g \in G : held[s][g] \in Nat
  BY GoodsFinite DEF Typed
<1>2. SumFunctionOnSet(held[s], G) \in Nat
  BY <1>1, SumNonNegative
<1>3. f[s] = SumFunctionOnSet(held[s], G)
  OBVIOUS
<1> HIDE DEF f
<1>4. SumFunctionOnSet(f, {s}) = f[s]
  BY <1>2, <1>3, SumSingle
<1>5. Held({s}, G) = SumFunctionOnSet(held[s], G)
  BY <1>3, <1>4 DEF Held, f
<1>6. ASSUME NEW g \in G PROVE SumFunctionOnSet(held[s], {g}) = held[s][g]
  <2>1. held[s][g] \in Int
    BY <1>1
  <2> QED BY <2>1, SumSingle
<1>7. \A g \in G : SumFunctionOnSet(held[s], {g}) <= SumFunctionOnSet(held[s], G)
  BY <1>1, SumOfSubset
<1> QED BY <1>2, <1>5, <1>6, <1>7

\* The same as a function of the reservations, for those after a step.
HeldBy(h, S, g) == SumFunctionOnSet([s \in Sales |-> SumFunctionOnSet(h[s], {g})], S)

LEMMA HeldAfter ==
  /\ \A S, g : Held(S, {g}) = HeldBy(held, S, g)
  /\ \A S, g : Held(S, {g})' = HeldBy(held', S, g)
  /\ SoldWithinStock' <=>
       /\ \A v \in Variants : HeldBy(held', Sales \ raced', v) <= VariantStock[v]
       /\ \A p \in Products \ leaked' : HeldBy(held', Sales \ raced', p) <= OnHand[p]
BY DEF Held, HeldBy, SoldWithinStock

\* A sale's reservations are replaced.
LEMMA HeldStep ==
  ASSUME Typed, Typed', NEW s \in Sales, NEW k, held' = [held EXCEPT ![s] = k],
         NEW S \in SUBSET Sales, NEW g \in Goods
  PROVE  Held(S, {g})' = IF s \in S THEN Held(S, {g}) + k[g] - held[s][g] ELSE Held(S, {g})
<1> DEFINE f == HeldOf(g)
           h == HeldOf(g)'
<1>1. /\ \A t \in S : f[t] \in Int /\ h[t] \in Int
      /\ \A t \in S \ {s} : h[t] = f[t]
      /\ h[s] = k[g] /\ f[s] = held[s][g]
  BY DEF Typed, HeldOf
<1>2. IsFiniteSet(S)
  BY TillSalesAssumption, FS_Subset
<1>3. Held(S, {g}) = SumFunctionOnSet(f, S)
  BY HeldIsSum
<1>4. Held(S, {g})' = SumFunctionOnSet(h, S)
  <2>1. /\ \A t \in S : h[t] = held'[t][g]
    BY DEF HeldOf
  <2> DEFINE e == [t \in Sales |-> SumFunctionOnSet(held'[t], {g})]
  <2>2. \A t \in S : e[t] = h[t]
    <3> TAKE t \in S
    <3>1. held'[t][g] \in Int
      BY DEF Typed
    <3>2. SumFunctionOnSet(held'[t], {g}) = held'[t][g]
      BY <3>1, SumSingle
    <3> QED BY <2>1, <3>2
  <2> HIDE DEF e, h
  <2>3. SumFunctionOnSet(e, S) = SumFunctionOnSet(h, S)
    BY <1>1, <1>2, <2>2, SumSame
  <2> QED BY <2>3 DEF Held, e
<1> HIDE DEF f, h
<1>5. CASE s \in S
  <2>1. SumFunctionOnSet(h, S) = SumFunctionOnSet(f, S) + h[s] - f[s]
    BY <1>1, <1>2, <1>5, SumChange
  <2> QED BY <1>1, <1>3, <1>4, <1>5, <2>1
<1>6. CASE s \notin S
  <2>1. SumFunctionOnSet(h, S) = SumFunctionOnSet(f, S)
    BY <1>1, <1>2, <1>6, SumSame
  <2> QED BY <1>3, <1>4, <1>6, <2>1
<1> QED BY <1>5, <1>6

-----------------------------------------------------------------------------
\* A step that leaves the stock alone.
LEMMA StockKept ==
  ASSUME SInv, UNCHANGED <<held, stock, raced, leaked>>, ChecksHold'
  PROVE  SInv'
<1>1. /\ \A S, G : Held(S, G)' = Held(S, G)
      /\ \A g : Room(g)' = Room(g)
  BY DEF Held, Room
<1> QED BY <1>1 DEF SInv, StockTyped, AvailableFits, ReservedIsHeld, SoldWithinStock

\* ... and of the calls under way only ends some, or lets them go on.
LEMMA CallsKept ==
  ASSUME SInv, UNCHANGED <<held, stock, raced, leaked>>,
         \A c \in Calls :
           \/ call'[c].pc \notin {"checking", "reserving"}
           \/ call'[c] = call[c]
  PROVE  SInv'
<1>1. \A g : Room(g)' = Room(g)
  BY DEF Held, Room
<1>2. ChecksHold'
  BY <1>1 DEF SInv, ChecksHold
<1> QED BY <1>2, StockKept

\* One good is checked.
LEMMA CheckStock ==
  ASSUME IInv, SInv, NEW c \in Calls, NEW g \in Goods, CheckItem(c, g)
  PROVE  SInv'
<1>1. /\ UNCHANGED <<held, stock, raced, leaked>> /\ call[c].pc = "checking"
      /\ call \in [Calls -> CallRecord] /\ call[c].cart \in [Goods -> Nat]
  BY TillSalesAssumption, NothingType DEF CheckItem, IInv, Typed, StillDraft
<1>2. CASE Available(g) >= call[c].cart[g] /\ call' = [call EXCEPT ![c].todo = @ \ {g}]
  <2>1. \A h : Room(h)' = Room(h)
    BY <1>1 DEF Held, Room
  <2>2. call[c].cart[g] > 0 => call[c].cart[g] <= Room(g)
    <3>1. CASE g \in Variants
      <4>1. VariantStock[g] \in Nat /\ Held(Sales, {g}) \in Nat
        BY <3>1, HeldType, TillSalesAssumption DEF IInv
      <4> QED BY <1>1, <1>2, <3>1, <4>1 DEF Available, Room, Floor
    <3>2. CASE g \notin Variants
      <4>1. g \in Products /\ OnHand[g] \in Nat /\ stock[g].reserved \in Nat
        BY <3>2, TillSalesAssumption DEF Goods, SInv, StockTyped
      <4>2. stock[g].available \in {OnHand[g] - stock[g].reserved,
                                    Floor(OnHand[g] - stock[g].reserved)}
        BY <4>1 DEF SInv, AvailableFits
      <4> QED BY <1>1, <1>2, <3>2, <4>1, <4>2 DEF Available, Room, Floor
    <3> QED BY <3>1, <3>2
  <2>3. /\ call'[c].pc = "checking" /\ call'[c].cart = call[c].cart
        /\ call'[c].fresh = call[c].fresh /\ call'[c].todo = call[c].todo \ {g}
        /\ \A d \in Calls : d # c => call'[d] = call[d]
    BY <1>1, <1>2 DEF CallRecord
  <2>4. ChecksHold'
    <3> SUFFICES ASSUME NEW d \in Calls
                 PROVE  /\ call'[d].pc = "reserving" => call'[d].todo = {}
                        /\ call'[d].pc \in {"checking", "reserving"} /\ call'[d].fresh =>
                             \A h \in Goods \ call'[d].todo :
                               call'[d].cart[h] > 0 => call'[d].cart[h] <= Room(h)
      BY <2>1 DEF ChecksHold
    <3>1. CASE d = c
      BY <1>1, <2>2, <2>3, <3>1 DEF SInv, ChecksHold
    <3>2. CASE d # c
      BY <2>3, <3>2 DEF SInv, ChecksHold
    <3> QED BY <3>1, <3>2
  <2> QED BY <1>1, <2>4, StockKept
<1>3. CASE Return(c)
  <2>1. \A d \in Calls : call'[d].pc = "idle" \/ call'[d] = call[d]
    BY <1>1, <1>3 DEF Return, Idle
  <2> QED BY <1>1, <2>1, CallsKept
<1> QED BY <1>2, <1>3 DEF CheckItem

LEMMA CheckedStock ==
  ASSUME IInv, SInv, NEW c \in Calls, Checked(c)
  PROVE  SInv'
<1>1. /\ UNCHANGED <<held, stock, raced, leaked>>
      /\ call[c].pc = "checking" /\ call[c].todo = {}
      /\ call' = [call EXCEPT ![c].pc = "reserving"] /\ call \in [Calls -> CallRecord]
  BY DEF Checked, Goto, IInv, Typed
<1>2. \A h : Room(h)' = Room(h)
  BY <1>1 DEF Held, Room
<1>3. /\ call'[c].cart = call[c].cart /\ call'[c].fresh = call[c].fresh /\ call'[c].todo = {}
      /\ \A d \in Calls : d # c => call'[d] = call[d]
  BY <1>1 DEF CallRecord
<1>4. ChecksHold'
  BY <1>1, <1>2, <1>3 DEF SInv, ChecksHold
<1> QED BY <1>1, <1>4, StockKept

\* A call begins with every good to check, or with nothing to sell.
LEMMA BeginStock ==
  ASSUME IInv, SInv, NEW c \in Calls, NEW k \in CallRecord,
         UNCHANGED <<held, stock, raced, leaked>>, call' = [call EXCEPT ![c] = k],
         \/ k.pc = "checking" /\ \A g \in Goods : k.cart[g] > 0 => g \in k.todo
         \/ k.pc = "voiding"
  PROVE  SInv'
<1>1. \A h : Room(h)' = Room(h)
  BY DEF Held, Room
<1>2. call'[c] = k /\ \A d \in Calls : d # c => call'[d] = call[d]
  BY DEF IInv, Typed
<1>3. ChecksHold'
  <2> SUFFICES ASSUME NEW d \in Calls
               PROVE  /\ call'[d].pc = "reserving" => call'[d].todo = {}
                      /\ call'[d].pc \in {"checking", "reserving"} /\ call'[d].fresh =>
                           \A h \in Goods \ call'[d].todo :
                             call'[d].cart[h] > 0 => call'[d].cart[h] <= Room(h)
    BY <1>1 DEF ChecksHold
  <2>1. CASE d = c
    BY <1>2, <2>1
  <2>2. CASE d # c
    BY <1>2, <2>2 DEF SInv, ChecksHold
  <2> QED BY <2>1, <2>2
<1> QED BY <1>3, StockKept

\* The transaction of a completion: it takes what its cart says, and no check
\* is up to date after it.
LEMMA CommitStock ==
  ASSUME IInv, IInv', SInv, NEW c \in Calls, Commit(c)
  PROVE  SInv'
<1> DEFINE s == call[c].sale
           cart == call[c].cart
<1>1. /\ s \in Sales /\ cart \in [Goods -> Nat] /\ held' = [held EXCEPT ![s] = cart]
  BY CommitEffect, TillSalesAssumption
<1>2. held[s] = Nothing /\ \A g \in Goods : held[s][g] = 0
  BY CommitEffect DEF IInv, HeldByCompleted, Nothing
<1>3. /\ \A p \in Products :
           stock'[p] = IF cart[p] = 0 THEN stock[p]
                       ELSE [reserved |-> stock[p].reserved + cart[p],
                             available |-> Floor(OnHand[p] - (stock[p].reserved + cart[p]))]
      /\ stock' = [p \in Products |-> stock'[p]]
      /\ leaked' = leaked
      /\ raced' = IF call[c].fresh THEN raced ELSE raced \cup {s}
      /\ call[c].pc = "reserving"
  BY DEF Commit, Reserve
<1>4. \A d \in Calls : /\ ~call'[d].fresh
                       /\ call'[d].todo = call[d].todo
                       /\ call'[d].pc = "reserving" => call[d].pc = "reserving"
  BY DEF Commit, IInv, Typed, CallRecord
<1>5. /\ \A p \in Products : /\ OnHand[p] \in Nat /\ stock[p].reserved \in Nat
                             /\ stock[p].available \in Int
                             /\ p \in Goods /\ cart[p] \in Nat
      /\ \A v \in Variants : VariantStock[v] \in Nat /\ v \in Goods
  BY <1>1, TillSalesAssumption DEF SInv, StockTyped, Goods
<1> HIDE DEF s, cart
<1>6. \A p \in Products :
        /\ stock'[p].reserved = stock[p].reserved + cart[p]
        /\ stock'[p].available =
             IF cart[p] = 0 THEN stock[p].available ELSE Floor(OnHand[p] - stock'[p].reserved)
  BY <1>3, <1>5
<1>7. \A S \in SUBSET Sales, g \in Goods :
        /\ Held(S, {g}) \in Nat
        /\ Held(S, {g})' = IF s \in S THEN Held(S, {g}) + cart[g] ELSE Held(S, {g})
        /\ Held(S, {g})' = HeldBy(held', S, g)
  <2> TAKE S \in SUBSET Sales, g \in Goods
  <2>1. Held(S, {g})' = IF s \in S THEN Held(S, {g}) + cart[g] - held[s][g] ELSE Held(S, {g})
    BY <1>1, HeldStep DEF IInv
  <2>2. Held(S, {g}) \in Nat /\ cart[g] \in Nat
    BY <1>1, HeldType DEF IInv
  <2> QED BY <1>2, <2>1, <2>2, HeldAfter
<1>8. StockTyped'
  <2>1. ASSUME NEW p \in Products PROVE stock'[p] \in [reserved : Nat, available : Int]
    BY <1>3, <1>5 DEF Floor, SInv, StockTyped
  <2>2. stock' \in [Products -> [reserved : Nat, available : Int]]
    BY <1>3, <2>1
  <2> QED BY <1>1, <1>3, <2>2 DEF SInv, StockTyped
<1>9. AvailableFits'
  <2> SUFFICES ASSUME NEW p \in Products
               PROVE  stock'[p].available \in {OnHand[p] - stock'[p].reserved,
                                               Floor(OnHand[p] - stock'[p].reserved)}
    BY DEF AvailableFits, Floor
  <2>1. CASE cart[p] = 0
    <3>1. stock'[p] = stock[p]
      BY <1>3, <2>1
    <3> QED BY <3>1 DEF SInv, AvailableFits
  <2>2. CASE cart[p] # 0
    BY <1>6, <2>2
  <2> QED BY <2>1, <2>2
<1>10. ReservedIsHeld'
  <2> SUFFICES ASSUME NEW p \in Products
               PROVE  /\ stock'[p].reserved <= Held(Sales, {p})'
                      /\ p \notin leaked => stock'[p].reserved = Held(Sales, {p})'
    BY <1>3 DEF ReservedIsHeld
  <2>1. Held(Sales, {p})' = Held(Sales, {p}) + cart[p] /\ Held(Sales, {p}) \in Nat
    BY <1>1, <1>5, <1>7
  <2>2. /\ stock[p].reserved <= Held(Sales, {p})
        /\ p \notin leaked => stock[p].reserved = Held(Sales, {p})
    BY DEF SInv, ReservedIsHeld
  <2> QED BY <1>5, <1>6, <2>1, <2>2
<1>11. ChecksHold'
  BY <1>4 DEF SInv, ChecksHold
<1>12. SoldWithinStock'
  <2> DEFINE S == Sales \ raced
             T == Sales \ raced'
  <2>1. S \in SUBSET Sales /\ T \in SUBSET Sales /\ T \in SUBSET S
    BY <1>3
  <2>2. ASSUME NEW g \in Goods, s \notin T
        PROVE  HeldBy(held', T, g) \in Nat /\ HeldBy(held', T, g) <= Held(S, {g})
    <3>1. HeldBy(held', T, g) = Held(T, {g}) /\ Held(T, {g}) \in Nat
      BY <1>7, <2>1, <2>2
    <3>2. Held(T, {g}) <= Held(S, {g})
      BY <2>1, HeldType DEF IInv
    <3> QED BY <3>1, <3>2
  <2>3. ASSUME NEW g \in Goods, s \in T
        PROVE  /\ cart[g] = 0 => HeldBy(held', T, g) = Held(S, {g})
               /\ cart[g] # 0 => cart[g] <= Room(g)
               /\ HeldBy(held', T, g) \in Nat /\ Held(Sales, {g}) \in Nat
               /\ HeldBy(held', T, g) <= Held(Sales, {g}) + cart[g]
    <3>1. call[c].fresh /\ T = S
      BY <1>3, <2>3
    <3>2. /\ HeldBy(held', T, g) = Held(S, {g}) + cart[g]
          /\ Held(S, {g}) \in Nat /\ Held(Sales, {g}) \in Nat
      BY <1>7, <2>1, <2>3, <3>1
    <3>3. Held(S, {g}) <= Held(Sales, {g})
      BY <2>1, HeldType DEF IInv
    <3>4. cart[g] \in Nat
      BY <1>1
    <3>5. cart[g] > 0 => cart[g] <= Room(g)
      BY <1>3, <3>1 DEF SInv, ChecksHold, cart
    <3> QED BY <3>2, <3>3, <3>4, <3>5
  <2>4. ASSUME NEW v \in Variants PROVE HeldBy(held', T, v) <= VariantStock[v]
    <3>1. /\ Held(S, {v}) <= VariantStock[v] /\ Held(S, {v}) \in Nat
          /\ VariantStock[v] \in Nat /\ v \in Goods
      BY <1>5, <1>7, <2>1 DEF SInv, SoldWithinStock
    <3> HIDE DEF S, T
    <3>2. CASE s \notin T
      <4>1. HeldBy(held', T, v) \in Nat /\ HeldBy(held', T, v) <= Held(S, {v})
        BY <2>2, <3>1, <3>2
      <4> QED BY <3>1, <4>1
    <3>3. CASE s \in T
      <4>1. Room(v) = VariantStock[v] - Held(Sales, {v})
        BY DEF Room
      <4>2. cart[v] \in Nat
        BY <1>1, <1>5
      <4>3. /\ cart[v] = 0 => HeldBy(held', T, v) = Held(S, {v})
            /\ cart[v] # 0 => cart[v] <= Room(v)
            /\ HeldBy(held', T, v) \in Nat /\ Held(Sales, {v}) \in Nat
            /\ HeldBy(held', T, v) <= Held(Sales, {v}) + cart[v]
        BY <2>3, <3>1, <3>3
      <4> QED BY <3>1, <4>1, <4>2, <4>3
    <3> QED BY <3>2, <3>3
  <2>5. ASSUME NEW p \in Products \ leaked PROVE HeldBy(held', T, p) <= OnHand[p]
    <3>1. /\ Held(S, {p}) <= OnHand[p] /\ Held(S, {p}) \in Nat
          /\ OnHand[p] \in Nat /\ p \in Goods
      BY <1>5, <1>7, <2>1 DEF SInv, SoldWithinStock
    <3> HIDE DEF S, T
    <3>2. CASE s \notin T
      <4>1. HeldBy(held', T, p) \in Nat /\ HeldBy(held', T, p) <= Held(S, {p})
        BY <2>2, <3>1, <3>2
      <4> QED BY <3>1, <4>1
    <3>3. CASE s \in T
      <4>1. Room(p) = OnHand[p] - Held(Sales, {p})
        BY TillSalesAssumption DEF Room, SInv, ReservedIsHeld
      <4>2. cart[p] \in Nat
        BY <1>5
      <4>3. /\ cart[p] = 0 => HeldBy(held', T, p) = Held(S, {p})
            /\ cart[p] # 0 => cart[p] <= Room(p)
            /\ HeldBy(held', T, p) \in Nat /\ Held(Sales, {p}) \in Nat
            /\ HeldBy(held', T, p) <= Held(Sales, {p}) + cart[p]
        BY <2>3, <3>1, <3>3
      <4> QED BY <3>1, <4>1, <4>2, <4>3
    <3> QED BY <3>2, <3>3
  <2> QED BY <1>3, <2>4, <2>5, HeldAfter
<1> QED BY <1>8, <1>9, <1>10, <1>11, <1>12 DEF SInv

\* The transaction of a void gives back what the sale held, and no check that
\* found enough finds less.
LEMMA VoidStock ==
  ASSUME IInv, IInv', SInv, NEW c \in Calls, Void(c)
  PROVE  SInv'
<1> DEFINE s == call[c].sale
           G(p) == {g \in Reservations(s) : Item(g) = p}
           r(p) == Floor(stock[p].reserved - Held({s}, G(p)))
<1>1. s \in Sales
  <2>1. call[c] \in CallRecord /\ call[c].pc = "voiding"
    BY DEF IInv, Typed, Void
  <2>2. s # NoSale
    BY <2>1 DEF IInv, OneCall
  <2> QED BY <2>1, <2>2 DEF CallRecord
<1>2. /\ held' = [held EXCEPT ![s] = Nothing]
      /\ \A p \in Products :
           stock'[p] = IF G(p) = {} THEN stock[p]
                       ELSE [reserved |-> r(p), available |-> OnHand[p] - r(p)]
      /\ stock' = [p \in Products |-> stock'[p]]
      /\ leaked' = leaked \cup {ProductOf[v] : v \in Reservations(s) \cap Variants}
      /\ raced' = raced /\ call' = [call EXCEPT ![c].pc = "voided"]
  BY DEF Void, Release, Goto
<1>3. /\ \A p \in Products : /\ OnHand[p] \in Nat /\ stock[p].reserved \in Nat
                             /\ stock[p].available \in Int /\ p \in Goods
      /\ \A v \in Variants : VariantStock[v] \in Nat /\ v \in Goods
      /\ \A g \in Goods : held[s][g] \in Nat
  BY <1>1, TillSalesAssumption DEF SInv, StockTyped, Goods, IInv, Typed
<1>4. \A p \in Products : /\ G(p) \in SUBSET Goods /\ Held({s}, G(p)) \in Nat
                          /\ \A g \in G(p) : held[s][g] <= Held({s}, G(p))
                          /\ G(p) = {p} => Held({s}, G(p)) = held[s][p]
                          /\ held[s][p] # 0 => p \in G(p)
                          /\ held[s][p] <= Held({s}, G(p))
  <2> TAKE p \in Products
  <2>1. G(p) \in SUBSET Goods
    BY DEF Reservations
  <2>2. held[s][p] # 0 => p \in G(p)
    BY <1>3, TillSalesAssumption DEF Reservations, Item
  <2> HIDE DEF G
  <2>3. /\ Held({s}, G(p)) \in Nat
        /\ \A g \in G(p) : held[s][g] <= Held({s}, G(p))
        /\ \A g \in G(p) : G(p) = {g} => Held({s}, G(p)) = held[s][g]
    BY <1>1, <2>1, HeldBySale DEF IInv
  <2>4. held[s][p] <= Held({s}, G(p))
    <3>1. held[s][p] \in Nat
      BY <1>3
    <3> QED BY <2>2, <2>3, <3>1
  <2> QED BY <2>1, <2>2, <2>3, <2>4
<1>5. \A p \in Products : p \notin leaked' => p \notin leaked /\ G(p) \subseteq {p}
  <2> TAKE p \in Products
  <2>1. p \notin leaked' => \A v \in Reservations(s) \cap Variants : ProductOf[v] # p
    BY <1>2
  <2> QED BY <1>2, <2>1 DEF Item
<1>6. \A p \in Products : /\ r(p) \in Nat /\ r(p) <= stock[p].reserved
                          /\ r(p) >= stock[p].reserved - Held({s}, G(p))
                          /\ stock[p].reserved >= Held({s}, G(p)) =>
                               r(p) = stock[p].reserved - Held({s}, G(p))
                          /\ \A n \in Nat : stock[p].reserved - Held({s}, G(p)) <= n => r(p) <= n
  <2> TAKE p \in Products
  <2> DEFINE n == stock[p].reserved
             k == Held({s}, G(p))
  <2>1. n \in Nat /\ k \in Nat
    BY <1>3, <1>4
  <2>2. r(p) = IF n - k < 0 THEN 0 ELSE n - k
    BY DEF Floor
  <2> HIDE DEF n, k, r
  <2>3. /\ r(p) \in Nat /\ r(p) <= n /\ r(p) >= n - k
        /\ n >= k => r(p) = n - k
        /\ \A m \in Nat : n - k <= m => r(p) <= m
    BY <2>1, <2>2
  <2> QED BY <2>3 DEF n, k
<1>7. \A S \in SUBSET Sales, g \in Goods :
        /\ Held(S, {g}) \in Nat /\ Held(S, {g})' \in Nat
        /\ Held(S, {g})' = IF s \in S THEN Held(S, {g}) - held[s][g] ELSE Held(S, {g})
        /\ Held(S, {g})' <= Held(S, {g})
        /\ Held(S, {g})' = HeldBy(held', S, g)
  <2> TAKE S \in SUBSET Sales, g \in Goods
  <2>0. Held(S, {g})' = IF s \in S THEN Held(S, {g}) + Nothing[g] - held[s][g] ELSE Held(S, {g})
    BY <1>1, <1>2, HeldStep DEF IInv
  <2>1. Held(S, {g})' = IF s \in S THEN Held(S, {g}) + 0 - held[s][g] ELSE Held(S, {g})
    BY <2>0 DEF Nothing
  <2>2. Held(S, {g}) \in Nat
    BY HeldType DEF IInv
  <2>3. Held({s}, {g}) \in Nat /\ Held({s}, {g}) = held[s][g]
    BY <1>1, HeldBySale DEF IInv
  <2>4. s \in S => held[s][g] <= Held(S, {g})
    BY <2>3, HeldType DEF IInv
  <2> QED BY <1>3, <2>1, <2>2, <2>4, HeldAfter
<1> HIDE DEF s, G, r
<1>8. \A p \in Products :
        \/ G(p) = {} /\ stock'[p] = stock[p]
        \/ /\ G(p) # {} /\ stock'[p].reserved = r(p)
           /\ stock'[p].available = OnHand[p] - stock'[p].reserved
  BY <1>2
<1>9. StockTyped'
  <2>1. ASSUME NEW p \in Products PROVE stock'[p] \in [reserved : Nat, available : Int]
    <3>1. CASE G(p) = {}
      BY <1>2, <3>1 DEF SInv, StockTyped
    <3>2. CASE G(p) # {}
      <4>1. r(p) \in Nat /\ OnHand[p] - r(p) \in Int
        BY <1>3, <1>6
      <4> QED BY <1>2, <3>2, <4>1
    <3> QED BY <3>1, <3>2
  <2>2. stock' \in [Products -> [reserved : Nat, available : Int]]
    BY <1>2, <2>1
  <2>3. leaked' \subseteq Products
    BY <1>2, TillSalesAssumption DEF SInv, StockTyped
  <2> QED BY <1>2, <2>2, <2>3 DEF SInv, StockTyped
<1>10. AvailableFits'
  <2> SUFFICES ASSUME NEW p \in Products
               PROVE  stock'[p].available \in {OnHand[p] - stock'[p].reserved,
                                               Floor(OnHand[p] - stock'[p].reserved)}
    BY DEF AvailableFits, Floor
  <2>1. CASE G(p) = {} /\ stock'[p] = stock[p]
    BY <2>1 DEF SInv, AvailableFits
  <2>2. CASE stock'[p].available = OnHand[p] - stock'[p].reserved
    BY <2>2
  <2> QED BY <1>8, <2>1, <2>2
<1>11. ReservedIsHeld'
  <2> SUFFICES ASSUME NEW p \in Products
               PROVE  /\ stock'[p].reserved <= Held(Sales, {p})'
                      /\ p \notin leaked' => stock'[p].reserved = Held(Sales, {p})'
    BY DEF ReservedIsHeld
  <2>1. /\ Held(Sales, {p})' = Held(Sales, {p}) - held[s][p]
        /\ Held(Sales, {p})' \in Nat /\ Held(Sales, {p}) \in Nat /\ held[s][p] \in Nat
    BY <1>1, <1>3, <1>7
  <2>2. /\ stock[p].reserved <= Held(Sales, {p})
        /\ p \notin leaked => stock[p].reserved = Held(Sales, {p})
    BY DEF SInv, ReservedIsHeld
  <2>3. CASE G(p) = {}
    <3>1. held[s][p] = 0 /\ stock'[p] = stock[p]
      BY <1>4, <1>8, <2>3
    <3> QED BY <1>5, <2>1, <2>2, <3>1
  <2>4. CASE G(p) # {}
    <3>1. stock'[p].reserved = r(p)
      BY <1>8, <2>4
    <3>2. held[s][p] <= Held({s}, G(p)) /\ Held({s}, G(p)) \in Nat
      BY <1>4
    <3>3. stock[p].reserved - Held({s}, G(p)) <= Held(Sales, {p})'
      BY <1>3, <2>1, <2>2, <3>2
    <3>4. r(p) <= Held(Sales, {p})'
      BY <1>6, <2>1, <3>3
    <3>5. ASSUME p \notin leaked' PROVE r(p) = Held(Sales, {p})'
      <4>1. p \notin leaked /\ Held({s}, G(p)) = held[s][p]
        <5>1. p \notin leaked /\ G(p) = {p}
          BY <1>5, <2>4, <3>5
        <5> QED BY <1>4, <5>1
      <4>2. stock[p].reserved >= Held({s}, G(p))
        BY <1>3, <2>1, <2>2, <4>1
      <4> QED BY <1>6, <2>1, <2>2, <4>1, <4>2
    <3> QED BY <3>1, <3>4, <3>5
  <2> QED BY <2>3, <2>4
<1>12. ChecksHold'
  <2>1. ASSUME NEW g \in Goods PROVE Room(g) \in Int /\ Room(g)' \in Int /\ Room(g) <= Room(g)'
    <3>1. CASE g \in Variants
      <4>1. /\ Held(Sales, {g}) \in Nat /\ Held(Sales, {g})' \in Nat
            /\ Held(Sales, {g})' <= Held(Sales, {g}) /\ VariantStock[g] \in Nat
        BY <1>3, <1>7, <3>1
      <4>2. Room(g) = VariantStock[g] - Held(Sales, {g}) /\ Room(g)' = VariantStock[g] - Held(Sales, {g})'
        BY <3>1 DEF Room
      <4> QED BY <4>1, <4>2
    <3>2. CASE g \notin Variants
      <4>1. g \in Products
        BY <3>2 DEF Goods
      <4>2. stock'[g].reserved \in Nat /\ stock'[g].reserved <= stock[g].reserved
        BY <1>3, <1>6, <1>8, <4>1
      <4>3. Room(g) = OnHand[g] - stock[g].reserved /\ Room(g)' = OnHand[g] - stock'[g].reserved
        BY <3>2 DEF Room
      <4> QED BY <1>3, <4>1, <4>2, <4>3
    <3> QED BY <3>1, <3>2
  <2>2. \A d \in Calls : call'[d].pc = "voided" \/ call'[d] = call[d]
    BY <1>2 DEF IInv, Typed, CallRecord
  <2>3. ASSUME NEW d \in Calls, call'[d] = call[d],
               call[d].pc \in {"checking", "reserving"}, call[d].fresh,
               NEW g \in Goods \ call[d].todo, call[d].cart[g] > 0
        PROVE  call[d].cart[g] <= Room(g)'
    <3>1. call[d].cart[g] <= Room(g)
      BY <2>3 DEF SInv, ChecksHold
    <3>2. call[d].cart[g] \in Nat
      BY <2>3, TillSalesAssumption DEF IInv, StillDraft
    <3> QED BY <2>1, <3>1, <3>2
  <2> QED BY <2>2, <2>3 DEF SInv, ChecksHold
<1>13. SoldWithinStock'
  <2> DEFINE S == Sales \ raced
  <2>0. S \in SUBSET Sales
    OBVIOUS
  <2>1. ASSUME NEW v \in Variants PROVE HeldBy(held', S, v) <= VariantStock[v]
    <3>1. Held(S, {v}) <= VariantStock[v]
      BY DEF SInv, SoldWithinStock
    <3> HIDE DEF S
    <3>2. /\ HeldBy(held', S, v) <= Held(S, {v}) /\ HeldBy(held', S, v) \in Nat
          /\ Held(S, {v}) \in Nat /\ VariantStock[v] \in Nat
      BY <1>3, <1>7, <2>0
    <3> QED BY <3>1, <3>2
  <2>2. ASSUME NEW p \in Products \ leaked' PROVE HeldBy(held', S, p) <= OnHand[p]
    <3>1. Held(S, {p}) <= OnHand[p]
      BY <1>5 DEF SInv, SoldWithinStock
    <3> HIDE DEF S
    <3>2. /\ HeldBy(held', S, p) <= Held(S, {p}) /\ HeldBy(held', S, p) \in Nat
          /\ Held(S, {p}) \in Nat /\ OnHand[p] \in Nat
      BY <1>3, <1>7, <2>0
    <3> QED BY <3>1, <3>2
  <2>3. raced' = raced
    BY <1>2
  <2> QED BY <2>1, <2>2, <2>3, HeldAfter
<1> QED BY <1>9, <1>10, <1>11, <1>12, <1>13 DEF SInv

LEMMA InitStock == Init => SInv
<1> SUFFICES ASSUME Init PROVE SInv
  OBVIOUS
<1>1. Typed
  BY InitInv DEF IInv
<1>2. \A s \in Sales, g \in Goods : held[s][g] = 0
  BY DEF Init, Nothing
<1>3. \A S \in SUBSET Sales, g \in Goods : Held(S, {g}) = 0
  <2> TAKE S \in SUBSET Sales, g \in Goods
  <2>1. IsFiniteSet(S) /\ \A s \in S : HeldOf(g)[s] = 0
    BY <1>2, TillSalesAssumption, FS_Subset DEF HeldOf
  <2>2. SumFunctionOnSet(HeldOf(g), S) = 0
    BY <2>1, SumZero
  <2> QED BY <1>1, <2>2, HeldIsSum
<1>4. \A p \in Products : /\ stock[p] = [reserved |-> 0, available |-> OnHand[p]]
                          /\ stock[p].reserved = 0 /\ stock[p].available = OnHand[p]
                          /\ OnHand[p] \in Nat /\ p \in Goods /\ OnHand[p] = OnHand[p] - 0
  BY TillSalesAssumption DEF Init, Goods
<1>5. StockTyped
  BY <1>4 DEF Init, StockTyped
<1>6. AvailableFits
  BY <1>4 DEF AvailableFits
<1>7. ReservedIsHeld
  <2>1. \A p \in Products : Held(Sales, {p}) = 0 /\ stock[p].reserved = 0
    BY <1>3, <1>4
  <2>2. ASSUME NEW p \in Products
        PROVE  /\ stock[p].reserved <= Held(Sales, {p})
               /\ stock[p].reserved = Held(Sales, {p})
    <3>1. Held(Sales, {p}) = 0 /\ stock[p].reserved = 0
      BY <2>1
    <3> QED BY <3>1
  <2> QED BY <2>2 DEF ReservedIsHeld
<1>8. ChecksHold
  BY DEF Init, Idle, ChecksHold
<1>9. SoldWithinStock
  <2>1. Sales \ raced \in SUBSET Sales /\ \A v \in Variants : VariantStock[v] \in Nat /\ v \in Goods
    BY TillSalesAssumption DEF Goods
  <2>2. \A g \in Goods : Held(Sales \ raced, {g}) = 0
    BY <1>3, <2>1
  <2>3. \A v \in Variants : Held(Sales \ raced, {v}) <= VariantStock[v]
    BY <2>1, <2>2
  <2>4. ASSUME NEW p \in Products PROVE Held(Sales \ raced, {p}) <= OnHand[p]
    <3>1. p \in Goods /\ OnHand[p] \in Nat
      BY TillSalesAssumption DEF Goods
    <3>2. Held(Sales \ raced, {p}) = 0
      BY <2>2, <3>1
    <3> QED BY <3>1, <3>2
  <2> QED BY <2>3, <2>4 DEF SoldWithinStock
<1> QED BY <1>5, <1>6, <1>7, <1>8, <1>9 DEF SInv

LEMMA NextStock == IInv /\ SInv /\ [Next]_vars => SInv'
<1> SUFFICES ASSUME IInv, SInv, [Next]_vars PROVE SInv'
  OBVIOUS
<1>1. IInv'
  BY NextInv
<1>2. ASSUME NEW c \in Calls, NEW s \in Sales, NEW cart \in Carts, Begin(c, s, cart)
      PROVE  SInv'
  <2> DEFINE k == [pc |-> "checking", sale |-> s, cart |-> cart,
                   todo |-> {g \in Goods : cart[g] > 0}, fresh |-> TRUE]
  <2>1. k \in CallRecord /\ k.pc = "checking" /\ \A g \in Goods : k.cart[g] > 0 => g \in k.todo
    BY DEF CallRecord, PCs
  <2>2. UNCHANGED <<held, stock, raced, leaked>> /\ call' = [call EXCEPT ![c] = k]
    BY <1>2 DEF Begin
  <2> HIDE DEF k
  <2> QED BY <2>1, <2>2, BeginStock
<1>3. ASSUME NEW c \in Calls, NEW s \in Sales, BeginVoid(c, s) PROVE SInv'
  <2> DEFINE k == [Idle EXCEPT !.pc = "voiding", !.sale = s]
  <2>1. k \in CallRecord /\ k.pc = "voiding"
    BY DEF CallRecord, PCs, Idle
  <2>2. UNCHANGED <<held, stock, raced, leaked>> /\ call' = [call EXCEPT ![c] = k]
    BY <1>3 DEF BeginVoid
  <2> HIDE DEF k
  <2> QED BY <2>1, <2>2, BeginStock
<1>4. ASSUME NEW c \in Calls, NEW g \in Goods, CheckItem(c, g) PROVE SInv'
  BY <1>4, CheckStock
<1>5. ASSUME NEW c \in Calls, Checked(c) PROVE SInv'
  BY <1>5, CheckedStock
<1>6. ASSUME NEW c \in Calls, Commit(c) PROVE SInv'
  BY <1>1, <1>6, CommitStock
<1>7. ASSUME NEW c \in Calls, Void(c) PROVE SInv'
  BY <1>1, <1>7, VoidStock
<1>8. call \in [Calls -> CallRecord]
  BY DEF IInv, Typed
<1>9. ASSUME NEW c \in Calls, Abort(c) \/ Finish(c) PROVE SInv'
  <2>1. UNCHANGED <<held, stock, raced, leaked>> /\ call' = [call EXCEPT ![c] = Idle]
    BY <1>9 DEF Abort, Finish, Return
  <2>2. \A d \in Calls : call'[d].pc = "idle" \/ call'[d] = call[d]
    BY <1>8, <2>1 DEF Idle
  <2> QED BY <2>1, <2>2, CallsKept
<1>10. ASSUME NEW t \in Tabs, CloseTab(t) PROVE SInv'
  <2>1. /\ UNCHANGED <<held, stock, raced, leaked>>
        /\ call' = [c \in Calls |-> IF Home[c] = t THEN Idle ELSE call[c]]
    BY <1>10 DEF CloseTab
  <2>2. \A d \in Calls : call'[d].pc = "idle" \/ call'[d] = call[d]
    BY <2>1 DEF Idle
  <2> QED BY <2>1, <2>2, CallsKept
<1>11. CASE UNCHANGED <<held, stock, call, raced, leaked>>
  BY <1>11, CallsKept
<1> QED
  BY <1>2, <1>3, <1>4, <1>5, <1>6, <1>7, <1>9, <1>10, <1>11
  DEF Next, Complete, CreateDraft, vars

LEMMA StockInvariance == Spec => [](IInv /\ SInv)
BY InitStock, NextStock, Invariance, PTL DEF Spec

\* The sales, their rows, the calls and the stock stay well typed; in
\* particular no reserved quantity is ever negative (releaseStock).
THEOREM TypeCorrect == Spec => []TypeOK
<1>1. IInv /\ SInv => TypeOK
  BY DEF IInv, SInv, Typed, StockTyped, TypeOK, CallRecord
<1> QED BY <1>1, StockInvariance, PTL

\* quantity_reserved of a product is the sum of its reservations, and less only
\* once the release of one of its variants lowered it (reserveStock, releaseStock).
THEOREM ReservedIsAccounted == Spec => []ReservedIsHeld
<1>1. SInv => ReservedIsHeld
  BY DEF SInv
<1> QED BY <1>1, StockInvariance, PTL

\* Sales whose check no other sale overtook never hold more than there was
\* (validateStockForItems, completeSale).
THEOREM NeverOversold == Spec => []SoldWithinStock
<1>1. SInv => SoldWithinStock
  BY DEF SInv
<1> QED BY <1>1, StockInvariance, PTL
=============================================================================
