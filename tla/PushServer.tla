----------------------------- MODULE PushServer -----------------------------
(***************************************************************************)
(* POST /sync/push on the server (packages/pos-sync/src/push/index.ts):    *)
(* handlePushSync filters the transactions it already has, and takes the   *)
(* new ones one after the other through processTransaction: header, lines, *)
(* stock deduction, cost-of-goods journal.                                 *)
(*                                                                         *)
(* The handler runs on the connection pool with no transaction around it:  *)
(* each statement commits on its own, so requests interleave between any   *)
(* two of them and a failure leaves behind what was written before it.     *)
(* Only the deduction is a database transaction of its own, and the        *)
(* journal another.                                                        *)
(*                                                                         *)
(* A payload is what its hash tells apart; a request is one HTTP call; a   *)
(* transaction is a sale of status COMPLETED with stock-tracked items of   *)
(* one product, Qty units of it.  The other five sections of a push        *)
(* request are not in this module.                                         *)
(***************************************************************************)
EXTENDS Integers, FiniteSets, Functions

CONSTANTS
  Txs,          \* client_tx_id's
  Payloads,     \* canonical payloads, as computePayloadSha256 sees them
  NoPayload,    \* no pos_transactions row
  Requests,     \* HTTP calls
  Qty,          \* units a sale takes from the stock
  InitialStock, \* units in inventory_stock
  FaultKinds,   \* the faults considered: "statement", "crash"
  MaxFaults     \* bound on how many of them happen

ASSUME PushServerAssumption ==
  /\ IsFiniteSet(Txs)
  /\ NoPayload \notin Payloads
  /\ Qty \in [Txs -> Nat \ {0}]
  /\ InitialStock \in Nat
  /\ FaultKinds \subseteq {"statement", "crash"}
  /\ MaxFaults \in Nat

VARIABLES
  header,    \* pos_transactions: the payload hash stored for a client_tx_id
  lines,     \* its item, payment and tax rows are all there
  deducted,  \* SALE rows of inventory_transactions that refer to it
  cogs,      \* cost-of-goods journals posted for it
  stock,     \* inventory_stock.quantity
  req,       \* the requests
  faults     \* faults so far

serverVars == <<header, lines, deducted, cogs, stock, req, faults>>

-----------------------------------------------------------------------------
Entry   == [tx : Txs, payload : Payloads]
Results == {"none", "OK", "DUPLICATE", "ERROR"}

\* Where a request stands.  From "check" to "cogs" it is in processTransaction
\* for the first transaction of left.
Processing == {"check", "insert", "lines", "deduction", "deduct", "cogs"}
PCs == {"unsent", "filter", "answered", "failed", "lost"} \cup Processing

Cur(r)   == CHOOSE i \in req[r].left : \A k \in req[r].left : i <= k
CurTx(r) == req[r].batch[Cur(r)].tx
CurPayload(r) == req[r].batch[Cur(r)].payload

\* Mutated form of ReplayOutcome: any stored row makes a duplicate.
ReplayAnyPayload(stored, payload) == "DUPLICATE"

\* determineReplayOutcome: the hash of the stored row against the new one.
ReplayOutcome(stored, payload) == IF stored = payload THEN "DUPLICATE" ELSE "ERROR"

Goto(r, where) == req' = [req EXCEPT ![r].pc = where]

\* processTransaction returns; the loop of handlePushSync goes on.
Return(r, result) ==
  req' = [req EXCEPT ![r].ans[Cur(r)] = result,
                     ![r].left = @ \ {Cur(r)},
                     ![r].pc = IF req[r].left = {Cur(r)} THEN "answered" ELSE "check"]

-----------------------------------------------------------------------------
Init ==
  /\ header = [t \in Txs |-> NoPayload]
  /\ lines = [t \in Txs |-> FALSE]
  /\ deducted = [t \in Txs |-> 0]
  /\ cogs = [t \in Txs |-> 0]
  /\ stock = InitialStock
  /\ req = [r \in Requests |-> [pc |-> "unsent", batch |-> <<>>, left |-> {}, ans |-> <<>>]]
  /\ faults = 0

\* The request arrives: a non-empty sequence of transactions of one outlet.
Receive(r, batch) ==
  /\ req[r].pc = "unsent"
  /\ req' = [req EXCEPT ![r] = [pc |-> "filter", batch |-> batch, left |-> {},
                                ans |-> [i \in DOMAIN batch |-> "none"]]]
  /\ UNCHANGED <<header, lines, deducted, cogs, stock, faults>>

\* Transaction i of the batch repeats an earlier one that is new.
InBatchDuplicate(batch, i) == \E k \in DOMAIN batch : k < i /\ batch[k].tx = batch[i].tx

\* filterNewTransactions: one read of the rows of all the client_tx_id's.  A
\* repetition inside the batch is a DUPLICATE whatever its payload.
Filter(r) ==
  LET b == req[r].batch
      new == {i \in DOMAIN b : header[b[i].tx] = NoPayload /\ ~InBatchDuplicate(b, i)}
  IN /\ req[r].pc = "filter"
     /\ req' = [req EXCEPT
                  ![r].left = new,
                  ![r].ans = [i \in DOMAIN b |->
                                IF i \in new THEN "none"
                                ELSE IF header[b[i].tx] = NoPayload THEN "DUPLICATE"
                                ELSE ReplayOutcome(header[b[i].tx], b[i].payload)],
                  ![r].pc = IF new = {} THEN "answered" ELSE "check"]
     /\ UNCHANGED <<header, lines, deducted, cogs, stock, faults>>

-----------------------------------------------------------------------------
(* processTransaction. *)

\* Validation and the second read of the row.
Check(r) ==
  /\ req[r].pc = "check"
  /\ IF header[CurTx(r)] = NoPayload
       THEN Goto(r, "insert")
       ELSE Return(r, ReplayOutcome(header[CurTx(r)], CurPayload(r)))
  /\ UNCHANGED <<header, lines, deducted, cogs, stock, faults>>

\* The cashier does not belong to the company, or the transaction is invalid.
Refuse(r) ==
  /\ req[r].pc = "check"
  /\ Return(r, "ERROR")
  /\ UNCHANGED <<header, lines, deducted, cogs, stock, faults>>

\* Mutated form of Insert: no unique index, the row is written again.
InsertAgain(r) ==
  /\ req[r].pc = "insert"
  /\ header' = [header EXCEPT ![CurTx(r)] = CurPayload(r)]
  /\ Goto(r, "lines")
  /\ UNCHANGED <<lines, deducted, cogs, stock, faults>>

\* insertPosTransaction: the unique index on client_tx_id lets one insert
\* through; the error of any other one is caught.
Insert(r) ==
  /\ req[r].pc = "insert"
  /\ IF header[CurTx(r)] = NoPayload
       THEN header' = [header EXCEPT ![CurTx(r)] = CurPayload(r)] /\ Goto(r, "lines")
       ELSE UNCHANGED header /\ Return(r, "ERROR")
  /\ UNCHANGED <<lines, deducted, cogs, stock, faults>>

\* The inserts of items, payments and taxes.
InsertLines(r) ==
  /\ req[r].pc = "lines"
  /\ lines' = [lines EXCEPT ![CurTx(r)] = TRUE]
  /\ Goto(r, "deduction")
  /\ UNCHANGED <<header, deducted, cogs, stock, faults>>

\* The read of inventory_transactions: skip the deduction, and the journal
\* with it, if there is one.
ReadDeduction(r) ==
  /\ req[r].pc = "deduction"
  /\ IF deducted[CurTx(r)] > 0 THEN Return(r, "OK") ELSE Goto(r, "deduct")
  /\ UNCHANGED <<header, lines, deducted, cogs, stock, faults>>

\* The deduction of the current transaction of r, which leaves the stock at left.
Take(r, left) == /\ stock' = left
                 /\ deducted' = [deducted EXCEPT ![CurTx(r)] = @ + 1]
                 /\ UNCHANGED <<header, lines, cogs, faults>>

Enough(r) == stock >= Qty[CurTx(r)]

\* Mutated forms of Deduct: the quantity is not compared; an insufficient stock
\* is answered by a return that commits the movement; it is not reported.
DeductUnchecked(r) == /\ req[r].pc = "deduct"
                      /\ Take(r, stock - Qty[CurTx(r)])
                      /\ Goto(r, "cogs")
DeductHalf(r) == /\ req[r].pc = "deduct"
                 /\ IF Enough(r) THEN Take(r, stock - Qty[CurTx(r)]) /\ Goto(r, "cogs")
                                 ELSE Take(r, stock) /\ Return(r, "ERROR")
DeductSilently(r) ==
  /\ req[r].pc = "deduct"
  /\ IF Enough(r) THEN Take(r, stock - Qty[CurTx(r)]) /\ Goto(r, "cogs")
                  ELSE UNCHANGED <<header, lines, deducted, cogs, stock, faults>> /\ Return(r, "OK")

\* resolveAndDeductForPosTransaction, one database transaction: stock row
\* locked, quantity compared, movement written, stock lowered; an insufficient
\* stock throws and rolls back.
Deduct(r) ==
  /\ req[r].pc = "deduct"
  /\ IF Enough(r) THEN Take(r, stock - Qty[CurTx(r)]) /\ Goto(r, "cogs")
                  ELSE UNCHANGED <<header, lines, deducted, cogs, stock, faults>> /\ Return(r, "ERROR")

\* postCogsForSale, a database transaction of its own.
PostCogs(r) ==
  /\ req[r].pc = "cogs"
  /\ cogs' = [cogs EXCEPT ![CurTx(r)] = @ + 1]
  /\ Return(r, "OK")
  /\ UNCHANGED <<header, lines, deducted, stock, faults>>

-----------------------------------------------------------------------------
(* Faults. *)

Fault(kind) == /\ kind \in FaultKinds
               /\ faults < MaxFaults
               /\ faults' = faults + 1

\* Mutated form of StatementFails: a failing deduction is not reported.
StatementSwallowed(r) ==
  /\ Fault("statement")
  /\ \/ req[r].pc = "filter" /\ Goto(r, "failed")
     \/ req[r].pc \in {"deduct", "cogs"} /\ Return(r, "OK")
     \/ req[r].pc \in Processing \ {"deduct", "cogs"} /\ Return(r, "ERROR")
  /\ UNCHANGED <<header, lines, deducted, cogs, stock>>

\* A statement throws.  In the filter nobody catches it and the call ends in
\* HTTP 500; postCogsForSale swallows it, and its caller ignores the result;
\* anywhere else processTransaction answers ERROR for this transaction.
StatementFails(r) ==
  /\ Fault("statement")
  /\ \/ req[r].pc = "filter" /\ Goto(r, "failed")
     \/ req[r].pc = "cogs" /\ Return(r, "OK")
     \/ req[r].pc \in Processing \ {"cogs"} /\ Return(r, "ERROR")
  /\ UNCHANGED <<header, lines, deducted, cogs, stock>>

InFlight(r) == req[r].pc \in {"filter"} \cup Processing

\* The API process dies, and every call it was serving with it.
ServerCrash ==
  /\ Fault("crash")
  /\ \E r \in Requests : InFlight(r)
  /\ req' = [r \in Requests |-> IF InFlight(r) THEN [req[r] EXCEPT !.pc = "lost"] ELSE req[r]]
  /\ UNCHANGED <<header, lines, deducted, cogs, stock>>

-----------------------------------------------------------------------------
Step(r) == \/ Filter(r) \/ Check(r) \/ Refuse(r) \/ Insert(r) \/ InsertLines(r)
           \/ ReadDeduction(r) \/ Deduct(r) \/ PostCogs(r) \/ StatementFails(r)

\* What a client may post: any batch of one or two transactions.
Batches == [1 .. 1 -> Entry] \cup [1 .. 2 -> Entry]

Next == \/ \E r \in Requests, batch \in Batches : Receive(r, batch)
        \/ \E r \in Requests : Step(r)
        \/ ServerCrash

Spec == Init /\ [][Next]_serverVars

-----------------------------------------------------------------------------
(* Properties. *)

Request == [pc : PCs, batch : Batches \cup {<<>>}, left : SUBSET {1, 2},
            ans : [{} -> Results] \cup [1 .. 1 -> Results] \cup [1 .. 2 -> Results]]

TypeOK ==
  /\ header \in [Txs -> Payloads \cup {NoPayload}]
  /\ lines \in [Txs -> BOOLEAN]
  /\ deducted \in [Txs -> Nat]
  /\ cogs \in [Txs -> Nat]
  /\ stock \in Nat
  /\ req \in [Requests -> Request]
  /\ faults \in 0 .. MaxFaults

\* Some request is inside processTransaction for t.
Working(t) == \E r \in Requests : req[r].pc \in Processing /\ CurTx(r) = t

\* However often and however concurrently a sale is pushed, its stock is
\* taken once and its cost is posted once, and never without the other order.
ChargedOnce == \A t \in Txs : deducted[t] <= 1 /\ cogs[t] <= deducted[t]

\* The stock is what the recorded movements leave of it: no deduction is lost
\* or half applied by concurrent requests.
StockAccounts ==
  stock + SumFunctionOnSet([t \in Txs |-> deducted[t] * Qty[t]], Txs) = InitialStock

\* An OK stands for this very payload, recorded with its lines and deducted; a
\* DUPLICATE for this very payload, recorded, unless the batch repeats itself.
AnswerIsTrue ==
  \A r \in Requests : \A i \in DOMAIN req[r].batch :
    LET e == req[r].batch[i] IN
    /\ req[r].ans[i] = "OK" => header[e.tx] = e.payload /\ lines[e.tx] /\ deducted[e.tx] = 1
    /\ req[r].ans[i] = "DUPLICATE" =>
         header[e.tx] = e.payload \/ InBatchDuplicate(req[r].batch, i)

\* A document is never replaced by another payload for the same client_tx_id.
DocumentIsFinal ==
  [][\A t \in Txs : header[t] # NoPayload => header'[t] = header[t]]_serverVars

\* A sale that is recorded but not deducted was reported: the client that
\* pushed it got an ERROR, or no answer at all.
UnchargedIsReported ==
  \A t \in Txs :
    header[t] # NoPayload /\ deducted[t] = 0 /\ ~Working(t) =>
      \E r \in Requests : \E i \in DOMAIN req[r].batch :
        /\ req[r].batch[i].tx = t
        /\ req[r].ans[i] = "ERROR" \/ req[r].pc = "lost"

\* What the PRD says of the push: document and journal are one transaction, so
\* a sale that is recorded and that no request works on has its deduction and
\* its journal.
DocumentIsWhole ==
  \A t \in Txs : header[t] # NoPayload /\ ~Working(t) =>
                   lines[t] /\ deducted[t] = 1 /\ cogs[t] = 1
=============================================================================
