--------------------------- MODULE PushServerProofs ---------------------------
(***************************************************************************)
(* What holds of PushServer for any number of requests, sales and faults:  *)
(* the unique index on client_tx_id makes one request the only one that    *)
(* goes past the header of a sale, so what it reads of the deduction holds *)
(* until it charges the sale.                                              *)
(***************************************************************************)
EXTENDS PushServer, SumLemmas, TLAPS

-----------------------------------------------------------------------------
(* The inductive invariant. *)

\* Past the insert of the header.
Past == {"lines", "deduction", "deduct", "cogs"}

\* A request that is being served has a batch; one that is in
\* processTransaction has something left of it.
Ready ==
  \A r \in Requests :
    /\ req[r].pc \in {"filter"} \cup Processing => req[r].batch \in Batches
    /\ req[r].pc \in Processing => req[r].left # {} /\ req[r].left \subseteq DOMAIN req[r].batch

\* One request at most is past the header of a sale, and the header is there.
OneWriter ==
  /\ \A r \in Requests : req[r].pc \in Past => header[CurTx(r)] # NoPayload
  /\ \A r, q \in Requests :
       req[r].pc \in Past /\ req[q].pc \in Past /\ CurTx(r) = CurTx(q) => r = q

\* A sale is charged after its header, and by the request that wrote it.
ChargesAhead ==
  /\ \A t \in Txs : header[t] = NoPayload => deducted[t] = 0
  /\ \A r \in Requests :
       /\ req[r].pc \in {"lines", "deduction", "deduct"} => deducted[CurTx(r)] = 0
       /\ req[r].pc = "cogs" => deducted[CurTx(r)] = 1 /\ cogs[CurTx(r)] = 0

IInv == TypeOK /\ Ready /\ OneWriter /\ ChargesAhead /\ ChargedOnce

-----------------------------------------------------------------------------
(* The transaction a request is at. *)

LEMMA CurType ==
  ASSUME TypeOK, Ready, NEW r \in Requests, req[r].pc \in Processing
  PROVE  /\ Cur(r) \in req[r].left /\ Cur(r) \in DOMAIN req[r].batch
         /\ CurTx(r) \in Txs /\ CurPayload(r) \in Payloads
<1>1. /\ req[r].left # {} /\ req[r].left \subseteq {1, 2}
      /\ req[r].left \subseteq DOMAIN req[r].batch /\ req[r].batch \in Batches
  BY DEF TypeOK, Ready, Request
<1>2. \E i \in req[r].left : \A k \in req[r].left : i <= k
  <2>1. CASE 1 \in req[r].left
    BY <1>1, <2>1
  <2>2. CASE 1 \notin req[r].left
    BY <1>1, <2>2
  <2> QED BY <2>1, <2>2
<1>3. Cur(r) \in req[r].left
  BY <1>2 DEF Cur
<1>4. req[r].batch[Cur(r)] \in Entry
  BY <1>1, <1>3 DEF Batches
<1> QED BY <1>1, <1>3, <1>4 DEF CurTx, CurPayload, Entry

LEMMA CurKept ==
  ASSUME NEW r \in Requests, req'[r].left = req[r].left, req'[r].batch = req[r].batch
  PROVE  CurTx(r)' = CurTx(r)
BY DEF CurTx, Cur

\* What goto and return do to the requests.
LEMMA GotoEffect ==
  ASSUME TypeOK, NEW r \in Requests, NEW where \in PCs, Goto(r, where)
  PROVE  /\ req' \in [Requests -> Request]
         /\ \A q \in Requests : q # r => req'[q] = req[q]
         /\ req'[r].pc = where /\ req'[r].batch = req[r].batch /\ req'[r].left = req[r].left
         /\ req'[r].ans = req[r].ans
BY DEF TypeOK, Request, Goto

LEMMA ReturnEffect ==
  ASSUME TypeOK, NEW r \in Requests, NEW result \in Results, Return(r, result),
         req[r].left # {}, Cur(r) \in req[r].left
  PROVE  /\ req' \in [Requests -> Request]
         /\ \A q \in Requests : q # r => req'[q] = req[q]
         /\ req'[r].pc \in {"answered", "check"} /\ req'[r].batch = req[r].batch
         /\ req'[r].left \subseteq req[r].left
         /\ req'[r].pc = "check" => req'[r].left # {}
         /\ req'[r].ans = [req[r].ans EXCEPT ![Cur(r)] = result]
<1> DEFINE k == [pc |-> IF req[r].left = {Cur(r)} THEN "answered" ELSE "check",
                 batch |-> req[r].batch, left |-> req[r].left \ {Cur(r)},
                 ans |-> [req[r].ans EXCEPT ![Cur(r)] = result]]
<1>1. req[r] \in Request
  BY DEF TypeOK
<1>2. req' = [req EXCEPT ![r] = k]
  <2>1. /\ DOMAIN req' = Requests
        /\ \A q \in Requests : q # r => req'[q] = req[q]
    BY DEF Return, TypeOK
  <2>2. req'[r] = [[[req[r] EXCEPT !.ans[Cur(r)] = result] EXCEPT !.left = @ \ {Cur(r)}]
                     EXCEPT !.pc = IF req[r].left = {Cur(r)} THEN "answered" ELSE "check"]
    BY DEF Return, TypeOK
  <2>3. req'[r] = k
    BY <1>1, <2>2 DEF Request
  <2>4. \A q \in Requests : req'[q] = [req EXCEPT ![r] = k][q]
    BY <2>1, <2>3 DEF TypeOK
  <2>5. req' = [q \in Requests |-> req'[q]]
    BY DEF Return, TypeOK
  <2> HIDE DEF k
  <2> QED BY <2>4, <2>5 DEF TypeOK
<1>3. k \in Request
  <2>1. [req[r].ans EXCEPT ![Cur(r)] = result]
          \in [{} -> Results] \cup [1 .. 1 -> Results] \cup [1 .. 2 -> Results]
    BY <1>1 DEF Request
  <2>2. k.pc \in PCs /\ k.left \subseteq {1, 2}
    BY <1>1 DEF Request, PCs, Processing
  <2> QED BY <1>1, <2>1, <2>2 DEF Request
<1>4. /\ k.pc \in {"answered", "check"} /\ k.batch = req[r].batch
      /\ k.left \subseteq req[r].left /\ (k.pc = "check" => k.left # {})
      /\ k.ans = [req[r].ans EXCEPT ![Cur(r)] = result]
  OBVIOUS
<1> HIDE DEF k
<1> QED BY <1>2, <1>3, <1>4 DEF TypeOK

-----------------------------------------------------------------------------
\* A step of one request that leaves the records alone and does not bring it
\* past a header.
LEMMA RequestStep ==
  ASSUME IInv, NEW r \in Requests, req' \in [Requests -> Request],
         UNCHANGED <<header, deducted, cogs>>, lines' \in [Txs -> BOOLEAN],
         stock' \in Nat, faults' \in 0 .. MaxFaults,
         \A q \in Requests : q # r => req'[q] = req[q],
         req'[r].pc \in {"filter"} \cup Processing => req'[r].batch \in Batches,
         req'[r].pc \in Processing =>
           req'[r].left # {} /\ req'[r].left \subseteq DOMAIN req'[r].batch,
         \/ req'[r].pc \notin Past
         \/ /\ req[r].pc \in Past /\ req'[r].left = req[r].left /\ req'[r].batch = req[r].batch
            /\ req[r].pc # "cogs" /\ req'[r].pc # "cogs"
  PROVE  IInv'
<1>1. TypeOK'
  BY DEF IInv, TypeOK
<1>2. Ready'
  BY DEF IInv, Ready
<1>3. \A q \in Requests : q # r => req'[q].pc = req[q].pc /\ CurTx(q)' = CurTx(q)
  BY CurKept
<1>4. CASE req'[r].pc \notin Past
  <2>1. OneWriter'
    BY <1>3, <1>4 DEF IInv, OneWriter
  <2>2. ChargesAhead'
    BY <1>3, <1>4 DEF IInv, ChargesAhead, Past
  <2> QED BY <1>1, <1>2, <2>1, <2>2 DEF IInv, ChargedOnce
<1>5. CASE req'[r].pc \in Past
  <2>0. CurTx(r)' = CurTx(r)
    BY <1>5, CurKept
  <2>1. OneWriter'
    BY <1>3, <1>5, <2>0 DEF IInv, OneWriter
  <2>2. ChargesAhead'
    BY <1>3, <1>5, <2>0 DEF IInv, ChargesAhead, Past
  <2> QED BY <1>1, <1>2, <2>1, <2>2 DEF IInv, ChargedOnce
<1> QED BY <1>4, <1>5

\* processTransaction returns without touching the records.
LEMMA ReturnStep ==
  ASSUME IInv, NEW r \in Requests, NEW result \in Results, Return(r, result),
         req[r].pc \in Processing, UNCHANGED <<header, lines, deducted, cogs, stock>>,
         faults' \in 0 .. MaxFaults
  PROVE  IInv'
<1>1. Cur(r) \in req[r].left
  BY CurType DEF IInv
<1>2. /\ req' \in [Requests -> Request]
      /\ \A q \in Requests : q # r => req'[q] = req[q]
      /\ req'[r].pc \in {"answered", "check"} /\ req'[r].batch = req[r].batch
      /\ req'[r].left \subseteq req[r].left
      /\ req'[r].pc = "check" => req'[r].left # {}
  BY <1>1, ReturnEffect DEF IInv
<1>3. req[r].batch \in Batches /\ req[r].left \subseteq DOMAIN req[r].batch
  BY DEF IInv, Ready
<1>4. req'[r].pc \notin Past
  BY <1>2 DEF Past
<1>5. req'[r].pc \in Processing =>
           req'[r].left # {} /\ req'[r].left \subseteq DOMAIN req'[r].batch
  BY <1>2, <1>3 DEF Processing
<1>6. lines' \in [Txs -> BOOLEAN] /\ stock' \in Nat
  BY DEF IInv, TypeOK
<1> QED BY <1>2, <1>3, <1>4, <1>5, <1>6, RequestStep

\* processTransaction goes on to a statement that is not the one on the stock
\* or on the journal.
LEMMA GotoStep ==
  ASSUME IInv, NEW r \in Requests, NEW where \in PCs, Goto(r, where),
         \/ req[r].pc \in Processing \ {"cogs"} /\ where \in Processing \ {"cogs"}
            /\ (where \in Past => req[r].pc \in Past)
         \/ where \notin {"filter"} \cup Processing,
         UNCHANGED <<header, deducted, cogs, stock>>, lines' \in [Txs -> BOOLEAN],
         faults' \in 0 .. MaxFaults
  PROVE  IInv'
<1>1. /\ req' \in [Requests -> Request]
      /\ \A q \in Requests : q # r => req'[q] = req[q]
      /\ req'[r].pc = where /\ req'[r].batch = req[r].batch /\ req'[r].left = req[r].left
  BY GotoEffect DEF IInv
<1>2. stock' \in Nat
  BY DEF IInv, TypeOK
<1>3. CASE where \notin {"filter"} \cup Processing
  <2>1. where \notin Past
    BY <1>3 DEF Past, Processing
  <2> QED BY <1>1, <1>2, <1>3, <2>1, RequestStep
<1>4. CASE /\ req[r].pc \in Processing \ {"cogs"} /\ where \in Processing \ {"cogs"}
           /\ (where \in Past => req[r].pc \in Past)
  <2>1. /\ req[r].batch \in Batches
        /\ req[r].left # {} /\ req[r].left \subseteq DOMAIN req[r].batch
    BY <1>4 DEF IInv, Ready
  <2> QED BY <1>1, <1>2, <1>4, <2>1, RequestStep
<1> QED BY <1>3, <1>4

-----------------------------------------------------------------------------
(* The steps of a request. *)

LEMMA BatchDomain ==
  ASSUME NEW batch \in Batches
  PROVE  /\ DOMAIN batch \subseteq {1, 2} /\ \A i \in DOMAIN batch : batch[i] \in Entry
         /\ [DOMAIN batch -> Results] \subseteq [1 .. 1 -> Results] \cup [1 .. 2 -> Results]
BY DEF Batches

LEMMA ReceiveInv ==
  ASSUME IInv, NEW r \in Requests, NEW batch \in Batches, Receive(r, batch)
  PROVE  IInv'
<1> DEFINE k == [pc |-> "filter", batch |-> batch, left |-> {},
                 ans |-> [i \in DOMAIN batch |-> "none"]]
<1>1. k \in Request
  <2>1. [i \in DOMAIN batch |-> "none"] \in [DOMAIN batch -> Results]
    BY DEF Results
  <2> QED BY <2>1, BatchDomain DEF Request, PCs
<1>2. req' = [req EXCEPT ![r] = k] /\ UNCHANGED <<header, lines, deducted, cogs, stock, faults>>
  BY DEF Receive
<1>3. k.pc = "filter" /\ k.batch = batch
  OBVIOUS
<1> HIDE DEF k
<1>4. /\ req' \in [Requests -> Request] /\ req'[r] = k
      /\ \A q \in Requests : q # r => req'[q] = req[q]
  BY <1>1, <1>2 DEF IInv, TypeOK
<1>5. req'[r].pc \notin Processing /\ req'[r].pc \notin Past
  BY <1>3, <1>4 DEF Processing, Past
<1>6. lines' \in [Txs -> BOOLEAN] /\ stock' \in Nat /\ faults' \in 0 .. MaxFaults
  BY <1>2 DEF IInv, TypeOK
<1> QED BY <1>2, <1>3, <1>4, <1>5, <1>6, RequestStep

LEMMA FilterInv ==
  ASSUME IInv, NEW r \in Requests, Filter(r)
  PROVE  IInv'
<1> DEFINE b == req[r].batch
           new == {i \in DOMAIN b : header[b[i].tx] = NoPayload /\ ~InBatchDuplicate(b, i)}
           answer == [i \in DOMAIN b |->
                        IF i \in new THEN "none"
                        ELSE IF header[b[i].tx] = NoPayload THEN "DUPLICATE"
                        ELSE ReplayOutcome(header[b[i].tx], b[i].payload)]
           k == [pc |-> IF new = {} THEN "answered" ELSE "check",
                 batch |-> b, left |-> new, ans |-> answer]
<1>1. b \in Batches /\ req[r] \in Request
  BY DEF Filter, IInv, Ready, TypeOK
<1>2. new \subseteq DOMAIN b
  OBVIOUS
<1>3. answer \in [DOMAIN b -> Results]
  BY DEF Results, ReplayOutcome
<1>4. k \in Request
  BY <1>1, <1>2, <1>3, BatchDomain DEF Request, PCs, Processing
<1>5. UNCHANGED <<header, lines, deducted, cogs, stock, faults>>
  BY DEF Filter
<1>6. /\ DOMAIN req' = Requests /\ \A q \in Requests : q # r => req'[q] = req[q]
      /\ req' = [q \in Requests |-> req'[q]]
  BY DEF Filter, IInv, TypeOK
<1>7. req'[r] = k
  <2>1. req'[r] = [[[req[r] EXCEPT !.left = new] EXCEPT !.ans = answer]
                     EXCEPT !.pc = IF new = {} THEN "answered" ELSE "check"]
    BY DEF Filter, IInv, TypeOK
  <2> HIDE DEF new, answer
  <2> QED BY <1>1, <2>1 DEF Request
<1>8. /\ k.pc \in {"answered", "check"} /\ k.batch = b /\ k.left = new
      /\ k.pc = "check" => new # {}
  OBVIOUS
<1> HIDE DEF k, new, b, answer
<1>9. req' \in [Requests -> Request]
  BY <1>4, <1>6, <1>7 DEF IInv, TypeOK
<1>10. req'[r].pc \in {"filter"} \cup Processing => req'[r].batch \in Batches
  BY <1>1, <1>7, <1>8
<1>11. req'[r].pc \in Processing =>
           req'[r].left # {} /\ req'[r].left \subseteq DOMAIN req'[r].batch
  BY <1>2, <1>7, <1>8 DEF Processing
<1>12. req'[r].pc \notin Past
  BY <1>7, <1>8 DEF Past
<1>13. lines' \in [Txs -> BOOLEAN] /\ stock' \in Nat /\ faults' \in 0 .. MaxFaults
  BY <1>5 DEF IInv, TypeOK
<1> QED BY <1>5, <1>6, <1>9, <1>10, <1>11, <1>12, <1>13, RequestStep

LEMMA CheckInv ==
  ASSUME IInv, NEW r \in Requests, Check(r)
  PROVE  IInv'
<1>1. /\ req[r].pc = "check" /\ UNCHANGED <<header, lines, deducted, cogs, stock, faults>>
      /\ lines' \in [Txs -> BOOLEAN] /\ faults' \in 0 .. MaxFaults
  BY DEF Check, IInv, TypeOK
<1>2. CASE Goto(r, "insert")
  BY <1>1, <1>2, GotoStep DEF PCs, Processing, Past
<1>3. CASE Return(r, ReplayOutcome(header[CurTx(r)], CurPayload(r)))
  <2>1. ReplayOutcome(header[CurTx(r)], CurPayload(r)) \in Results
    BY DEF ReplayOutcome, Results
  <2> QED BY <1>1, <1>3, <2>1, ReturnStep DEF Processing
<1> QED BY <1>2, <1>3 DEF Check

\* The unique index lets r through: no other request is past this header.
LEMMA InsertInv ==
  ASSUME IInv, NEW r \in Requests, Insert(r)
  PROVE  IInv'
<1>1. /\ req[r].pc = "insert" /\ UNCHANGED <<lines, deducted, cogs, stock, faults>>
      /\ CurTx(r) \in Txs /\ CurPayload(r) \in Payloads
      /\ lines' \in [Txs -> BOOLEAN] /\ faults' \in 0 .. MaxFaults
  BY CurType DEF Insert, IInv, TypeOK, Processing
<1>2. CASE UNCHANGED header /\ Return(r, "ERROR")
  BY <1>1, <1>2, ReturnStep DEF Processing, Results
<1>3. CASE /\ header[CurTx(r)] = NoPayload
           /\ header' = [header EXCEPT ![CurTx(r)] = CurPayload(r)] /\ Goto(r, "lines")
  <2>1. "lines" \in PCs
    BY DEF PCs, Processing
  <2>2. /\ req' \in [Requests -> Request]
        /\ \A q \in Requests : q # r => req'[q] = req[q]
        /\ req'[r].pc = "lines" /\ req'[r].batch = req[r].batch /\ req'[r].left = req[r].left
    BY <1>3, <2>1, GotoEffect DEF IInv
  <2>3. \A q \in Requests : CurTx(q)' = CurTx(q)
    BY <2>2, CurKept
  <2>4. header' \in [Txs -> Payloads \cup {NoPayload}]
    BY <1>1, <1>3 DEF IInv, TypeOK
  <2>5. \A t \in Txs : header'[t] = IF t = CurTx(r) THEN CurPayload(r) ELSE header[t]
    BY <1>1, <1>3 DEF IInv, TypeOK
  <2>6. CurPayload(r) # NoPayload
    BY <1>1, PushServerAssumption
  <2>7. \A q \in Requests : req[q].pc \in Past => CurTx(q) # CurTx(r) /\ CurTx(q) \in Txs
    BY <1>3, CurType DEF IInv, OneWriter, Past, Processing
  <2>8. TypeOK'
    BY <1>1, <2>2, <2>4 DEF IInv, TypeOK
  <2>9. Ready'
    BY <1>1, <2>2 DEF IInv, Ready, Processing
  <2>10. OneWriter'
    BY <1>1, <2>2, <2>3, <2>5, <2>6, <2>7 DEF IInv, OneWriter
  <2>11. ChargesAhead'
    BY <1>1, <1>3, <2>2, <2>3, <2>5, <2>6, <2>7 DEF IInv, ChargesAhead, Past
  <2> QED BY <1>1, <2>8, <2>9, <2>10, <2>11 DEF IInv, ChargedOnce
<1> QED BY <1>2, <1>3 DEF Insert

LEMMA DeductInv ==
  ASSUME IInv, NEW r \in Requests, Deduct(r)
  PROVE  IInv'
<1>1. /\ req[r].pc = "deduct" /\ CurTx(r) \in Txs
      /\ deducted[CurTx(r)] = 0 /\ cogs[CurTx(r)] = 0 /\ header[CurTx(r)] # NoPayload
  BY CurType DEF Deduct, IInv, TypeOK, Processing, Past, ChargesAhead, ChargedOnce, OneWriter
<1>2. CASE UNCHANGED <<header, lines, deducted, cogs, stock, faults>> /\ Return(r, "ERROR")
  <2>1. faults' \in 0 .. MaxFaults
    BY <1>2 DEF IInv, TypeOK
  <2> QED BY <1>1, <1>2, <2>1, ReturnStep DEF Processing, Results
<1>3. CASE Enough(r) /\ Take(r, stock - Qty[CurTx(r)]) /\ Goto(r, "cogs")
  <2>1. "cogs" \in PCs
    BY DEF PCs, Processing
  <2>2. /\ req' \in [Requests -> Request]
        /\ \A q \in Requests : q # r => req'[q] = req[q]
        /\ req'[r].pc = "cogs" /\ req'[r].batch = req[r].batch /\ req'[r].left = req[r].left
    BY <1>3, <2>1, GotoEffect DEF IInv
  <2>3. \A q \in Requests : CurTx(q)' = CurTx(q)
    BY <2>2, CurKept
  <2>4. UNCHANGED <<header, lines, cogs, faults>> /\ stock' \in Nat
    <3>1. Qty[CurTx(r)] \in Nat /\ stock \in Nat
      BY <1>1, PushServerAssumption DEF IInv, TypeOK
    <3>2. stock' = stock - Qty[CurTx(r)] /\ stock >= Qty[CurTx(r)]
      BY <1>3 DEF Take, Enough
    <3>3. UNCHANGED <<header, lines, cogs, faults>>
      BY <1>3 DEF Take
    <3> QED BY <3>1, <3>2, <3>3
  <2>5. /\ deducted' \in [Txs -> Nat]
        /\ \A t \in Txs : deducted'[t] = IF t = CurTx(r) THEN 1 ELSE deducted[t]
    BY <1>1, <1>3 DEF IInv, TypeOK, Take
  <2>6. \A q \in Requests : q # r /\ req[q].pc \in Past => CurTx(q) # CurTx(r) /\ CurTx(q) \in Txs
    BY <1>1, CurType DEF IInv, OneWriter, Past, Processing
  <2>7. TypeOK'
    BY <2>2, <2>4, <2>5 DEF IInv, TypeOK
  <2>8. Ready'
    BY <1>1, <2>2 DEF IInv, Ready, Processing
  <2>9. OneWriter'
    BY <1>1, <2>2, <2>3, <2>4 DEF IInv, OneWriter, Past
  <2>10. ChargesAhead'
    BY <1>1, <2>2, <2>3, <2>4, <2>5, <2>6 DEF IInv, ChargesAhead, Past
  <2>11. ChargedOnce'
    BY <1>1, <2>4, <2>5 DEF IInv, ChargedOnce
  <2> QED BY <2>7, <2>8, <2>9, <2>10, <2>11 DEF IInv
<1> QED BY <1>2, <1>3 DEF Deduct

LEMMA PostCogsInv ==
  ASSUME IInv, NEW r \in Requests, PostCogs(r)
  PROVE  IInv'
<1>1. /\ req[r].pc = "cogs" /\ CurTx(r) \in Txs /\ Cur(r) \in req[r].left
      /\ deducted[CurTx(r)] = 1 /\ cogs[CurTx(r)] = 0
      /\ req[r].batch \in Batches /\ req[r].left \subseteq DOMAIN req[r].batch
      /\ UNCHANGED <<header, lines, deducted, stock, faults>> /\ Return(r, "OK")
  BY CurType DEF PostCogs, IInv, TypeOK, Processing, ChargesAhead, Ready
<1>2. "OK" \in Results
  BY DEF Results
<1>3. /\ req' \in [Requests -> Request]
      /\ \A q \in Requests : q # r => req'[q] = req[q]
      /\ req'[r].pc \in {"answered", "check"} /\ req'[r].batch = req[r].batch
      /\ req'[r].left \subseteq req[r].left
      /\ req'[r].pc = "check" => req'[r].left # {}
  BY <1>1, <1>2, ReturnEffect DEF IInv
<1>4. \A q \in Requests : q # r => CurTx(q)' = CurTx(q)
  BY <1>3, CurKept
<1>5. /\ cogs' \in [Txs -> Nat]
      /\ \A t \in Txs : cogs'[t] = IF t = CurTx(r) THEN 1 ELSE cogs[t]
  BY <1>1 DEF IInv, TypeOK, PostCogs
<1>6. \A q \in Requests : q # r /\ req[q].pc \in Past => CurTx(q) # CurTx(r) /\ CurTx(q) \in Txs
  BY <1>1, CurType DEF IInv, OneWriter, Past, Processing
<1>7. TypeOK'
  BY <1>1, <1>3, <1>5 DEF IInv, TypeOK
<1>8. Ready'
  BY <1>1, <1>3 DEF IInv, Ready, Processing
<1>9. OneWriter'
  BY <1>1, <1>3, <1>4 DEF IInv, OneWriter, Past
<1>10. ChargesAhead'
  BY <1>1, <1>3, <1>4, <1>5, <1>6 DEF IInv, ChargesAhead, Past
<1>11. ChargedOnce'
  BY <1>1, <1>5 DEF IInv, ChargedOnce
<1> QED BY <1>7, <1>8, <1>9, <1>10, <1>11 DEF IInv

LEMMA FailsInv ==
  ASSUME IInv, NEW r \in Requests, StatementFails(r)
  PROVE  IInv'
<1>1. /\ UNCHANGED <<header, lines, deducted, cogs, stock>>
      /\ lines' \in [Txs -> BOOLEAN] /\ faults' \in 0 .. MaxFaults
  BY PushServerAssumption DEF StatementFails, Fault, IInv, TypeOK
<1>2. CASE Goto(r, "failed")
  BY <1>1, <1>2, GotoStep DEF PCs, Processing
<1>3. CASE req[r].pc = "cogs" /\ Return(r, "OK")
  BY <1>1, <1>3, ReturnStep DEF Processing, Results
<1>4. CASE req[r].pc \in Processing \ {"cogs"} /\ Return(r, "ERROR")
  BY <1>1, <1>4, ReturnStep DEF Results
<1> QED BY <1>2, <1>3, <1>4 DEF StatementFails

LEMMA CrashInv ==
  ASSUME IInv, ServerCrash
  PROVE  IInv'
<1>1. /\ req' = [r \in Requests |-> IF InFlight(r) THEN [req[r] EXCEPT !.pc = "lost"] ELSE req[r]]
      /\ UNCHANGED <<header, lines, deducted, cogs, stock>> /\ faults' \in 0 .. MaxFaults
  BY PushServerAssumption DEF ServerCrash, Fault, IInv, TypeOK
<1>2. req' \in [Requests -> Request]
  <2>1. \A k \in Request : [k EXCEPT !.pc = "lost"] \in Request
    BY DEF Request, PCs
  <2>2. \A r \in Requests : req[r] \in Request
    BY DEF IInv, TypeOK
  <2> QED BY <1>1, <2>1, <2>2
<1>3. \A r \in Requests : req'[r].pc \notin {"filter"} \cup Processing \cup Past
  BY <1>1 DEF InFlight, Processing, Past, IInv, TypeOK, Request
<1>4. TypeOK'
  BY <1>1, <1>2 DEF IInv, TypeOK
<1>5. Ready' /\ OneWriter'
  BY <1>3 DEF Ready, OneWriter
<1>6. ChargesAhead' /\ ChargedOnce'
  BY <1>1, <1>3 DEF IInv, ChargesAhead, ChargedOnce, Past
<1> QED BY <1>4, <1>5, <1>6 DEF IInv

-----------------------------------------------------------------------------
LEMMA InitInv == Init => IInv
<1> SUFFICES ASSUME Init PROVE IInv
  OBVIOUS
<1>1. <<>> \in [{} -> Results]
  OBVIOUS
<1>2. TypeOK
  BY <1>1, PushServerAssumption DEF Init, TypeOK, Request, PCs
<1>3. Ready /\ OneWriter
  BY DEF Init, Ready, OneWriter, Processing, Past
<1>4. ChargesAhead /\ ChargedOnce
  BY DEF Init, ChargesAhead, ChargedOnce
<1> QED BY <1>2, <1>3, <1>4 DEF IInv

LEMMA NextInv == IInv /\ [Next]_serverVars => IInv'
<1> SUFFICES ASSUME IInv, [Next]_serverVars PROVE IInv'
  OBVIOUS
<1>1. ASSUME NEW r \in Requests, NEW batch \in Batches, Receive(r, batch) PROVE IInv'
  BY <1>1, ReceiveInv
<1>2. ASSUME NEW r \in Requests, Step(r) PROVE IInv'
  <2>1. lines \in [Txs -> BOOLEAN] /\ faults \in 0 .. MaxFaults
    BY DEF IInv, TypeOK
  <2>2. CASE Refuse(r)
    BY <2>1, <2>2, ReturnStep DEF Refuse, Processing, Results
  <2>3. CASE InsertLines(r)
    <3>1. lines' \in [Txs -> BOOLEAN]
      BY <2>1, <2>3 DEF InsertLines
    <3> QED BY <2>1, <2>3, <3>1, GotoStep DEF InsertLines, Processing, Past, PCs
  <2>4. CASE ReadDeduction(r)
    <3>1. CASE Return(r, "OK")
      BY <2>1, <2>4, <3>1, ReturnStep DEF ReadDeduction, Processing, Results
    <3>2. CASE Goto(r, "deduct")
      BY <2>1, <2>4, <3>2, GotoStep DEF ReadDeduction, Processing, Past, PCs
    <3> QED BY <2>4, <3>1, <3>2 DEF ReadDeduction
  <2> QED BY <1>2, <2>2, <2>3, <2>4, FilterInv, CheckInv, InsertInv, DeductInv, PostCogsInv,
             FailsInv DEF Step
<1>3. CASE ServerCrash
  BY <1>3, CrashInv
<1>4. CASE UNCHANGED serverVars
  <2>1. \A q \in Requests : CurTx(q)' = CurTx(q)
    BY <1>4, CurKept DEF serverVars
  <2> QED BY <1>4, <2>1 DEF serverVars, IInv, TypeOK, Ready, OneWriter, ChargesAhead, ChargedOnce
<1> QED BY <1>1, <1>2, <1>3, <1>4 DEF Next

THEOREM Invariance == Spec => []IInv
BY InitInv, NextInv, PTL DEF Spec

\* The rows and the requests keep their types, the stock never falls below zero
\* (processTransaction, resolveAndDeductForPosTransaction).
THEOREM ServerTyped == Spec => []TypeOK
<1>1. IInv => TypeOK
  BY DEF IInv
<1> QED BY <1>1, Invariance, PTL

\* However many requests push a sale and whichever statements fail, it is
\* deducted once and its cost is posted once, after the deduction.
THEOREM NoDoubleCharge == Spec => []ChargedOnce
<1>1. IInv => ChargedOnce
  BY DEF IInv
<1> QED BY <1>1, Invariance, PTL

\* The document of a client_tx_id is never replaced (insertPosTransaction).
THEOREM FinalDocument == Spec => DocumentIsFinal
<1> DEFINE Kept == \A t \in Txs : header[t] # NoPayload => header'[t] = header[t]
<1>1. IInv /\ [Next]_serverVars => [Kept]_serverVars
  <2> SUFFICES ASSUME IInv, Next PROVE Kept
    BY DEF serverVars
  <2>1. ASSUME NEW r \in Requests, Insert(r) PROVE Kept
    BY <2>1 DEF Insert, IInv, TypeOK
  <2>2. CASE UNCHANGED header
    BY <2>2
  <2> QED BY <2>1, <2>2 DEF Next, Step, Receive, Filter, Check, Refuse, InsertLines,
             ReadDeduction, Deduct, Take, PostCogs, StatementFails, ServerCrash
<1> QED BY <1>1, Invariance, PTL DEF Spec, DocumentIsFinal

-----------------------------------------------------------------------------
(* What the answers say. *)

\* The answers of a request are true, and the document it is at is its own.
Truthful(r) ==
  /\ DOMAIN req[r].ans = DOMAIN req[r].batch
  /\ req[r].pc \in Past => header[CurTx(r)] = CurPayload(r)
  /\ req[r].pc \in {"deduction", "deduct", "cogs"} => lines[CurTx(r)]
  /\ \A i \in DOMAIN req[r].batch :
       LET e == req[r].batch[i] IN
       /\ req[r].ans[i] = "OK" => header[e.tx] = e.payload /\ lines[e.tx] /\ deducted[e.tx] = 1
       /\ req[r].ans[i] = "DUPLICATE" =>
            header[e.tx] = e.payload \/ InBatchDuplicate(req[r].batch, i)

AInv == IInv /\ \A r \in Requests : Truthful(r)

\* Documents, lines and deductions stay.
Grows == \A t \in Txs : /\ header[t] # NoPayload => header'[t] = header[t]
                        /\ lines[t] => lines'[t]
                        /\ deducted[t] = 1 => deducted'[t] = 1

LEMMA NextGrows ==
  ASSUME IInv, [Next]_serverVars
  PROVE  Grows
<1>1. ASSUME NEW r \in Requests, Insert(r) PROVE Grows
  BY <1>1 DEF Insert, Grows, IInv, TypeOK
<1>2. ASSUME NEW r \in Requests, InsertLines(r) PROVE Grows
  BY <1>2 DEF InsertLines, Grows, IInv, TypeOK
<1>3. ASSUME NEW r \in Requests, Deduct(r) PROVE Grows
  <2>1. deducted[CurTx(r)] = 0
    BY <1>3 DEF Deduct, IInv, ChargesAhead
  <2> QED BY <1>3, <2>1 DEF Deduct, Take, Grows, IInv, TypeOK
<1>4. CASE UNCHANGED <<header, lines, deducted>>
  BY <1>4 DEF Grows
<1> QED BY <1>1, <1>2, <1>3, <1>4 DEF Next, Step, Receive, Filter, Check, Refuse,
           ReadDeduction, PostCogs, StatementFails, ServerCrash, serverVars

\* A request that got no answer and did not go on to another part stays truthful.
LEMMA TruthKept ==
  ASSUME AInv, IInv', Grows, NEW r \in Requests,
         req'[r].batch = req[r].batch, req'[r].left = req[r].left, req'[r].ans = req[r].ans,
         req'[r].pc \in Past => header'[CurTx(r)] = CurPayload(r),
         req'[r].pc \in {"deduction", "deduct", "cogs"} => lines'[CurTx(r)]
  PROVE  Truthful(r)'
<1>1. CurTx(r)' = CurTx(r) /\ CurPayload(r)' = CurPayload(r)
  BY DEF CurTx, CurPayload, Cur
<1>2. ASSUME NEW i \in DOMAIN req[r].batch
      PROVE  req[r].batch[i] \in Entry
  <2>1. req[r].batch \in Batches \cup {<<>>}
    BY DEF AInv, IInv, TypeOK, Request
  <2>2. CASE req[r].batch = <<>>
    BY <1>2, <2>2
  <2> QED BY <1>2, <2>1, <2>2, BatchDomain
<1>3. \A i \in DOMAIN req[r].batch :
        LET e == req[r].batch[i] IN
        /\ req[r].ans[i] = "OK" => header'[e.tx] = e.payload /\ lines'[e.tx] /\ deducted'[e.tx] = 1
        /\ req[r].ans[i] = "DUPLICATE" =>
             header'[e.tx] = e.payload \/ InBatchDuplicate(req[r].batch, i)
  BY <1>2, PushServerAssumption DEF AInv, Truthful, Grows, Entry
<1> QED BY <1>1, <1>3 DEF AInv, Truthful

\* A request whose current transaction is answered, truly, stays truthful.
LEMMA TruthReturned ==
  ASSUME AInv, IInv', Grows, NEW r \in Requests, NEW result \in Results, Return(r, result),
         req[r].pc \in Processing,
         result = "OK" => /\ header'[CurTx(r)] = CurPayload(r)
                          /\ lines'[CurTx(r)] /\ deducted'[CurTx(r)] = 1,
         result = "DUPLICATE" => header'[CurTx(r)] = CurPayload(r)
  PROVE  Truthful(r)'
<1>1. /\ Cur(r) \in req[r].left /\ Cur(r) \in DOMAIN req[r].batch
      /\ req[r].batch \in Batches
  BY CurType DEF AInv, IInv, Ready
<1>2. /\ req'[r].pc \notin Past
      /\ req'[r].batch = req[r].batch
      /\ req'[r].ans = [req[r].ans EXCEPT ![Cur(r)] = result]
  BY <1>1, ReturnEffect DEF AInv, IInv, Past
<1>3. DOMAIN req[r].ans = DOMAIN req[r].batch
  BY DEF AInv, Truthful
<1>4. ASSUME NEW i \in DOMAIN req[r].batch
      PROVE  LET e == req[r].batch[i] IN
             /\ req'[r].ans[i] = "OK" =>
                  header'[e.tx] = e.payload /\ lines'[e.tx] /\ deducted'[e.tx] = 1
             /\ req'[r].ans[i] = "DUPLICATE" =>
                  header'[e.tx] = e.payload \/ InBatchDuplicate(req[r].batch, i)
  <2>1. CASE i = Cur(r)
    BY <1>2, <1>3, <2>1 DEF CurTx, CurPayload
  <2>2. CASE i # Cur(r)
    <3>1. req'[r].ans[i] = req[r].ans[i] /\ req[r].batch[i] \in Entry
      BY <1>1, <1>2, <1>3, <2>2, BatchDomain
    <3> QED BY <3>1, PushServerAssumption DEF AInv, Truthful, Grows, Entry
  <2> QED BY <2>1, <2>2
<1> QED BY <1>2, <1>3, <1>4 DEF Truthful, Past

\* A step of one request keeps the others truthful, and itself.
LEMMA StepTruthful ==
  ASSUME AInv, IInv', Grows, NEW r \in Requests, Step(r), NEW q \in Requests
  PROVE  Truthful(q)'
<1>1. CASE q # r
  <2>1. req'[q] = req[q]
    BY <1>1 DEF Step, Filter, Check, Refuse, Insert, InsertLines, ReadDeduction, Deduct, PostCogs,
                StatementFails, Goto, Return, AInv, IInv, TypeOK
  <2>2. /\ req[q].pc \in Past => CurTx(q) \in Txs /\ header[CurTx(q)] # NoPayload
                                 /\ header[CurTx(q)] = CurPayload(q)
        /\ req[q].pc \in {"deduction", "deduct", "cogs"} => CurTx(q) \in Txs /\ lines[CurTx(q)]
    BY CurType DEF AInv, IInv, OneWriter, Truthful, Past, Processing
  <2> QED BY <2>1, <2>2, TruthKept DEF Grows
<1>2. CASE q = r
  <2>0. /\ req[r].pc \in Processing => CurTx(r) \in Txs /\ CurPayload(r) \in Payloads
        /\ req[r].pc \in Past => header[CurTx(r)] = CurPayload(r)
        /\ req[r].pc \in {"deduction", "deduct", "cogs"} => lines[CurTx(r)]
    BY CurType DEF AInv, IInv, Truthful
  <2>1. CASE Filter(r)
    <3>1. /\ req'[r].batch = req[r].batch /\ UNCHANGED <<header, lines, deducted>>
          /\ req'[r].pc \notin Past
          /\ DOMAIN req'[r].ans = DOMAIN req[r].batch
          /\ \A i \in DOMAIN req[r].batch :
               /\ req'[r].ans[i] # "OK"
               /\ req'[r].ans[i] = "DUPLICATE" =>
                    \/ header[req[r].batch[i].tx] = req[r].batch[i].payload
                    \/ InBatchDuplicate(req[r].batch, i)
      BY <2>1 DEF Filter, ReplayOutcome, Past, AInv, IInv, TypeOK, Request
    <3> QED BY <1>2, <3>1 DEF Truthful, Past
  <2>2. CASE Check(r)
    <3>1. req[r].pc = "check" /\ UNCHANGED header
      BY <2>2 DEF Check
    <3>2. CASE Goto(r, "insert")
      <4>1. /\ req'[r].pc = "insert" /\ req'[r].batch = req[r].batch
            /\ req'[r].left = req[r].left /\ req'[r].ans = req[r].ans
        BY <3>2, GotoEffect DEF AInv, IInv, PCs, Processing
      <4> QED BY <1>2, <4>1, TruthKept DEF Past
    <3>3. CASE Return(r, ReplayOutcome(header[CurTx(r)], CurPayload(r)))
      <4>1. \/ header[CurTx(r)] = CurPayload(r) /\ Return(r, "DUPLICATE")
            \/ Return(r, "ERROR")
        BY <3>3 DEF ReplayOutcome
      <4> QED BY <1>2, <3>1, <4>1, TruthReturned DEF Processing, Results
    <3> QED BY <2>2, <3>2, <3>3 DEF Check
  <2>3. CASE Refuse(r)
    BY <1>2, <2>3, TruthReturned DEF Refuse, Processing, Results
  <2>4. CASE Insert(r)
    <3>1. CASE Return(r, "ERROR")
      BY <1>2, <2>4, <3>1, TruthReturned DEF Insert, Processing, Results
    <3>2. CASE header' = [header EXCEPT ![CurTx(r)] = CurPayload(r)] /\ Goto(r, "lines")
      <4>1. /\ req'[r].pc = "lines" /\ req'[r].batch = req[r].batch
            /\ req'[r].left = req[r].left /\ req'[r].ans = req[r].ans
        BY <3>2, GotoEffect DEF AInv, IInv, PCs, Processing
      <4>2. header'[CurTx(r)] = CurPayload(r)
        BY <2>0, <2>4, <3>2 DEF Insert, AInv, IInv, TypeOK, Processing
      <4> QED BY <1>2, <4>1, <4>2, TruthKept
    <3> QED BY <2>4, <3>1, <3>2 DEF Insert
  <2>5. CASE InsertLines(r)
    <3>1. /\ req'[r].pc = "deduction" /\ req'[r].batch = req[r].batch
          /\ req'[r].left = req[r].left /\ req'[r].ans = req[r].ans
      BY <2>5, GotoEffect DEF InsertLines, AInv, IInv, PCs, Processing
    <3>2. header'[CurTx(r)] = CurPayload(r) /\ lines'[CurTx(r)]
      BY <2>0, <2>5 DEF InsertLines, AInv, IInv, TypeOK, Past, Processing
    <3> QED BY <1>2, <3>1, <3>2, TruthKept
  <2>6. CASE ReadDeduction(r)
    <3>1. req[r].pc = "deduction" /\ UNCHANGED <<header, lines>> /\ deducted[CurTx(r)] = 0
      BY <2>6 DEF ReadDeduction, AInv, IInv, ChargesAhead
    <3>2. Goto(r, "deduct")
      BY <2>6, <3>1 DEF ReadDeduction
    <3>3. /\ req'[r].pc = "deduct" /\ req'[r].batch = req[r].batch
          /\ req'[r].left = req[r].left /\ req'[r].ans = req[r].ans
      BY <3>2, GotoEffect DEF AInv, IInv, PCs, Processing
    <3> QED BY <1>2, <2>0, <3>1, <3>3, TruthKept DEF Past
  <2>7. CASE Deduct(r)
    <3>1. req[r].pc = "deduct" /\ UNCHANGED <<header, lines>>
      BY <2>7 DEF Deduct, Take
    <3>2. CASE Return(r, "ERROR")
      BY <1>2, <3>1, <3>2, TruthReturned DEF Processing, Results
    <3>3. CASE Goto(r, "cogs")
      <4>1. /\ req'[r].pc = "cogs" /\ req'[r].batch = req[r].batch
            /\ req'[r].left = req[r].left /\ req'[r].ans = req[r].ans
        BY <3>3, GotoEffect DEF AInv, IInv, PCs, Processing
      <4> QED BY <1>2, <2>0, <3>1, <4>1, TruthKept DEF Past
    <3> QED BY <2>7, <3>2, <3>3 DEF Deduct
  <2>8. CASE PostCogs(r)
    <3>1. /\ req[r].pc = "cogs" /\ UNCHANGED <<header, lines, deducted>> /\ Return(r, "OK")
          /\ deducted[CurTx(r)] = 1
      BY <2>8 DEF PostCogs, AInv, IInv, ChargesAhead
    <3> QED BY <1>2, <2>0, <3>1, TruthReturned DEF Processing, Results, Past
  <2>9. CASE StatementFails(r)
    <3>1. UNCHANGED <<header, lines, deducted>>
      BY <2>9 DEF StatementFails
    <3>2. CASE Goto(r, "failed")
      <4>1. /\ req'[r].pc = "failed" /\ req'[r].batch = req[r].batch
            /\ req'[r].left = req[r].left /\ req'[r].ans = req[r].ans
        BY <3>2, GotoEffect DEF AInv, IInv, PCs
      <4> QED BY <1>2, <4>1, TruthKept DEF Past
    <3>3. CASE req[r].pc = "cogs" /\ Return(r, "OK")
      <4>1. deducted[CurTx(r)] = 1
        BY <3>3 DEF AInv, IInv, ChargesAhead
      <4> QED BY <1>2, <2>0, <3>1, <3>3, <4>1, TruthReturned DEF Processing, Results, Past
    <3>4. CASE req[r].pc \in Processing /\ Return(r, "ERROR")
      BY <1>2, <3>4, TruthReturned DEF Results
    <3> QED BY <2>9, <3>2, <3>3, <3>4 DEF StatementFails
  <2> QED BY <2>1, <2>2, <2>3, <2>4, <2>5, <2>6, <2>7, <2>8, <2>9 DEF Step
<1> QED BY <1>1, <1>2

LEMMA NextTruthful == AInv /\ [Next]_serverVars => AInv'
<1> SUFFICES ASSUME AInv, [Next]_serverVars PROVE AInv'
  OBVIOUS
<1>1. IInv' /\ Grows
  BY NextInv, NextGrows DEF AInv
<1> SUFFICES ASSUME NEW q \in Requests PROVE Truthful(q)'
  BY <1>1 DEF AInv
<1>2. /\ req[q].pc \in Past => CurTx(q) \in Txs /\ header[CurTx(q)] # NoPayload
                               /\ header[CurTx(q)] = CurPayload(q)
      /\ req[q].pc \in {"deduction", "deduct", "cogs"} => CurTx(q) \in Txs /\ lines[CurTx(q)]
  BY CurType DEF AInv, IInv, OneWriter, Truthful, Past, Processing
<1>3. CASE \E r \in Requests : Step(r)
  BY <1>1, <1>3, StepTruthful
<1>4. ASSUME NEW r \in Requests, NEW batch \in Batches, Receive(r, batch)
      PROVE  Truthful(q)'
  <2>1. CASE q = r
    <3>1. req'[r] = [pc |-> "filter", batch |-> batch, left |-> {},
                     ans |-> [i \in DOMAIN batch |-> "none"]]
      BY <1>4 DEF Receive, AInv, IInv, TypeOK
    <3> QED BY <2>1, <3>1 DEF Truthful, Past
  <2>2. CASE q # r
    <3>1. req'[q] = req[q]
      BY <1>4, <2>2 DEF Receive, AInv, IInv, TypeOK
    <3> QED BY <1>1, <1>2, <3>1, TruthKept DEF Grows
  <2> QED BY <2>1, <2>2
<1>5. CASE ServerCrash
  <2>1. /\ req'[q].batch = req[q].batch /\ req'[q].left = req[q].left /\ req'[q].ans = req[q].ans
        /\ req'[q].pc \in {req[q].pc, "lost"}
    BY <1>5 DEF ServerCrash, AInv, IInv, TypeOK, Request
  <2> QED BY <1>1, <1>2, <2>1, TruthKept DEF Grows, Past
<1>6. CASE UNCHANGED serverVars
  <2>1. req'[q] = req[q]
    BY <1>6 DEF serverVars
  <2> QED BY <1>1, <1>2, <2>1, TruthKept DEF Grows
<1> QED BY <1>3, <1>4, <1>5, <1>6 DEF Next

\* An OK stands for this payload, recorded with its lines and deducted, and a
\* DUPLICATE for this payload: what the till deletes its job for is there
\* (processTransaction, determineReplayOutcome).
THEOREM TrueAnswers == Spec => []AnswerIsTrue
<1>1. Init => AInv
  <2>1. Init => \A r \in Requests : Truthful(r)
    BY DEF Init, Truthful, Past
  <2> QED BY <2>1, InitInv DEF AInv
<1>2. AInv => AnswerIsTrue
  BY DEF AInv, Truthful, AnswerIsTrue
<1> QED BY <1>1, <1>2, NextTruthful, PTL DEF Spec

-----------------------------------------------------------------------------
(* The stock. *)

\* The deductions of the sales, in units.
Taken == [t \in Txs |-> deducted[t] * Qty[t]]

\* Only a deduction changes the stock or what is deducted, and it changes both.
LEMMA StockKept ==
  ASSUME IInv, StockAccounts, [Next]_serverVars
  PROVE  StockAccounts'
<1>1. CASE UNCHANGED <<deducted, stock>>
  BY <1>1 DEF StockAccounts
<1>2. ASSUME NEW r \in Requests, Deduct(r), Take(r, stock - Qty[CurTx(r)])
      PROVE  StockAccounts'
  <2>1. /\ CurTx(r) \in Txs /\ deducted \in [Txs -> Nat] /\ stock \in Nat
        /\ Qty \in [Txs -> Nat \ {0}] /\ InitialStock \in Nat
    BY <1>2, CurType, PushServerAssumption DEF Deduct, Processing, IInv, TypeOK
  <2>2. /\ stock' = stock - Qty[CurTx(r)]
        /\ deducted' = [deducted EXCEPT ![CurTx(r)] = @ + 1]
    BY <1>2 DEF Take
  <2>3. deducted' \in [Txs -> Nat] /\ deducted'[CurTx(r)] = deducted[CurTx(r)] + 1
    BY <2>1, <2>2
  <2>4. \A i, k \in Nat : i * k \in Int /\ (i + 1) * k = i * k + k
    OBVIOUS
  <2>5. \A t \in Txs : Taken[t] \in Int /\ Taken'[t] \in Int
    BY <2>1, <2>3, <2>4 DEF Taken
  <2>6. \A t \in Txs \ {CurTx(r)} : Taken'[t] = Taken[t]
    BY <2>1, <2>2 DEF Taken
  <2>7. Taken'[CurTx(r)] = Taken[CurTx(r)] + Qty[CurTx(r)]
    BY <2>1, <2>3, <2>4 DEF Taken
  <2>8. SumFunctionOnSet(Taken', Txs)
          = SumFunctionOnSet(Taken, Txs) + Taken'[CurTx(r)] - Taken[CurTx(r)]
    BY <2>1, <2>5, <2>6, SumChange, PushServerAssumption
  <2>9. SumFunctionOnSet(Taken, Txs) \in Int
    BY <2>5, SumType, PushServerAssumption
  <2>10. stock + SumFunctionOnSet(Taken, Txs) = InitialStock
    BY DEF StockAccounts, Taken
  <2>11. stock' + SumFunctionOnSet(Taken', Txs) = InitialStock
    BY <2>1, <2>2, <2>5, <2>7, <2>8, <2>9, <2>10
  <2> QED BY <2>11 DEF StockAccounts, Taken
<1> QED BY <1>1, <1>2 DEF Next, Step, Receive, Filter, Check, Refuse, Insert, InsertLines,
           ReadDeduction, Deduct, PostCogs, StatementFails, ServerCrash, serverVars

\* The stock is what the recorded movements leave of it, for any number of
\* sales and concurrent requests (resolveAndDeductForPosTransaction).
THEOREM StockIsAccounted == Spec => []StockAccounts
<1>1. Init => IInv /\ StockAccounts
  <2> SUFFICES ASSUME Init PROVE StockAccounts
    BY InitInv
  <2> DEFINE zero == [t \in Txs |-> deducted[t] * Qty[t]]
  <2>1. \A t \in Txs : zero[t] = 0
    BY PushServerAssumption DEF Init
  <2>2. SumFunctionOnSet(zero, Txs) = 0
    <3> HIDE DEF zero
    <3> QED BY <2>1, SumZero, PushServerAssumption
  <2> QED BY <2>2, PushServerAssumption DEF Init, StockAccounts
<1>2. IInv /\ StockAccounts /\ [Next]_serverVars => (IInv /\ StockAccounts)'
  BY NextInv, StockKept
<1> QED BY <1>1, <1>2, PTL DEF Spec

-----------------------------------------------------------------------------
(* What is recorded and not charged is reported. *)

\* Before a request was received it has no transactions, and the transactions
\* that have no answer yet are those of a batch in the filter, or what is left
\* of one that is being processed.
Unanswered ==
  \A r \in Requests :
    /\ DOMAIN req[r].ans = DOMAIN req[r].batch
    /\ req[r].pc = "unsent" => req[r].batch = <<>>
    /\ req[r].pc = "filter" => \A i \in DOMAIN req[r].batch : req[r].ans[i] = "none"
    /\ req[r].pc \in Processing => \A i \in req[r].left : req[r].ans[i] = "none"
    /\ req[r].pc = "answered" => req[r].left = {}
    /\ req[r].pc \in Processing \cup {"answered"} =>
         \A i \in DOMAIN req[r].batch : req[r].ans[i] = "none" => i \in req[r].left

\* A request is between the header and the deduction of t, or past it.
Charging(t) == \E r \in Requests : req[r].pc \in Past /\ CurTx(r) = t

\* Entry i of request r says that something went wrong, or nobody answers it.
Fails(r, i) == req[r].ans[i] = "ERROR" \/ req[r].pc = "lost"

Reported(t) == \E r \in Requests : \E i \in DOMAIN req[r].batch :
                 req[r].batch[i].tx = t /\ Fails(r, i)

Accounted == \A t \in Txs : header[t] # NoPayload /\ deducted[t] = 0 => Charging(t) \/ Reported(t)

RInv == IInv /\ Unanswered /\ Accounted

\* What a step does to its request.
LEMMA StepForms ==
  ASSUME NEW r \in Requests, Step(r)
  PROVE  \/ Filter(r)
         \/ req[r].pc = "filter" /\ Goto(r, "failed")
         \/ req[r].pc \in Processing /\ \E where \in Processing : Goto(r, where)
         \/ req[r].pc \in Processing /\ \E result \in Results \ {"none"} : Return(r, result)
<1>1. CASE StatementFails(r)
  BY <1>1 DEF StatementFails, Processing, Results
<1>2. CASE Check(r)
  BY <1>2 DEF Check, ReplayOutcome, Processing, Results
<1>3. CASE Refuse(r) \/ Insert(r) \/ InsertLines(r)
  BY <1>3 DEF Refuse, Insert, InsertLines, Processing, Results
<1>4. CASE ReadDeduction(r) \/ Deduct(r) \/ PostCogs(r)
  BY <1>4 DEF ReadDeduction, Deduct, PostCogs, Processing, Results
<1> QED BY <1>1, <1>2, <1>3, <1>4 DEF Step

\* A step keeps the batch of its request, keeps its failures, and answers
\* nothing that is still left.
LEMMA StepAnswers ==
  ASSUME IInv, Unanswered, NEW r \in Requests, Step(r)
  PROVE  /\ \A q \in Requests : q # r => req'[q] = req[q]
         /\ req[r].pc # "lost" /\ req'[r].batch = req[r].batch
         /\ req'[r].pc \notin {"unsent", "filter"}
         /\ DOMAIN req'[r].ans = DOMAIN req[r].batch
         /\ \A i \in DOMAIN req[r].batch : req[r].ans[i] = "ERROR" => req'[r].ans[i] = "ERROR"
         /\ req'[r].pc \in Processing => \A i \in req'[r].left : req'[r].ans[i] = "none"
         /\ req'[r].pc = "answered" => req'[r].left = {}
         /\ req'[r].pc \in Processing \cup {"answered"} =>
              \A i \in DOMAIN req[r].batch : req'[r].ans[i] = "none" => i \in req'[r].left
<1>1. CASE Filter(r)
  <2>1. req[r].pc = "filter" /\ req[r].batch \in Batches /\ req[r] \in Request
    BY <1>1 DEF Filter, IInv, Ready, TypeOK
  <2>2. \A i \in DOMAIN req[r].batch : req[r].ans[i] = "none"
    BY <2>1 DEF Unanswered
  <2> DEFINE b == req[r].batch
             new == {i \in DOMAIN b : header[b[i].tx] = NoPayload /\ ~InBatchDuplicate(b, i)}
             given == [i \in DOMAIN b |->
                         IF i \in new THEN "none"
                         ELSE IF header[b[i].tx] = NoPayload THEN "DUPLICATE"
                         ELSE ReplayOutcome(header[b[i].tx], b[i].payload)]
  <2>3. req' = [req EXCEPT ![r].left = new, ![r].ans = given,
                           ![r].pc = IF new = {} THEN "answered" ELSE "check"]
    BY <1>1 DEF Filter
  <2>4. /\ DOMAIN given = DOMAIN b
        /\ new \subseteq DOMAIN b /\ \A i \in new : given[i] = "none"
        /\ \A i \in DOMAIN b : given[i] = "none" => i \in new
    BY DEF ReplayOutcome
  <2> HIDE DEF new, given
  <2>5. /\ \A q \in Requests : q # r => req'[q] = req[q]
        /\ req'[r].batch = req[r].batch /\ req'[r].left = new /\ req'[r].ans = given
        /\ req'[r].pc \in {"answered", "check"}
        /\ req'[r].pc = "answered" => new = {}
    BY <2>1, <2>3 DEF IInv, TypeOK, Request
  <2> QED BY <2>1, <2>2, <2>4, <2>5
<1>2. CASE req[r].pc = "filter" /\ Goto(r, "failed")
  <2>1. /\ \A q \in Requests : q # r => req'[q] = req[q]
        /\ req'[r].pc = "failed" /\ req'[r].batch = req[r].batch
        /\ req'[r].left = req[r].left /\ req'[r].ans = req[r].ans
    BY <1>2, GotoEffect DEF IInv, PCs
  <2> QED BY <1>2, <2>1 DEF Unanswered, Processing
<1>3. ASSUME req[r].pc \in Processing, NEW where \in Processing, Goto(r, where)
      PROVE  /\ \A q \in Requests : q # r => req'[q] = req[q]
             /\ req'[r].batch = req[r].batch /\ req'[r].pc = where
             /\ req'[r].left = req[r].left /\ req'[r].ans = req[r].ans
  BY <1>3, GotoEffect DEF IInv, PCs
<1>4. ASSUME req[r].pc \in Processing, NEW result \in Results, Return(r, result)
      PROVE  /\ \A q \in Requests : q # r => req'[q] = req[q]
             /\ req'[r].batch = req[r].batch /\ req'[r].pc \in {"answered", "check"}
             /\ req'[r].left = req[r].left \ {Cur(r)}
             /\ req'[r].pc = "answered" => req'[r].left = {}
             /\ req'[r].ans = [req[r].ans EXCEPT ![Cur(r)] = result]
             /\ req[r].ans[Cur(r)] = "none"
  <2>1. Cur(r) \in req[r].left
    BY <1>4, CurType DEF IInv
  <2>2. /\ req'[r].left = req[r].left \ {Cur(r)}
        /\ req'[r].pc = "answered" => req[r].left = {Cur(r)}
    <3>1. req[r] \in Request
      BY DEF IInv, TypeOK
    <3> QED BY <1>4, <3>1 DEF Return, IInv, TypeOK, Request
  <2> QED BY <1>4, <2>1, <2>2, ReturnEffect DEF IInv, Unanswered
<1>5. CASE req[r].pc \in Processing /\ \E where \in Processing : Goto(r, where)
  BY <1>3, <1>5 DEF Unanswered, Processing
<1>6. CASE req[r].pc \in Processing /\ \E result \in Results \ {"none"} : Return(r, result)
  <2>1. DOMAIN req[r].ans = DOMAIN req[r].batch
    BY DEF Unanswered
  <2>2. /\ \A i \in req[r].left : req[r].ans[i] = "none" /\ i \in DOMAIN req[r].batch
        /\ \A i \in DOMAIN req[r].batch : req[r].ans[i] = "none" => i \in req[r].left
    BY <1>6 DEF Unanswered, IInv, Ready
  <2>3. PICK result \in Results \ {"none"} : Return(r, result)
    BY <1>6
  <2>4. /\ \A q \in Requests : q # r => req'[q] = req[q]
        /\ req'[r].batch = req[r].batch /\ req'[r].pc \in {"answered", "check"}
        /\ req'[r].left = req[r].left \ {Cur(r)}
        /\ req'[r].pc = "answered" => req'[r].left = {}
        /\ req'[r].ans = [req[r].ans EXCEPT ![Cur(r)] = result]
        /\ req[r].ans[Cur(r)] = "none"
    BY <1>4, <1>6, <2>3
  <2>5. \A i \in DOMAIN req[r].batch :
          req'[r].ans[i] = IF i = Cur(r) THEN result ELSE req[r].ans[i]
    BY <2>1, <2>4
  <2>6. \A i \in DOMAIN req[r].batch : req[r].ans[i] = "ERROR" => req'[r].ans[i] = "ERROR"
    BY <2>4, <2>5
  <2>7. \A i \in req'[r].left : req'[r].ans[i] = "none"
    BY <2>2, <2>4, <2>5
  <2>8. \A i \in DOMAIN req[r].batch : req'[r].ans[i] = "none" => i \in req'[r].left
    BY <2>2, <2>3, <2>4, <2>5
  <2>9. DOMAIN req'[r].ans = DOMAIN req[r].batch
    BY <2>1, <2>4
  <2>10. req[r].pc # "lost" /\ req'[r].pc \notin {"unsent", "filter"}
    BY <1>6, <2>4 DEF Processing
  <2> QED BY <2>4, <2>6, <2>7, <2>8, <2>9, <2>10
<1> QED BY <1>1, <1>2, <1>5, <1>6, StepForms

\* A failure that was reported stays reported.
LEMMA ReportedStays ==
  ASSUME RInv, [Next]_serverVars, NEW t \in Txs, Reported(t)
  PROVE  Reported(t)'
<1>1. PICK q \in Requests : \E i \in DOMAIN req[q].batch :
                               req[q].batch[i].tx = t /\ Fails(q, i)
  BY DEF Reported
<1>2. PICK i \in DOMAIN req[q].batch : req[q].batch[i].tx = t /\ Fails(q, i)
  BY <1>1
<1> SUFFICES req'[q].batch = req[q].batch /\ Fails(q, i)'
  BY <1>2 DEF Reported
<1>3. ASSUME NEW r \in Requests, Step(r)
      PROVE  req'[q].batch = req[q].batch /\ Fails(q, i)'
  BY <1>2, <1>3, StepAnswers DEF Fails, RInv
<1>4. ASSUME NEW r \in Requests, NEW batch \in Batches, Receive(r, batch)
      PROVE  req'[q].batch = req[q].batch /\ Fails(q, i)'
  <2>1. req[r].pc = "unsent" /\ req[r].batch = <<>>
    BY <1>4 DEF Receive, RInv, Unanswered
  <2>2. q # r
    BY <1>2, <2>1
  <2>3. req'[q] = req[q]
    BY <1>4, <2>2 DEF Receive, RInv, IInv, TypeOK
  <2> QED BY <1>2, <2>3 DEF Fails
<1>5. CASE ServerCrash
  <2>1. req'[q] = IF InFlight(q) THEN [req[q] EXCEPT !.pc = "lost"] ELSE req[q]
    BY <1>5 DEF ServerCrash
  <2>2. req[q] \in Request
    BY DEF RInv, IInv, TypeOK
  <2> QED BY <1>2, <2>1, <2>2 DEF Fails, Request
<1>6. CASE UNCHANGED serverVars
  BY <1>2, <1>6 DEF Fails, serverVars
<1> QED BY <1>3, <1>4, <1>5, <1>6 DEF Next

LEMMA UnansweredKept ==
  ASSUME IInv, Unanswered, [Next]_serverVars
  PROVE  Unanswered'
<1>1. ASSUME NEW r \in Requests, Step(r) PROVE Unanswered'
  BY <1>1, StepAnswers DEF Unanswered
<1>2. ASSUME NEW r \in Requests, NEW batch \in Batches, Receive(r, batch) PROVE Unanswered'
  <2>1. /\ req'[r] = [pc |-> "filter", batch |-> batch, left |-> {},
                      ans |-> [i \in DOMAIN batch |-> "none"]]
        /\ \A q \in Requests : q # r => req'[q] = req[q]
    BY <1>2 DEF Receive, IInv, TypeOK
  <2> QED BY <2>1 DEF Unanswered, Processing
<1>3. CASE ServerCrash
  <2>1. \A q \in Requests : /\ req'[q].batch = req[q].batch /\ req'[q].left = req[q].left
                            /\ req'[q].ans = req[q].ans /\ req'[q].pc \in {req[q].pc, "lost"}
    BY <1>3 DEF ServerCrash, IInv, TypeOK, Request
  <2> QED BY <2>1 DEF Unanswered, Processing
<1>4. CASE UNCHANGED serverVars
  BY <1>4 DEF serverVars, Unanswered
<1> QED BY <1>1, <1>2, <1>3, <1>4 DEF Next

\* The request that is charging t goes on with it, charges it, or reports it.
LEMMA ChargingEnds ==
  ASSUME RInv, NEW r \in Requests, NEW t \in Txs, Step(r), req[r].pc \in Past, CurTx(r) = t,
         deducted[t] = 0, deducted'[t] = 0
  PROVE  Charging(t)' \/ Reported(t)'
<1>1. req[r].pc \in {"lines", "deduction", "deduct"} /\ req[r].pc \in Processing
  BY DEF Past, Processing, RInv, IInv, ChargesAhead
<1>2. Cur(r) \in DOMAIN req[r].batch /\ Cur(r) \in req[r].left
  BY <1>1, CurType DEF RInv, IInv
<1>3. ASSUME Return(r, "ERROR") PROVE Reported(t)'
  <2>1. req'[r].batch = req[r].batch /\ req'[r].ans = [req[r].ans EXCEPT ![Cur(r)] = "ERROR"]
    BY <1>2, <1>3, ReturnEffect DEF RInv, IInv, Results
  <2>2. req'[r].batch[Cur(r)].tx = t /\ req'[r].ans[Cur(r)] = "ERROR"
    BY <1>2, <2>1 DEF CurTx, RInv, Unanswered
  <2>3. \E q \in Requests : \E i \in DOMAIN req'[q].batch :
          req'[q].batch[i].tx = t /\ (req'[q].ans[i] = "ERROR" \/ req'[q].pc = "lost")
    BY <1>2, <2>1, <2>2
  <2> QED BY <2>3 DEF Reported, Fails
<1>4. ASSUME NEW where \in Past, Goto(r, where) PROVE Charging(t)'
  <2>1. /\ req'[r].pc = where /\ req'[r].batch = req[r].batch /\ req'[r].left = req[r].left
    BY <1>4, GotoEffect DEF RInv, IInv, Past, PCs, Processing
  <2>2. CurTx(r)' = t
    BY <2>1, CurKept
  <2> QED BY <2>1, <2>2 DEF Charging
<1>5. \/ Return(r, "ERROR")
      \/ \E where \in Past : Goto(r, where)
  <2>1. CASE InsertLines(r)
    BY <2>1 DEF InsertLines, Past
  <2>2. CASE ReadDeduction(r)
    BY <2>2 DEF ReadDeduction, Past
  <2>3. CASE Deduct(r)
    BY <2>3 DEF Deduct, Past
  <2>4. CASE StatementFails(r)
    BY <1>1, <2>4 DEF StatementFails
  <2> QED BY <1>1, <2>1, <2>2, <2>3, <2>4
          DEF Step, Filter, Check, Refuse, Insert, PostCogs
<1> QED BY <1>3, <1>4, <1>5

LEMMA AccountedKept ==
  ASSUME RInv, [Next]_serverVars
  PROVE  Accounted'
<1> SUFFICES ASSUME NEW t \in Txs, header'[t] # NoPayload, deducted'[t] = 0
             PROVE  Charging(t)' \/ Reported(t)'
  BY DEF Accounted
<1>0. deducted[t] = 0
  <2>1. deducted[t] \in Nat /\ deducted[t] <= 1
    BY DEF RInv, IInv, TypeOK, ChargedOnce
  <2>2. deducted[t] # 1
    BY NextGrows DEF RInv, Grows
  <2> QED BY <2>1, <2>2
<1>1. CASE header[t] = NoPayload
  <2>1. PICK r \in Requests : Insert(r) /\ CurTx(r) = t
    BY <1>1 DEF Next, Step, Receive, Filter, Check, Refuse, Insert, InsertLines, ReadDeduction,
                Deduct, Take, PostCogs, StatementFails, ServerCrash, serverVars, RInv, IInv, TypeOK
  <2>2. Goto(r, "lines")
    BY <1>1, <2>1 DEF Insert
  <2>3. /\ req'[r].pc = "lines" /\ req'[r].batch = req[r].batch /\ req'[r].left = req[r].left
    BY <2>2, GotoEffect DEF RInv, IInv, PCs, Processing
  <2>4. CurTx(r)' = t
    BY <2>1, <2>3, CurKept
  <2> QED BY <2>3, <2>4 DEF Charging, Past
<1>2. CASE header[t] # NoPayload /\ Reported(t)
  BY <1>2, ReportedStays
<1>3. ASSUME NEW q \in Requests, req[q].pc \in Past, CurTx(q) = t
      PROVE  Charging(t)' \/ Reported(t)'
  <2>1. ASSUME req'[q] = req[q] PROVE Charging(t)'
    BY <1>3, <2>1, CurKept DEF Charging
  <2>2. ASSUME NEW r \in Requests, Step(r) PROVE Charging(t)' \/ Reported(t)'
    <3>1. CASE r = q
      BY <1>0, <1>3, <2>2, <3>1, ChargingEnds
    <3>2. CASE r # q
      BY <2>1, <2>2, <3>2, StepAnswers DEF RInv
    <3> QED BY <3>1, <3>2
  <2>3. ASSUME NEW r \in Requests, NEW batch \in Batches, Receive(r, batch)
        PROVE  Charging(t)'
    BY <1>3, <2>1, <2>3 DEF Receive, RInv, IInv, TypeOK, Past
  <2>4. CASE ServerCrash
    <3>1. /\ req'[q].pc = "lost" /\ req'[q].batch = req[q].batch
      BY <1>3, <2>4 DEF ServerCrash, InFlight, Past, Processing, RInv, IInv, TypeOK, Request
    <3>2. Cur(q) \in DOMAIN req[q].batch /\ req[q].batch[Cur(q)].tx = t
      BY <1>3, CurType DEF RInv, IInv, Past, Processing, CurTx
    <3>3. \E i \in DOMAIN req'[q].batch : req'[q].batch[i].tx = t /\ req'[q].pc = "lost"
      BY <3>1, <3>2
    <3> QED BY <3>3 DEF Reported, Fails
  <2>5. CASE UNCHANGED serverVars
    BY <2>1, <2>5 DEF serverVars
  <2> QED BY <2>2, <2>3, <2>4, <2>5 DEF Next
<1>4. CASE header[t] # NoPayload /\ ~Reported(t)
  BY <1>0, <1>3, <1>4 DEF RInv, Accounted, Charging
<1> QED BY <1>1, <1>2, <1>4

\* A sale that is recorded and not deducted, and that no request works on, was
\* answered ERROR or not at all: no failure of processTransaction and no crash
\* of the server loses a deduction without a trace.
THEOREM UnchargedReported == Spec => []UnchargedIsReported
<1>1. Init => RInv
  <2> SUFFICES ASSUME Init PROVE Unanswered /\ Accounted
    BY InitInv DEF RInv
  <2> QED BY DEF Init, Unanswered, Accounted, Processing
<1>2. RInv /\ [Next]_serverVars => RInv'
  BY NextInv, UnansweredKept, AccountedKept DEF RInv
<1>3. RInv => UnchargedIsReported
  <2>1. Past \subseteq Processing
    BY DEF Past, Processing
  <2> QED BY <2>1 DEF RInv, Accounted, Charging, Reported, Fails, Working, UnchargedIsReported
<1> QED BY <1>1, <1>2, <1>3, PTL DEF Spec

-----------------------------------------------------------------------------
(* What one step adds to the records: what a module that adds the till has to  *)
(* know of it.                                                                 *)

\* A step of a request writes one document, for its sale, or one deduction, or
\* neither.
LEMMA RecordStep ==
  ASSUME IInv, NEW r \in Requests, Step(r)
  PROVE  \/ header' = header /\ deducted' = deducted
         \/ /\ req[r].pc = "insert" /\ CurTx(r) \in Txs
            /\ header[CurTx(r)] = NoPayload /\ CurPayload(r) # NoPayload
            /\ header' = [header EXCEPT ![CurTx(r)] = CurPayload(r)]
            /\ deducted' = deducted
         \/ /\ req[r].pc = "deduct" /\ CurTx(r) \in Txs
            /\ header[CurTx(r)] # NoPayload /\ deducted[CurTx(r)] = 0
            /\ deducted' = [deducted EXCEPT ![CurTx(r)] = 1]
            /\ header' = header
<1>1. CASE Insert(r) /\ ~UNCHANGED header
  BY <1>1, CurType, PushServerAssumption DEF Insert, Processing, IInv
<1>2. CASE Insert(r) /\ UNCHANGED header
  BY <1>2 DEF Insert
<1>3. CASE Deduct(r) /\ ~UNCHANGED deducted
  <2>1. /\ CurTx(r) \in Txs /\ header[CurTx(r)] # NoPayload /\ deducted[CurTx(r)] = 0
    BY <1>3, CurType DEF Deduct, Processing, Past, IInv, OneWriter, ChargesAhead
  <2> QED BY <1>3, <2>1 DEF Deduct, Take
<1>4. CASE Deduct(r) /\ UNCHANGED deducted
  BY <1>4 DEF Deduct, Take
<1> QED BY <1>1, <1>2, <1>3, <1>4 DEF Step, Filter, Check, Refuse, InsertLines, ReadDeduction,
           PostCogs, StatementFails

\* r is the only request that was ever received for sale t, and it carries
\* nothing else: the document is there from its insert on, and it is nobody's
\* duplicate.
Sole(r, t) ==
  /\ header[t] # NoPayload => req[r].pc \in Past \cup {"answered", "lost"}
  /\ \A i \in DOMAIN req[r].batch : req[r].ans[i] # "DUPLICATE"

LEMMA SoleStep ==
  ASSUME IInv, Unanswered, NEW r \in Requests, Step(r), NEW t,
         DOMAIN req[r].batch = {1}, req[r].batch[1].tx = t, Sole(r, t)
  PROVE  Sole(r, t)'
<1>1. req[r].pc \in Processing => Cur(r) = 1 /\ CurTx(r) = t /\ t \in Txs
  BY CurType DEF IInv, CurTx
<1>2. req[r].pc \in {"filter", "check", "insert"} => header[t] = NoPayload
  BY DEF Sole, Past
<1>3. /\ req'[r].batch = req[r].batch /\ DOMAIN req[r].ans = {1}
  BY StepAnswers DEF Unanswered
<1>4. ASSUME NEW result \in Results \ {"none", "DUPLICATE"}, req[r].pc \in Processing,
             Return(r, result)
      PROVE  Sole(r, t)'
  <2>1. Cur(r) \in req[r].left /\ req[r].left \subseteq {1}
    BY <1>4, CurType DEF IInv, Ready
  <2>2. req[r].left = {Cur(r)}
    BY <1>1, <1>4, <2>1
  <2>3. req'[r].ans = [req[r].ans EXCEPT ![Cur(r)] = result]
    BY <1>4, <2>1, ReturnEffect DEF IInv
  <2>4. req'[r].pc = "answered"
    BY <1>4, <2>2, ReturnEffect, <2>1 DEF IInv, Return, TypeOK, Request
  <2> QED BY <1>1, <1>3, <1>4, <2>3, <2>4 DEF Sole
<1>5. ASSUME NEW where \in Processing, Goto(r, where), req[r].pc \in Processing,
             where \in Past \/ header'[t] = NoPayload
      PROVE  Sole(r, t)'
  <2>1. req'[r].pc = where /\ req'[r].ans = req[r].ans
    BY <1>5, GotoEffect DEF IInv, PCs
  <2>2. \A i \in DOMAIN req'[r].batch : req'[r].ans[i] # "DUPLICATE"
    BY <1>3, <2>1 DEF Sole
  <2> QED BY <1>5, <2>1, <2>2 DEF Sole
<1>6. CASE Filter(r)
  <2>1. header[t] = NoPayload /\ header' = header
    BY <1>2, <1>6 DEF Filter
  <2>2. ~InBatchDuplicate(req[r].batch, 1)
    BY DEF InBatchDuplicate
  <2> DEFINE b == req[r].batch
             new == {i \in DOMAIN b : header[b[i].tx] = NoPayload /\ ~InBatchDuplicate(b, i)}
             given == [i \in DOMAIN b |->
                         IF i \in new THEN "none"
                         ELSE IF header[b[i].tx] = NoPayload THEN "DUPLICATE"
                         ELSE ReplayOutcome(header[b[i].tx], b[i].payload)]
  <2>4. req' = [req EXCEPT ![r].left = new, ![r].ans = given,
                           ![r].pc = IF new = {} THEN "answered" ELSE "check"]
    BY <1>6 DEF Filter
  <2>5. given[1] = "none"
    BY <2>1, <2>2
  <2>6. req[r] \in Request /\ req \in [Requests -> Request]
    BY DEF IInv, TypeOK
  <2>3. req'[r].ans[1] = "none"
    <3> HIDE DEF new, given
    <3> QED BY <2>4, <2>5, <2>6 DEF Request
  <2> QED BY <1>3, <2>1, <2>3 DEF Sole
<1>7. CASE Check(r)
  <2>1. header[t] = NoPayload /\ header' = header /\ Goto(r, "insert")
    BY <1>1, <1>2, <1>7 DEF Check, Processing
  <2> QED BY <1>5, <1>7, <2>1 DEF Check, Processing
<1>8. CASE Refuse(r)
  BY <1>4, <1>8 DEF Refuse, Processing, Results
<1>9. CASE Insert(r)
  <2>1. Goto(r, "lines")
    BY <1>1, <1>2, <1>9 DEF Insert, Processing
  <2> QED BY <1>5, <1>9, <2>1 DEF Insert, Processing, Past
<1>10. CASE InsertLines(r)
  BY <1>5, <1>10 DEF InsertLines, Processing, Past
<1>11. CASE ReadDeduction(r)
  BY <1>4, <1>5, <1>11 DEF ReadDeduction, Processing, Past, Results
<1>12. CASE Deduct(r)
  BY <1>4, <1>5, <1>12 DEF Deduct, Processing, Past, Results
<1>13. CASE PostCogs(r)
  BY <1>4, <1>13 DEF PostCogs, Processing, Results
<1>14. CASE StatementFails(r)
  <2>1. CASE req[r].pc = "filter" /\ Goto(r, "failed")
    <3>1. header'[t] = NoPayload
      BY <1>2, <1>14, <2>1 DEF StatementFails
    <3>2. req'[r].ans = req[r].ans
      BY <2>1, GotoEffect DEF IInv, PCs
    <3> QED BY <1>3, <3>1, <3>2 DEF Sole
  <2>2. CASE req[r].pc \in Processing /\ (Return(r, "OK") \/ Return(r, "ERROR"))
    BY <1>4, <2>2 DEF Results
  <2> QED BY <1>14, <2>1, <2>2 DEF StatementFails, Processing
<1> QED BY <1>6, <1>7, <1>8, <1>9, <1>10, <1>11, <1>12, <1>13, <1>14 DEF Step
=============================================================================
