-------------------------- MODULE SyncPipelineProofs --------------------------
(***************************************************************************)
(* What holds of the tills and the server together, for any number of      *)
(* sales, drains, retries and faults: SyncPipeline implements Delivery.    *)
(*                                                                         *)
(* The invariants of the two parts are theirs (OutboxProofs,               *)
(* PushServerProofs): every step of the pipeline is a step of each part or *)
(* leaves it alone.  What is added is the link between them: what a        *)
(* request carries, and what an answer that reached a till stands for.     *)
(***************************************************************************)
EXTENDS SyncPipeline, FiniteSetTheorems, TLAPS

TillP == INSTANCE OutboxProofs WITH TxJobs <- Sales, OrderJobs <- {}, CancelJobs <- {},
           FaultKinds <- TillFaults, MaxFaults <- MaxTillFaults, faults <- tillFaults

ServerP == INSTANCE PushServerProofs WITH Txs <- Sales, Payloads <- {"sale"},
             NoPayload <- "none", FaultKinds <- ServerFaults,
             MaxFaults <- MaxServerFaults, faults <- serverFaults

-----------------------------------------------------------------------------
(* The steps of the parts. *)

LEMMA TillAssumption ==
  /\ Sales \cap {} = {}
  /\ IsFiniteSet(Drains) /\ IsFiniteSet(Sales) /\ IsFiniteSet({})
  /\ MaxRetryAttempts \in Nat \ {0}
  /\ BatchSize \in Nat \ {0} /\ SendConcurrency \in Nat \ {0}
  /\ WebLocks \in BOOLEAN
  /\ TillFaults \subseteq {"crash", "storage", "stall"}
  /\ MaxTillFaults \in Nat
BY PipelineAssumption, FS_EmptySet

LEMMA ServerAssumption ==
  /\ IsFiniteSet(Sales)
  /\ "none" \notin {"sale"}
  /\ Qty \in [Sales -> Nat \ {0}]
  /\ InitialStock \in Nat
  /\ ServerFaults \subseteq {"statement", "crash"}
  /\ MaxServerFaults \in Nat
BY PipelineAssumption

\* A body posted by a till is a batch the server may receive.
LEMMA BodyType ==
  ASSUME NEW j \in Sales
  PROVE  /\ Body(j) \in ServerP!Batches /\ DOMAIN Body(j) = {1}
         /\ Body(j)[1] = [tx |-> j, payload |-> "sale"]
<1>1. Body(j) \in [1 .. 1 -> ServerP!Entry]
  BY DEF Body, ServerP!Entry
<1> QED BY <1>1 DEF Body, ServerP!Batches

LEMMA TillLocal == Till!Local => TillP!Local
BY Zenon DEF
  Till!Local, Till!CompleteSale, Till!VoidSale, Till!EnqueueOrderUpdate, Till!RequestPush,
  Till!DropRequest, Till!StartDrain, Till!StartNext, Till!EndDrain, Till!Crash, Till!LocalStep,
  Till!Renew, Till!StorageError, Till!LeaseExpires, Till!BecomeDue, Till!Jobs, Till!IsDue,
  Till!IsLeaseActive, Till!Selected, Till!Active, Till!Heartbeat, Till!Reserve, Till!GiveUp,
  Till!MarkSent, Till!MarkFailed, Till!MarkRow, Till!MarkCancellation, Till!Goto,
  Till!Return, Till!Reserved, Till!Claim, Till!NextAttempt, Till!Fenced, Till!Patched,
  Till!Backoff, Till!Fault, Till!Holds,
  TillP!Local, TillP!CompleteSale, TillP!VoidSale, TillP!EnqueueOrderUpdate, TillP!RequestPush,
  TillP!DropRequest, TillP!StartDrain, TillP!StartNext, TillP!EndDrain, TillP!Crash,
  TillP!LocalStep, TillP!Renew, TillP!StorageError, TillP!LeaseExpires, TillP!BecomeDue,
  TillP!Jobs, TillP!IsDue, TillP!IsLeaseActive, TillP!Selected, TillP!Active,
  TillP!Heartbeat, TillP!Reserve, TillP!GiveUp, TillP!MarkSent, TillP!MarkFailed,
  TillP!MarkRow, TillP!MarkCancellation, TillP!Goto, TillP!Return, TillP!Reserved,
  TillP!Claim, TillP!NextAttempt, TillP!Fenced, TillP!Patched, TillP!Backoff, TillP!Fault, TillP!Holds,
  Cardinality, Till!Cardinality, TillP!Cardinality

LEMMA TillSend ==
  ASSUME NEW d \in Drains, NEW j \in Sales, Till!Send(d, j)
  PROVE  TillP!Send(d, j)
BY Zenon DEF Till!Send, TillP!Send, Till!Goto, TillP!Goto

LEMMA TillAnswer ==
  ASSUME NEW d \in Drains, NEW j \in Sales, NEW outcome, Till!Answer(d, j, outcome)
  PROVE  outcome \in TillP!Outcomes /\ TillP!Answer(d, j, outcome)
BY Zenon DEF Till!Answer, TillP!Answer, Till!Goto, TillP!Goto, TillP!Outcomes

LEMMA ServerStep ==
  ASSUME NEW r \in Requests, Server!Step(r)
  PROVE  ServerP!Step(r)
BY Zenon DEF
  Server!Step, Server!Filter, Server!Check, Server!Refuse, Server!Insert, Server!InsertLines,
  Server!ReadDeduction, Server!Deduct, Server!PostCogs, Server!StatementFails, Server!Goto,
  Server!Return, Server!Cur, Server!CurTx, Server!CurPayload, Server!ReplayOutcome, Server!Take,
  Server!Enough, Server!Fault, Server!Processing, Server!InBatchDuplicate,
  ServerP!Step, ServerP!Filter, ServerP!Check, ServerP!Refuse, ServerP!Insert,
  ServerP!InsertLines, ServerP!ReadDeduction, ServerP!Deduct, ServerP!PostCogs,
  ServerP!StatementFails, ServerP!Goto, ServerP!Return, ServerP!Cur, ServerP!CurTx,
  ServerP!CurPayload, ServerP!ReplayOutcome, ServerP!Take, ServerP!Enough, ServerP!Fault,
  ServerP!Processing, ServerP!InBatchDuplicate

LEMMA ServerCrashes == Server!ServerCrash => ServerP!ServerCrash
BY Zenon DEF Server!ServerCrash, Server!Fault, Server!InFlight, Server!Processing,
  ServerP!ServerCrash, ServerP!Fault, ServerP!InFlight, ServerP!Processing

LEMMA ServerReceives ==
  ASSUME NEW r \in Requests, NEW j \in Sales, Server!Receive(r, Body(j))
  PROVE  ServerP!Receive(r, Body(j))
BY Zenon DEF Server!Receive, ServerP!Receive

-----------------------------------------------------------------------------
(* The link between the parts. *)

\* A request carries the sale it is named for, which is completed, and the till
\* has reserved the attempt.
Posted ==
  \A r \in Requests : req[r].pc # "unsent" =>
    /\ req[r].batch = Body(r[1])
    /\ job[r[1]].status # "NONE"
    /\ r[2] <= job[r[1]].attempts

\* What the server has, or a till was told that it has, is there.
RecordedIsPlaced == \A j \in Sales : header[j] # "none" => job[j].status # "NONE"
AckedIsRecorded == \A d \in Drains, j \in Sales : pc[d][j] = "acked" => header[j] # "none"

\* As long as a sale had one attempt, no other request is there to be answered
\* DUPLICATE for it.
FirstIsSole ==
  \A j \in Sales : job[j].attempts <= 1 => ServerP!Sole(<<j, 1>>, j)

\* An acknowledged first attempt stands for the sale as a whole.
FirstIsCharged ==
  \A d \in Drains, j \in Sales :
    pc[d][j] = "acked" /\ att[d][j] = 1 => job[j].attempts > 1 \/ (lines[j] /\ deducted[j] = 1)

Parts == TillP!IInv /\ ServerP!AInv /\ ServerP!Unanswered

Link == /\ Posted /\ RecordedIsPlaced /\ AckedIsRecorded /\ SentIsRecorded
        /\ FirstIsSole /\ FirstIsCharged /\ SentAtOnceIsCharged

-----------------------------------------------------------------------------
(* Every step is a step of each part. *)

LEMMA JobsAreSales == TillP!Jobs = Sales
BY DEF TillP!Jobs

LEMMA RequestType ==
  ASSUME TillP!IInv, NEW d \in Drains, NEW j \in Sales, pc[d][j] \in TillP!Heartbeat
  PROVE  /\ RequestOf(d, j) \in Requests
         /\ att[d][j] \in 1 .. MaxRetryAttempts /\ att[d][j] <= job[j].attempts
BY JobsAreSales DEF TillP!IInv, TillP!AttemptFitsPhase, TillP!AttemptsAreOwned, RequestOf, Requests

LEMMA TillNext == Next => [TillP!Next]_(TillP!vars)
<1> SUFFICES ASSUME Next PROVE [TillP!Next]_(TillP!vars)
  OBVIOUS
<1>1. CASE Till!Local
  BY <1>1, TillLocal DEF TillP!Next
<1>2. ASSUME NEW d \in Drains, NEW j \in Sales, Exchange(d, j)
      PROVE  TillP!Next
  <2>1. Till!Send(d, j) \/ \E outcome : Till!Answer(d, j, outcome)
    BY <1>2 DEF Exchange, Post, Reply, NoReply
  <2> QED BY <2>1, TillSend, TillAnswer, JobsAreSales DEF TillP!Next
<1>3. CASE UNCHANGED tillVars
  BY <1>3 DEF tillVars, TillP!vars
<1> QED BY <1>1, <1>2, <1>3 DEF Next

LEMMA ServerNext == TillP!IInv /\ Next => [ServerP!Next]_(ServerP!serverVars)
<1> SUFFICES ASSUME TillP!IInv, Next PROVE [ServerP!Next]_(ServerP!serverVars)
  OBVIOUS
<1>1. CASE UNCHANGED serverVars
  BY <1>1 DEF serverVars, ServerP!serverVars
<1>2. ASSUME NEW d \in Drains, NEW j \in Sales, Exchange(d, j), ~UNCHANGED serverVars
      PROVE  ServerP!Next
  <2>1. Till!Send(d, j) /\ Server!Receive(RequestOf(d, j), Body(j))
    BY <1>2 DEF Exchange, Post, Reply, NoReply
  <2>2. pc[d][j] \in TillP!Heartbeat
    BY <2>1 DEF Till!Send, TillP!Heartbeat
  <2>3. RequestOf(d, j) \in Requests
    BY <2>2, RequestType
  <2> QED BY <2>1, <2>3, ServerReceives, BodyType DEF ServerP!Next
<1>3. CASE (\E r \in Requests : Server!Step(r)) \/ Server!ServerCrash
  BY <1>3, ServerStep, ServerCrashes DEF ServerP!Next
<1> QED BY <1>1, <1>2, <1>3 DEF Next

LEMMA PartsInit == Init => Parts
<1> SUFFICES ASSUME Init PROVE Parts
  OBVIOUS
<1>1. TillP!Init
  BY DEF Init, Till!Init, TillP!Init, Till!Jobs, TillP!Jobs
<1>2. ServerP!Init
  BY DEF Init, Server!Init, ServerP!Init
<1>3. TillP!IInv
  BY <1>1, TillP!InitInv, TillAssumption DEF IsFiniteSet, TillP!IsFiniteSet
<1>4. ServerP!IInv
  BY <1>2, ServerP!InitInv, ServerAssumption DEF IsFiniteSet, ServerP!IsFiniteSet
<1>5. ServerP!AInv /\ ServerP!Unanswered
  BY <1>2, <1>4 DEF ServerP!Init, ServerP!AInv, ServerP!Truthful, ServerP!Past,
                    ServerP!Unanswered, ServerP!Processing
<1> QED BY <1>3, <1>5 DEF Parts

LEMMA PartsNext == Parts /\ [Next]_vars => Parts'
<1> SUFFICES ASSUME Parts, [Next]_vars PROVE Parts'
  OBVIOUS
<1>1. [TillP!Next]_(TillP!vars)
  BY TillNext DEF vars, tillVars, TillP!vars
<1>2. [ServerP!Next]_(ServerP!serverVars)
  BY ServerNext DEF Parts, vars, serverVars, ServerP!serverVars
<1>3. TillP!IInv'
  BY <1>1, TillP!StepInv, TillAssumption DEF Parts, IsFiniteSet, TillP!IsFiniteSet
<1>4. ServerP!AInv'
  BY <1>2, ServerP!NextTruthful, ServerAssumption DEF Parts, IsFiniteSet, ServerP!IsFiniteSet
<1>5. ServerP!Unanswered'
  BY <1>2, ServerP!UnansweredKept, ServerAssumption
     DEF Parts, ServerP!AInv, IsFiniteSet, ServerP!IsFiniteSet
<1> QED BY <1>3, <1>4, <1>5 DEF Parts

-----------------------------------------------------------------------------
(* The steps, each with what it leaves of the link. *)

\* What a step that is none of the server's does to the rows.
LEMMA RowChange ==
  ASSUME Parts, Till!Local, NEW j \in Sales
  PROVE  /\ job'[j].attempts \in Nat /\ job[j].attempts \in Nat
         /\ job'[j].attempts >= job[j].attempts
         /\ job[j].status # "NONE" => job'[j].status # "NONE"
         /\ job[j].status = "SENT" => job'[j].status = "SENT" /\ job'[j].attempts = job[j].attempts
         /\ job'[j].status = "SENT" /\ job[j].status # "SENT" =>
              /\ \E d \in Drains : pc[d][j] = "acked" /\ att[d][j] = job[j].attempts
              /\ job'[j].attempts = job[j].attempts
<1>1. TillP!Local /\ TillP!OneRow
  BY TillLocal, TillP!LocalRow, TillAssumption DEF Parts, IsFiniteSet, TillP!IsFiniteSet
<1>2. job[j].attempts \in Nat
  BY JobsAreSales DEF Parts, TillP!IInv, TillP!TypeOK, TillP!JobRow
<1>3. job'[j] = job[j] \/ TillP!RowStep(j)
  BY <1>1, JobsAreSales DEF TillP!OneRow
<1> QED BY <1>2, <1>3 DEF TillP!RowStep

LEMMA LocalLink ==
  ASSUME Parts, Link, Till!Local, UNCHANGED serverVars
  PROVE  Link'
<1>1. ASSUME NEW d \in Drains, NEW j \in Sales, pc'[d][j] = "acked"
      PROVE  pc[d][j] = "acked" /\ att'[d][j] = att[d][j]
  BY <1>1, TillLocal, TillP!LocalAcked, TillAssumption, JobsAreSales
     DEF Parts, IsFiniteSet, TillP!IsFiniteSet
<1>2. ASSUME NEW r \in Requests PROVE r[1] \in Sales /\ r[2] \in Nat
  BY PipelineAssumption DEF Requests
<1>3. Posted'
  BY <1>2, RowChange DEF Link, Posted, serverVars
<1>4. RecordedIsPlaced' /\ AckedIsRecorded'
  BY <1>1, RowChange DEF Link, RecordedIsPlaced, AckedIsRecorded, serverVars
<1>5. SentIsRecorded'
  BY RowChange DEF Link, SentIsRecorded, AckedIsRecorded, serverVars
<1>6. FirstIsSole'
  <2> SUFFICES ASSUME NEW j \in Sales, job'[j].attempts <= 1 PROVE ServerP!Sole(<<j, 1>>, j)'
    BY DEF FirstIsSole
  <2>1. ServerP!Sole(<<j, 1>>, j)
    BY RowChange DEF Link, FirstIsSole
  <2> QED BY <2>1 DEF serverVars, ServerP!Sole
<1>7. FirstIsCharged'
  <2> SUFFICES ASSUME NEW d \in Drains, NEW j \in Sales, pc'[d][j] = "acked", att'[d][j] = 1
               PROVE  job'[j].attempts > 1 \/ (lines'[j] /\ deducted'[j] = 1)
    BY DEF FirstIsCharged
  <2> QED BY <1>1, RowChange DEF Link, FirstIsCharged, serverVars
<1>8. SentAtOnceIsCharged'
  <2> SUFFICES ASSUME NEW j \in Sales, job'[j].status = "SENT", job'[j].attempts = 1
               PROVE  lines'[j] /\ deducted'[j] = 1
    BY DEF SentAtOnceIsCharged
  <2>1. CASE job[j].status = "SENT"
    BY <2>1, RowChange DEF Link, SentAtOnceIsCharged, serverVars
  <2>2. CASE job[j].status # "SENT"
    BY <2>2, RowChange DEF Link, FirstIsCharged, serverVars
  <2> QED BY <2>1, <2>2
<1> QED BY <1>3, <1>4, <1>5, <1>6, <1>7, <1>8 DEF Link

\* The answer to a request is about the sale it is named for.
LEMMA AnswerOf ==
  ASSUME Parts, Link, NEW r \in Requests, req[r].pc = "answered", req[r].ans[1] # "ERROR"
  PROVE  /\ header[r[1]] # "none"
         /\ req[r].ans[1] = "DUPLICATE" \/ (lines[r[1]] /\ deducted[r[1]] = 1)
<1> DEFINE b == req[r].batch
<1>1. b = Body(r[1]) /\ r[1] \in Sales
  BY DEF Link, Posted, Requests
<1>2. DOMAIN b = {1} /\ b[1].tx = r[1] /\ b[1].payload = "sale"
  <2>1. DOMAIN b = {1} /\ b[1] = [tx |-> r[1], payload |-> "sale"]
    BY <1>1, BodyType
  <2> QED BY <2>1
<1>3. req[r].left = {} /\ DOMAIN req[r].ans = {1} /\ req[r].ans[1] # "none"
  BY <1>2 DEF Parts, ServerP!Unanswered
<1>4. req[r].ans \in [1 .. 1 -> ServerP!Results]
  <2>1. req[r].ans \in [{} -> ServerP!Results] \cup [1 .. 1 -> ServerP!Results]
                       \cup [1 .. 2 -> ServerP!Results]
    BY DEF Parts, ServerP!AInv, ServerP!IInv, ServerP!TypeOK, ServerP!Request
  <2> QED BY <1>3, <2>1
<1>5. req[r].ans[1] \in {"OK", "DUPLICATE"}
  BY <1>3, <1>4 DEF ServerP!Results
<1>6. ~ServerP!InBatchDuplicate(b, 1)
  BY <1>2 DEF ServerP!InBatchDuplicate
<1>7. ServerP!Truthful(r)
  BY DEF Parts, ServerP!AInv
<1> QED BY <1>2, <1>5, <1>6, <1>7 DEF ServerP!Truthful

\* An answer the till takes for delivered stands for a document, and for all of
\* it when it is the first.
LEMMA AckedReply ==
  ASSUME Parts, Link, NEW d \in Drains, NEW j \in Sales, Reply(d, j), pc'[d][j] = "acked"
  PROVE  /\ header[j] # "none"
         /\ att[d][j] = 1 => job[j].attempts > 1 \/ (lines[j] /\ deducted[j] = 1)
<1> DEFINE r == RequestOf(d, j)
<1>1. pc[d][j] = "inflight"
  BY DEF Reply, Till!Answer
<1>2. r \in Requests /\ r[1] = j /\ att[d][j] \in Nat /\ job[j].attempts >= att[d][j]
  <2>1. pc[d][j] \in TillP!Heartbeat
    BY <1>1 DEF TillP!Heartbeat
  <2> QED BY <2>1, RequestType DEF Parts, RequestOf
<1>3. \A outcome : Till!Answer(d, j, outcome) => outcome = "acked"
  BY JobsAreSales DEF Till!Answer, Till!Goto, Parts, TillP!IInv, TillP!TypeOK
<1>4. req[r].pc = "answered" /\ req[r].ans[1] # "ERROR"
  <2>1. ~Till!Answer(d, j, "retryable")
    BY <1>3
  <2>2. req[r].pc = "answered" /\ Till!Answer(d, j, Understood(req[r].ans[1]))
    BY <2>1 DEF Reply
  <2> QED BY <1>3, <2>2 DEF Understood
<1> HIDE DEF r
<1>5. /\ header[j] # "none"
      /\ req[r].ans[1] = "DUPLICATE" \/ (lines[j] /\ deducted[j] = 1)
  BY <1>2, <1>4, AnswerOf
<1>6. ASSUME att[d][j] = 1, job[j].attempts <= 1 PROVE req[r].ans[1] # "DUPLICATE"
  <2>1. r = <<j, 1>> /\ ServerP!Sole(r, j)
    BY <1>6 DEF r, RequestOf, Link, FirstIsSole
  <2>2. 1 \in DOMAIN req[r].batch
    <3>1. req[r].batch = Body(j)
      BY <1>2, <1>4 DEF Link, Posted
    <3> QED BY <3>1, BodyType
  <2> QED BY <2>1, <2>2 DEF ServerP!Sole
<1>7. job[j].attempts \in Nat
  BY JobsAreSales DEF Parts, TillP!IInv, TillP!TypeOK, TillP!JobRow
<1> QED BY <1>5, <1>6, <1>7

\* The exchange with the server, on the side of the till.
LEMMA ExchangeLink ==
  ASSUME Parts, Link, NEW d \in Drains, NEW j \in Sales, Exchange(d, j)
  PROVE  Link'
<1>1. /\ job' = job /\ att' = att
      /\ \A e \in Drains, k \in Sales : ~(e = d /\ k = j) => pc'[e][k] = pc[e][k]
  <2>1. Till!Send(d, j) \/ \E outcome : Till!Answer(d, j, outcome)
    BY DEF Exchange, Post, Reply, NoReply
  <2>2. PICK where : pc' = [pc EXCEPT ![d][j] = where] /\ job' = job /\ att' = att
    BY <2>1 DEF Till!Send, Till!Answer, Till!Goto
  <2>3. pc \in [Drains -> [Sales -> TillP!PCs]]
    BY JobsAreSales DEF Parts, TillP!IInv, TillP!TypeOK
  <2> QED BY <2>2, <2>3
<1>2. UNCHANGED <<header, lines, deducted>>
  BY DEF Exchange, Post, Reply, NoReply, Server!Receive, serverVars
<1>3. pc'[d][j] = "acked" => Reply(d, j)
  <2>1. pc' = [pc EXCEPT ![d][j] = pc'[d][j]] /\ pc[d] \in [Sales -> TillP!PCs] /\ d \in DOMAIN pc
    <3>1. Till!Send(d, j) \/ \E outcome : Till!Answer(d, j, outcome)
      BY DEF Exchange, Post, Reply, NoReply
    <3> QED BY <3>1, JobsAreSales
            DEF Till!Send, Till!Answer, Till!Goto, Parts, TillP!IInv, TillP!TypeOK
  <2>2. Till!Send(d, j) => pc'[d][j] # "acked"
    BY <2>1 DEF Till!Send, Till!Goto
  <2>3. \A outcome : Till!Answer(d, j, outcome) => pc'[d][j] = outcome
    BY <2>1 DEF Till!Answer, Till!Goto
  <2> QED BY <2>2, <2>3 DEF Exchange, Post, NoReply
<1>4. \/ req' = req
      \/ /\ Till!Send(d, j) /\ req[RequestOf(d, j)].pc = "unsent"
         /\ req' = [req EXCEPT ![RequestOf(d, j)] =
                      [pc |-> "filter", batch |-> Body(j), left |-> {},
                       ans |-> [i \in DOMAIN Body(j) |-> "none"]]]
  BY DEF Exchange, Post, Reply, NoReply, Server!Receive, serverVars
<1>5. ASSUME NEW r \in Requests, req'[r] # req[r]
      PROVE  /\ r = RequestOf(d, j) /\ r = <<j, att[d][j]>> /\ r[1] = j /\ r[2] = att[d][j]
             /\ att[d][j] <= job[j].attempts /\ job[j].status # "NONE"
             /\ req[r].pc = "unsent" /\ req'[r].pc = "filter" /\ req'[r].batch = Body(j)
             /\ \A i \in DOMAIN Body(j) : req'[r].ans[i] = "none"
  <2>1. pc[d][j] = "claimed" /\ pc[d][j] \in TillP!Heartbeat
    BY <1>4, <1>5 DEF Till!Send, TillP!Heartbeat
  <2>2. job[j].status # "NONE"
    BY <2>1, JobsAreSales DEF Parts, TillP!IInv, TillP!OnlyJobsAreDrained
  <2>3. req \in [Requests -> ServerP!Request]
    BY DEF Parts, ServerP!AInv, ServerP!IInv, ServerP!TypeOK
  <2>4. r = RequestOf(d, j)
    BY <1>4, <1>5, <2>3
  <2>5. req'[r] = [pc |-> "filter", batch |-> Body(j), left |-> {},
                   ans |-> [i \in DOMAIN Body(j) |-> "none"]]
    BY <1>4, <1>5, <2>3, <2>4
  <2> QED BY <1>4, <1>5, <2>1, <2>2, <2>4, <2>5, RequestType DEF Parts, RequestOf
<1>6. Posted'
  <2> SUFFICES ASSUME NEW r \in Requests, req'[r].pc # "unsent"
               PROVE  /\ req'[r].batch = Body(r[1])
                      /\ job'[r[1]].status # "NONE"
                      /\ r[2] <= job'[r[1]].attempts
    BY DEF Posted, Body
  <2>1. CASE req'[r] = req[r]
    BY <1>1, <2>1 DEF Link, Posted
  <2>2. CASE req'[r] # req[r]
    BY <1>1, <1>5, <2>2
  <2> QED BY <2>1, <2>2
<1>7. RecordedIsPlaced' /\ SentIsRecorded' /\ SentAtOnceIsCharged'
  BY <1>1, <1>2 DEF Link, RecordedIsPlaced, SentIsRecorded, SentAtOnceIsCharged
<1>8. AckedIsRecorded' /\ FirstIsCharged'
  <2> SUFFICES ASSUME NEW e \in Drains, NEW k \in Sales, pc'[e][k] = "acked"
               PROVE  /\ header'[k] # "none"
                      /\ att'[e][k] = 1 => job'[k].attempts > 1 \/ (lines'[k] /\ deducted'[k] = 1)
    BY DEF AckedIsRecorded, FirstIsCharged
  <2>1. CASE e = d /\ k = j
    BY <1>1, <1>2, <1>3, <2>1, AckedReply
  <2>2. CASE ~(e = d /\ k = j)
    BY <1>1, <1>2, <2>2 DEF Link, AckedIsRecorded, FirstIsCharged
  <2> QED BY <2>1, <2>2
<1>9. FirstIsSole'
  <2> SUFFICES ASSUME NEW k \in Sales, job'[k].attempts <= 1 PROVE ServerP!Sole(<<k, 1>>, k)'
    BY DEF FirstIsSole
  <2>1. <<k, 1>> \in Requests /\ ServerP!Sole(<<k, 1>>, k)
    BY <1>1, PipelineAssumption DEF Link, FirstIsSole, Requests
  <2>2. CASE req'[<<k, 1>>] = req[<<k, 1>>]
    BY <1>2, <2>1, <2>2 DEF ServerP!Sole
  <2>3. CASE req'[<<k, 1>>] # req[<<k, 1>>]
    <3>1. /\ req[<<k, 1>>].pc = "unsent" /\ req'[<<k, 1>>].batch = Body(j)
          /\ \A i \in DOMAIN Body(j) : req'[<<k, 1>>].ans[i] = "none"
      BY <1>5, <2>1, <2>3
    <3> QED BY <1>2, <2>1, <3>1 DEF ServerP!Sole, ServerP!Past
  <2> QED BY <2>2, <2>3
<1> QED BY <1>6, <1>7, <1>8, <1>9 DEF Link

-----------------------------------------------------------------------------
\* A request works on the sale it is named for.
LEMMA WorksOnItsSale ==
  ASSUME Parts, Link, NEW r \in Requests, req[r].pc # "unsent"
  PROVE  /\ r[1] \in Sales /\ r[2] \in 1 .. MaxRetryAttempts /\ r = <<r[1], r[2]>>
         /\ DOMAIN req[r].batch = {1} /\ req[r].batch[1].tx = r[1]
         /\ req[r].pc \in ServerP!Processing => ServerP!CurTx(r) = r[1]
<1>1. r[1] \in Sales /\ r[2] \in 1 .. MaxRetryAttempts /\ r = <<r[1], r[2]>>
  BY DEF Requests
<1>2. req[r].batch = Body(r[1])
  BY DEF Link, Posted
<1>3. DOMAIN req[r].batch = {1} /\ req[r].batch[1] = [tx |-> r[1], payload |-> "sale"]
  BY <1>1, <1>2, BodyType
<1>4. ASSUME req[r].pc \in ServerP!Processing PROVE ServerP!CurTx(r) = r[1]
  <2>1. ServerP!Cur(r) \in DOMAIN req[r].batch
    BY <1>4, ServerP!CurType, ServerAssumption
       DEF Parts, ServerP!AInv, ServerP!IInv, IsFiniteSet, ServerP!IsFiniteSet
  <2> QED BY <1>3, <2>1 DEF ServerP!CurTx
<1> QED BY <1>1, <1>3, <1>4

\* What a step of the server adds to the records.
LEMMA ServerAdds ==
  ASSUME Parts, Link, NEW r \in Requests, Server!Step(r)
  PROVE  /\ req[r].pc # "unsent"
         /\ \/ header' = header /\ deducted' = deducted
            \/ /\ header[r[1]] = "none"
               /\ \A k \in Sales : k # r[1] => header'[k] = header[k]
               /\ header'[r[1]] # "none" /\ deducted' = deducted
            \/ /\ header[r[1]] # "none" /\ header' = header
               /\ deducted[r[1]] = 0 /\ deducted' = [deducted EXCEPT ![r[1]] = 1]
<1>1. ServerP!Step(r)
  BY ServerStep
<1>2. req[r].pc # "unsent"
  BY <1>1, ServerP!StepForms, ServerAssumption
     DEF ServerP!Filter, ServerP!Processing, IsFiniteSet, ServerP!IsFiniteSet
<1>3. req[r].pc \in {"insert", "deduct"} => ServerP!CurTx(r) = r[1]
  BY <1>2, WorksOnItsSale DEF ServerP!Processing
<1>4. header \in [Sales -> {"sale"} \cup {"none"}]
  BY DEF Parts, ServerP!AInv, ServerP!IInv, ServerP!TypeOK
<1>5. \/ header' = header /\ deducted' = deducted
      \/ /\ req[r].pc = "insert" /\ ServerP!CurTx(r) \in Sales
         /\ header[ServerP!CurTx(r)] = "none" /\ ServerP!CurPayload(r) # "none"
         /\ header' = [header EXCEPT ![ServerP!CurTx(r)] = ServerP!CurPayload(r)]
         /\ deducted' = deducted
      \/ /\ req[r].pc = "deduct" /\ ServerP!CurTx(r) \in Sales
         /\ header[ServerP!CurTx(r)] # "none" /\ deducted[ServerP!CurTx(r)] = 0
         /\ deducted' = [deducted EXCEPT ![ServerP!CurTx(r)] = 1]
         /\ header' = header
  BY <1>1, ServerP!RecordStep, ServerAssumption
     DEF Parts, ServerP!AInv, IsFiniteSet, ServerP!IsFiniteSet
<1> QED BY <1>2, <1>3, <1>4, <1>5

LEMMA ServerLink ==
  ASSUME Parts, Link, UNCHANGED tillVars,
         (\E r \in Requests : Server!Step(r)) \/ Server!ServerCrash
  PROVE  Link'
<1>1. UNCHANGED <<job, pc, att>>
  BY DEF tillVars
<1>2. \A k \in Sales : /\ header[k] # "none" => header'[k] # "none"
                       /\ lines[k] => lines'[k]
                       /\ deducted[k] = 1 => deducted'[k] = 1
  <2>1. [ServerP!Next]_(ServerP!serverVars)
    BY ServerStep, ServerCrashes DEF ServerP!Next
  <2>2. ServerP!Grows
    BY <2>1, ServerP!NextGrows, ServerAssumption
       DEF Parts, ServerP!AInv, IsFiniteSet, ServerP!IsFiniteSet
  <2> QED BY <2>2 DEF ServerP!Grows
<1>3. AckedIsRecorded' /\ FirstIsCharged' /\ SentIsRecorded' /\ SentAtOnceIsCharged'
  BY <1>1, <1>2 DEF Link, AckedIsRecorded, FirstIsCharged, SentIsRecorded, SentAtOnceIsCharged
<1>4. ASSUME NEW r \in Requests, Server!Step(r)
      PROVE  Posted' /\ RecordedIsPlaced' /\ FirstIsSole'
  <2>1. /\ \A q \in Requests : q # r => req'[q] = req[q]
        /\ req'[r].batch = req[r].batch
    BY <1>4, ServerStep, ServerP!StepAnswers, ServerAssumption
       DEF Parts, ServerP!AInv, IsFiniteSet, ServerP!IsFiniteSet
  <2>2. req[r].pc # "unsent" /\ job[r[1]].status # "NONE" /\ r[2] <= job[r[1]].attempts
    BY <1>4, ServerAdds DEF Link, Posted
  <2>3. Posted'
    <3> SUFFICES ASSUME NEW q \in Requests, req'[q].pc # "unsent"
                 PROVE  /\ req'[q].batch = Body(q[1])
                        /\ job[q[1]].status # "NONE" /\ q[2] <= job[q[1]].attempts
      BY <1>1 DEF Posted, Body
    <3> QED BY <2>1, <2>2 DEF Link, Posted
  <2>4. \A k \in Sales : k # r[1] => header'[k] = header[k]
    BY <1>4, ServerAdds
  <2>5. RecordedIsPlaced'
    BY <1>1, <2>2, <2>4 DEF Link, RecordedIsPlaced
  <2>6. FirstIsSole'
    <3> SUFFICES ASSUME NEW k \in Sales, job[k].attempts <= 1 PROVE ServerP!Sole(<<k, 1>>, k)'
      BY <1>1 DEF FirstIsSole
    <3>1. ServerP!Sole(<<k, 1>>, k)
      BY DEF Link, FirstIsSole
    <3>2. CASE k = r[1]
      <4>1. r = <<k, 1>>
        <5>1. r = <<k, r[2]>> /\ r[2] \in 1 .. MaxRetryAttempts
          BY <2>2, <3>2, WorksOnItsSale
        <5>2. r[2] <= 1
          <6>1. job[k].attempts \in Nat
            BY JobsAreSales DEF Parts, TillP!IInv, TillP!TypeOK, TillP!JobRow
          <6> QED BY <2>2, <3>2, <5>1, <6>1, PipelineAssumption
        <5> QED BY <5>1, <5>2, PipelineAssumption
      <4>2. DOMAIN req[<<k, 1>>].batch = {1} /\ req[<<k, 1>>].batch[1].tx = k
        BY <2>2, <3>2, <4>1, WorksOnItsSale
      <4> QED BY <1>4, <3>1, <4>1, <4>2, ServerStep, ServerP!SoleStep, ServerAssumption
              DEF Parts, ServerP!AInv, IsFiniteSet, ServerP!IsFiniteSet
    <3>3. CASE k # r[1]
      <4>1. <<k, 1>> # r /\ <<k, 1>> \in Requests
        BY <3>3, PipelineAssumption DEF Requests
      <4>2. req'[<<k, 1>>] = req[<<k, 1>>] /\ header'[k] = header[k]
        BY <2>1, <2>4, <3>3, <4>1
      <4> QED BY <3>1, <4>2 DEF ServerP!Sole
    <3> QED BY <3>2, <3>3
  <2> QED BY <2>3, <2>5, <2>6
<1>5. CASE Server!ServerCrash
  <2>1. req \in [Requests -> ServerP!Request]
    BY DEF Parts, ServerP!AInv, ServerP!IInv, ServerP!TypeOK
  <2>2. /\ UNCHANGED header
        /\ \A q \in Requests : /\ req'[q].batch = req[q].batch /\ req'[q].ans = req[q].ans
                               /\ req'[q].pc \in {req[q].pc, "lost"}
                               /\ req'[q].pc = "unsent" <=> req[q].pc = "unsent"
    BY <1>5, <2>1, ServerCrashes
       DEF ServerP!ServerCrash, ServerP!InFlight, ServerP!Processing, ServerP!Request
  <2>3. Posted' /\ RecordedIsPlaced'
    BY <1>1, <2>2 DEF Link, Posted, RecordedIsPlaced, Body
  <2>4. FirstIsSole'
    <3> SUFFICES ASSUME NEW k \in Sales, job[k].attempts <= 1 PROVE ServerP!Sole(<<k, 1>>, k)'
      BY <1>1 DEF FirstIsSole
    <3>1. ServerP!Sole(<<k, 1>>, k) /\ <<k, 1>> \in Requests
      BY PipelineAssumption DEF Link, FirstIsSole, Requests
    <3> QED BY <2>2, <3>1 DEF ServerP!Sole
  <2> QED BY <1>3, <2>3, <2>4 DEF Link
<1> QED BY <1>1, <1>3, <1>4, <1>5 DEF Link

-----------------------------------------------------------------------------
LEMMA LinkInit == Init => Link
<1> SUFFICES ASSUME Init PROVE Link
  OBVIOUS
<1>1. /\ \A j \in Sales : job[j].status = "NONE" /\ header[j] = "none"
      /\ \A d \in Drains, j \in Sales : pc[d][j] = "idle"
      /\ \A r \in Requests : req[r] = [pc |-> "unsent", batch |-> <<>>, left |-> {}, ans |-> <<>>]
  BY DEF Init, Till!Init, Till!Jobs, Server!Init
<1>2. Posted /\ RecordedIsPlaced /\ AckedIsRecorded /\ FirstIsCharged
  BY <1>1 DEF Posted, RecordedIsPlaced, AckedIsRecorded, FirstIsCharged
<1>3. SentIsRecorded /\ SentAtOnceIsCharged
  BY <1>1 DEF SentIsRecorded, SentAtOnceIsCharged
<1>4. FirstIsSole
  <2> SUFFICES ASSUME NEW j \in Sales PROVE ServerP!Sole(<<j, 1>>, j)
    BY DEF FirstIsSole
  <2>1. <<j, 1>> \in Requests
    BY PipelineAssumption DEF Requests
  <2> QED BY <1>1, <2>1 DEF ServerP!Sole
<1> QED BY <1>2, <1>3, <1>4 DEF Link

LEMMA LinkNext == Parts /\ Link /\ [Next]_vars => Link'
<1> SUFFICES ASSUME Parts, Link, [Next]_vars PROVE Link'
  OBVIOUS
<1>1. CASE UNCHANGED vars
  BY <1>1 DEF vars, tillVars, serverVars, Link, Posted, RecordedIsPlaced, AckedIsRecorded,
              FirstIsSole, FirstIsCharged, SentIsRecorded, SentAtOnceIsCharged, Body, ServerP!Sole
<1>2. CASE Next
  BY <1>2, LocalLink, ExchangeLink, ServerLink DEF Next
<1> QED BY <1>1, <1>2

LEMMA Invariance == Spec => [](Parts /\ Link)
BY PartsInit, PartsNext, LinkInit, LinkNext, PTL DEF Spec

\* Whatever answers are lost, repeated or late, whichever drains overlap and
\* wherever either side crashes: a sale the till takes for delivered is on the
\* server (classifySyncResult, updateOutboxJobStatus, processTransaction).
THEOREM DeliveredIsRecorded == Spec => []SentIsRecorded
<1>1. Link => SentIsRecorded
  BY DEF Link
<1> QED BY <1>1, Invariance, PTL

\* A sale delivered by its first attempt is on the server with its lines and
\* its stock deduction: only a retry can be told DUPLICATE of an attempt that
\* failed half way.
THEOREM DeliveredAtOnceIsCharged == Spec => []SentAtOnceIsCharged
<1>1. Link => SentAtOnceIsCharged
  BY DEF Link
<1> QED BY <1>1, Invariance, PTL

-----------------------------------------------------------------------------
(* The refinement. *)

LEMMA PromiseInit == Init => Promise!Init
BY DEF Init, Till!Init, Till!Jobs, Server!Init, Promise!Init

\* A step of the tills takes a sale, takes it for delivered, or means nothing
\* to the promise.
LEMMA LocalPromise ==
  ASSUME Parts, Link, Till!Local, UNCHANGED serverVars
  PROVE  [Promise!Next]_(Promise!deliveryVars)
<1> DEFINE placed(rows) == {j \in Sales : rows[j].status # "NONE"}
           confirmed(rows) == {j \in Sales : rows[j].status = "SENT"}
<1>1. UNCHANGED <<header, deducted>>
  BY DEF serverVars
<1>2. TillP!OneRow
  BY TillLocal, TillP!LocalRow, TillAssumption DEF Parts, IsFiniteSet, TillP!IsFiniteSet
<1>3. CASE placed(job') = placed(job) /\ confirmed(job') = confirmed(job)
  BY <1>1, <1>3 DEF Promise!deliveryVars
<1>4. ASSUME NEW j \in Sales, \A k \in Sales : k # j => job'[k] = job[k],
             job[j].status = "NONE", job'[j].status = "PENDING"
      PROVE  Promise!Next
  <2>1. /\ j \notin placed(job) /\ placed(job') = placed(job) \cup {j}
        /\ confirmed(job') = confirmed(job)
    BY <1>4
  <2>2. Promise!Place(j)
    BY <1>1, <2>1 DEF Promise!Place
  <2> QED BY <2>2 DEF Promise!Next
<1>5. ASSUME NEW j \in Sales, \A k \in Sales : k # j => job'[k] = job[k],
             job[j].status \notin {"NONE", "SENT"}, job'[j].status = "SENT",
             NEW d \in Drains, pc[d][j] = "acked"
      PROVE  Promise!Next
  <2>1. /\ header[j] # "none"
        /\ j \notin confirmed(job) /\ confirmed(job') = confirmed(job) \cup {j}
        /\ placed(job') = placed(job)
    BY <1>5 DEF Link, AckedIsRecorded
  <2>2. Promise!Confirm(j)
    BY <1>1, <2>1 DEF Promise!Confirm
  <2> QED BY <2>2 DEF Promise!Next
<1>6. ASSUME NEW j \in Sales, \A k \in Sales : k # j => job'[k] = job[k], TillP!RowStep(j)
      PROVE  \/ placed(job') = placed(job) /\ confirmed(job') = confirmed(job)
             \/ job[j].status = "NONE" /\ job'[j].status = "PENDING"
             \/ /\ job[j].status \notin {"NONE", "SENT"} /\ job'[j].status = "SENT"
                /\ \E d \in Drains : pc[d][j] = "acked"
  <2>1. CASE \/ job'[j].status = job[j].status
             \/ job[j].status \notin {"NONE", "SENT"} /\ job'[j].status = "FAILED"
    BY <1>6, <2>1
  <2>2. CASE /\ job'[j].status # job[j].status
             /\ ~(job[j].status \notin {"NONE", "SENT"} /\ job'[j].status = "FAILED")
    BY <1>6, <2>2 DEF TillP!RowStep
  <2> QED BY <2>1, <2>2
<1>7. CASE job' = job
  BY <1>1, <1>7 DEF Promise!deliveryVars
<1> HIDE DEF placed, confirmed
<1> QED BY <1>2, <1>3, <1>4, <1>5, <1>6, <1>7, JobsAreSales DEF TillP!OneRow

\* A step of the server records a sale, charges it, or means nothing to the
\* promise.
LEMMA ServerPromise ==
  ASSUME Parts, Link, UNCHANGED tillVars,
         (\E r \in Requests : Server!Step(r)) \/ Server!ServerCrash
  PROVE  [Promise!Next]_(Promise!deliveryVars)
<1> DEFINE recorded(rows) == {j \in Sales : rows[j] # "none"}
<1>1. job' = job
  BY DEF tillVars
<1>2. CASE UNCHANGED <<header, deducted>>
  BY <1>1, <1>2 DEF Promise!deliveryVars
<1>3. CASE Server!ServerCrash
  BY <1>2, <1>3, ServerCrashes DEF ServerP!ServerCrash
<1>4. ASSUME NEW r \in Requests, Server!Step(r)
      PROVE  [Promise!Next]_(Promise!deliveryVars)
  <2>1. r[1] \in Sales /\ job[r[1]].status # "NONE"
    BY <1>4, ServerAdds DEF Link, Posted, Requests
  <2>2. CASE /\ header[r[1]] = "none"
             /\ \A k \in Sales : k # r[1] => header'[k] = header[k]
             /\ header'[r[1]] # "none" /\ deducted' = deducted
    <3>1. r[1] \notin recorded(header) /\ recorded(header') = recorded(header) \cup {r[1]}
      BY <2>1, <2>2
    <3>2. Promise!Record(r[1])
      BY <1>1, <2>1, <2>2, <3>1 DEF Promise!Record
    <3> QED BY <2>1, <3>2 DEF Promise!Next
  <2>3. CASE /\ header[r[1]] # "none" /\ header' = header
             /\ deducted[r[1]] = 0 /\ deducted' = [deducted EXCEPT ![r[1]] = 1]
    <3>1. Promise!Charge(r[1])
      BY <1>1, <2>1, <2>3 DEF Promise!Charge
    <3> QED BY <2>1, <3>1 DEF Promise!Next
  <2> QED BY <1>2, <1>4, <2>2, <2>3, ServerAdds
<1> QED BY <1>3, <1>4

\* The tills and the server implement Delivery: every step of theirs is a step
\* of the promise or none of its business.
THEOREM PipelineDelivers == Spec => KeepsPromise
<1>1. Parts /\ Link /\ [Next]_vars => [Promise!Next]_(Promise!deliveryVars)
  <2> SUFFICES ASSUME Parts, Link, [Next]_vars
               PROVE  [Promise!Next]_(Promise!deliveryVars)
    OBVIOUS
  <2>1. CASE UNCHANGED <<job, header, deducted>>
    BY <2>1 DEF Promise!deliveryVars
  <2>2. ASSUME NEW d \in Drains, NEW j \in Sales, Exchange(d, j)
        PROVE  UNCHANGED <<job, header, deducted>>
    BY <2>2 DEF Exchange, Post, Reply, NoReply, Till!Send, Till!Answer, Server!Receive, serverVars
  <2>3. CASE UNCHANGED vars
    BY <2>1, <2>3 DEF vars, tillVars, serverVars
  <2> QED BY <2>1, <2>2, <2>3, LocalPromise, ServerPromise DEF Next
<1> QED BY <1>1, PromiseInit, Invariance, PTL DEF Spec, KeepsPromise, Promise!Spec
=============================================================================
