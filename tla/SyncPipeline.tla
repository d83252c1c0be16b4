---------------------------- MODULE SyncPipeline ----------------------------
(***************************************************************************)
(* The outbox of the tills and the push endpoint of the server, joined by  *)
(* HTTP: sendOutboxJobToSyncPush posts one sale per request, the server    *)
(* works on it whether or not the till still waits, and the till learns    *)
(* the answer, or an error, or nothing before its timeout.                 *)
(*                                                                         *)
(* A request is named by the job and the attempt it was posted for.        *)
(***************************************************************************)
EXTENDS Integers, Sequences, FiniteSets

CONSTANTS
  Drains, Sales, MaxRetryAttempts, BatchSize, SendConcurrency, WebLocks,
  TillFaults,     \* FaultKinds of Outbox
  MaxTillFaults,
  Qty, InitialStock,
  ServerFaults,   \* FaultKinds of PushServer
  MaxServerFaults

\* The assumptions of Outbox and of PushServer about what they are given here.
ASSUME PipelineAssumption ==
  /\ IsFiniteSet(Drains) /\ IsFiniteSet(Sales)
  /\ MaxRetryAttempts \in Nat \ {0}
  /\ BatchSize \in Nat \ {0} /\ SendConcurrency \in Nat \ {0}
  /\ WebLocks \in BOOLEAN
  /\ TillFaults \subseteq {"crash", "storage", "stall"} /\ MaxTillFaults \in Nat
  /\ Qty \in [Sales -> Nat \ {0}] /\ InitialStock \in Nat
  /\ ServerFaults \subseteq {"statement", "crash"} /\ MaxServerFaults \in Nat

VARIABLES sale, job, row, cancel, wanted, running, pc, att, tillFaults, failures,
          header, lines, deducted, cogs, stock, req, serverFaults

tillVars   == <<sale, job, row, cancel, wanted, running, pc, att, tillFaults, failures>>
serverVars == <<header, lines, deducted, cogs, stock, req, serverFaults>>
vars == <<tillVars, serverVars>>

Requests == Sales \X (1 .. MaxRetryAttempts)

Till == INSTANCE Outbox WITH TxJobs <- Sales, OrderJobs <- {}, CancelJobs <- {},
          FaultKinds <- TillFaults, MaxFaults <- MaxTillFaults, faults <- tillFaults

Server == INSTANCE PushServer WITH Txs <- Sales, Payloads <- {"sale"},
            NoPayload <- "none", FaultKinds <- ServerFaults,
            MaxFaults <- MaxServerFaults, faults <- serverFaults

-----------------------------------------------------------------------------
Init == Till!Init /\ Server!Init

RequestOf(d, j) == <<j, att[d][j]>>

\* buildSyncRequest: one transaction, the payload of the completed sale.
Body(j) == <<[tx |-> j, payload |-> "sale"]>>

\* The sale is hydrated and posted; the request may never reach the handler.
Post(d, j) ==
  /\ Till!Send(d, j)
  /\ \/ pc'[d][j] = "inflight" /\ Server!Receive(RequestOf(d, j), Body(j))
     \/ UNCHANGED serverVars

\* Mutated form of Understood: the result of the entry is not looked at.
UnderstoodAnyway(result) == "acked"

\* What the till makes of a result.  The server answers an ERROR with the text
\* of the exception, never with one of the two RETRYABLE_DB_ messages that
\* classifySyncResultError would retry sooner.
Understood(result) == IF result = "ERROR" THEN "nonRetryable" ELSE "acked"

\* The response reaches the till.
Reply(d, j) ==
  /\ LET r == req[RequestOf(d, j)] IN
     \/ r.pc = "answered" /\ Till!Answer(d, j, Understood(r.ans[1]))
     \/ r.pc = "failed" /\ Till!Answer(d, j, "retryable")
  /\ UNCHANGED serverVars

\* No response: the network fails, or the timeout aborts the fetch while the
\* server goes on; or the request was turned away before the handler (401).
NoReply(d, j) ==
  /\ \/ Till!Answer(d, j, "retryable")
     \/ req[RequestOf(d, j)].pc = "unsent" /\ Till!Answer(d, j, "nonRetryable")
  /\ UNCHANGED serverVars

Exchange(d, j) == /\ pc[d][j] \in {"claimed", "inflight"}
                  /\ Post(d, j) \/ Reply(d, j) \/ NoReply(d, j)

Next ==
  \/ Till!Local /\ UNCHANGED serverVars
  \/ \E d \in Drains, j \in Sales : Exchange(d, j)
  \/ ((\E r \in Requests : Server!Step(r)) \/ Server!ServerCrash) /\ UNCHANGED tillVars

Spec == Init /\ [][Next]_vars

-----------------------------------------------------------------------------
(* Properties. *)

\* A sale the till takes for delivered is on the server: no answer to another
\* attempt, no late answer and no crash makes a false SENT.
SentIsRecorded == \A j \in Sales : job[j].status = "SENT" => header[j] # "none"

\* A sale that is SENT after its first attempt is on the server as a whole:
\* lines and stock deduction.  Only a retry, answered DUPLICATE, can cover up
\* an attempt that failed half way (see DocumentIsWhole of PushServer).
SentAtOnceIsCharged ==
  \A j \in Sales : job[j].status = "SENT" /\ job[j].attempts = 1
                     => lines[j] /\ deducted[j] = 1

\* The till and the server together keep the promise of Delivery: recorded and
\* charged at most once, confirmed only when recorded, across lost answers,
\* retries, overlapping drains and crashes on either side.
Promise == INSTANCE Delivery WITH
             placed    <- {j \in Sales : job[j].status # "NONE"},
             recorded  <- {j \in Sales : header[j] # "none"},
             charges   <- deducted,
             confirmed <- {j \in Sales : job[j].status = "SENT"}

KeepsPromise == Promise!Spec
=============================================================================
