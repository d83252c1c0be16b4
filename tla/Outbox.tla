------------------------------- MODULE Outbox -------------------------------
(***************************************************************************)
(* The outbox of the offline-first POS application (apps/pos): the local   *)
(* sales and order updates that wait to be pushed to the server, and the   *)
(* drains that push them.                                                  *)
(*                                                                         *)
(* A job is a row of IndexedDB's outbox_jobs.  It is written in the same   *)
(* local transaction as the sale (or the order update) it stands for, and  *)
(* drainOutboxJobs sends it: select the due jobs, reserve an attempt and a *)
(* lease, post the job, and record the answer under the fence of attempt   *)
(* number and lease token.  Every await between those steps is a point     *)
(* where another drain may run, so each of them is an action here.         *)
(*                                                                         *)
(* A drain (an element of Drains) is one execution of drainOutboxJobs: in  *)
(* another tab, or in the same tab once an earlier drain was rejected      *)
(* while its siblings were still sending.  With WebLocks one drain holds   *)
(* the leader lock; without it (storage lease lapsed, in-memory lease)     *)
(* drains overlap.                                                         *)
(*                                                                         *)
(* Time is abstracted to what the code compares: a lease is active or not, *)
(* next_attempt_at is past, ahead, or the year 275760.  The random lease   *)
(* token is fresh per reservation; since attempts only grows it is         *)
(* modelled by the attempt it was minted for, 0 being null.                *)
(***************************************************************************)
EXTENDS Naturals, FiniteSets

CONSTANTS
  Drains,            \* executions of drainOutboxJobs that may be under way
  TxJobs,            \* sales, each with the job that pushes it
  OrderJobs,         \* order updates, each with the job that pushes it
  CancelJobs,        \* the order updates that may cancel a line
  MaxRetryAttempts,  \* MAX_RETRY_ATTEMPTS
  BatchSize,         \* DEFAULT_BATCH_SIZE
  SendConcurrency,   \* DEFAULT_SEND_CONCURRENCY
  WebLocks,          \* TRUE: the browser has navigator.locks
  FaultKinds,        \* the faults considered: "crash", "storage", "stall"
  MaxFaults          \* bound on how many of them happen

ASSUME OutboxAssumption ==
  /\ TxJobs \cap OrderJobs = {} /\ CancelJobs \subseteq OrderJobs
  /\ IsFiniteSet(Drains) /\ IsFiniteSet(TxJobs) /\ IsFiniteSet(OrderJobs)
  /\ MaxRetryAttempts \in Nat \ {0}
  /\ BatchSize \in Nat \ {0} /\ SendConcurrency \in Nat \ {0}
  /\ WebLocks \in BOOLEAN
  /\ FaultKinds \subseteq {"crash", "storage", "stall"}
  /\ MaxFaults \in Nat

Jobs == TxJobs \cup OrderJobs

VARIABLES
  sale,      \* status of each sale: DRAFT, COMPLETED or VOID
  job,       \* the outbox_jobs row of each job
  row,       \* sync_status of the active_order_updates row of an order update
  cancel,    \* sync_status of its item_cancellations row, NONE if it has none
  wanted,    \* a push was requested and its scheduler has not run it yet
  running,   \* the drains whose promise is not settled
  pc,        \* where processJob stands, per drain and job
  att,       \* the attempt (and lease token) processJob reserved
  faults,    \* faults so far
  failures   \* history: failed attempts the outbox recorded, per job

vars == <<sale, job, row, cancel, wanted, running, pc, att, faults, failures>>

-----------------------------------------------------------------------------
(* States of the data. *)

JobRow == [status   : {"NONE", "PENDING", "FAILED", "SENT"},
           attempts : Nat,
           token    : Nat,
           lease    : BOOLEAN,                   \* lease_expires_at > now
           due      : {"now", "later", "never"}] \* next_attempt_at

Heartbeat == {"claimed", "inflight", "acked", "retryable", "nonRetryable",
              "rowSent", "rowFailed", "cancelSent", "cancelFailed"}
Active    == Heartbeat \cup {"reserving", "giveup"}
PCs       == Active \cup {"idle", "selected"}

IsLeaseActive(j) == job[j].token # 0 /\ job[j].lease

\* Mutated form of IsDue: a failed job is not picked up again.
IsDuePendingOnly(j) == /\ job[j].status = "PENDING"
                       /\ job[j].due = "now"
                       /\ ~IsLeaseActive(j)

\* Mutated form of IsDue: next_attempt_at is not compared with now.
IsDueAnyTime(j) == job[j].status \in {"PENDING", "FAILED"} /\ ~IsLeaseActive(j)

IsDue(j) == /\ job[j].status \in {"PENDING", "FAILED"}
            /\ job[j].due = "now"
            /\ ~IsLeaseActive(j)

\* The terminal state processJob writes past the retry ceiling.
GivenUp(j) == job[j].status = "FAILED" /\ job[j].due = "never"

\* Mutated form of Fenced: only the ALREADY_SENT check is left.
FencedBySent(j, a, status) == job[j].status = "SENT" => status = "SENT"

\* The fence of updateOutboxJobStatus: STALE_ATTEMPT, STALE_LEASE, ALREADY_SENT.
Fenced(j, a, status) == /\ job[j].attempts = a
                        /\ job[j].token = a
                        /\ job[j].status = "SENT" => status = "SENT"

\* updateOutboxJobStatus: the patch it applies, the lease cleared with it.
Patched(j, status, due) ==
  [job EXCEPT ![j] = [@ EXCEPT !.status = status, !.due = due,
                               !.token = 0, !.lease = FALSE]]

-----------------------------------------------------------------------------
Init ==
  /\ sale = [j \in TxJobs |-> "DRAFT"]
  /\ job = [j \in Jobs |-> [status |-> "NONE", attempts |-> 0, token |-> 0,
                            lease |-> FALSE, due |-> "now"]]
  /\ row = [j \in OrderJobs |-> "NONE"]
  /\ cancel = [j \in OrderJobs |-> "NONE"]
  /\ wanted = FALSE
  /\ running = {}
  /\ pc = [d \in Drains |-> [j \in Jobs |-> "idle"]]
  /\ att = [d \in Drains |-> [j \in Jobs |-> 0]]
  /\ faults = 0
  /\ failures = [j \in Jobs |-> 0]

-----------------------------------------------------------------------------
(* The application. *)

\* completeSale: sale, items, payments and outbox job commit in one local
\* transaction; the checkout then requests a push.
CompleteSale(j) ==
  /\ sale[j] = "DRAFT"
  /\ sale' = [sale EXCEPT ![j] = "COMPLETED"]
  /\ job' = [job EXCEPT ![j].status = "PENDING"]
  /\ wanted' = TRUE
  /\ UNCHANGED <<row, cancel, running, pc, att, faults, failures>>

\* voidSale: a DRAFT or COMPLETED sale becomes VOID; its job is left alone.
VoidSale(j) ==
  /\ sale[j] \in {"DRAFT", "COMPLETED"}
  /\ sale' = [sale EXCEPT ![j] = "VOID"]
  /\ UNCHANGED <<job, row, cancel, wanted, running, pc, att, faults, failures>>

\* enqueueOrderUpdateOutboxJob, in the transaction that writes the update row,
\* and the cancellation row of an update that cancels a line.
EnqueueOrderUpdate(j) ==
  /\ job[j].status = "NONE"
  /\ job' = [job EXCEPT ![j].status = "PENDING"]
  /\ row' = [row EXCEPT ![j] = "PENDING"]
  /\ \E status \in {"NONE", "PENDING"} :
       /\ status = "PENDING" => j \in CancelJobs
       /\ cancel' = [cancel EXCEPT ![j] = status]
  /\ wanted' = TRUE
  /\ UNCHANGED <<sale, running, pc, att, faults, failures>>

\* The cashier presses "sync now".
RequestPush ==
  /\ ~wanted
  /\ wanted' = TRUE
  /\ UNCHANGED <<sale, job, row, cancel, running, pc, att, faults, failures>>

-----------------------------------------------------------------------------
(* One drain. *)

\* executePushCycle returns early: a push is in flight, the server does not
\* answer the health check, nothing is due, or another tab holds the lock.
\* The scheduler has already taken the reasons out of its set.
DropRequest ==
  /\ wanted
  /\ wanted' = FALSE
  /\ UNCHANGED <<sale, job, row, cancel, running, pc, att, faults, failures>>

\* drainOutboxJobs starts: a snapshot of at most BatchSize due jobs.  Which
\* ones, when more are due, is left open.
StartDrain(d) ==
  /\ wanted
  /\ d \notin running
  /\ WebLocks => running = {}
  /\ \A j \in Jobs : pc[d][j] = "idle"
  /\ LET due == {j \in Jobs : IsDue(j)} IN
       /\ due # {}
       /\ \E batch \in SUBSET due :
            /\ Cardinality(batch) <= BatchSize
            /\ batch = due \/ Cardinality(batch) = BatchSize
            /\ pc' = [pc EXCEPT ![d] =
                        [j \in Jobs |-> IF j \in batch THEN "selected" ELSE "idle"]]
  /\ wanted' = FALSE
  /\ running' = running \cup {d}
  /\ UNCHANGED <<sale, job, row, cancel, att, faults, failures>>

Selected(d) == {j \in Jobs : pc[d][j] = "selected"}

\* The loops of drainOutboxJobs: order updates one after the other, then the
\* sales in chunks of SendConcurrency that are awaited together.
StartNext(d) ==
  /\ d \in running
  /\ \A j \in Jobs : pc[d][j] \notin Active
  /\ Selected(d) # {}
  /\ \E chunk \in SUBSET Selected(d) :
       /\ \/ Cardinality(chunk) = 1 /\ chunk \subseteq OrderJobs
          \/ /\ Selected(d) \subseteq TxJobs
             /\ chunk # {} /\ Cardinality(chunk) <= SendConcurrency
             /\ chunk = Selected(d) \/ Cardinality(chunk) = SendConcurrency
       /\ pc' = [pc EXCEPT ![d] =
                   [j \in Jobs |-> IF j \in chunk THEN "reserving" ELSE pc[d][j]]]
  /\ UNCHANGED <<sale, job, row, cancel, wanted, running, att, faults, failures>>

EndDrain(d) ==
  /\ d \in running
  /\ \A j \in Jobs : pc[d][j] = "idle"
  /\ running' = running \ {d}
  /\ UNCHANGED <<sale, job, row, cancel, wanted, pc, att, faults, failures>>

-----------------------------------------------------------------------------
(* processJob, for one job of one drain. *)

Goto(d, j, where) == pc' = [pc EXCEPT ![d][j] = where]

\* processJob returns: the reserved attempt goes with it.
Return(d, j) == /\ Goto(d, j, "idle")
                /\ att' = [att EXCEPT ![d][j] = 0]

\* The patch of reserveOutboxAttempt: the next attempt, its token, a lease.
Reserved(j, a) ==
  [job EXCEPT ![j] = [@ EXCEPT !.attempts = a, !.token = a, !.lease = TRUE]]

\* reserveOutboxAttempt with the ceiling check that follows it: the drain gets
\* attempt a, unless the job is SENT or another lease is active.
Claim(d, j, a, reserved, ceiling) ==
  /\ pc[d][j] = "reserving"
  /\ IF job[j].status = "SENT" \/ IsLeaseActive(j)
       THEN Goto(d, j, "idle") /\ UNCHANGED <<job, att>>
       ELSE /\ job' = reserved
            /\ att' = [att EXCEPT ![d][j] = a]
            /\ Goto(d, j, IF a > ceiling THEN "giveup" ELSE "claimed")
  /\ UNCHANGED <<sale, row, cancel, wanted, running, faults, failures>>

NextAttempt(j) == job[j].attempts + 1

\* Mutated forms of Reserve: a takeover goes on with the attempt it finds; the
\* ceiling is off by one, either way; next_attempt_at is reset with the
\* lease; the row is marked SYNCING while it is in flight.
ReserveTakesOver(d, j) ==
  LET a == IF job[j].token # 0 THEN job[j].attempts ELSE NextAttempt(j) IN
  Claim(d, j, a, Reserved(j, a), MaxRetryAttempts)
ReserveOnceMore(d, j) ==
  LET a == NextAttempt(j) IN Claim(d, j, a, Reserved(j, a), MaxRetryAttempts + 1)
ReserveOnceLess(d, j) ==
  LET a == NextAttempt(j) IN Claim(d, j, a, Reserved(j, a), MaxRetryAttempts - 1)
ReserveResetsDue(d, j) ==
  LET a == NextAttempt(j) IN
  Claim(d, j, a, [Reserved(j, a) EXCEPT ![j].due = "now"], MaxRetryAttempts)
ReserveMarksSyncing(d, j) ==
  LET a == NextAttempt(j) IN
  Claim(d, j, a, [Reserved(j, a) EXCEPT ![j].status = "SYNCING"], MaxRetryAttempts)

\* Neither next_attempt_at nor the snapshot is looked at again.
Reserve(d, j) ==
  LET a == NextAttempt(j) IN Claim(d, j, a, Reserved(j, a), MaxRetryAttempts)

\* Mutated form of GiveUp: due again once the backoff elapsed.
GiveUpForNow(d, j) ==
  /\ pc[d][j] = "giveup"
  /\ job' = IF Fenced(j, att[d][j], "FAILED") THEN Patched(j, "FAILED", "later") ELSE job
  /\ Return(d, j)
  /\ UNCHANGED <<sale, row, cancel, wanted, running, faults, failures>>

\* The retry ceiling: FAILED, and due in the year 275760.
GiveUp(d, j) ==
  /\ pc[d][j] = "giveup"
  /\ IF Fenced(j, att[d][j], "FAILED")
       THEN job' = Patched(j, "FAILED", "never")
       ELSE UNCHANGED job
  /\ Return(d, j)
  /\ UNCHANGED <<sale, row, cancel, wanted, running, faults, failures>>

\* sendOutboxJobToSyncPush up to the fetch.  A sale that is no longer
\* COMPLETED is refused by hydrateSaleSnapshot before anything is posted.
Send(d, j) ==
  /\ pc[d][j] = "claimed"
  /\ Goto(d, j, IF j \in TxJobs /\ sale[j] # "COMPLETED"
                  THEN "nonRetryable" ELSE "inflight")
  /\ UNCHANGED <<sale, job, row, cancel, wanted, running, att, faults, failures>>

\* The fetch settles: OK or DUPLICATE, an error the sender classifies as
\* retryable (network, abort after the timeout, 5xx), or any other refusal.
Answer(d, j, outcome) ==
  /\ pc[d][j] = "inflight"
  /\ outcome \in {"acked", "retryable", "nonRetryable"}
  /\ Goto(d, j, outcome)
  /\ UNCHANGED <<sale, job, row, cancel, wanted, running, att, faults, failures>>

\* updateOutboxJobStatus(SENT).
MarkSent(d, j) ==
  /\ pc[d][j] = "acked"
  /\ IF Fenced(j, att[d][j], "SENT")
       THEN /\ job' = Patched(j, "SENT", "now")
            /\ IF j \in OrderJobs
                 THEN Goto(d, j, "rowSent") /\ UNCHANGED att
                 ELSE Return(d, j)
       ELSE UNCHANGED job /\ Return(d, j)
  /\ UNCHANGED <<sale, row, cancel, wanted, running, faults, failures>>

\* computeFailureBackoffMs: the jitter of a retryable failure may be 0.
Backoff(category) ==
  IF category = "retryable" THEN {"now", "later"} ELSE {"later"}

\* The catch block: updateOutboxJobStatus(FAILED) with the backoff.
MarkFailed(d, j) ==
  /\ pc[d][j] \in {"retryable", "nonRetryable"}
  /\ IF Fenced(j, att[d][j], "FAILED")
       THEN /\ \E due \in Backoff(pc[d][j]) : job' = Patched(j, "FAILED", due)
            /\ failures' = [failures EXCEPT ![j] = @ + 1]
            /\ IF j \in OrderJobs
                 THEN Goto(d, j, "rowFailed") /\ UNCHANGED att
                 ELSE Return(d, j)
       ELSE UNCHANGED <<job, failures>> /\ Return(d, j)
  /\ UNCHANGED <<sale, row, cancel, wanted, running, faults>>

\* Mutated form of MarkRow: the cancellation is forgotten.
MarkRowAlone(d, j) ==
  /\ pc[d][j] \in {"rowSent", "rowFailed"}
  /\ row' = [row EXCEPT ![j] = IF pc[d][j] = "rowSent" THEN "SENT" ELSE "FAILED"]
  /\ Return(d, j)
  /\ UNCHANGED <<sale, job, cancel, wanted, running, faults, failures>>

\* The order-update row follows the job in a write of its own, outside the
\* transaction that changed the job.
MarkRow(d, j) ==
  /\ pc[d][j] \in {"rowSent", "rowFailed"}
  /\ row' = [row EXCEPT ![j] = IF pc[d][j] = "rowSent" THEN "SENT" ELSE "FAILED"]
  /\ IF cancel[j] = "NONE"
       THEN Return(d, j)
       ELSE /\ Goto(d, j, IF pc[d][j] = "rowSent" THEN "cancelSent" ELSE "cancelFailed")
            /\ UNCHANGED att
  /\ UNCHANGED <<sale, job, cancel, wanted, running, faults, failures>>

\* The cancellation row, in another write.
MarkCancellation(d, j) ==
  /\ pc[d][j] \in {"cancelSent", "cancelFailed"}
  /\ cancel' = [cancel EXCEPT ![j] = IF pc[d][j] = "cancelSent" THEN "SENT" ELSE "FAILED"]
  /\ Return(d, j)
  /\ UNCHANGED <<sale, job, row, wanted, running, faults, failures>>

\* The heartbeat: renewOutboxAttemptLease.  A lapsed lease is renewed as long
\* as nobody claimed the job in between.
Renew(d, j) ==
  /\ pc[d][j] \in Heartbeat
  /\ job[j].status # "SENT"
  /\ job[j].attempts = att[d][j] /\ job[j].token = att[d][j]
  /\ ~job[j].lease
  /\ job' = [job EXCEPT ![j].lease = TRUE]
  /\ UNCHANGED <<sale, row, cancel, wanted, running, pc, att, faults, failures>>

-----------------------------------------------------------------------------
(* Time and faults. *)

\* next_attempt_at is reached.
BecomeDue(j) ==
  /\ job[j].due = "later"
  /\ job' = [job EXCEPT ![j].due = "now"]
  /\ UNCHANGED <<sale, row, cancel, wanted, running, pc, att, faults, failures>>

Fault(kind) == /\ kind \in FaultKinds
               /\ faults < MaxFaults
               /\ faults' = faults + 1

\* The drain whose answer for j the fence would let through.
Holds(d, j) == att[d][j] # 0 /\ job[j].token = att[d][j]

\* Thirty seconds pass without a heartbeat.  The lease of a drain that is gone
\* runs out; that of a live one only when the drain stalls (the timers of a
\* hidden tab are throttled, the machine sleeps).
LeaseExpires(j) ==
  /\ IsLeaseActive(j)
  /\ IF \E d \in Drains : Holds(d, j) THEN Fault("stall") ELSE UNCHANGED faults
  /\ job' = [job EXCEPT ![j].lease = FALSE]
  /\ UNCHANGED <<sale, row, cancel, wanted, running, pc, att, failures>>

\* The tab is closed: its drain and its lock are gone, its leases stay.
Crash(d) ==
  /\ Fault("crash")
  /\ \E j \in Jobs : pc[d][j] # "idle"
  /\ pc' = [pc EXCEPT ![d] = [j \in Jobs |-> "idle"]]
  /\ att' = [att EXCEPT ![d] = [j \in Jobs |-> 0]]
  /\ running' = running \ {d}
  /\ UNCHANGED <<sale, job, row, cancel, wanted, failures>>

\* An IndexedDB operation throws.  While the body is hydrated or a good answer is
\* recorded the catch block takes it for a retryable failure; anywhere else
\* processJob rejects, and with it the drain, which forgets the jobs it had not
\* started and gives up the leader lock while the siblings of the chunk carry on.
StorageError(d, j) ==
  /\ Fault("storage")
  /\ \/ /\ pc[d][j] \in {"claimed", "acked", "rowSent", "cancelSent"}
        /\ Goto(d, j, "retryable")
        /\ UNCHANGED <<att, running>>
     \/ /\ pc[d][j] \in {"reserving", "giveup", "retryable", "nonRetryable",
                          "rowFailed", "cancelFailed"}
        /\ pc' = [pc EXCEPT ![d] =
                    [k \in Jobs |-> IF k = j \/ pc[d][k] = "selected"
                                      THEN "idle" ELSE pc[d][k]]]
        /\ att' = [att EXCEPT ![d][j] = 0]
        /\ running' = running \ {d}
  /\ UNCHANGED <<sale, job, row, cancel, wanted, failures>>

-----------------------------------------------------------------------------
Outcomes == {"acked", "retryable", "nonRetryable"}

\* The steps of processJob against IndexedDB.
LocalStep(d, j) == \/ Reserve(d, j) \/ GiveUp(d, j)
                   \/ MarkSent(d, j) \/ MarkFailed(d, j)
                   \/ MarkRow(d, j) \/ MarkCancellation(d, j)

ProcessJob(d, j) == \/ LocalStep(d, j) \/ Send(d, j)
                    \/ \E outcome \in Outcomes : Answer(d, j, outcome)

\* Everything but the exchange with the server.
Local ==
  \/ \E j \in TxJobs : CompleteSale(j) \/ VoidSale(j)
  \/ \E j \in OrderJobs : EnqueueOrderUpdate(j)
  \/ RequestPush \/ DropRequest
  \/ \E d \in Drains : StartDrain(d) \/ StartNext(d) \/ EndDrain(d) \/ Crash(d)
  \/ \E d \in Drains, j \in Jobs : LocalStep(d, j) \/ Renew(d, j) \/ StorageError(d, j)
  \/ \E j \in Jobs : LeaseExpires(j) \/ BecomeDue(j)

Next ==
  \/ Local
  \/ \E d \in Drains, j \in Jobs :
       Send(d, j) \/ \E outcome \in Outcomes : Answer(d, j, outcome)

Spec == Init /\ [][Next]_vars

\* What the code schedules by itself: the steps of a drain, each of which
\* follows an await that settles (the fetch is aborted after a timeout, and a
\* response that has begun is taken to end); the passage of time; and a drain
\* for a pushed request, unless the requests are dropped for ever.
Fairness ==
  /\ \A d \in Drains, j \in Jobs : WF_vars(ProcessJob(d, j))
  /\ \A d \in Drains : WF_vars(StartNext(d)) /\ WF_vars(EndDrain(d))
  /\ \A j \in Jobs : WF_vars(LeaseExpires(j)) /\ WF_vars(BecomeDue(j))
  /\ SF_vars(\E d \in Drains : StartDrain(d))

FairSpec == Spec /\ Fairness

\* An attended till: somebody keeps asking for a push.
AttendedSpec == FairSpec /\ WF_vars(RequestPush)

-----------------------------------------------------------------------------
(* Properties. *)

TypeOK ==
  /\ sale \in [TxJobs -> {"DRAFT", "COMPLETED", "VOID"}]
  /\ job \in [Jobs -> JobRow]
  /\ row \in [OrderJobs -> {"NONE", "PENDING", "SENT", "FAILED"}]
  /\ cancel \in [OrderJobs -> {"NONE", "PENDING", "SENT", "FAILED"}]
  /\ wanted \in BOOLEAN
  /\ running \subseteq Drains
  /\ pc \in [Drains -> [Jobs -> PCs]]
  /\ att \in [Drains -> [Jobs -> Nat]]
  /\ faults \in 0 .. MaxFaults
  /\ failures \in [Jobs -> Nat]

\* At most one drain at a time can change the outcome of a job, however the
\* drains of several tabs overlap: reserveOutboxAttempt hands a new attempt to
\* the last claimant and fences every earlier one.
OneHolder == \A j \in Jobs : \A d, e \in Drains :
               Holds(d, j) /\ Holds(e, j) => d = e

\* A drain whose lease was taken over changes nothing: whatever it learns
\* late, the outcome and the schedule of the job stay as they are.
StaleAnswerIgnored ==
  [][\A d \in Drains, j \in Jobs :
       /\ pc'[d][j] # pc[d][j]
       /\ ~Holds(d, j)
       => job'[j].status = job[j].status /\ job'[j].due = job[j].due]_vars

\* A job the server acknowledged is never reopened, and one that was given up
\* is never sent again, whichever drain still has it in its snapshot.
SettledIsFinal ==
  [][\A j \in Jobs : /\ job[j].status = "SENT" => job'[j].status = "SENT"
                     /\ GivenUp(j) => GivenUp(j)']_vars

\* A stale snapshot may reserve a job past the ceiling, once per overlapping
\* drain and once more per fault, and that is all.
AttemptsBounded ==
  \A j \in Jobs : job[j].attempts <= MaxRetryAttempts + Cardinality(Drains) + faults

\* A job past the ceiling is not posted.
NoSendPastCeiling ==
  \A d \in Drains, j \in Jobs : pc[d][j] = "inflight" => att[d][j] <= MaxRetryAttempts

\* Under the leader lock a job is not posted before its backoff elapsed,
\* although reserveOutboxAttempt does not look at next_attempt_at.
BackoffRespected ==
  \A d \in Drains, j \in Jobs :
    pc[d][j] \in {"claimed", "inflight"} => job[j].due = "now"

\* A job is given up only after MaxRetryAttempts attempts: every one of them
\* failed, or a fault took it.
GivenUpAfterFailures ==
  \A j \in Jobs : GivenUp(j) => failures[j] + faults >= MaxRetryAttempts

\* The order-update row the UI shows, and the cancellation it announces, never
\* run ahead of the job, and say SENT like the job once no drain is working on
\* it, unless a fault came in between.
RowAgreesWithJob ==
  \A j \in OrderJobs :
    /\ row[j] = "SENT" \/ cancel[j] = "SENT" => job[j].status = "SENT"
    /\ faults = 0 /\ job[j].status = "SENT" /\ (\A d \in Drains : pc[d][j] = "idle")
         => row[j] = "SENT" /\ cancel[j] \in {"NONE", "SENT"}

\* Every job ends: acknowledged or given up.
EveryJobSettles ==
  \A j \in Jobs : job[j].status = "PENDING" ~> job[j].status = "SENT" \/ GivenUp(j)
=============================================================================
