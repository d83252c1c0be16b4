---------------------------- MODULE OutboxProofs ----------------------------
(***************************************************************************)
(* What holds of Outbox for any number of drains, jobs, retries and        *)
(* faults, with or without the leader lock.                                *)
(***************************************************************************)
EXTENDS Outbox, FiniteSetTheorems, TLAPS

(* Type correctness: one lemma per group of actions. *)

\* What the writes to an outbox row leave of its type.
LEMMA RowType ==
  ASSUME NEW k \in JobRow, NEW a \in Nat, NEW lease \in BOOLEAN,
         NEW status \in {"NONE", "PENDING", "FAILED", "SENT"},
         NEW due \in {"now", "later", "never"}
  PROVE  /\ [k EXCEPT !.status = status] \in JobRow
         /\ [k EXCEPT !.status = status, !.due = due, !.token = 0, !.lease = FALSE] \in JobRow
         /\ [k EXCEPT !.attempts = a, !.token = a, !.lease = TRUE] \in JobRow
         /\ [k EXCEPT !.lease = lease] \in JobRow
         /\ [k EXCEPT !.due = due] \in JobRow
BY DEF JobRow

\* What a write to one outbox row leaves of the type of all of them.
LEMMA PatchedType ==
  ASSUME TypeOK, NEW j \in Jobs,
         NEW status \in {"NONE", "PENDING", "FAILED", "SENT"},
         NEW due \in {"now", "later", "never"}
  PROVE  Patched(j, status, due) \in [Jobs -> JobRow]
<1>1. [job[j] EXCEPT !.status = status, !.due = due, !.token = 0, !.lease = FALSE] \in JobRow
  BY RowType DEF TypeOK
<1> QED BY <1>1 DEF TypeOK, Patched

LEMMA ReservedType ==
  ASSUME TypeOK, NEW j \in Jobs, NEW a \in Nat
  PROVE  Reserved(j, a) \in [Jobs -> JobRow]
<1>1. [job[j] EXCEPT !.attempts = a, !.token = a, !.lease = TRUE] \in JobRow
  BY RowType DEF TypeOK
<1> QED BY <1>1 DEF TypeOK, Reserved

\* Where processJob goes next, and what it keeps of its attempt.
LEMMA GotoType ==
  ASSUME TypeOK, NEW d \in Drains, NEW j \in Jobs, NEW where \in PCs
  PROVE  /\ Goto(d, j, where) => pc' \in [Drains -> [Jobs -> PCs]]
         /\ Return(d, j) => /\ pc' \in [Drains -> [Jobs -> PCs]]
                            /\ att' \in [Drains -> [Jobs -> Nat]]
<1>1. Goto(d, j, where) => pc' \in [Drains -> [Jobs -> PCs]]
  BY DEF TypeOK, Goto
<1>2. Goto(d, j, "idle") => pc' \in [Drains -> [Jobs -> PCs]]
  BY DEF TypeOK, Goto, PCs
<1>3. Return(d, j) => att' \in [Drains -> [Jobs -> Nat]]
  BY DEF TypeOK, Return
<1> QED BY <1>1, <1>2, <1>3 DEF Return

LEMMA FaultType ==
  ASSUME TypeOK, NEW kind, Fault(kind)
  PROVE  faults' \in 0 .. MaxFaults
BY OutboxAssumption DEF TypeOK, Fault

LEMMA InitType == Init => TypeOK
<1> SUFFICES ASSUME Init PROVE TypeOK
  OBVIOUS
<1>1. job \in [Jobs -> JobRow]
  BY DEF Init, JobRow
<1>2. /\ pc \in [Drains -> [Jobs -> PCs]]
      /\ att \in [Drains -> [Jobs -> Nat]]
  BY DEF Init, PCs
<1>3. faults \in 0 .. MaxFaults
  BY OutboxAssumption DEF Init
<1> QED BY <1>1, <1>2, <1>3 DEF Init, TypeOK

LEMMA ApplicationType ==
  ASSUME TypeOK,
         \/ \E j \in TxJobs : CompleteSale(j) \/ VoidSale(j)
         \/ \E j \in OrderJobs : EnqueueOrderUpdate(j)
         \/ RequestPush \/ DropRequest
  PROVE  TypeOK'
<1>1. ASSUME NEW j \in TxJobs, CompleteSale(j) PROVE TypeOK'
  <2>1. j \in Jobs /\ job[j] \in JobRow
    BY DEF TypeOK, Jobs
  <2>2. [job[j] EXCEPT !.status = "PENDING"] \in JobRow
    BY <2>1, RowType
  <2>3. job' \in [Jobs -> JobRow]
    BY <1>1, <2>1, <2>2 DEF TypeOK, CompleteSale
  <2> QED BY <1>1, <2>3 DEF TypeOK, CompleteSale
<1>2. ASSUME NEW j \in TxJobs, VoidSale(j) PROVE TypeOK'
  BY <1>2 DEF TypeOK, VoidSale
<1>3. ASSUME NEW j \in OrderJobs, EnqueueOrderUpdate(j) PROVE TypeOK'
  <2>1. j \in Jobs /\ job[j] \in JobRow
    BY DEF TypeOK, Jobs
  <2>2. [job[j] EXCEPT !.status = "PENDING"] \in JobRow
    BY <2>1, RowType
  <2>3. job' \in [Jobs -> JobRow]
    BY <1>3, <2>1, <2>2 DEF TypeOK, EnqueueOrderUpdate
  <2>4. cancel' \in [OrderJobs -> {"NONE", "PENDING", "SENT", "FAILED"}]
    BY <1>3 DEF TypeOK, EnqueueOrderUpdate
  <2> QED BY <1>3, <2>3, <2>4 DEF TypeOK, EnqueueOrderUpdate
<1>4. CASE RequestPush
  BY <1>4 DEF TypeOK, RequestPush
<1>5. CASE DropRequest
  BY <1>5 DEF TypeOK, DropRequest
<1> QED BY <1>1, <1>2, <1>3, <1>4, <1>5

LEMMA DrainType ==
  ASSUME TypeOK, NEW d \in Drains,
         StartDrain(d) \/ StartNext(d) \/ EndDrain(d) \/ Crash(d)
  PROVE  TypeOK'
<1>1. CASE StartDrain(d)
  <2>1. pc' \in [Drains -> [Jobs -> PCs]]
    <3>1. PICK batch \in SUBSET Jobs :
            pc' = [pc EXCEPT ![d] = [j \in Jobs |-> IF j \in batch THEN "selected" ELSE "idle"]]
      BY <1>1 DEF StartDrain
    <3> QED BY <3>1 DEF TypeOK, PCs
  <2> QED BY <1>1, <2>1 DEF TypeOK, StartDrain
<1>2. CASE StartNext(d)
  BY <1>2 DEF TypeOK, StartNext, PCs, Active
<1>3. CASE EndDrain(d)
  BY <1>3 DEF TypeOK, EndDrain
<1>4. CASE Crash(d)
  <2>1. faults' \in 0 .. MaxFaults
    BY <1>4, FaultType DEF Crash
  <2> QED BY <1>4, <2>1 DEF TypeOK, Crash, PCs
<1> QED BY <1>1, <1>2, <1>3, <1>4

LEMMA ProcessJobType ==
  ASSUME TypeOK, NEW d \in Drains, NEW j \in Jobs, ProcessJob(d, j)
  PROVE  TypeOK'
<1>1. CASE Reserve(d, j)
  <2> DEFINE a == NextAttempt(j)
  <2>1. a \in Nat
    BY DEF NextAttempt, TypeOK, JobRow
  <2>2. Reserved(j, a) \in [Jobs -> JobRow]
    BY <2>1, ReservedType
  <2> HIDE DEF a
  <2>3. Claim(d, j, a, Reserved(j, a), MaxRetryAttempts)
    BY <1>1 DEF Reserve, a
  <2>4. CASE job[j].status = "SENT" \/ IsLeaseActive(j)
    <3>1. Goto(d, j, "idle") /\ UNCHANGED <<job, att>>
      BY <2>3, <2>4 DEF Claim
    <3>2. pc' \in [Drains -> [Jobs -> PCs]]
      BY <3>1, GotoType DEF PCs
    <3> QED BY <2>3, <3>1, <3>2 DEF Claim, TypeOK
  <2>5. CASE ~(job[j].status = "SENT" \/ IsLeaseActive(j))
    <3>1. /\ job' = Reserved(j, a)
          /\ att' = [att EXCEPT ![d][j] = a]
          /\ Goto(d, j, IF a > MaxRetryAttempts THEN "giveup" ELSE "claimed")
      BY <2>3, <2>5 DEF Claim
    <3>2. (IF a > MaxRetryAttempts THEN "giveup" ELSE "claimed") \in PCs
      BY DEF PCs, Active, Heartbeat
    <3>3. pc' \in [Drains -> [Jobs -> PCs]]
      BY <3>1, <3>2, GotoType
    <3>4. att' \in [Drains -> [Jobs -> Nat]]
      BY <2>1, <3>1 DEF TypeOK
    <3> QED BY <2>2, <2>3, <3>1, <3>3, <3>4 DEF Claim, TypeOK
  <2> QED BY <2>4, <2>5
<1>2. CASE GiveUp(d, j)
  BY <1>2, PatchedType, GotoType DEF GiveUp, TypeOK, PCs
<1>3. CASE Send(d, j)
  BY <1>3 DEF Send, TypeOK, Goto, PCs, Active, Heartbeat
<1>4. ASSUME NEW outcome \in Outcomes, Answer(d, j, outcome) PROVE TypeOK'
  BY <1>4 DEF Answer, Outcomes, TypeOK, Goto, PCs, Active, Heartbeat
<1>5. CASE MarkSent(d, j)
  <2>1. job' \in [Jobs -> JobRow]
    BY <1>5, PatchedType DEF MarkSent, TypeOK
  <2>2. pc' \in [Drains -> [Jobs -> PCs]] /\ att' \in [Drains -> [Jobs -> Nat]]
    BY <1>5, GotoType DEF MarkSent, TypeOK, PCs, Active, Heartbeat
  <2> QED BY <1>5, <2>1, <2>2 DEF MarkSent, TypeOK
<1>6. CASE MarkFailed(d, j)
  <2>1. job' \in [Jobs -> JobRow]
    BY <1>6, PatchedType DEF MarkFailed, TypeOK, Backoff
  <2>2. pc' \in [Drains -> [Jobs -> PCs]] /\ att' \in [Drains -> [Jobs -> Nat]]
    BY <1>6, GotoType DEF MarkFailed, TypeOK, PCs, Active, Heartbeat
  <2>3. failures' \in [Jobs -> Nat]
    BY <1>6 DEF MarkFailed, TypeOK
  <2> QED BY <1>6, <2>1, <2>2, <2>3 DEF MarkFailed, TypeOK
<1>7. CASE MarkRow(d, j)
  <2>1. pc' \in [Drains -> [Jobs -> PCs]] /\ att' \in [Drains -> [Jobs -> Nat]]
    BY <1>7, GotoType DEF MarkRow, TypeOK, PCs, Active, Heartbeat
  <2> QED BY <1>7, <2>1 DEF MarkRow, TypeOK
<1>8. CASE MarkCancellation(d, j)
  BY <1>8, GotoType DEF MarkCancellation, TypeOK, PCs
<1> QED BY <1>1, <1>2, <1>3, <1>4, <1>5, <1>6, <1>7, <1>8 DEF ProcessJob, LocalStep

\* The outcome of the attempt is recorded and the rows of the order update are
\* still to be written.
Recorded == {"rowSent", "rowFailed", "cancelSent", "cancelFailed"}

\* Writing those rows leaves the job alone and ends processJob, or goes on to
\* the cancellation row.
LEMMA RowWrite ==
  ASSUME NEW d \in Drains, NEW j \in Jobs, MarkRow(d, j) \/ MarkCancellation(d, j)
  PROVE  /\ UNCHANGED <<sale, job, wanted, running, faults, failures>>
         /\ pc[d][j] \in Recorded
         /\ \/ Return(d, j)
            \/ /\ \E where \in {"cancelSent", "cancelFailed"} : Goto(d, j, where)
               /\ UNCHANGED att
BY DEF MarkRow, MarkCancellation, Recorded

LEMMA WriteType ==
  ASSUME TypeOK, NEW d \in Drains, NEW j \in Jobs, Renew(d, j) \/ StorageError(d, j)
  PROVE  TypeOK'
<1>1. CASE Renew(d, j)
  <2>1. [job[j] EXCEPT !.lease = TRUE] \in JobRow
    BY RowType DEF TypeOK
  <2> QED BY <1>1, <2>1 DEF TypeOK, Renew
<1>2. CASE StorageError(d, j)
  <2>1. faults' \in 0 .. MaxFaults
    BY <1>2, FaultType DEF StorageError
  <2>2. CASE Goto(d, j, "retryable") /\ UNCHANGED <<att, running>>
    <3>1. pc' \in [Drains -> [Jobs -> PCs]]
      BY <2>2, GotoType DEF PCs, Active, Heartbeat
    <3> QED BY <1>2, <2>1, <2>2, <3>1 DEF TypeOK, StorageError
  <2>3. CASE /\ pc' = [pc EXCEPT ![d] =
                         [k \in Jobs |-> IF k = j \/ pc[d][k] = "selected"
                                           THEN "idle" ELSE pc[d][k]]]
             /\ att' = [att EXCEPT ![d][j] = 0]
             /\ running' = running \ {d}
    <3>1. pc' \in [Drains -> [Jobs -> PCs]]
      BY <2>3 DEF TypeOK, PCs
    <3>2. att' \in [Drains -> [Jobs -> Nat]]
      BY <2>3 DEF TypeOK
    <3> QED BY <1>2, <2>1, <2>3, <3>1, <3>2 DEF TypeOK, StorageError
  <2> QED BY <1>2, <2>2, <2>3 DEF StorageError
<1> QED BY <1>1, <1>2

LEMMA TimeType ==
  ASSUME TypeOK, NEW j \in Jobs, LeaseExpires(j) \/ BecomeDue(j)
  PROVE  TypeOK'
<1>1. CASE LeaseExpires(j)
  <2>1. faults' \in 0 .. MaxFaults
    BY <1>1, FaultType DEF LeaseExpires, TypeOK
  <2>2. [job[j] EXCEPT !.lease = FALSE] \in JobRow
    BY RowType DEF TypeOK
  <2> QED BY <1>1, <2>1, <2>2 DEF TypeOK, LeaseExpires
<1>2. CASE BecomeDue(j)
  <2>1. [job[j] EXCEPT !.due = "now"] \in JobRow
    BY RowType DEF TypeOK
  <2> QED BY <1>2, <2>1 DEF TypeOK, BecomeDue
<1> QED BY <1>1, <1>2

\* The state stays well typed for every number of drains, jobs and faults.
THEOREM TypeCorrect == Spec => []TypeOK
<1>1. Init => TypeOK
  BY InitType
<1>2. TypeOK /\ [Next]_vars => TypeOK'
  <2> SUFFICES ASSUME TypeOK, [Next]_vars PROVE TypeOK'
    OBVIOUS
  <2>1. CASE UNCHANGED vars
    BY <2>1 DEF TypeOK, vars
  <2>2. CASE Local
    <3>1. ASSUME NEW d \in Drains, NEW j \in Jobs, LocalStep(d, j) PROVE TypeOK'
      BY <3>1, ProcessJobType DEF ProcessJob
    <3>2. ASSUME NEW d \in Drains, NEW j \in Jobs, Renew(d, j) \/ StorageError(d, j)
          PROVE  TypeOK'
      BY <3>2, WriteType
    <3>3. ASSUME NEW j \in Jobs, LeaseExpires(j) \/ BecomeDue(j) PROVE TypeOK'
      BY <3>3, TimeType
    <3>4. ASSUME NEW d \in Drains, StartDrain(d) \/ StartNext(d) \/ EndDrain(d) \/ Crash(d)
          PROVE  TypeOK'
      BY <3>4, DrainType
    <3> QED BY <2>2, <3>1, <3>2, <3>3, <3>4, ApplicationType DEF Local
  <2>3. ASSUME NEW d \in Drains, NEW j \in Jobs,
               Send(d, j) \/ \E outcome \in Outcomes : Answer(d, j, outcome)
        PROVE  TypeOK'
    BY <2>3, ProcessJobType DEF ProcessJob
  <2> QED BY <2>1, <2>2, <2>3 DEF Next
<1> QED BY <1>1, <1>2, PTL DEF Spec

-----------------------------------------------------------------------------
(***************************************************************************)
(* The inductive invariant behind the fence.                               *)
(***************************************************************************)

\* The lease token of a row is null or that of its latest attempt.
TokenIsLatest == \A j \in Jobs : job[j].token \in {0, job[j].attempts}

\* No two drains ever reserved the same attempt of a job, and none an attempt
\* the row has not reached.
AttemptsAreOwned ==
  \A d \in Drains, j \in Jobs :
    /\ att[d][j] <= job[j].attempts
    /\ \A e \in Drains : att[d][j] # 0 /\ att[e][j] = att[d][j] => e = d

\* processJob has an attempt exactly from its reservation on, below the ceiling
\* if it goes on to send and above it if it gives the job up.
AttemptFitsPhase ==
  \A d \in Drains, j \in Jobs :
    /\ pc[d][j] \in Heartbeat => att[d][j] \in 1 .. MaxRetryAttempts
    /\ pc[d][j] = "giveup" => att[d][j] > MaxRetryAttempts
    /\ pc[d][j] \in {"idle", "selected", "reserving"} => att[d][j] = 0

\* A draft has no job yet.
DraftHasNoJob == \A j \in TxJobs : sale[j] = "DRAFT" => job[j].status = "NONE"

\* A drain works on jobs that exist.
OnlyJobsAreDrained ==
  \A d \in Drains, j \in Jobs : pc[d][j] # "idle" => job[j].status # "NONE"

\* A job that was given up is past every attempt that may still be answered.
GivenUpIsPast == \A j \in Jobs : GivenUp(j) => job[j].attempts > MaxRetryAttempts

IInv == /\ TypeOK /\ TokenIsLatest /\ AttemptsAreOwned /\ AttemptFitsPhase
        /\ DraftHasNoJob /\ OnlyJobsAreDrained /\ GivenUpIsPast

\* Every action but Reserve leaves the attempt of each row alone, and the token
\* and the reserved attempts alone or cleared.
LEMMA Frame ==
  ASSUME IInv, TypeOK',
         \A j \in Jobs : /\ job'[j].attempts = job[j].attempts
                         /\ job'[j].token \in {0, job[j].token},
         \A d \in Drains, j \in Jobs : att'[d][j] \in {0, att[d][j]}
  PROVE  TokenIsLatest' /\ AttemptsAreOwned'
<1>1. TokenIsLatest'
  BY DEF IInv, TokenIsLatest, TypeOK, JobRow
<1>2. AttemptsAreOwned'
  BY DEF IInv, AttemptsAreOwned, TypeOK, JobRow
<1> QED BY <1>1, <1>2

LEMMA ApplicationInv ==
  ASSUME IInv,
         \/ \E j \in TxJobs : CompleteSale(j) \/ VoidSale(j)
         \/ \E j \in OrderJobs : EnqueueOrderUpdate(j)
         \/ RequestPush \/ DropRequest
  PROVE  IInv'
<1>1. TypeOK'
  BY ApplicationType DEF IInv
<1>2. ASSUME NEW j \in TxJobs, CompleteSale(j) PROVE IInv'
  <2>1. /\ \A k \in Jobs : /\ job'[k].attempts = job[k].attempts
                           /\ job'[k].token = job[k].token
                           /\ job'[k].due = job[k].due
                           /\ job'[k].status = IF k = j THEN "PENDING" ELSE job[k].status
        /\ UNCHANGED <<pc, att>>
    BY <1>2 DEF CompleteSale, IInv, TypeOK, JobRow, Jobs
  <2>2. TokenIsLatest' /\ AttemptsAreOwned'
    <3>1. \A k \in Jobs : /\ job'[k].attempts = job[k].attempts
                           /\ job'[k].token \in {0, job[k].token}
      BY <2>1
    <3>2. \A e \in Drains, k \in Jobs : att'[e][k] \in {0, att[e][k]}
      BY <2>1
    <3> QED BY <1>1, <3>1, <3>2, Frame
  <2>3. AttemptFitsPhase'
    BY <2>1 DEF IInv, AttemptFitsPhase
  <2>4. DraftHasNoJob'
    BY <1>2, <2>1 DEF IInv, TypeOK, CompleteSale, DraftHasNoJob, Jobs
  <2>5. GivenUpIsPast'
    BY <2>1 DEF IInv, TypeOK, JobRow, GivenUpIsPast, GivenUp
  <2>6. OnlyJobsAreDrained'
    BY <2>1 DEF IInv, TypeOK, JobRow, OnlyJobsAreDrained
  <2> QED BY <1>1, <2>2, <2>3, <2>4, <2>5, <2>6 DEF IInv
<1>3. ASSUME NEW j \in TxJobs, VoidSale(j) PROVE IInv'
  <2>1. UNCHANGED <<job, pc, att>>
    BY <1>3 DEF VoidSale
  <2>2. TokenIsLatest' /\ AttemptsAreOwned'
    BY <1>1, <2>1, Frame
  <2>3. DraftHasNoJob'
    BY <1>3, <2>1 DEF IInv, TypeOK, VoidSale, DraftHasNoJob
  <2> QED BY <1>1, <2>1, <2>2, <2>3
          DEF IInv, AttemptFitsPhase, OnlyJobsAreDrained, GivenUpIsPast, GivenUp
<1>4. ASSUME NEW j \in OrderJobs, EnqueueOrderUpdate(j) PROVE IInv'
  <2>1. /\ \A k \in Jobs : /\ job'[k].attempts = job[k].attempts
                           /\ job'[k].token = job[k].token
                           /\ job'[k].due = job[k].due
                           /\ job'[k].status = IF k = j THEN "PENDING" ELSE job[k].status
        /\ UNCHANGED <<sale, pc, att>>
    BY <1>4 DEF EnqueueOrderUpdate, IInv, TypeOK, JobRow, Jobs
  <2>2. TokenIsLatest' /\ AttemptsAreOwned'
    <3>1. \A k \in Jobs : /\ job'[k].attempts = job[k].attempts
                           /\ job'[k].token \in {0, job[k].token}
      BY <2>1
    <3>2. \A e \in Drains, k \in Jobs : att'[e][k] \in {0, att[e][k]}
      BY <2>1
    <3> QED BY <1>1, <3>1, <3>2, Frame
  <2>3. AttemptFitsPhase'
    BY <2>1 DEF IInv, AttemptFitsPhase
  <2>4. DraftHasNoJob'
    BY <2>1, OutboxAssumption DEF IInv, TypeOK, DraftHasNoJob, Jobs
  <2>5. GivenUpIsPast'
    BY <2>1 DEF IInv, TypeOK, JobRow, GivenUpIsPast, GivenUp
  <2>6. OnlyJobsAreDrained'
    BY <2>1 DEF IInv, TypeOK, JobRow, OnlyJobsAreDrained
  <2> QED BY <1>1, <2>2, <2>3, <2>4, <2>5, <2>6 DEF IInv
<1>5. CASE RequestPush \/ DropRequest
  <2>1. UNCHANGED <<sale, job, pc, att>>
    BY <1>5 DEF RequestPush, DropRequest
  <2> QED BY <1>1, <2>1 DEF IInv, TokenIsLatest, AttemptsAreOwned, AttemptFitsPhase,
                            DraftHasNoJob, OnlyJobsAreDrained, GivenUpIsPast, GivenUp
<1> QED BY <1>2, <1>3, <1>4, <1>5

\* A drain that selects, starts, ends or dies touches no outbox row.
LEMMA DrainInv ==
  ASSUME IInv, NEW d \in Drains,
         StartDrain(d) \/ StartNext(d) \/ EndDrain(d) \/ Crash(d)
  PROVE  IInv'
<1>1. TypeOK'
  BY DrainType DEF IInv
<1>2. UNCHANGED <<sale, job>>
  BY DEF StartDrain, StartNext, EndDrain, Crash
<1>3. \A e \in Drains, j \in Jobs : att'[e][j] \in {0, att[e][j]}
  BY DEF IInv, TypeOK, StartDrain, StartNext, EndDrain, Crash
<1>4. TokenIsLatest' /\ AttemptsAreOwned'
  BY <1>1, <1>2, <1>3, Frame
<1>5. AttemptFitsPhase'
  <2>1. CASE StartDrain(d)
    BY <2>1 DEF IInv, TypeOK, StartDrain, AttemptFitsPhase, Heartbeat
  <2>2. CASE StartNext(d)
    BY <2>2 DEF IInv, TypeOK, StartNext, Selected, AttemptFitsPhase, Heartbeat
  <2>3. CASE EndDrain(d)
    BY <2>3 DEF IInv, EndDrain, AttemptFitsPhase
  <2>4. CASE Crash(d)
    BY <2>4 DEF IInv, TypeOK, Crash, AttemptFitsPhase, Heartbeat
  <2> QED BY <2>1, <2>2, <2>3, <2>4
<1>6. OnlyJobsAreDrained'
  <2>1. CASE StartDrain(d)
    BY <1>2, <2>1 DEF IInv, TypeOK, StartDrain, IsDue, OnlyJobsAreDrained
  <2>2. CASE StartNext(d)
    BY <1>2, <2>2 DEF IInv, TypeOK, StartNext, Selected, OnlyJobsAreDrained
  <2>3. CASE EndDrain(d)
    BY <1>2, <2>3 DEF IInv, EndDrain, OnlyJobsAreDrained
  <2>4. CASE Crash(d)
    BY <1>2, <2>4 DEF IInv, TypeOK, Crash, OnlyJobsAreDrained
  <2> QED BY <2>1, <2>2, <2>3, <2>4
<1> QED BY <1>1, <1>2, <1>4, <1>5, <1>6 DEF IInv, DraftHasNoJob, GivenUpIsPast, GivenUp

\* The one action that hands out an attempt: past every attempt handed out for
\* the job so far.
LEMMA ReserveInv ==
  ASSUME IInv, NEW d \in Drains, NEW j \in Jobs, Reserve(d, j)
  PROVE  IInv'
<1> DEFINE a == NextAttempt(j)
<1>1. TypeOK'
  BY ProcessJobType DEF IInv, ProcessJob, LocalStep
<1>2. Claim(d, j, a, Reserved(j, a), MaxRetryAttempts)
  BY DEF Reserve
<1>3. UNCHANGED sale
  BY <1>2 DEF Claim
<1>4. CASE job[j].status = "SENT" \/ IsLeaseActive(j)
  <2>1. UNCHANGED <<job, att>> /\ pc' = [pc EXCEPT ![d][j] = "idle"] /\ pc[d][j] = "reserving"
    BY <1>2, <1>4 DEF Claim, Goto
  <2>2. AttemptFitsPhase'
    BY <2>1 DEF IInv, TypeOK, AttemptFitsPhase, Heartbeat
  <2>3. OnlyJobsAreDrained'
    BY <2>1 DEF IInv, TypeOK, OnlyJobsAreDrained
  <2> QED BY <1>1, <1>3, <2>1, <2>2, <2>3
          DEF IInv, TokenIsLatest, AttemptsAreOwned, DraftHasNoJob, GivenUpIsPast, GivenUp
<1>5. CASE ~(job[j].status = "SENT" \/ IsLeaseActive(j))
  <2>1. /\ job' = Reserved(j, a)
        /\ att' = [att EXCEPT ![d][j] = a]
        /\ pc' = [pc EXCEPT ![d][j] = IF a > MaxRetryAttempts THEN "giveup" ELSE "claimed"]
    BY <1>2, <1>5 DEF Claim, Goto
  <2>2. a \in Nat /\ a = job[j].attempts + 1 /\ job[j].attempts \in Nat
    BY DEF NextAttempt, IInv, TypeOK, JobRow
  <2> HIDE DEF a
  <2>3. \A k \in Jobs :
          /\ job'[k].status = job[k].status
          /\ job'[k].due = job[k].due
          /\ k = j => job'[k].attempts = a /\ job'[k].token = a
          /\ k # j => job'[k] = job[k]
    BY <2>1 DEF Reserved, IInv, TypeOK, JobRow
  <2>4. \A e \in Drains, k \in Jobs :
          att'[e][k] = IF e = d /\ k = j THEN a ELSE att[e][k]
    BY <2>1 DEF IInv, TypeOK
  <2>5. TokenIsLatest'
    BY <2>3 DEF IInv, TokenIsLatest
  <2>6. AttemptsAreOwned'
    <3>1. \A e \in Drains, k \in Jobs : att[e][k] <= job[k].attempts /\ att[e][k] \in Nat
      BY DEF IInv, AttemptsAreOwned, TypeOK
    <3>2. \A e \in Drains, k \in Jobs : att'[e][k] <= job'[k].attempts
      BY <2>2, <2>3, <2>4, <3>1
    <3>3. \A e, f \in Drains, k \in Jobs :
            att'[e][k] # 0 /\ att'[f][k] = att'[e][k] => f = e
      BY <2>2, <2>4, <3>1 DEF IInv, AttemptsAreOwned
    <3> QED BY <3>2, <3>3 DEF AttemptsAreOwned
  <2>7. AttemptFitsPhase'
    <3>1. PICK where : /\ where = IF a > MaxRetryAttempts THEN "giveup" ELSE "claimed"
                       /\ pc' = [pc EXCEPT ![d][j] = where]
      BY <2>1
    <3>2. /\ pc'[d][j] = where
          /\ \A e \in Drains, k \in Jobs : ~(e = d /\ k = j) => pc'[e][k] = pc[e][k]
      BY <3>1 DEF IInv, TypeOK
    <3>3. MaxRetryAttempts \in Nat /\ att'[d][j] = a /\ a > 0
      BY <2>2, <2>4, OutboxAssumption
    <3> QED BY <2>2, <2>4, <3>1, <3>2, <3>3 DEF IInv, AttemptFitsPhase, Heartbeat
  <2>8. DraftHasNoJob'
    BY <1>3, <2>3 DEF IInv, DraftHasNoJob, Jobs
  <2>9. GivenUpIsPast'
    <3>1. \A k \in Jobs : job'[k].attempts >= job[k].attempts
      BY <2>2, <2>3 DEF IInv, TypeOK, JobRow
    <3> QED BY <1>1, <2>3, <3>1, OutboxAssumption
            DEF IInv, TypeOK, JobRow, GivenUpIsPast, GivenUp
  <2>10. OnlyJobsAreDrained'
    <3>1. pc[d][j] # "idle"
      BY <1>2 DEF Claim
    <3>2. \A e \in Drains, k \in Jobs : pc'[e][k] # "idle" => pc[e][k] # "idle"
      BY <2>1, <3>1 DEF IInv, TypeOK
    <3> QED BY <2>3, <3>2 DEF IInv, OnlyJobsAreDrained
  <2> QED BY <1>1, <2>5, <2>6, <2>7, <2>8, <2>9, <2>10 DEF IInv
<1> QED BY <1>4, <1>5

\* A write of updateOutboxJobStatus that got through the fence.
LEMMA PatchedInv ==
  ASSUME IInv, TypeOK', NEW d \in Drains, NEW j \in Jobs,
         NEW status \in {"FAILED", "SENT"}, NEW due \in {"now", "later", "never"},
         due = "never" => att[d][j] > MaxRetryAttempts,
         (Fenced(j, att[d][j], status) /\ job' = Patched(j, status, due)) \/ UNCHANGED job,
         pc[d][j] # "idle",
         \A e \in Drains, k \in Jobs : att'[e][k] \in {0, att[e][k]},
         \A e \in Drains, k \in Jobs : pc'[e][k] # "idle" => pc[e][k] # "idle",
         UNCHANGED sale,
         AttemptFitsPhase'
  PROVE  IInv'
<1>1. CASE UNCHANGED job
  <2>1. TokenIsLatest' /\ AttemptsAreOwned'
    BY <1>1, Frame
  <2> QED BY <1>1, <2>1
          DEF IInv, DraftHasNoJob, OnlyJobsAreDrained, GivenUpIsPast, GivenUp
<1>2. CASE Fenced(j, att[d][j], status) /\ job' = Patched(j, status, due)
  <2>1. \A k \in Jobs :
          /\ job'[k].attempts = job[k].attempts
          /\ k = j => job'[k].token = 0 /\ job'[k].status = status /\ job'[k].due = due
          /\ k # j => job'[k] = job[k]
    BY <1>2 DEF Patched, IInv, TypeOK, JobRow
  <2>2. TokenIsLatest' /\ AttemptsAreOwned'
    BY <2>1, Frame DEF IInv, TypeOK, JobRow
  <2>3. GivenUpIsPast'
    BY <1>2, <2>1 DEF Fenced, IInv, GivenUpIsPast, GivenUp
  <2>4. DraftHasNoJob'
    <3>1. j \in TxJobs => sale[j] # "DRAFT"
      BY DEF IInv, DraftHasNoJob, OnlyJobsAreDrained
    <3> QED BY <2>1, <3>1 DEF IInv, DraftHasNoJob, Jobs
  <2>5. OnlyJobsAreDrained'
    BY <2>1 DEF IInv, OnlyJobsAreDrained
  <2> QED BY <2>2, <2>3, <2>4, <2>5 DEF IInv
<1> QED BY <1>1, <1>2

\* The steps that write the outcome of an attempt, and the row after it.
LEMMA OutcomeInv ==
  ASSUME IInv, NEW d \in Drains, NEW j \in Jobs,
         \/ GiveUp(d, j) \/ MarkSent(d, j) \/ MarkFailed(d, j)
         \/ MarkRow(d, j) \/ MarkCancellation(d, j)
  PROVE  IInv'
<1>1. TypeOK'
  BY ProcessJobType DEF IInv, ProcessJob, LocalStep
<1>2. UNCHANGED sale
  BY RowWrite DEF GiveUp, MarkSent, MarkFailed
<1>3. ASSUME Return(d, j)
      PROVE  /\ AttemptFitsPhase'
             /\ \A e \in Drains, k \in Jobs : att'[e][k] \in {0, att[e][k]}
             /\ \A e \in Drains, k \in Jobs : pc'[e][k] # "idle" => pc[e][k] # "idle"
  BY <1>3 DEF Return, Goto, IInv, TypeOK, AttemptFitsPhase, Heartbeat
<1>4. ASSUME NEW where \in Recorded, Goto(d, j, where), UNCHANGED att,
             pc[d][j] \in Heartbeat
      PROVE  /\ AttemptFitsPhase'
             /\ \A e \in Drains, k \in Jobs : att'[e][k] \in {0, att[e][k]}
             /\ \A e \in Drains, k \in Jobs : pc'[e][k] # "idle" => pc[e][k] # "idle"
  BY <1>4 DEF Goto, IInv, TypeOK, AttemptFitsPhase, Heartbeat, Recorded
<1>5. CASE GiveUp(d, j)
  <2>1. att[d][j] > MaxRetryAttempts /\ pc[d][j] # "idle"
    BY <1>5 DEF GiveUp, IInv, AttemptFitsPhase
  <2>2. \/ Fenced(j, att[d][j], "FAILED") /\ job' = Patched(j, "FAILED", "never")
        \/ UNCHANGED job
    BY <1>5 DEF GiveUp
  <2>3. Return(d, j)
    BY <1>5 DEF GiveUp
  <2> QED BY <1>1, <1>2, <1>3, <2>1, <2>2, <2>3, PatchedInv
<1>6. CASE MarkSent(d, j)
  <2>1. pc[d][j] \in Heartbeat /\ pc[d][j] # "idle"
    BY <1>6 DEF MarkSent, Heartbeat
  <2>2. \/ Fenced(j, att[d][j], "SENT") /\ job' = Patched(j, "SENT", "now")
        \/ UNCHANGED job
    BY <1>6 DEF MarkSent
  <2>3. CASE Fenced(j, att[d][j], "SENT")
    <3>1. Return(d, j) \/ (Goto(d, j, "rowSent") /\ UNCHANGED att)
      BY <1>6, <2>3 DEF MarkSent
    <3> QED BY <1>1, <1>2, <1>3, <1>4, <2>1, <2>2, <3>1, PatchedInv DEF Recorded
  <2>4. CASE ~Fenced(j, att[d][j], "SENT")
    <3>1. Return(d, j)
      BY <1>6, <2>4 DEF MarkSent
    <3> QED BY <1>1, <1>2, <1>3, <2>1, <2>2, <3>1, PatchedInv
  <2> QED BY <2>3, <2>4
<1>7. CASE MarkFailed(d, j)
  <2>1. pc[d][j] \in Heartbeat /\ pc[d][j] # "idle"
    BY <1>7 DEF MarkFailed, Heartbeat
  <2>2. PICK due \in {"now", "later"} :
          \/ Fenced(j, att[d][j], "FAILED") /\ job' = Patched(j, "FAILED", due)
          \/ UNCHANGED job
    BY <1>7 DEF MarkFailed, Backoff
  <2>3. due \in {"now", "later", "never"} /\ due # "never"
    BY <2>2
  <2>4. CASE Fenced(j, att[d][j], "FAILED")
    <3>1. Return(d, j) \/ (Goto(d, j, "rowFailed") /\ UNCHANGED att)
      BY <1>7, <2>4 DEF MarkFailed
    <3> QED BY <1>1, <1>2, <1>3, <1>4, <2>1, <2>2, <2>3, <3>1, PatchedInv DEF Recorded
  <2>5. CASE ~Fenced(j, att[d][j], "FAILED")
    <3>1. Return(d, j)
      BY <1>7, <2>5 DEF MarkFailed
    <3> QED BY <1>1, <1>2, <1>3, <2>1, <2>2, <2>3, <3>1, PatchedInv
  <2> QED BY <2>4, <2>5
<1>8. CASE MarkRow(d, j) \/ MarkCancellation(d, j)
  <2>1. UNCHANGED job /\ pc[d][j] \in Heartbeat
    BY <1>8, RowWrite DEF Recorded, Heartbeat
  <2>2. /\ AttemptFitsPhase'
        /\ \A e \in Drains, k \in Jobs : att'[e][k] \in {0, att[e][k]}
        /\ \A e \in Drains, k \in Jobs : pc'[e][k] # "idle" => pc[e][k] # "idle"
    <3>1. CASE Return(d, j)
      BY <1>3, <3>1
    <3>2. CASE /\ \E where \in {"cancelSent", "cancelFailed"} : Goto(d, j, where)
               /\ UNCHANGED att
      BY <1>4, <2>1, <3>2 DEF Recorded
    <3> QED BY <1>8, <3>1, <3>2, RowWrite
  <2>3. TokenIsLatest' /\ AttemptsAreOwned'
    BY <1>1, <2>1, <2>2, Frame
  <2> QED BY <1>1, <1>2, <2>1, <2>2, <2>3
          DEF IInv, DraftHasNoJob, OnlyJobsAreDrained, GivenUpIsPast, GivenUp
<1> QED BY <1>5, <1>6, <1>7, <1>8

\* The exchange with the server moves one drain inside its attempt.
LEMMA ExchangeInv ==
  ASSUME IInv, NEW d \in Drains, NEW j \in Jobs,
         Send(d, j) \/ \E outcome \in Outcomes : Answer(d, j, outcome)
  PROVE  IInv'
<1>1. TypeOK'
  BY ProcessJobType DEF IInv, ProcessJob
<1>2. UNCHANGED <<sale, job, att>>
  BY DEF Send, Answer
<1>3. PICK where \in Heartbeat : pc[d][j] \in Heartbeat /\ Goto(d, j, where)
  BY DEF Send, Answer, Outcomes, Heartbeat
<1>4. AttemptFitsPhase'
  BY <1>2, <1>3 DEF Goto, IInv, TypeOK, AttemptFitsPhase, Heartbeat
<1>5. OnlyJobsAreDrained'
  BY <1>2, <1>3 DEF Goto, IInv, TypeOK, OnlyJobsAreDrained, Heartbeat
<1> QED BY <1>1, <1>2, <1>4, <1>5
        DEF IInv, TokenIsLatest, AttemptsAreOwned, DraftHasNoJob, GivenUpIsPast, GivenUp

\* Heartbeats and the clock change the lease and the due date of a row only.
LEMMA TimeInv ==
  ASSUME IInv, NEW j \in Jobs,
         (\E d \in Drains : Renew(d, j)) \/ LeaseExpires(j) \/ BecomeDue(j)
  PROVE  IInv'
<1>1. TypeOK'
  BY WriteType, TimeType DEF IInv
<1>2. UNCHANGED <<sale, pc, att>>
  BY DEF Renew, LeaseExpires, BecomeDue
<1>3. \A k \in Jobs : /\ job'[k].attempts = job[k].attempts
                      /\ job'[k].token = job[k].token
                      /\ job'[k].status = job[k].status
                      /\ job'[k].due = "never" => job[k].due = "never"
  <2>1. CASE \E d \in Drains : Renew(d, j)
    <3>1. job' = [job EXCEPT ![j].lease = TRUE]
      BY <2>1 DEF Renew
    <3> QED BY <3>1 DEF IInv, TypeOK, JobRow
  <2>2. CASE LeaseExpires(j)
    <3>1. job' = [job EXCEPT ![j].lease = FALSE]
      BY <2>2 DEF LeaseExpires
    <3> QED BY <3>1 DEF IInv, TypeOK, JobRow
  <2>3. CASE BecomeDue(j)
    <3>1. job' = [job EXCEPT ![j].due = "now"]
      BY <2>3 DEF BecomeDue
    <3> QED BY <3>1 DEF IInv, TypeOK, JobRow
  <2> QED BY <2>1, <2>2, <2>3
<1>4. TokenIsLatest' /\ AttemptsAreOwned'
  BY <1>2, <1>3 DEF IInv, TokenIsLatest, AttemptsAreOwned
<1>5. GivenUpIsPast'
  BY <1>3 DEF IInv, GivenUpIsPast, GivenUp
<1>6. AttemptFitsPhase'
  BY <1>2 DEF IInv, AttemptFitsPhase
<1>7. DraftHasNoJob' /\ OnlyJobsAreDrained'
  BY <1>2, <1>3 DEF IInv, DraftHasNoJob, OnlyJobsAreDrained, Jobs
<1> QED BY <1>1, <1>4, <1>5, <1>6, <1>7 DEF IInv

LEMMA StorageErrorInv ==
  ASSUME IInv, NEW d \in Drains, NEW j \in Jobs, StorageError(d, j)
  PROVE  IInv'
<1>1. TypeOK'
  BY WriteType DEF IInv
<1>2. UNCHANGED <<sale, job>>
  BY DEF StorageError
<1>3. /\ \A e \in Drains, k \in Jobs : att'[e][k] \in {0, att[e][k]}
      /\ \A e \in Drains, k \in Jobs : pc'[e][k] # "idle" => pc[e][k] # "idle"
      /\ AttemptFitsPhase'
  <2>1. CASE /\ pc[d][j] \in {"claimed", "acked", "rowSent", "cancelSent"}
             /\ Goto(d, j, "retryable") /\ UNCHANGED att
    BY <2>1 DEF Goto, IInv, TypeOK, AttemptFitsPhase, Heartbeat
  <2>2. CASE /\ pc[d][j] # "idle"
             /\ pc' = [pc EXCEPT ![d] =
                         [k \in Jobs |-> IF k = j \/ pc[d][k] = "selected"
                                           THEN "idle" ELSE pc[d][k]]]
             /\ att' = [att EXCEPT ![d][j] = 0]
    <3>1. \A e \in Drains, k \in Jobs :
            /\ pc'[e][k] \in {"idle", pc[e][k]}
            /\ e = d /\ k = j => pc'[e][k] = "idle"
            /\ pc'[e][k] # pc[e][k] => e = d /\ (k = j \/ pc[e][k] = "selected")
      BY <2>2 DEF IInv, TypeOK
    <3>2. \A e \in Drains, k \in Jobs :
            att'[e][k] = IF e = d /\ k = j THEN 0 ELSE att[e][k]
      BY <2>2 DEF IInv, TypeOK
    <3>3. AttemptFitsPhase'
      BY <3>1, <3>2 DEF IInv, AttemptFitsPhase, Heartbeat
    <3> QED BY <3>1, <3>2, <3>3
  <2>3. \/ /\ pc[d][j] \in {"claimed", "acked", "rowSent", "cancelSent"}
           /\ Goto(d, j, "retryable") /\ UNCHANGED att
        \/ /\ pc[d][j] # "idle"
           /\ pc' = [pc EXCEPT ![d] =
                       [k \in Jobs |-> IF k = j \/ pc[d][k] = "selected"
                                         THEN "idle" ELSE pc[d][k]]]
           /\ att' = [att EXCEPT ![d][j] = 0]
    BY DEF StorageError
  <2> QED BY <2>1, <2>2, <2>3
<1>4. TokenIsLatest' /\ AttemptsAreOwned'
  BY <1>1, <1>2, <1>3, Frame
<1> QED BY <1>1, <1>2, <1>3, <1>4
        DEF IInv, DraftHasNoJob, OnlyJobsAreDrained, GivenUpIsPast, GivenUp

LEMMA InitInv == Init => IInv
<1> SUFFICES ASSUME Init PROVE IInv
  OBVIOUS
<1>1. TypeOK
  BY InitType
<1>2. /\ \A j \in Jobs : job[j].status = "NONE" /\ job[j].token = 0 /\ job[j].attempts = 0
      /\ \A d \in Drains, j \in Jobs : pc[d][j] = "idle" /\ att[d][j] = 0
  BY DEF Init
<1> QED BY <1>1, <1>2
        DEF IInv, TokenIsLatest, AttemptsAreOwned, AttemptFitsPhase, DraftHasNoJob,
            OnlyJobsAreDrained, GivenUpIsPast, GivenUp, Heartbeat, Jobs

LEMMA StepInv == IInv /\ [Next]_vars => IInv'
<1> SUFFICES ASSUME IInv, [Next]_vars PROVE IInv'
  OBVIOUS
<1>1. CASE UNCHANGED vars
  BY <1>1 DEF vars, IInv, TypeOK, TokenIsLatest, AttemptsAreOwned, AttemptFitsPhase,
              DraftHasNoJob, OnlyJobsAreDrained, GivenUpIsPast, GivenUp
<1>2. CASE Local
  <2>1. ASSUME NEW d \in Drains, NEW j \in Jobs, LocalStep(d, j) PROVE IInv'
    BY <2>1, ReserveInv, OutcomeInv DEF LocalStep
  <2>2. ASSUME NEW d \in Drains, NEW j \in Jobs, Renew(d, j) \/ StorageError(d, j)
        PROVE  IInv'
    BY <2>2, TimeInv, StorageErrorInv
  <2>3. ASSUME NEW j \in Jobs, LeaseExpires(j) \/ BecomeDue(j) PROVE IInv'
    BY <2>3, TimeInv
  <2>4. ASSUME NEW d \in Drains, StartDrain(d) \/ StartNext(d) \/ EndDrain(d) \/ Crash(d)
        PROVE  IInv'
    BY <2>4, DrainInv
  <2> QED BY <1>2, <2>1, <2>2, <2>3, <2>4, ApplicationInv DEF Local
<1>3. ASSUME NEW d \in Drains, NEW j \in Jobs,
             Send(d, j) \/ \E outcome \in Outcomes : Answer(d, j, outcome)
      PROVE  IInv'
  BY <1>3, ExchangeInv
<1> QED BY <1>1, <1>2, <1>3 DEF Next

LEMMA Invariance == Spec => []IInv
BY InitInv, StepInv, PTL DEF Spec

-----------------------------------------------------------------------------
(* The properties. *)

\* At most one drain at a time can change the outcome of a job.
THEOREM FenceHolds == Spec => []OneHolder
<1>1. IInv => OneHolder
  BY DEF IInv, OneHolder, Holds, AttemptsAreOwned
<1> QED BY <1>1, Invariance, PTL

\* A job past the retry ceiling is never posted.
THEOREM CeilingHolds == Spec => []NoSendPastCeiling
<1>1. IInv => NoSendPastCeiling
  BY OutboxAssumption DEF IInv, NoSendPastCeiling, AttemptFitsPhase, Heartbeat
<1> QED BY <1>1, Invariance, PTL

-----------------------------------------------------------------------------
(* What a step may do to the outcome of a job, and who may do it. *)

Unchanged(j) == job'[j].status = job[j].status /\ job'[j].due = job[j].due

\* The drain d settles its attempt of j: the one that holds the row.
Settles(d, j) ==
  /\ Holds(d, j) /\ job[j].attempts = att[d][j]
  /\ job[j].status = "SENT" => job'[j].status = "SENT"
  /\ att[d][j] > MaxRetryAttempts => job'[j].status = "FAILED" /\ job'[j].due = "never"
  /\ \A e \in Drains, k \in Jobs : pc'[e][k] # pc[e][k] => e = d /\ k = j

OutcomeOf(j) == \/ Unchanged(j)
                \/ pc' = pc /\ job[j].status = "NONE"
                \/ /\ pc' = pc /\ job[j].due = "later"
                   /\ job'[j].status = job[j].status
                \/ \E d \in Drains : Settles(d, j)

\* A write through the fence settles the attempt it was made for.
LEMMA FencedWrite ==
  ASSUME IInv, NEW d \in Drains, NEW j \in Jobs,
         NEW status \in {"FAILED", "SENT"}, NEW due \in {"now", "later", "never"},
         pc[d][j] \in Heartbeat \cup {"giveup"},
         pc[d][j] = "giveup" => status = "FAILED" /\ due = "never",
         Fenced(j, att[d][j], status), job' = Patched(j, status, due),
         NEW where, Goto(d, j, where)
  PROVE  \A k \in Jobs : OutcomeOf(k)
<1>1. /\ job'[j].status = status /\ job'[j].due = due
      /\ \A k \in Jobs : k # j => job'[k] = job[k]
  BY DEF Patched, IInv, TypeOK, JobRow
<1>2. \A e \in Drains, k \in Jobs : pc'[e][k] # pc[e][k] => e = d /\ k = j
  BY DEF Goto, IInv, TypeOK
<1>3. att[d][j] \in Nat /\ att[d][j] # 0
  BY OutboxAssumption DEF IInv, TypeOK, AttemptFitsPhase
<1>4. att[d][j] > MaxRetryAttempts => pc[d][j] = "giveup"
  BY OutboxAssumption DEF IInv, AttemptFitsPhase
<1>5. Settles(d, j)
  BY <1>1, <1>2, <1>3, <1>4 DEF Settles, Holds, Fenced
<1> QED BY <1>1, <1>5 DEF OutcomeOf, Unchanged

\* Reserve hands out an attempt and leaves the outcome alone.
LEMMA ReserveOutcome ==
  ASSUME IInv, NEW d \in Drains, NEW j \in Jobs, Reserve(d, j), NEW k \in Jobs
  PROVE  Unchanged(k)
<1>1. (\E a : job' = Reserved(j, a)) \/ job' = job
  BY DEF Reserve, Claim
<1>2. ASSUME NEW a, job' = Reserved(j, a) PROVE Unchanged(k)
  BY <1>2 DEF Reserved, Unchanged, IInv, TypeOK, JobRow
<1> QED BY <1>1, <1>2 DEF Unchanged

LEMMA LocalOutcome ==
  ASSUME IInv, NEW d \in Drains, NEW j \in Jobs, LocalStep(d, j)
  PROVE  \A k \in Jobs : OutcomeOf(k)
<1>1. CASE Reserve(d, j)
  BY <1>1, ReserveOutcome DEF OutcomeOf
<1>2. CASE UNCHANGED job
  BY <1>2 DEF OutcomeOf, Unchanged
<1>3. CASE GiveUp(d, j) /\ ~UNCHANGED job
  <2>1. /\ pc[d][j] = "giveup" /\ Goto(d, j, "idle")
        /\ Fenced(j, att[d][j], "FAILED") /\ job' = Patched(j, "FAILED", "never")
    BY <1>3 DEF GiveUp, Return
  <2> QED BY <2>1, FencedWrite
<1>4. CASE MarkSent(d, j) /\ ~UNCHANGED job
  <2>1. /\ pc[d][j] = "acked"
        /\ Fenced(j, att[d][j], "SENT") /\ job' = Patched(j, "SENT", "now")
    BY <1>4 DEF MarkSent
  <2>2. PICK where \in PCs : Goto(d, j, where)
    BY <1>4, <2>1 DEF MarkSent, Return, PCs, Active, Heartbeat
  <2> QED BY <2>1, <2>2, FencedWrite DEF Heartbeat
<1>5. CASE MarkFailed(d, j) /\ ~UNCHANGED job
  <2>1. /\ pc[d][j] \in {"retryable", "nonRetryable"} /\ Fenced(j, att[d][j], "FAILED")
    BY <1>5 DEF MarkFailed
  <2>2. PICK due \in {"now", "later"} : job' = Patched(j, "FAILED", due)
    BY <1>5, <2>1 DEF MarkFailed, Backoff
  <2>3. PICK where \in PCs : Goto(d, j, where)
    BY <1>5, <2>1 DEF MarkFailed, Return, PCs, Active, Heartbeat
  <2> QED BY <2>1, <2>2, <2>3, FencedWrite DEF Heartbeat
<1> QED BY <1>1, <1>2, <1>3, <1>4, <1>5 DEF LocalStep, MarkRow, MarkCancellation

LEMMA StepOutcome ==
  ASSUME IInv, [Next]_vars
  PROVE  \A k \in Jobs : OutcomeOf(k)
<1>1. CASE UNCHANGED job
  BY <1>1 DEF OutcomeOf, Unchanged
<1>2. ASSUME NEW d \in Drains, NEW j \in Jobs, LocalStep(d, j)
      PROVE  \A k \in Jobs : OutcomeOf(k)
  BY <1>2, LocalOutcome
<1>3. ASSUME NEW j \in TxJobs, CompleteSale(j) PROVE \A k \in Jobs : OutcomeOf(k)
  <2>1. pc' = pc /\ job[j].status = "NONE"
    BY <1>3 DEF CompleteSale, IInv, DraftHasNoJob
  <2>2. \A k \in Jobs : k # j => job'[k] = job[k]
    BY <1>3 DEF CompleteSale, IInv, TypeOK, Jobs
  <2> QED BY <2>1, <2>2 DEF OutcomeOf, Unchanged
<1>4. ASSUME NEW j \in OrderJobs, EnqueueOrderUpdate(j) PROVE \A k \in Jobs : OutcomeOf(k)
  <2>1. pc' = pc /\ job[j].status = "NONE"
    BY <1>4 DEF EnqueueOrderUpdate
  <2>2. \A k \in Jobs : k # j => job'[k] = job[k]
    BY <1>4 DEF EnqueueOrderUpdate, IInv, TypeOK, Jobs
  <2> QED BY <2>1, <2>2 DEF OutcomeOf, Unchanged
<1>5. ASSUME NEW j \in Jobs, (\E d \in Drains : Renew(d, j)) \/ LeaseExpires(j)
      PROVE  \A k \in Jobs : OutcomeOf(k)
  <2>1. PICK lease \in BOOLEAN : job' = [job EXCEPT ![j].lease = lease]
    BY <1>5 DEF Renew, LeaseExpires
  <2>2. \A k \in Jobs : Unchanged(k)
    BY <2>1 DEF Unchanged, IInv, TypeOK, JobRow
  <2> QED BY <2>2 DEF OutcomeOf
<1>6. ASSUME NEW j \in Jobs, BecomeDue(j) PROVE \A k \in Jobs : OutcomeOf(k)
  <2>1. pc' = pc /\ job[j].due = "later" /\ job' = [job EXCEPT ![j].due = "now"]
    BY <1>6 DEF BecomeDue
  <2>2. job'[j].status = job[j].status /\ \A k \in Jobs : k # j => job'[k] = job[k]
    BY <2>1 DEF IInv, TypeOK, JobRow
  <2> QED BY <2>1, <2>2 DEF OutcomeOf, Unchanged
<1>7. CASE Local
  <2>1. \/ UNCHANGED job
        \/ \E j \in TxJobs : CompleteSale(j)
        \/ \E j \in OrderJobs : EnqueueOrderUpdate(j)
        \/ \E d \in Drains, j \in Jobs : LocalStep(d, j) \/ Renew(d, j)
        \/ \E j \in Jobs : LeaseExpires(j) \/ BecomeDue(j)
    BY <1>7 DEF Local, VoidSale, RequestPush, DropRequest, StartDrain, StartNext,
                EndDrain, Crash, StorageError
  <2> QED BY <2>1, <1>1, <1>2, <1>3, <1>4, <1>5, <1>6
<1>8. CASE ~Local /\ ~UNCHANGED vars
  BY <1>1, <1>8 DEF Next, Send, Answer
<1>9. CASE UNCHANGED vars
  BY <1>1, <1>9 DEF vars
<1> QED BY <1>7, <1>8, <1>9

\* A drain whose lease was taken over changes neither the outcome nor the
\* schedule of the job, whatever it learns late.
THEOREM StaleAnswerHasNoEffect == Spec => StaleAnswerIgnored
<1> DEFINE A == \A d \in Drains, j \in Jobs :
                  /\ pc'[d][j] # pc[d][j]
                  /\ ~Holds(d, j)
                  => job'[j].status = job[j].status /\ job'[j].due = job[j].due
<1>1. IInv /\ [Next]_vars => [A]_vars
  <2> SUFFICES ASSUME IInv, [Next]_vars, NEW d \in Drains, NEW j \in Jobs,
                      pc'[d][j] # pc[d][j], ~Holds(d, j)
               PROVE  Unchanged(j)
    BY DEF Unchanged
  <2>1. OutcomeOf(j)
    BY StepOutcome
  <2>2. ~\E e \in Drains : Settles(e, j)
    BY DEF Settles
  <2> QED BY <2>1, <2>2 DEF OutcomeOf
<1> QED BY <1>1, Invariance, PTL DEF Spec, StaleAnswerIgnored

\* An acknowledged job is never reopened; a job that was given up stays so.
THEOREM OutcomeIsFinal == Spec => SettledIsFinal
<1> DEFINE A == \A j \in Jobs : /\ job[j].status = "SENT" => job'[j].status = "SENT"
                                /\ GivenUp(j) => GivenUp(j)'
<1>1. IInv /\ [Next]_vars => [A]_vars
  <2> SUFFICES ASSUME IInv, [Next]_vars, NEW j \in Jobs
               PROVE  /\ job[j].status = "SENT" => job'[j].status = "SENT"
                      /\ GivenUp(j) => GivenUp(j)'
    OBVIOUS
  <2>1. OutcomeOf(j)
    BY StepOutcome
  <2>2. job[j].status = "SENT" => job'[j].status = "SENT"
    BY <2>1 DEF OutcomeOf, Unchanged, Settles
  <2>3. ASSUME GivenUp(j) PROVE GivenUp(j)'
    <3>1. job[j].attempts > MaxRetryAttempts
      BY <2>3 DEF IInv, GivenUpIsPast
    <3> QED BY <2>1, <2>3, <3>1 DEF OutcomeOf, Unchanged, Settles, GivenUp
  <2> QED BY <2>2, <2>3
<1> QED BY <1>1, Invariance, PTL DEF Spec, SettledIsFinal

-----------------------------------------------------------------------------
(* What the steps against IndexedDB do to one row, and to an answer that was    *)
(* not recorded yet: what a module that adds the server has to know of them.   *)

RowStep(j) ==
  \/ job'[j].status = job[j].status /\ job'[j].attempts = job[j].attempts
  \/ /\ job'[j].status = job[j].status /\ job[j].status # "SENT"
     /\ job'[j].attempts = job[j].attempts + 1
  \/ /\ job[j].status = "NONE" /\ job'[j].status = "PENDING"
     /\ job'[j].attempts = job[j].attempts
  \/ /\ job[j].status \notin {"NONE", "SENT"} /\ job'[j].status = "FAILED"
     /\ job'[j].attempts = job[j].attempts
  \/ /\ \E d \in Drains : pc[d][j] = "acked" /\ att[d][j] = job[j].attempts
     /\ job[j].status # "NONE" /\ job'[j].status = "SENT"
     /\ job'[j].attempts = job[j].attempts

OneRow == job' = job \/ \E j \in Jobs : RowStep(j) /\ \A k \in Jobs : k # j => job'[k] = job[k]

LEMMA PatchedRow ==
  ASSUME TypeOK, NEW j \in Jobs, NEW status, NEW due, job' = Patched(j, status, due)
  PROVE  /\ job'[j].status = status /\ job'[j].attempts = job[j].attempts
         /\ \A k \in Jobs : k # j => job'[k] = job[k]
BY DEF Patched, TypeOK, JobRow

LEMMA OutcomeRow ==
  ASSUME IInv, NEW d \in Drains, NEW j \in Jobs,
         \/ GiveUp(d, j) \/ MarkSent(d, j) \/ MarkFailed(d, j)
         \/ MarkRow(d, j) \/ MarkCancellation(d, j)
  PROVE  OneRow
<1>1. pc[d][j] # "idle" => job[j].status # "NONE"
  BY DEF IInv, OnlyJobsAreDrained
<1>2. CASE GiveUp(d, j)
  <2>1. job' = job \/ (Fenced(j, att[d][j], "FAILED") /\ job' = Patched(j, "FAILED", "never"))
    BY <1>2 DEF GiveUp
  <2>2. pc[d][j] # "idle"
    BY <1>2 DEF GiveUp
  <2> QED BY <1>1, <2>1, <2>2, PatchedRow DEF OneRow, RowStep, Fenced, IInv
<1>3. CASE MarkSent(d, j)
  <2>1. job' = job \/ (Fenced(j, att[d][j], "SENT") /\ job' = Patched(j, "SENT", "now"))
    BY <1>3 DEF MarkSent
  <2>2. pc[d][j] = "acked"
    BY <1>3 DEF MarkSent
  <2> QED BY <1>1, <2>1, <2>2, PatchedRow DEF OneRow, RowStep, Fenced, IInv
<1>4. CASE MarkFailed(d, j)
  <2>1. \/ job' = job
        \/ /\ Fenced(j, att[d][j], "FAILED")
           /\ \E due \in {"now", "later"} : job' = Patched(j, "FAILED", due)
    BY <1>4 DEF MarkFailed, Backoff
  <2>2. pc[d][j] # "idle"
    BY <1>4 DEF MarkFailed
  <2> QED BY <1>1, <2>1, <2>2, PatchedRow DEF OneRow, RowStep, Fenced, IInv
<1>5. CASE MarkRow(d, j) \/ MarkCancellation(d, j)
  BY <1>5, RowWrite DEF OneRow
<1> QED BY <1>2, <1>3, <1>4, <1>5

LEMMA ReserveRow ==
  ASSUME IInv, NEW d \in Drains, NEW j \in Jobs, Reserve(d, j)
  PROVE  OneRow
<1>1. job' = job \/ (job[j].status # "SENT" /\ job' = Reserved(j, NextAttempt(j)))
  BY DEF Reserve, Claim
<1>2. ASSUME job[j].status # "SENT", job' = Reserved(j, NextAttempt(j)) PROVE OneRow
  <2>1. /\ job'[j].status = job[j].status /\ job'[j].attempts = NextAttempt(j)
        /\ \A k \in Jobs : k # j => job'[k] = job[k]
    BY <1>2 DEF Reserved, IInv, TypeOK, JobRow
  <2> QED BY <1>2, <2>1 DEF OneRow, RowStep, NextAttempt
<1> QED BY <1>1, <1>2 DEF OneRow

LEMMA LocalRow ==
  ASSUME IInv, Local
  PROVE  OneRow
<1>1. ASSUME NEW j \in Jobs, NEW k \in [Jobs -> JobRow],
             \/ k = [job EXCEPT ![j].due = "now"]
             \/ \E lease \in BOOLEAN : k = [job EXCEPT ![j].lease = lease],
             job' = k
      PROVE  OneRow
  <2>1. /\ job'[j].status = job[j].status /\ job'[j].attempts = job[j].attempts
        /\ \A i \in Jobs : i # j => job'[i] = job[i]
    BY <1>1 DEF IInv, TypeOK, JobRow
  <2> QED BY <2>1 DEF OneRow, RowStep
<1>2. TypeOK'
  BY StepInv DEF Next, IInv
<1>3. ASSUME NEW j \in Jobs, (\E d \in Drains : Renew(d, j)) \/ LeaseExpires(j) \/ BecomeDue(j)
      PROVE  OneRow
  BY <1>1, <1>2, <1>3 DEF Renew, LeaseExpires, BecomeDue, TypeOK
<1>4. ASSUME NEW j \in Jobs, job[j].status = "NONE", job' = [job EXCEPT ![j].status = "PENDING"]
      PROVE  OneRow
  <2>1. /\ job'[j].status = "PENDING" /\ job'[j].attempts = job[j].attempts
        /\ \A i \in Jobs : i # j => job'[i] = job[i]
    BY <1>4 DEF IInv, TypeOK, JobRow
  <2> QED BY <1>4, <2>1 DEF OneRow, RowStep
<1>5. ASSUME NEW j \in TxJobs, CompleteSale(j) PROVE OneRow
  BY <1>4, <1>5 DEF CompleteSale, IInv, DraftHasNoJob, Jobs
<1>6. ASSUME NEW j \in OrderJobs, EnqueueOrderUpdate(j) PROVE OneRow
  BY <1>4, <1>6 DEF EnqueueOrderUpdate, Jobs
<1>7. ASSUME NEW d \in Drains, NEW j \in Jobs, LocalStep(d, j) PROVE OneRow
  BY <1>7, ReserveRow, OutcomeRow DEF LocalStep
<1>8. CASE job' = job
  BY <1>8 DEF OneRow
<1> QED BY <1>3, <1>5, <1>6, <1>7, <1>8
        DEF Local, VoidSale, RequestPush, DropRequest, StartDrain, StartNext, EndDrain, Crash,
            StorageError

\* Only the exchange with the server makes an answer "acked".
LEMMA LocalAcked ==
  ASSUME IInv, Local, NEW d \in Drains, NEW j \in Jobs, pc'[d][j] = "acked"
  PROVE  pc[d][j] = "acked" /\ att'[d][j] = att[d][j]
<1>1. ASSUME NEW e \in Drains, NEW k \in Jobs, NEW where, where # "acked", Goto(e, k, where),
             \/ att' = att
             \/ \E a \in Nat : att' = [att EXCEPT ![e][k] = a]
      PROVE  pc[d][j] = "acked" /\ att'[d][j] = att[d][j]
  <2>1. /\ pc'[e][k] = where
        /\ ~(e = d /\ k = j) => pc'[d][j] = pc[d][j] /\ att'[d][j] = att[d][j]
    BY <1>1 DEF Goto, IInv, TypeOK
  <2> QED BY <1>1, <2>1
<1>2. ASSUME NEW e \in Drains, NEW k \in Jobs, LocalStep(e, k)
      PROVE  pc[d][j] = "acked" /\ att'[d][j] = att[d][j]
  <2>1. CASE Reserve(e, k)
    <3>1. NextAttempt(k) \in Nat
      BY DEF NextAttempt, IInv, TypeOK, JobRow
    <3> QED BY <1>1, <2>1, <3>1 DEF Reserve, Claim
  <2>2. CASE GiveUp(e, k) \/ MarkSent(e, k) \/ MarkFailed(e, k)
    BY <1>1, <2>2 DEF GiveUp, MarkSent, MarkFailed, Return
  <2>3. CASE MarkRow(e, k) \/ MarkCancellation(e, k)
    BY <1>1, <2>3, RowWrite DEF Return
  <2> QED BY <1>2, <2>1, <2>2, <2>3 DEF LocalStep
<1>3. ASSUME NEW e \in Drains, NEW k \in Jobs, StorageError(e, k)
      PROVE  pc[d][j] = "acked" /\ att'[d][j] = att[d][j]
  <2>1. CASE Goto(e, k, "retryable") /\ UNCHANGED <<att, running>>
    BY <1>1, <2>1
  <2>2. CASE /\ pc' = [pc EXCEPT ![e] =
                         [i \in Jobs |-> IF i = k \/ pc[e][i] = "selected"
                                           THEN "idle" ELSE pc[e][i]]]
             /\ att' = [att EXCEPT ![e][k] = 0]
    BY <2>2 DEF IInv, TypeOK
  <2> QED BY <1>3, <2>1, <2>2 DEF StorageError
<1>4. ASSUME NEW e \in Drains, StartDrain(e) \/ StartNext(e) \/ EndDrain(e) \/ Crash(e)
      PROVE  pc[d][j] = "acked" /\ att'[d][j] = att[d][j]
  BY <1>4 DEF StartDrain, StartNext, EndDrain, Crash, IInv, TypeOK
<1>5. CASE UNCHANGED <<pc, att>>
  BY <1>5
<1> QED BY <1>2, <1>3, <1>4, <1>5
        DEF Local, CompleteSale, VoidSale, EnqueueOrderUpdate, RequestPush, DropRequest, Renew,
            LeaseExpires, BecomeDue

-----------------------------------------------------------------------------
(***************************************************************************)
(* What attempts cost.  A claim takes an attempt; it is paid for by a      *)
(* recorded failure or by a fault, or a live drain still holds it.         *)
(***************************************************************************)

\* A drain holds the row and its lease runs.
Live(j) == job[j].lease /\ \E d \in Drains : Holds(d, j)

\* The drains that have the job in their snapshot and may still claim it.
Waiting(j) == {d \in Drains : pc[d][j] \in {"selected", "reserving"}}

\* A row that is settled has no token, nor has a drain that recorded its
\* outcome.
Released ==
  /\ \A j \in Jobs : job[j].status = "SENT" => job[j].token = 0
  /\ \A d \in Drains, j \in Jobs : pc[d][j] \in Recorded => ~Holds(d, j)

\* A step claims the next attempt of j, settles the one that is under way, or
\* does neither: then nobody loses the row but by a fault, and drains add the
\* job to their snapshots only when nobody holds it.
Claimed(j) ==
  /\ ~Live(j) /\ Live(j)'
  /\ job'[j].status = job[j].status /\ job'[j].due = job[j].due /\ job[j].status # "SENT"
  /\ job'[j].attempts = job[j].attempts + 1
  /\ \E d \in Waiting(j) : Waiting(j)' \subseteq Waiting(j) \ {d}
  /\ faults' = faults /\ failures'[j] = failures[j]

Settled(j) ==
  /\ job[j].status # "SENT" \/ job'[j].status = "SENT"
  /\ job'[j].attempts = job[j].attempts
  /\ Waiting(j)' \subseteq Waiting(j)
  /\ faults' = faults
  /\ \/ /\ job'[j].status = "SENT"
        /\ job[j].attempts <= MaxRetryAttempts /\ failures'[j] = failures[j]
     \/ /\ job'[j].status = "FAILED" /\ job'[j].due # "never"
        /\ job[j].attempts <= MaxRetryAttempts /\ failures'[j] = failures[j] + 1
     \/ /\ job'[j].status = "FAILED" /\ job'[j].due = "never"
        /\ job[j].attempts > MaxRetryAttempts /\ failures'[j] = failures[j]

Kept(j) ==
  /\ \/ job'[j].status = job[j].status
     \/ job[j].status = "NONE" /\ job'[j].status = "PENDING"
  /\ job'[j].due = job[j].due \/ (job[j].due = "later" /\ job'[j].due = "now")
  /\ job'[j].attempts = job[j].attempts
  /\ failures'[j] = failures[j]
  /\ faults' = faults \/ faults' = faults + 1
  /\ Live(j) => Live(j)' \/ faults' = faults + 1
  /\ Waiting(j)' \subseteq Waiting(j) \/ (~GivenUp(j) /\ ~Live(j))

\* A step that leaves row j and the attempts at it alone.
LEMMA QuietStep ==
  ASSUME IInv, NEW j \in Jobs, job'[j] = job[j], failures'[j] = failures[j],
         faults' = faults \/ faults' = faults + 1,
         \A d \in Drains : att'[d][j] = att[d][j] \/ ~Holds(d, j) \/ faults' = faults + 1,
         Waiting(j)' \subseteq Waiting(j) \/ (~GivenUp(j) /\ ~Live(j))
  PROVE  Kept(j)
<1>1. Live(j) => Live(j)' \/ faults' = faults + 1
  BY DEF Live, Holds
<1> QED BY <1>1 DEF Kept

\* The steps of processJob for one job leave the other drains and jobs alone.
LEMMA ElsewhereQuiet ==
  ASSUME IInv, NEW e \in Drains, NEW k \in Jobs, ProcessJob(e, k)
  PROVE  \A j \in Jobs :
           /\ \A d \in Drains : ~(d = e /\ j = k) => att'[d][j] = att[d][j] /\ pc'[d][j] = pc[d][j]
           /\ j # k => /\ job'[j] = job[j] /\ failures'[j] = failures[j]
                       /\ Waiting(j)' = Waiting(j)
           /\ faults' = faults
<1>1. /\ pc \in [Drains -> [Jobs -> PCs]] /\ att \in [Drains -> [Jobs -> Nat]]
      /\ job \in [Jobs -> JobRow] /\ failures \in [Jobs -> Nat]
  BY DEF IInv, TypeOK
<1>2. /\ pc' = pc \/ \E where : pc' = [pc EXCEPT ![e][k] = where]
      /\ att' = att \/ \E a : att' = [att EXCEPT ![e][k] = a]
      /\ job' = job \/ \E x : job' = [job EXCEPT ![k] = x]
      /\ failures' = failures \/ \E x : failures' = [failures EXCEPT ![k] = x]
      /\ faults' = faults
  <2>1. CASE Reserve(e, k)
    BY <2>1 DEF Reserve, Claim, Reserved, Goto
  <2>2. CASE GiveUp(e, k)
    BY <2>2 DEF GiveUp, Patched, Return, Goto
  <2>3. CASE MarkSent(e, k)
    BY <2>3 DEF MarkSent, Patched, Return, Goto
  <2>4. CASE MarkFailed(e, k)
    BY <2>4 DEF MarkFailed, Patched, Return, Goto
  <2>5. CASE MarkRow(e, k) \/ MarkCancellation(e, k)
    BY <2>5, RowWrite DEF Return, Goto
  <2>6. CASE Send(e, k) \/ \E outcome \in Outcomes : Answer(e, k, outcome)
    BY <2>6 DEF Send, Answer, Goto
  <2> QED BY <2>1, <2>2, <2>3, <2>4, <2>5, <2>6 DEF ProcessJob, LocalStep
<1>3. \A d \in Drains, j \in Jobs :
        ~(d = e /\ j = k) => att'[d][j] = att[d][j] /\ pc'[d][j] = pc[d][j]
  BY <1>1, <1>2
<1>4. \A j \in Jobs : j # k => job'[j] = job[j] /\ failures'[j] = failures[j]
  BY <1>1, <1>2
<1> QED BY <1>2, <1>3, <1>4 DEF Waiting

\* A step that only clears tokens and attempts, and goes on to the
\* rows of the order update only once the token is cleared.
LEMMA ReleasedFrame ==
  ASSUME IInv, Released,
         \A j \in Jobs : \/ job'[j].token = 0
                         \/ /\ job'[j].token = job[j].token
                            /\ job'[j].status = "SENT" => job[j].status = "SENT",
         \A d \in Drains, j \in Jobs : att'[d][j] \in {0, att[d][j]},
         \A d \in Drains, j \in Jobs :
           pc'[d][j] \in Recorded =>
             pc[d][j] \in Recorded \/ job'[j].token = 0
  PROVE  Released'
<1>1. ASSUME NEW d \in Drains, NEW j \in Jobs, pc'[d][j] \in Recorded
      PROVE  ~Holds(d, j)'
  <2>1. CASE job'[j].token = 0
    BY <2>1 DEF Holds
  <2>2. CASE job'[j].token = job[j].token /\ pc[d][j] \in Recorded
    <3>1. ~Holds(d, j) /\ att'[d][j] \in {0, att[d][j]}
      BY <2>2 DEF Released
    <3> QED BY <2>2, <3>1 DEF Holds
  <2> QED BY <1>1, <2>1, <2>2
<1> QED BY <1>1 DEF Released

\* Reserve hands the row to a drain that had no attempt.
LEMMA ReleasedReserve ==
  ASSUME IInv, Released, NEW d \in Drains, NEW j \in Jobs, Reserve(d, j)
  PROVE  Released'
<1> DEFINE a == NextAttempt(j)
<1>1. Claim(d, j, a, Reserved(j, a), MaxRetryAttempts)
  BY DEF Reserve
<1>2. a \in Nat /\ a = job[j].attempts + 1 /\ \A e \in Drains : att[e][j] # a
  BY DEF NextAttempt, IInv, TypeOK, JobRow, AttemptsAreOwned
<1> HIDE DEF a
<1>3. CASE UNCHANGED <<job, att>> /\ Goto(d, j, "idle")
  <2>1. \A e \in Drains, k \in Jobs : pc'[e][k] # "idle" => pc'[e][k] = pc[e][k]
    BY <1>3 DEF Goto, IInv, TypeOK
  <2>2. \A e \in Drains, k \in Jobs : pc'[e][k] \in Recorded => pc[e][k] \in Recorded
    BY <2>1 DEF Recorded
  <2> QED BY <1>3, <2>2, ReleasedFrame
<1>4. CASE /\ job[j].status # "SENT" /\ job' = Reserved(j, a)
           /\ att' = [att EXCEPT ![d][j] = a]
           /\ Goto(d, j, IF a > MaxRetryAttempts THEN "giveup" ELSE "claimed")
  <2>1. /\ job'[j].status # "SENT" /\ job'[j].token = a
        /\ \A k \in Jobs : k # j => job'[k] = job[k]
    BY <1>4 DEF Reserved, IInv, TypeOK, JobRow
  <2>2. /\ pc'[d][j] \in {"giveup", "claimed"}
        /\ \A e \in Drains, k \in Jobs :
             ~(e = d /\ k = j) => pc'[e][k] = pc[e][k] /\ att'[e][k] = att[e][k]
    BY <1>4 DEF Goto, IInv, TypeOK
  <2>3. ASSUME NEW e \in Drains, NEW k \in Jobs, pc'[e][k] \in Recorded
        PROVE  ~Holds(e, k)'
    <3>1. ~(e = d /\ k = j) /\ pc[e][k] \in Recorded /\ att'[e][k] = att[e][k]
      BY <2>2, <2>3 DEF Recorded
    <3>2. CASE k = j
      BY <1>2, <2>1, <3>1, <3>2 DEF Holds
    <3>3. CASE k # j
      BY <2>1, <3>1, <3>3 DEF Holds, Released
    <3> QED BY <3>2, <3>3
  <2> QED BY <2>1, <2>3 DEF Released
<1> QED BY <1>1, <1>3, <1>4 DEF Claim

LEMMA ReleasedOutcome ==
  ASSUME IInv, Released, NEW d \in Drains, NEW j \in Jobs,
         \/ GiveUp(d, j) \/ MarkSent(d, j) \/ MarkFailed(d, j)
         \/ MarkRow(d, j) \/ MarkCancellation(d, j)
  PROVE  Released'
<1>1. /\ job \in [Jobs -> JobRow] /\ pc \in [Drains -> [Jobs -> PCs]]
      /\ att \in [Drains -> [Jobs -> Nat]]
  BY DEF IInv, TypeOK
<1>2. \/ \E status, due : job' = Patched(j, status, due)
      \/ job' = job /\ (Return(d, j) \/ pc[d][j] \in Recorded)
  BY RowWrite DEF GiveUp, MarkSent, MarkFailed
<1>3. \/ Return(d, j)
      \/ (\E where : Goto(d, j, where)) /\ UNCHANGED att
  BY RowWrite DEF GiveUp, MarkSent, MarkFailed
<1>4. \A k \in Jobs :
        /\ k # j => job'[k] = job[k]
        /\ k = j => \/ job'[k].token = 0
                    \/ job'[k] = job[k] /\ (Return(d, j) \/ pc[d][j] \in Recorded)
  <2>1. ASSUME NEW status, NEW due, job' = Patched(j, status, due)
        PROVE  job'[j].token = 0 /\ \A k \in Jobs : k # j => job'[k] = job[k]
    BY <1>1, <2>1 DEF Patched, JobRow
  <2> QED BY <1>2, <2>1
<1>5. \A e \in Drains, k \in Jobs : att'[e][k] \in {0, att[e][k]}
  BY <1>1, <1>3 DEF Return
<1>6. \A e \in Drains, k \in Jobs : ~(e = d /\ k = j) => pc'[e][k] = pc[e][k]
  BY <1>1, <1>3 DEF Return, Goto
<1>7. Return(d, j) => pc'[d][j] \notin Recorded
  BY <1>1 DEF Return, Goto, Recorded
<1>8. \A k \in Jobs : \/ job'[k].token = 0
                      \/ /\ job'[k].token = job[k].token
                         /\ job'[k].status = "SENT" => job[k].status = "SENT"
  BY <1>4
<1>9. \A e \in Drains, k \in Jobs :
        pc'[e][k] \in Recorded => pc[e][k] \in Recorded \/ job'[k].token = 0
  BY <1>4, <1>6, <1>7
<1> QED BY <1>5, <1>8, <1>9, ReleasedFrame

LEMMA ReleasedStep ==
  ASSUME IInv, Released, [Next]_vars
  PROVE  Released'
<1>1. job \in [Jobs -> JobRow] /\ pc \in [Drains -> [Jobs -> PCs]]
      /\ att \in [Drains -> [Jobs -> Nat]]
  BY DEF IInv, TypeOK
<1>2. ASSUME NEW d \in Drains, NEW j \in Jobs, LocalStep(d, j) PROVE Released'
  BY <1>2, ReleasedReserve, ReleasedOutcome DEF LocalStep
<1>3. ASSUME NEW j \in Jobs, UNCHANGED <<pc, att>>,
             \/ job[j].status # "SENT" /\ job' = [job EXCEPT ![j].status = "PENDING"]
             \/ \E lease : job' = [job EXCEPT ![j].lease = lease]
             \/ \E due : job' = [job EXCEPT ![j].due = due]
      PROVE  Released'
  <2>1. \A k \in Jobs : /\ job'[k].token = job[k].token
                        /\ job'[k].status = "SENT" => job[k].status = "SENT"
    <3>1. CASE job[j].status # "SENT" /\ job' = [job EXCEPT ![j].status = "PENDING"]
      BY <1>1, <3>1 DEF JobRow
    <3>2. ASSUME NEW lease, job' = [job EXCEPT ![j].lease = lease]
          PROVE  \A k \in Jobs : job'[k].token = job[k].token /\ job'[k].status = job[k].status
      BY <1>1, <3>2 DEF JobRow
    <3>3. ASSUME NEW due, job' = [job EXCEPT ![j].due = due]
          PROVE  \A k \in Jobs : job'[k].token = job[k].token /\ job'[k].status = job[k].status
      BY <1>1, <3>3 DEF JobRow
    <3> QED BY <1>3, <3>1, <3>2, <3>3
  <2> QED BY <1>3, <2>1, ReleasedFrame
<1>4. ASSUME UNCHANGED job,
             \A d \in Drains, j \in Jobs : att'[d][j] \in {0, att[d][j]},
             \A d \in Drains, j \in Jobs :
               pc'[d][j] \in Recorded => pc[d][j] \in Recorded
      PROVE  Released'
  BY <1>4, ReleasedFrame
<1>5. ASSUME NEW j \in Jobs, (\E d \in Drains : Renew(d, j)) \/ LeaseExpires(j) \/ BecomeDue(j)
      PROVE  Released'
  BY <1>3, <1>5 DEF Renew, LeaseExpires, BecomeDue
<1>6. ASSUME NEW j \in TxJobs, CompleteSale(j) PROVE Released'
  BY <1>3, <1>6 DEF CompleteSale, IInv, DraftHasNoJob, Jobs
<1>7. ASSUME NEW j \in OrderJobs, EnqueueOrderUpdate(j) PROVE Released'
  BY <1>3, <1>7 DEF EnqueueOrderUpdate, Jobs
<1>8. ASSUME NEW d \in Drains, StartDrain(d) \/ StartNext(d) \/ EndDrain(d) \/ Crash(d)
      PROVE  Released'
  <2>1. UNCHANGED job /\ \A e \in Drains, j \in Jobs : att'[e][j] \in {0, att[e][j]}
    BY <1>1, <1>8 DEF StartDrain, StartNext, EndDrain, Crash
  <2>2. \A e \in Drains, j \in Jobs :
          pc'[e][j] \in Recorded => pc[e][j] \in Recorded
    BY <1>1, <1>8 DEF StartDrain, StartNext, EndDrain, Crash, Recorded
  <2> QED BY <1>4, <2>1, <2>2
<1>9. ASSUME NEW d \in Drains, NEW j \in Jobs, StorageError(d, j) PROVE Released'
  <2>1. UNCHANGED job /\ \A e \in Drains, k \in Jobs : att'[e][k] \in {0, att[e][k]}
    BY <1>1, <1>9 DEF StorageError
  <2>2. \A e \in Drains, k \in Jobs :
          pc'[e][k] \in Recorded => pc[e][k] \in Recorded
    <3>1. CASE Goto(d, j, "retryable")
      BY <1>1, <3>1 DEF Goto, Recorded
    <3>2. CASE pc' = [pc EXCEPT ![d] =
                        [k \in Jobs |-> IF k = j \/ pc[d][k] = "selected"
                                          THEN "idle" ELSE pc[d][k]]]
      BY <1>1, <3>2 DEF Recorded
    <3> QED BY <1>9, <3>1, <3>2 DEF StorageError
  <2> QED BY <1>4, <2>1, <2>2
<1>10. ASSUME NEW d \in Drains, NEW j \in Jobs,
              Send(d, j) \/ \E outcome \in Outcomes : Answer(d, j, outcome)
       PROVE  Released'
  <2>1. UNCHANGED <<job, att>>
    BY <1>10 DEF Send, Answer
  <2>2. \A e \in Drains, k \in Jobs :
          pc'[e][k] \in Recorded => pc[e][k] \in Recorded
    BY <1>1, <1>10 DEF Send, Answer, Outcomes, Goto, Recorded
  <2> QED BY <1>4, <2>1, <2>2
<1>11. CASE UNCHANGED <<job, pc, att>>
  BY <1>4, <1>11
<1> QED
  BY <1>2, <1>5, <1>6, <1>7, <1>8, <1>9, <1>10, <1>11
  DEF Next, Local, vars, VoidSale, RequestPush, DropRequest

\* A claim costs one attempt and one place among the waiting drains.
LEMMA ReserveCost ==
  ASSUME IInv, NEW d \in Drains, NEW k \in Jobs, Reserve(d, k)
  PROVE  Claimed(k) \/ Kept(k)
<1> DEFINE a == NextAttempt(k)
<1>1. Claim(d, k, a, Reserved(k, a), MaxRetryAttempts)
  BY DEF Reserve
<1>2. job \in [Jobs -> JobRow] /\ pc \in [Drains -> [Jobs -> PCs]]
      /\ att \in [Drains -> [Jobs -> Nat]]
  BY DEF IInv, TypeOK
<1>3. a \in Nat /\ a # 0 /\ a = job[k].attempts + 1
  BY <1>2 DEF NextAttempt, JobRow
<1> HIDE DEF a
<1>4. pc[d][k] = "reserving" /\ UNCHANGED <<faults, failures>>
  BY <1>1 DEF Claim
<1>5. CASE job[k].status = "SENT" \/ IsLeaseActive(k)
  <2>1. UNCHANGED <<job, att>> /\ Goto(d, k, "idle")
    BY <1>1, <1>5 DEF Claim
  <2>2. Waiting(k)' \subseteq Waiting(k)
    BY <1>2, <2>1 DEF Goto, Waiting
  <2> QED BY <1>4, <2>1, <2>2, QuietStep
<1>6. CASE ~(job[k].status = "SENT" \/ IsLeaseActive(k))
  <2>1. /\ job' = Reserved(k, a) /\ att' = [att EXCEPT ![d][k] = a]
        /\ Goto(d, k, IF a > MaxRetryAttempts THEN "giveup" ELSE "claimed")
    BY <1>1, <1>6 DEF Claim
  <2>2. /\ job'[k].status = job[k].status /\ job'[k].due = job[k].due
        /\ job'[k].attempts = a /\ job'[k].token = a /\ job'[k].lease = TRUE
    BY <1>2, <2>1 DEF Reserved, JobRow
  <2>3. att'[d][k] = a
    BY <1>2, <2>1
  <2>4. /\ pc'[d][k] \in {"giveup", "claimed"}
        /\ \A e \in Drains : e # d => pc'[e][k] = pc[e][k]
    BY <1>2, <2>1 DEF Goto
  <2>5. d \in Waiting(k) /\ Waiting(k)' \subseteq Waiting(k) \ {d}
    BY <1>4, <2>4 DEF Waiting
  <2>6. Live(k)'
    BY <1>3, <2>2, <2>3 DEF Live, Holds
  <2>7. ~Live(k)
    BY <1>6 DEF Live, Holds, IsLeaseActive
  <2> QED BY <1>3, <1>4, <1>6, <2>2, <2>5, <2>6, <2>7 DEF Claimed
<1> QED BY <1>5, <1>6

\* What holds of the drain that writes an outcome: unless it holds the row the
\* fence refuses the write.
LEMMA FencedOrGone ==
  ASSUME IInv, Released, NEW d \in Drains, NEW k \in Jobs, NEW status,
         pc[d][k] \in Heartbeat \cup {"giveup"}, ~Fenced(k, att[d][k], status)
  PROVE  ~Holds(d, k)
<1>1. job[k].token \in {0, job[k].attempts}
  BY DEF IInv, TokenIsLatest
<1>2. job[k].status = "SENT" => job[k].token = 0
  BY DEF Released
<1> QED BY <1>1, <1>2 DEF Holds, Fenced

\* An outcome settles the attempt under way, or the fence refused it and the
\* attempt was somebody else's already.
LEMMA OutcomeCost ==
  ASSUME IInv, Released, NEW d \in Drains, NEW k \in Jobs,
         \/ GiveUp(d, k) \/ MarkSent(d, k) \/ MarkFailed(d, k)
         \/ MarkRow(d, k) \/ MarkCancellation(d, k)
  PROVE  Settled(k) \/ Kept(k)
<1>1. /\ job \in [Jobs -> JobRow] /\ pc \in [Drains -> [Jobs -> PCs]]
      /\ att \in [Drains -> [Jobs -> Nat]] /\ failures \in [Jobs -> Nat]
  BY DEF IInv, TypeOK
<1>2. UNCHANGED faults
  BY RowWrite DEF GiveUp, MarkSent, MarkFailed
<1>3. Waiting(k)' \subseteq Waiting(k)
  <2>1. Return(d, k) \/ \E where \in Recorded : Goto(d, k, where)
    BY RowWrite DEF GiveUp, MarkSent, MarkFailed, Recorded
  <2>2. \A e \in Drains :
          pc'[e][k] = pc[e][k] \/ pc'[e][k] \in Recorded \cup {"idle"}
    <3>1. ASSUME NEW where \in Recorded \cup {"idle"}, Goto(d, k, where)
          PROVE  \A e \in Drains : pc'[e][k] = pc[e][k] \/ pc'[e][k] = where
      BY <1>1, <3>1 DEF Goto
    <3> QED BY <2>1, <3>1 DEF Return
  <2> QED BY <2>2 DEF Waiting, Recorded
<1>4. ASSUME UNCHANGED <<job, failures>>, Return(d, k) \/ UNCHANGED att, ~Holds(d, k)
      PROVE  Kept(k)
  <2>1. \A e \in Drains : att'[e][k] = att[e][k] \/ ~Holds(e, k)
    BY <1>1, <1>4 DEF Return
  <2> QED BY <1>2, <1>3, <1>4, <2>1, QuietStep
<1>5. CASE GiveUp(d, k)
  <2>1. CASE Fenced(k, att[d][k], "FAILED")
    <3>1. job' = Patched(k, "FAILED", "never") /\ UNCHANGED failures /\ pc[d][k] = "giveup"
      BY <1>5, <2>1 DEF GiveUp
    <3>2. /\ job'[k].status = "FAILED" /\ job'[k].due = "never"
          /\ job'[k].attempts = job[k].attempts
      BY <1>1, <3>1 DEF Patched, JobRow
    <3>3. job[k].attempts = att[d][k] /\ job[k].status # "SENT" /\ att[d][k] > MaxRetryAttempts
      BY <2>1, <3>1 DEF Fenced, IInv, AttemptFitsPhase
    <3> QED BY <1>2, <1>3, <3>1, <3>2, <3>3 DEF Settled
  <2>2. CASE ~Fenced(k, att[d][k], "FAILED")
    <3>1. UNCHANGED <<job, failures>> /\ Return(d, k) /\ pc[d][k] = "giveup"
      BY <1>5, <2>2 DEF GiveUp
    <3> QED BY <1>4, <2>2, <3>1, FencedOrGone
  <2> QED BY <2>1, <2>2
<1>6. CASE MarkSent(d, k)
  <2>1. CASE Fenced(k, att[d][k], "SENT")
    <3>1. job' = Patched(k, "SENT", "now") /\ UNCHANGED failures /\ pc[d][k] = "acked"
      BY <1>6, <2>1 DEF MarkSent
    <3>2. job'[k].status = "SENT" /\ job'[k].attempts = job[k].attempts
      BY <1>1, <3>1 DEF Patched, JobRow
    <3>3. job[k].attempts = att[d][k] /\ att[d][k] <= MaxRetryAttempts
      BY <2>1, <3>1 DEF Fenced, IInv, AttemptFitsPhase, Heartbeat
    <3> QED BY <1>2, <1>3, <3>1, <3>2, <3>3 DEF Settled
  <2>2. CASE ~Fenced(k, att[d][k], "SENT")
    <3>1. UNCHANGED <<job, failures>> /\ Return(d, k) /\ pc[d][k] = "acked"
      BY <1>6, <2>2 DEF MarkSent
    <3> QED BY <1>4, <2>2, <3>1, FencedOrGone DEF Heartbeat
  <2> QED BY <2>1, <2>2
<1>7. CASE MarkFailed(d, k)
  <2>1. CASE Fenced(k, att[d][k], "FAILED")
    <3>1. /\ failures' = [failures EXCEPT ![k] = @ + 1]
          /\ pc[d][k] \in {"retryable", "nonRetryable"}
      BY <1>7, <2>1 DEF MarkFailed
    <3>2. PICK due \in {"now", "later"} : job' = Patched(k, "FAILED", due)
      BY <1>7, <2>1 DEF MarkFailed, Backoff
    <3>3. /\ job'[k].status = "FAILED" /\ job'[k].due = due
          /\ job'[k].attempts = job[k].attempts
      BY <1>1, <3>2 DEF Patched, JobRow
    <3>4. /\ job[k].attempts = att[d][k] /\ job[k].status # "SENT"
          /\ att[d][k] <= MaxRetryAttempts
      BY <2>1, <3>1 DEF Fenced, IInv, AttemptFitsPhase, Heartbeat
    <3>5. failures'[k] = failures[k] + 1
      BY <1>1, <3>1
    <3>6. job'[k].due # "never"
      BY <3>2, <3>3
    <3> QED BY <1>2, <1>3, <3>3, <3>4, <3>5, <3>6 DEF Settled
  <2>2. CASE ~Fenced(k, att[d][k], "FAILED")
    <3>1. /\ UNCHANGED <<job, failures>> /\ Return(d, k)
          /\ pc[d][k] \in {"retryable", "nonRetryable"}
      BY <1>7, <2>2 DEF MarkFailed
    <3> QED BY <1>4, <2>2, <3>1, FencedOrGone DEF Heartbeat
  <2> QED BY <2>1, <2>2
<1>8. CASE MarkRow(d, k) \/ MarkCancellation(d, k)
  <2>1. /\ UNCHANGED <<job, failures>> /\ (Return(d, k) \/ UNCHANGED att)
        /\ pc[d][k] \in Recorded
    BY <1>8, RowWrite
  <2> QED BY <1>4, <2>1 DEF Released
<1> QED BY <1>5, <1>6, <1>7, <1>8

\* Selecting jobs: only those nobody holds join a snapshot.
LEMMA DrainCost ==
  ASSUME IInv, NEW d \in Drains, NEW j \in Jobs,
         StartDrain(d) \/ StartNext(d) \/ EndDrain(d) \/ Crash(d)
  PROVE  Kept(j)
<1>1. /\ pc \in [Drains -> [Jobs -> PCs]] /\ att \in [Drains -> [Jobs -> Nat]]
      /\ UNCHANGED <<job, failures>>
  BY DEF IInv, TypeOK, StartDrain, StartNext, EndDrain, Crash
<1>2. CASE StartDrain(d)
  <2>1. PICK batch \in SUBSET {k \in Jobs : IsDue(k)} :
          pc' = [pc EXCEPT ![d] = [k \in Jobs |-> IF k \in batch THEN "selected" ELSE "idle"]]
    BY <1>2 DEF StartDrain
  <2>2. Waiting(j)' \subseteq Waiting(j) \/ j \in batch
    BY <1>1, <2>1 DEF Waiting
  <2>3. j \in batch => ~GivenUp(j) /\ ~Live(j)
    BY <2>1 DEF IsDue, GivenUp, Live, Holds, IsLeaseActive
  <2>4. UNCHANGED <<att, faults>>
    BY <1>2 DEF StartDrain
  <2> QED BY <1>1, <2>2, <2>3, <2>4, QuietStep
<1>3. CASE StartNext(d)
  <2>1. \A e \in Drains : pc'[e][j] = pc[e][j] \/ (e = d /\ pc[e][j] = "selected")
    BY <1>1, <1>3 DEF StartNext, Selected
  <2>2. Waiting(j)' \subseteq Waiting(j)
    BY <2>1 DEF Waiting
  <2>3. UNCHANGED <<att, faults>>
    BY <1>3 DEF StartNext
  <2> QED BY <1>1, <2>2, <2>3, QuietStep
<1>4. CASE EndDrain(d)
  <2>1. UNCHANGED <<pc, att, faults>>
    BY <1>4 DEF EndDrain
  <2>2. Waiting(j)' = Waiting(j)
    BY <2>1 DEF Waiting
  <2> QED BY <1>1, <2>1, <2>2, QuietStep
<1>5. CASE Crash(d)
  <2>1. faults' = faults + 1 /\ pc' = [pc EXCEPT ![d] = [k \in Jobs |-> "idle"]]
    BY <1>5 DEF Crash, Fault
  <2>2. Waiting(j)' \subseteq Waiting(j)
    BY <1>1, <2>1 DEF Waiting
  <2> QED BY <1>1, <2>1, <2>2, QuietStep
<1> QED BY <1>2, <1>3, <1>4, <1>5

\* The heartbeat and the backoff take nothing.
LEMMA TimeCost ==
  ASSUME IInv, NEW k \in Jobs, NEW j \in Jobs,
         (\E d \in Drains : Renew(d, k)) \/ BecomeDue(k)
  PROVE  Kept(j)
<1>1. job \in [Jobs -> JobRow] /\ UNCHANGED <<pc, att, failures, faults>>
  BY DEF IInv, TypeOK, Renew, BecomeDue
<1>2. Waiting(j)' = Waiting(j)
  BY <1>1 DEF Waiting
<1>3. /\ job'[j].status = job[j].status /\ job'[j].token = job[j].token
      /\ job'[j].attempts = job[j].attempts
      /\ job[j].lease => job'[j].lease
      /\ job'[j].due = job[j].due \/ (job[j].due = "later" /\ job'[j].due = "now")
  <2>1. CASE \E d \in Drains : Renew(d, k)
    <3>1. job' = [job EXCEPT ![k].lease = TRUE]
      BY <2>1 DEF Renew
    <3> QED BY <1>1, <3>1 DEF JobRow
  <2>2. CASE BecomeDue(k)
    <3>1. job' = [job EXCEPT ![k].due = "now"] /\ job[k].due = "later"
      BY <2>2 DEF BecomeDue
    <3> QED BY <1>1, <3>1 DEF JobRow
  <2> QED BY <2>1, <2>2
<1>4. Live(j) => Live(j)'
  BY <1>1, <1>3 DEF Live, Holds
<1> QED BY <1>1, <1>2, <1>3, <1>4 DEF Kept

LEMMA ExpiryCost ==
  ASSUME IInv, NEW k \in Jobs, NEW j \in Jobs, LeaseExpires(k)
  PROVE  Kept(j)
<1>1. /\ job \in [Jobs -> JobRow] /\ UNCHANGED <<pc, att, failures>>
      /\ job' = [job EXCEPT ![k].lease = FALSE]
  BY DEF IInv, TypeOK, LeaseExpires
<1>2. Waiting(j)' = Waiting(j)
  BY <1>1 DEF Waiting
<1>3. /\ job'[j].status = job[j].status /\ job'[j].token = job[j].token
      /\ job'[j].attempts = job[j].attempts /\ job'[j].due = job[j].due
      /\ j # k => job'[j].lease = job[j].lease
  BY <1>1 DEF JobRow
<1>4. faults' = faults + 1 \/ (faults' = faults /\ ~\E d \in Drains : Holds(d, k))
  BY DEF LeaseExpires, Fault
<1>5. Live(j) => Live(j)' \/ faults' = faults + 1
  <2>1. CASE j = k
    BY <1>4, <2>1 DEF Live
  <2>2. CASE j # k
    BY <1>1, <1>3, <2>2 DEF Live, Holds
  <2> QED BY <2>1, <2>2
<1> QED BY <1>1, <1>2, <1>3, <1>4, <1>5 DEF Kept

LEMMA ErrorCost ==
  ASSUME IInv, NEW d \in Drains, NEW k \in Jobs, NEW j \in Jobs, StorageError(d, k)
  PROVE  Kept(j)
<1>1. /\ pc \in [Drains -> [Jobs -> PCs]] /\ UNCHANGED <<job, failures>>
      /\ faults' = faults + 1
  BY DEF IInv, TypeOK, StorageError, Fault
<1>2. \A e \in Drains : pc'[e][j] \in {"selected", "reserving"} => pc'[e][j] = pc[e][j]
  <2>1. CASE Goto(d, k, "retryable")
    BY <1>1, <2>1 DEF Goto
  <2>2. CASE pc' = [pc EXCEPT ![d] =
                      [i \in Jobs |-> IF i = k \/ pc[d][i] = "selected"
                                        THEN "idle" ELSE pc[d][i]]]
    BY <1>1, <2>2
  <2> QED BY <2>1, <2>2 DEF StorageError
<1>3. Waiting(j)' \subseteq Waiting(j)
  BY <1>2 DEF Waiting
<1> QED BY <1>1, <1>3, QuietStep

\* The application opens a row or leaves all of them alone.
LEMMA ApplicationCost ==
  ASSUME IInv, NEW j \in Jobs,
         \/ \E k \in TxJobs : CompleteSale(k) \/ VoidSale(k)
         \/ \E k \in OrderJobs : EnqueueOrderUpdate(k)
         \/ RequestPush \/ DropRequest
  PROVE  Kept(j)
<1>1. job \in [Jobs -> JobRow] /\ UNCHANGED <<pc, att, failures, faults>>
  BY DEF IInv, TypeOK, CompleteSale, VoidSale, EnqueueOrderUpdate, RequestPush, DropRequest
<1>2. Waiting(j)' = Waiting(j)
  BY <1>1 DEF Waiting
<1>3. CASE job' = job
  BY <1>1, <1>2, <1>3, QuietStep
<1>4. ASSUME NEW k \in Jobs, job[k].status = "NONE",
             job' = [job EXCEPT ![k].status = "PENDING"]
      PROVE  Kept(j)
  <2>1. /\ job'[j].status = job[j].status
           \/ (job[j].status = "NONE" /\ job'[j].status = "PENDING")
        /\ job'[j].due = job[j].due /\ job'[j].attempts = job[j].attempts
        /\ job'[j].token = job[j].token /\ job'[j].lease = job[j].lease
    BY <1>1, <1>4 DEF JobRow
  <2>2. Live(j) => Live(j)'
    BY <1>1, <2>1 DEF Live, Holds
  <2> QED BY <1>1, <1>2, <2>1, <2>2 DEF Kept
<1>5. ASSUME NEW k \in TxJobs, CompleteSale(k) PROVE Kept(j)
  BY <1>4, <1>5 DEF CompleteSale, IInv, DraftHasNoJob, Jobs
<1>6. ASSUME NEW k \in OrderJobs, EnqueueOrderUpdate(k) PROVE Kept(j)
  BY <1>4, <1>6 DEF EnqueueOrderUpdate, Jobs
<1> QED BY <1>3, <1>5, <1>6 DEF VoidSale, RequestPush, DropRequest

\* Every step claims an attempt, settles one, or pays a fault for what it takes.
LEMMA StepCost ==
  ASSUME IInv, Released, [Next]_vars, NEW j \in Jobs
  PROVE  Claimed(j) \/ Settled(j) \/ Kept(j)
<1>1. ASSUME NEW d \in Drains, NEW k \in Jobs, ProcessJob(d, k)
      PROVE  Claimed(j) \/ Settled(j) \/ Kept(j)
  <2>1. CASE j # k
    <3>1. /\ job'[j] = job[j] /\ failures'[j] = failures[j] /\ Waiting(j)' = Waiting(j)
          /\ faults' = faults /\ \A e \in Drains : att'[e][j] = att[e][j]
      BY <1>1, <2>1, ElsewhereQuiet
    <3> QED BY <3>1, QuietStep
  <2>2. CASE j = k /\ LocalStep(d, k)
    BY <2>2, ReserveCost, OutcomeCost DEF LocalStep
  <2>3. CASE j = k /\ (Send(d, k) \/ \E outcome \in Outcomes : Answer(d, k, outcome))
    <3>1. UNCHANGED <<job, att, faults, failures>>
      BY <2>3 DEF Send, Answer
    <3>2. PICK where : Goto(d, k, where) /\ where \notin {"selected", "reserving"}
      BY <2>3 DEF Send, Answer, Outcomes
    <3>3. Waiting(j)' \subseteq Waiting(j)
      BY <3>2 DEF Goto, Waiting, IInv, TypeOK
    <3> QED BY <3>1, <3>3, QuietStep
  <2> QED BY <1>1, <2>1, <2>2, <2>3 DEF ProcessJob
<1>2. CASE UNCHANGED vars
  <2>1. UNCHANGED <<job, pc, att, faults, failures>>
    BY <1>2 DEF vars
  <2>2. Waiting(j)' = Waiting(j)
    BY <2>1 DEF Waiting
  <2> QED BY <2>1, <2>2, QuietStep
<1>3. CASE Local
  <2>1. ASSUME NEW d \in Drains, NEW k \in Jobs,
               LocalStep(d, k) \/ Renew(d, k) \/ StorageError(d, k)
        PROVE  Claimed(j) \/ Settled(j) \/ Kept(j)
    BY <1>1, <2>1, TimeCost, ErrorCost DEF ProcessJob
  <2>2. ASSUME NEW k \in Jobs, LeaseExpires(k) \/ BecomeDue(k) PROVE Kept(j)
    BY <2>2, ExpiryCost, TimeCost
  <2>3. ASSUME NEW d \in Drains, StartDrain(d) \/ StartNext(d) \/ EndDrain(d) \/ Crash(d)
        PROVE  Kept(j)
    BY <2>3, DrainCost
  <2> QED BY <1>3, <2>1, <2>2, <2>3, ApplicationCost DEF Local
<1> QED BY <1>1, <1>2, <1>3 DEF Next, ProcessJob

\* How far attempts get: a waiting drain may still claim one, and a row that is
\* not given up is at most one past the ceiling and the faults, and then held.
Bounded ==
  \A j \in Jobs :
    /\ job[j].attempts + Cardinality(Waiting(j))
         <= MaxRetryAttempts + Cardinality(Drains) + faults
    /\ ~GivenUp(j) =>
         /\ job[j].attempts <= MaxRetryAttempts + faults + 1
         /\ job[j].attempts = MaxRetryAttempts + faults + 1 => Live(j)

\* What a row's attempts were spent on.
Accounted ==
  \A j \in Jobs :
    /\ job[j].status # "SENT" /\ ~GivenUp(j) =>
         job[j].attempts <= failures[j] + faults + (IF Live(j) THEN 1 ELSE 0)
    /\ GivenUp(j) => failures[j] + faults >= MaxRetryAttempts

LEMMA WaitingSize ==
  ASSUME NEW A, NEW B, IsFiniteSet(B), A \subseteq B
  PROVE  /\ Cardinality(A) \in Nat /\ Cardinality(B) \in Nat
         /\ Cardinality(A) <= Cardinality(B)
         /\ \A x \in B : A \subseteq B \ {x} => Cardinality(A) + 1 <= Cardinality(B)
<1>1. IsFiniteSet(A) /\ Cardinality(A) \in Nat /\ Cardinality(B) \in Nat
  BY FS_Subset, FS_CardinalityType
<1>2. Cardinality(A) <= Cardinality(B)
  BY FS_Subset
<1>3. ASSUME NEW x \in B, A \subseteq B \ {x} PROVE Cardinality(A) + 1 <= Cardinality(B)
  <2>1. IsFiniteSet(B \ {x}) /\ Cardinality(B \ {x}) = Cardinality(B) - 1
    BY FS_RemoveElement
  <2>2. Cardinality(A) <= Cardinality(B \ {x})
    BY <1>3, <2>1, FS_Subset
  <2> QED BY <1>1, <2>1, <2>2
<1> QED BY <1>1, <1>2, <1>3

LEMMA Slack ==
  ASSUME NEW a \in Nat, NEW v \in Nat, NEW m \in Nat, NEW f \in Nat, NEW g \in Nat,
         f <= g, a + v <= m + f
  PROVE  a + v <= m + g
OBVIOUS

LEMMA BoundedStep ==
  ASSUME IInv, Released, Bounded, [Next]_vars
  PROVE  Bounded'
<1> SUFFICES ASSUME NEW j \in Jobs
             PROVE  /\ job'[j].attempts + Cardinality(Waiting(j)')
                         <= MaxRetryAttempts + Cardinality(Drains) + faults'
                    /\ ~GivenUp(j)' =>
                         /\ job'[j].attempts <= MaxRetryAttempts + faults' + 1
                         /\ job'[j].attempts = MaxRetryAttempts + faults' + 1 => Live(j)'
  BY DEF Bounded
<1> DEFINE a == job[j].attempts
           w == Cardinality(Waiting(j))
           v == Cardinality(Waiting(j)')
           D == Cardinality(Drains)
<1>1. /\ a \in Nat /\ job'[j].attempts \in Nat /\ faults \in Nat /\ faults' \in Nat
      /\ MaxRetryAttempts \in Nat
  BY StepInv, OutboxAssumption DEF IInv, TypeOK, JobRow
<1>2. /\ w \in Nat /\ v \in Nat /\ D \in Nat /\ w <= D /\ v <= D
      /\ Waiting(j)' \subseteq Waiting(j) => v <= w
      /\ \A d \in Waiting(j) : Waiting(j)' \subseteq Waiting(j) \ {d} => v + 1 <= w
  <2>1. Waiting(j) \subseteq Drains /\ Waiting(j)' \subseteq Drains /\ IsFiniteSet(Drains)
    BY OutboxAssumption DEF Waiting
  <2>2. IsFiniteSet(Waiting(j))
    BY <2>1, FS_Subset
  <2> QED BY <2>1, <2>2, WaitingSize
<1>3. /\ a + w <= MaxRetryAttempts + D + faults
      /\ ~GivenUp(j) => /\ a <= MaxRetryAttempts + faults + 1
                        /\ a = MaxRetryAttempts + faults + 1 => Live(j)
  BY DEF Bounded
<1> HIDE DEF a, w, v, D
<1>4. CASE Claimed(j)
  <2>1. /\ ~Live(j) /\ Live(j)' /\ GivenUp(j)' = GivenUp(j) /\ faults' = faults
        /\ job'[j].attempts = a + 1
        /\ \E d \in Waiting(j) : Waiting(j)' \subseteq Waiting(j) \ {d}
    BY <1>4 DEF Claimed, GivenUp, a
  <2>2. v + 1 <= w
    BY <1>2, <2>1
  <2>3. job'[j].attempts + v <= MaxRetryAttempts + D + faults'
    BY <1>1, <1>2, <1>3, <2>1, <2>2
  <2>4. ~GivenUp(j)' => job'[j].attempts <= MaxRetryAttempts + faults' + 1
    BY <1>1, <1>3, <2>1
  <2> QED BY <2>1, <2>3, <2>4 DEF v, D
<1>5. CASE Settled(j)
  <2>1. job'[j].attempts = a /\ faults' = faults /\ v <= w
    BY <1>2, <1>5 DEF Settled, a
  <2>2. ~GivenUp(j)' => a <= MaxRetryAttempts
    BY <1>5 DEF Settled, GivenUp, a
  <2>3. job'[j].attempts + v <= MaxRetryAttempts + D + faults'
    BY <1>1, <1>2, <1>3, <2>1
  <2>4. ~GivenUp(j)' => job'[j].attempts < MaxRetryAttempts + faults' + 1
    BY <1>1, <2>1, <2>2
  <2> QED BY <1>1, <2>3, <2>4 DEF v, D
<1>6. CASE Kept(j)
  <2>1. /\ job'[j].attempts = a /\ (faults' = faults \/ faults' = faults + 1)
        /\ Live(j) => Live(j)' \/ faults' = faults + 1
        /\ ~GivenUp(j)' => ~GivenUp(j)
    BY <1>6 DEF Kept, GivenUp, a
  <2>2. job'[j].attempts + v <= MaxRetryAttempts + D + faults'
    <3>1. CASE Waiting(j)' \subseteq Waiting(j)
      <4>1. v <= w
        BY <1>2, <3>1
      <4>2. faults <= faults'
        BY <1>1, <2>1
      <4>3. a + v <= MaxRetryAttempts + D + faults
        BY <1>1, <1>2, <1>3, <4>1
      <4>4. v \in Nat /\ MaxRetryAttempts + D \in Nat
        BY <1>1, <1>2
      <4> QED BY <1>1, <2>1, <4>2, <4>3, <4>4, Slack
    <3>2. CASE ~GivenUp(j) /\ ~Live(j)
      <4>1. a <= MaxRetryAttempts + faults
        BY <1>1, <1>3, <3>2
      <4> QED BY <1>1, <1>2, <2>1, <4>1
    <3> QED BY <1>6, <3>1, <3>2 DEF Kept
  <2>3. ~GivenUp(j)' => /\ job'[j].attempts <= MaxRetryAttempts + faults' + 1
                        /\ job'[j].attempts = MaxRetryAttempts + faults' + 1 => Live(j)'
    <3>1. CASE faults' = faults + 1
      <4>1. ~GivenUp(j)' => job'[j].attempts < MaxRetryAttempts + faults' + 1
        BY <1>1, <1>3, <2>1, <3>1
      <4> QED BY <1>1, <4>1
    <3>2. CASE faults' = faults
      <4>1. faults' # faults + 1
        BY <1>1, <3>2
      <4> QED BY <1>3, <2>1, <3>2, <4>1
    <3> QED BY <2>1, <3>1, <3>2
  <2> QED BY <2>2, <2>3 DEF v, D
<1> QED BY <1>4, <1>5, <1>6, StepCost

LEMMA AccountedStep ==
  ASSUME IInv, Released, Accounted, [Next]_vars
  PROVE  Accounted'
<1> SUFFICES ASSUME NEW j \in Jobs
             PROVE  /\ job'[j].status # "SENT" /\ ~GivenUp(j)' =>
                         job'[j].attempts <= failures'[j] + faults' + (IF Live(j)' THEN 1 ELSE 0)
                    /\ GivenUp(j)' => failures'[j] + faults' >= MaxRetryAttempts
  BY DEF Accounted
<1>1. /\ job[j].attempts \in Nat /\ faults \in Nat /\ failures[j] \in Nat
      /\ job'[j].attempts \in Nat /\ faults' \in Nat /\ failures'[j] \in Nat
      /\ MaxRetryAttempts \in Nat
  BY StepInv, OutboxAssumption DEF IInv, TypeOK, JobRow
<1>2. /\ job[j].status # "SENT" /\ ~GivenUp(j) =>
           job[j].attempts <= failures[j] + faults + (IF Live(j) THEN 1 ELSE 0)
      /\ GivenUp(j) => failures[j] + faults >= MaxRetryAttempts
  BY DEF Accounted
<1>3. CASE Claimed(j)
  BY <1>1, <1>2, <1>3 DEF Claimed, GivenUp
<1>4. CASE Settled(j)
  <2>1. GivenUp(j) => job[j].attempts > MaxRetryAttempts
    BY DEF IInv, GivenUpIsPast
  <2> QED BY <1>1, <1>2, <1>4, <2>1 DEF Settled, GivenUp
<1>5. CASE Kept(j)
  BY <1>1, <1>2, <1>5 DEF Kept, GivenUp
<1> QED BY <1>3, <1>4, <1>5, StepCost

LEMMA CostInit == Init => Released /\ Bounded /\ Accounted
<1> SUFFICES ASSUME Init PROVE Released /\ Bounded /\ Accounted
  OBVIOUS
<1>1. \A j \in Jobs : /\ job[j].status = "NONE" /\ job[j].attempts = 0 /\ job[j].token = 0
                      /\ job[j].lease = FALSE
                      /\ failures[j] = 0 /\ \A d \in Drains : pc[d][j] = "idle"
  BY DEF Init
<1>2. Released
  BY <1>1 DEF Released, Recorded
<1>3. \A j \in Jobs : Cardinality(Waiting(j)) = 0
  <2>1. \A j \in Jobs : Waiting(j) = {}
    BY <1>1 DEF Waiting
  <2> QED BY <2>1, FS_EmptySet
<1>4. faults = 0 /\ MaxRetryAttempts \in Nat /\ Cardinality(Drains) \in Nat
  BY OutboxAssumption, FS_CardinalityType DEF Init
<1>5. Bounded
  BY <1>1, <1>3, <1>4 DEF Bounded
<1>6. Accounted
  BY <1>1, <1>4 DEF Accounted, GivenUp
<1> QED BY <1>2, <1>5, <1>6

LEMMA CostInvariance == Spec => [](IInv /\ Released /\ Bounded /\ Accounted)
<1>1. Init => Released /\ Bounded /\ Accounted
  BY CostInit
<1>2. IInv /\ Released /\ Bounded /\ Accounted /\ [Next]_vars
        => (Released /\ Bounded /\ Accounted)'
  BY ReleasedStep, BoundedStep, AccountedStep
<1> QED BY <1>1, <1>2, Invariance, PTL DEF Spec

\* However many drains hold a stale snapshot of a job, it is reserved at most
\* once per drain and once per fault past the retry ceiling.
THEOREM AttemptsAreBounded == Spec => []AttemptsBounded
<1>1. IInv /\ Bounded => AttemptsBounded
  <2> SUFFICES ASSUME IInv, Bounded, NEW j \in Jobs
               PROVE  job[j].attempts <= MaxRetryAttempts + Cardinality(Drains) + faults
    BY DEF AttemptsBounded
  <2>1. Cardinality(Waiting(j)) \in Nat /\ Cardinality(Drains) \in Nat
    BY OutboxAssumption, FS_Subset, FS_CardinalityType DEF Waiting
  <2>2. job[j].attempts \in Nat /\ faults \in Nat /\ MaxRetryAttempts \in Nat
    BY OutboxAssumption DEF IInv, TypeOK, JobRow
  <2>3. job[j].attempts + Cardinality(Waiting(j))
          <= MaxRetryAttempts + Cardinality(Drains) + faults
    BY DEF Bounded
  <2> QED BY <2>1, <2>2, <2>3
<1> QED BY <1>1, CostInvariance, PTL

\* No job is given up before MaxRetryAttempts of its attempts failed or were
\* taken by a fault.
THEOREM GivingUpIsEarned == Spec => []GivenUpAfterFailures
<1>1. Accounted => GivenUpAfterFailures
  BY DEF Accounted, GivenUpAfterFailures
<1> QED BY <1>1, CostInvariance, PTL

-----------------------------------------------------------------------------
(***************************************************************************)
(* Under the leader lock.  A drain that is rejected by IndexedDB gives the *)
(* lock up while its siblings carry on, so that fault is left out here.    *)
(***************************************************************************)

\* One drain runs, and nobody else is in processJob.
Alone == /\ \A d, e \in running : d = e
         /\ \A d \in Drains, j \in Jobs : pc[d][j] # "idle" => d \in running

\* What a phase of processJob knows of the row: due until the answer is
\* recorded, and the recorded outcome until the rows of the update are written.
Knows(phase, r) ==
  /\ phase \in {"selected", "reserving", "giveup", "claimed", "inflight"} => r.due = "now"
  /\ phase \in {"rowSent", "cancelSent"} => r.status = "SENT"
  /\ phase \in {"rowFailed", "cancelFailed"} => r.status = "FAILED"

Known == \A d \in Drains, j \in Jobs : Knows(pc[d][j], job[j])

\* A row with sync_status s is not ahead of the job, and behind it (in none of
\* the states in Done) only while a drain is about to write it, in one of Phases.
Behind(j, s, Done, Phases) ==
  /\ s = "SENT" => job[j].status = "SENT"
  /\ faults = 0 /\ job[j].status = "SENT" =>
       s \in Done \/ \E d \in Drains : pc[d][j] \in Phases

\* The order-update row and the cancellation row, written in this order.
RowFollows ==
  \A j \in OrderJobs : /\ Behind(j, row[j], {"SENT"}, {"rowSent"})
                       /\ Behind(j, cancel[j], {"NONE", "SENT"}, {"rowSent", "cancelSent"})

LEMMA AloneStep ==
  ASSUME IInv, Alone, [Next]_vars, WebLocks, "storage" \notin FaultKinds
  PROVE  Alone'
<1>1. pc \in [Drains -> [Jobs -> PCs]] /\ running \subseteq Drains
  BY DEF IInv, TypeOK
<1>2. ASSUME UNCHANGED running,
             \A d \in Drains, j \in Jobs : pc'[d][j] # "idle" => d \in running
      PROVE  Alone'
  BY <1>2 DEF Alone
<1>3. ASSUME NEW d \in Drains, NEW j \in Jobs, ProcessJob(d, j) PROVE Alone'
  <2>1. UNCHANGED running /\ pc[d][j] # "idle"
    BY <1>3 DEF ProcessJob, LocalStep, Reserve, Claim, GiveUp, MarkSent, MarkFailed, MarkRow,
                MarkCancellation, Send, Answer
  <2>2. \A e \in Drains, k \in Jobs : ~(e = d /\ k = j) => pc'[e][k] = pc[e][k]
    BY <1>3, ElsewhereQuiet
  <2> QED BY <1>2, <2>1, <2>2 DEF Alone
<1>4. ASSUME NEW d \in Drains, StartDrain(d) PROVE Alone'
  <2>1. running = {} /\ running' = {d}
    BY <1>4 DEF StartDrain
  <2>2. \A e \in Drains, j \in Jobs : pc'[e][j] # "idle" => e = d
    BY <1>1, <1>4, <2>1 DEF StartDrain, Alone
  <2> QED BY <2>1, <2>2 DEF Alone
<1>5. ASSUME NEW d \in Drains, StartNext(d) PROVE Alone'
  <2>1. UNCHANGED running /\ d \in running
    BY <1>5 DEF StartNext
  <2>2. \A e \in Drains, j \in Jobs : e # d => pc'[e][j] = pc[e][j]
    BY <1>1, <1>5 DEF StartNext
  <2> QED BY <1>2, <2>1, <2>2 DEF Alone
<1>6. ASSUME NEW d \in Drains, EndDrain(d) \/ Crash(d) PROVE Alone'
  <2>1. running' = running \ {d}
    BY <1>6 DEF EndDrain, Crash
  <2>2. \A e \in Drains, j \in Jobs : pc'[e][j] # "idle" => e # d /\ pc[e][j] # "idle"
    BY <1>1, <1>6 DEF EndDrain, Crash
  <2> QED BY <2>1, <2>2 DEF Alone
<1>7. ASSUME NEW d \in Drains, NEW j \in Jobs, StorageError(d, j) PROVE FALSE
  BY <1>7 DEF StorageError, Fault
<1>8. CASE UNCHANGED <<pc, running>>
  BY <1>2, <1>8 DEF Alone
<1> QED
  BY <1>3, <1>4, <1>5, <1>6, <1>7, <1>8
  DEF Next, Local, ProcessJob, vars, CompleteSale, VoidSale, EnqueueOrderUpdate, RequestPush,
      DropRequest, Renew, LeaseExpires, BecomeDue

\* The steps of processJob keep what its own phase knows; nobody else is there.
LEMMA ProcessJobKnows ==
  ASSUME IInv, Alone, Known, NEW d \in Drains, NEW j \in Jobs, ProcessJob(d, j)
  PROVE  Known'
<1>1. /\ job \in [Jobs -> JobRow] /\ pc \in [Drains -> [Jobs -> PCs]]
      /\ att \in [Drains -> [Jobs -> Nat]]
  BY DEF IInv, TypeOK
<1>2. \A e \in Drains, k \in Jobs :
        /\ ~(e = d /\ k = j) => pc'[e][k] = pc[e][k]
        /\ k # j => job'[k] = job[k]
  BY ElsewhereQuiet
<1>3. pc[d][j] # "idle"
  BY DEF ProcessJob, LocalStep, Reserve, Claim, GiveUp, MarkSent, MarkFailed, MarkRow,
         MarkCancellation, Send, Answer
<1>4. \A e \in Drains : e # d => pc[e][j] = "idle"
  BY <1>3 DEF Alone
<1>5. Knows(pc[d][j], job[j])
  BY DEF Known
<1>6. Knows(pc'[d][j], job'[j])
  <2>1. CASE Reserve(d, j)
    <3>1. \/ pc'[d][j] = "idle"
          \/ /\ pc[d][j] = "reserving" /\ pc'[d][j] \in {"giveup", "claimed"}
             /\ job' = Reserved(j, NextAttempt(j))
      BY <1>1, <2>1 DEF Reserve, Claim, Goto
    <3>2. job' = Reserved(j, NextAttempt(j)) => job'[j].due = job[j].due
      BY <1>1 DEF Reserved, JobRow
    <3> QED BY <1>5, <3>1, <3>2 DEF Knows
  <2>2. CASE GiveUp(d, j)
    BY <1>1, <2>2 DEF GiveUp, Return, Goto, Knows
  <2>3. CASE MarkSent(d, j)
    <3>1. \/ pc'[d][j] = "idle"
          \/ pc'[d][j] = "rowSent" /\ job' = Patched(j, "SENT", "now")
      BY <1>1, <2>3 DEF MarkSent, Return, Goto
    <3> QED BY <3>1, PatchedRow DEF Knows, IInv
  <2>4. CASE MarkFailed(d, j)
    <3>1. \/ pc'[d][j] = "idle"
          \/ pc'[d][j] = "rowFailed" /\ \E due : job' = Patched(j, "FAILED", due)
      BY <1>1, <2>4 DEF MarkFailed, Return, Goto
    <3> QED BY <3>1, PatchedRow DEF Knows, IInv
  <2>5. CASE MarkRow(d, j)
    <3>1. /\ UNCHANGED job
          /\ \/ pc'[d][j] = "idle"
             \/ pc[d][j] = "rowSent" /\ pc'[d][j] = "cancelSent"
             \/ pc[d][j] = "rowFailed" /\ pc'[d][j] = "cancelFailed"
      BY <1>1, <2>5 DEF MarkRow, Return, Goto
    <3> QED BY <1>5, <3>1 DEF Knows
  <2>6. CASE Send(d, j)
    BY <1>1, <1>5, <2>6 DEF Send, Goto, Knows
  <2>7. CASE \E outcome \in Outcomes : Answer(d, j, outcome)
    BY <1>1, <2>7 DEF Answer, Outcomes, Goto, Knows
  <2>8. CASE MarkCancellation(d, j)
    BY <1>1, <2>8 DEF MarkCancellation, Return, Goto, Knows
  <2> QED BY <2>1, <2>2, <2>3, <2>4, <2>5, <2>6, <2>7, <2>8 DEF ProcessJob, LocalStep
<1>7. ASSUME NEW e \in Drains, NEW k \in Jobs PROVE Knows(pc'[e][k], job'[k])
  <2>1. CASE k # j
    BY <1>2, <2>1 DEF Known
  <2>2. CASE k = j /\ e # d
    BY <1>2, <1>4, <2>2 DEF Knows
  <2> QED BY <1>6, <2>1, <2>2
<1> QED BY <1>7 DEF Known

LEMMA KnownStep ==
  ASSUME IInv, Alone, Known, [Next]_vars, "storage" \notin FaultKinds
  PROVE  Known'
<1>1. /\ job \in [Jobs -> JobRow] /\ pc \in [Drains -> [Jobs -> PCs]]
  BY DEF IInv, TypeOK
<1>2. ASSUME NEW d \in Drains, NEW j \in Jobs, ProcessJob(d, j) PROVE Known'
  BY <1>2, ProcessJobKnows
<1>3. ASSUME UNCHANGED job,
             \A d \in Drains, j \in Jobs :
               \/ pc'[d][j] \in {"idle", pc[d][j]}
               \/ pc'[d][j] \in {"selected", "reserving"} /\ job[j].due = "now"
      PROVE  Known'
  BY <1>3 DEF Known, Knows
<1>4. ASSUME NEW d \in Drains, StartDrain(d) \/ StartNext(d) \/ EndDrain(d) \/ Crash(d)
      PROVE  Known'
  <2>1. UNCHANGED job
    BY <1>4 DEF StartDrain, StartNext, EndDrain, Crash
  <2>2. ASSUME NEW e \in Drains, NEW j \in Jobs
        PROVE  \/ pc'[e][j] \in {"idle", pc[e][j]}
               \/ pc'[e][j] \in {"selected", "reserving"} /\ job[j].due = "now"
    <3>1. CASE StartDrain(d)
      BY <1>1, <3>1 DEF StartDrain, IsDue
    <3>2. CASE StartNext(d)
      BY <1>1, <3>2 DEF StartNext, Selected, Known, Knows
    <3>3. CASE EndDrain(d) \/ Crash(d)
      BY <1>1, <3>3 DEF EndDrain, Crash
    <3> QED BY <1>4, <3>1, <3>2, <3>3
  <2> QED BY <1>3, <2>1, <2>2
<1>5. ASSUME NEW j \in Jobs, UNCHANGED pc,
             \/ (\A d \in Drains : pc[d][j] = "idle") /\ job' = [job EXCEPT ![j].status = "PENDING"]
             \/ \E lease : job' = [job EXCEPT ![j].lease = lease]
             \/ job' = [job EXCEPT ![j].due = "now"]
      PROVE  Known'
  <2>1. \A k \in Jobs : k # j => job'[k] = job[k]
    BY <1>1, <1>5
  <2>2. CASE (\A d \in Drains : pc[d][j] = "idle")
    BY <1>5, <2>1, <2>2 DEF Known, Knows
  <2>3. ASSUME NEW lease, job' = [job EXCEPT ![j].lease = lease]
        PROVE  job'[j].due = job[j].due /\ job'[j].status = job[j].status
    BY <1>1, <2>3 DEF JobRow
  <2>4. ASSUME job' = [job EXCEPT ![j].due = "now"]
        PROVE  job'[j].due = "now" /\ job'[j].status = job[j].status
    BY <1>1, <2>4 DEF JobRow
  <2> QED BY <1>5, <2>1, <2>2, <2>3, <2>4 DEF Known, Knows
<1>6. ASSUME NEW j \in Jobs, (\E d \in Drains : Renew(d, j)) \/ LeaseExpires(j) \/ BecomeDue(j)
      PROVE  Known'
  BY <1>5, <1>6 DEF Renew, LeaseExpires, BecomeDue
<1>7. ASSUME NEW j \in TxJobs, CompleteSale(j) PROVE Known'
  BY <1>5, <1>7 DEF CompleteSale, IInv, DraftHasNoJob, OnlyJobsAreDrained, Jobs
<1>8. ASSUME NEW j \in OrderJobs, EnqueueOrderUpdate(j) PROVE Known'
  BY <1>5, <1>8 DEF EnqueueOrderUpdate, IInv, OnlyJobsAreDrained, Jobs
<1>9. ASSUME NEW d \in Drains, NEW j \in Jobs, StorageError(d, j) PROVE FALSE
  BY <1>9 DEF StorageError, Fault
<1>10. CASE UNCHANGED <<job, pc>>
  BY <1>10 DEF Known, Knows
<1> QED
  BY <1>2, <1>4, <1>6, <1>7, <1>8, <1>9, <1>10
  DEF Next, Local, ProcessJob, vars, VoidSale, RequestPush, DropRequest

\* What a step does to a row of an order update: s is its state before, t after.
FollowsStep(j, s, t, Done, Phases) ==
  \/ t = "SENT" /\ job'[j].status = "SENT"
  \/ t # "SENT" /\ job'[j].status # "SENT"
  \/ t = s /\ job'[j].status = "SENT" /\ \E d \in Drains : pc'[d][j] \in Phases
  \/ /\ t = s /\ (job'[j].status = "SENT" <=> job[j].status = "SENT")
     /\ \/ faults' # 0 \/ t \in Done
        \/ \A d \in Drains : pc[d][j] \in Phases => pc'[d][j] \in Phases

RowsFollow(j) ==
  /\ FollowsStep(j, row[j], row'[j], {"SENT"}, {"rowSent"})
  /\ FollowsStep(j, cancel[j], cancel'[j], {"NONE", "SENT"}, {"rowSent", "cancelSent"})

\* A step that leaves both rows, and what the job says, alone.
LEMMA RowsKept ==
  ASSUME NEW j \in OrderJobs, row'[j] = row[j], cancel'[j] = cancel[j],
         job'[j].status = job[j].status,
         \/ faults' # 0
         \/ \A d \in Drains : pc[d][j] \in {"rowSent", "cancelSent"} => pc'[d][j] = pc[d][j]
  PROVE  RowsFollow(j)
BY DEF RowsFollow, FollowsStep

\* The job is not SENT before nor after, and neither are its rows.
LEMMA RowsNotSent ==
  ASSUME RowFollows, NEW j \in OrderJobs, row'[j] = row[j], cancel'[j] = cancel[j],
         job[j].status # "SENT", job'[j].status # "SENT"
  PROVE  RowsFollow(j)
BY DEF RowFollows, Behind, RowsFollow, FollowsStep

LEMMA ProcessJobFollows ==
  ASSUME IInv, Known, RowFollows, NEW d \in Drains, NEW j \in OrderJobs, ProcessJob(d, j)
  PROVE  RowsFollow(j)
<1>1. /\ row \in [OrderJobs -> {"NONE", "PENDING", "SENT", "FAILED"}]
      /\ cancel \in [OrderJobs -> {"NONE", "PENDING", "SENT", "FAILED"}]
      /\ pc \in [Drains -> [Jobs -> PCs]] /\ job \in [Jobs -> JobRow] /\ j \in Jobs
  BY DEF IInv, TypeOK, Jobs
<1>2. \A e \in Drains : e # d => pc'[e][j] = pc[e][j]
  BY <1>1, ElsewhereQuiet
<1>3. ASSUME UNCHANGED <<row, cancel>>, job'[j].status = job[j].status,
             pc[d][j] \notin {"rowSent", "cancelSent"}
      PROVE  RowsFollow(j)
  BY <1>2, <1>3, RowsKept
<1>4. CASE Reserve(d, j)
  <2>1. UNCHANGED <<row, cancel>> /\ pc[d][j] \notin {"rowSent", "cancelSent"}
    BY <1>4 DEF Reserve, Claim
  <2>2. job'[j].status = job[j].status
    BY <1>1, <1>4, ReserveOutcome DEF Unchanged
  <2> QED BY <1>3, <2>1, <2>2
<1>5. CASE GiveUp(d, j) \/ MarkFailed(d, j)
  <2>1. UNCHANGED <<row, cancel>> /\ pc[d][j] \notin {"rowSent", "cancelSent"}
    BY <1>5 DEF GiveUp, MarkFailed
  <2>2. job' = job \/ (job[j].status # "SENT" /\ \E due : job' = Patched(j, "FAILED", due))
    BY <1>5 DEF GiveUp, MarkFailed, Fenced
  <2>3. CASE job' = job
    BY <1>3, <2>1, <2>3
  <2>4. CASE job[j].status # "SENT" /\ \E due : job' = Patched(j, "FAILED", due)
    <3>1. job'[j].status = "FAILED"
      BY <1>1, <2>4, PatchedRow DEF IInv
    <3> QED BY <2>1, <2>4, <3>1, RowsNotSent
  <2> QED BY <2>2, <2>3, <2>4
<1>6. CASE MarkSent(d, j)
  <2>1. UNCHANGED <<row, cancel>> /\ pc[d][j] \notin {"rowSent", "cancelSent"}
    BY <1>6 DEF MarkSent
  <2>2. CASE Fenced(j, att[d][j], "SENT")
    <3>1. job' = Patched(j, "SENT", "now") /\ Goto(d, j, "rowSent")
      BY <1>6, <2>2 DEF MarkSent
    <3>2. job'[j].status = "SENT" /\ pc'[d][j] = "rowSent"
      BY <1>1, <3>1, PatchedRow DEF IInv, Goto
    <3> QED BY <2>1, <3>2 DEF RowsFollow, FollowsStep
  <2>3. CASE ~Fenced(j, att[d][j], "SENT")
    <3>1. UNCHANGED job
      BY <1>6, <2>3 DEF MarkSent
    <3> QED BY <1>3, <2>1, <3>1
  <2> QED BY <2>2, <2>3
<1>7. CASE MarkRow(d, j)
  <2>1. /\ UNCHANGED <<job, cancel>> /\ pc[d][j] \in {"rowSent", "rowFailed"}
        /\ row'[j] = IF pc[d][j] = "rowSent" THEN "SENT" ELSE "FAILED"
    BY <1>1, <1>7 DEF MarkRow
  <2>2. /\ pc[d][j] = "rowSent" => job[j].status = "SENT"
        /\ pc[d][j] = "rowFailed" => job[j].status = "FAILED"
    BY <1>1 DEF Known, Knows
  <2>3. FollowsStep(j, row[j], row'[j], {"SENT"}, {"rowSent"})
    BY <2>1, <2>2 DEF FollowsStep
  <2>4. cancel[j] # "NONE" /\ pc[d][j] = "rowSent" => pc'[d][j] = "cancelSent"
    BY <1>1, <1>7 DEF MarkRow, Goto
  <2>5. FollowsStep(j, cancel[j], cancel'[j], {"NONE", "SENT"}, {"rowSent", "cancelSent"})
    BY <1>2, <2>1, <2>4 DEF FollowsStep
  <2> QED BY <2>3, <2>5 DEF RowsFollow
<1>8. CASE MarkCancellation(d, j)
  <2>1. /\ UNCHANGED <<job, row>> /\ pc[d][j] \in {"cancelSent", "cancelFailed"}
        /\ cancel'[j] = IF pc[d][j] = "cancelSent" THEN "SENT" ELSE "FAILED"
    BY <1>1, <1>8 DEF MarkCancellation
  <2>2. /\ pc[d][j] = "cancelSent" => job[j].status = "SENT"
        /\ pc[d][j] = "cancelFailed" => job[j].status = "FAILED"
    BY <1>1 DEF Known, Knows
  <2>3. FollowsStep(j, cancel[j], cancel'[j], {"NONE", "SENT"}, {"rowSent", "cancelSent"})
    BY <2>1, <2>2 DEF FollowsStep
  <2>4. FollowsStep(j, row[j], row'[j], {"SENT"}, {"rowSent"})
    BY <1>2, <2>1 DEF FollowsStep
  <2> QED BY <2>3, <2>4 DEF RowsFollow
<1>9. CASE Send(d, j) \/ \E outcome \in Outcomes : Answer(d, j, outcome)
  <2>1. UNCHANGED <<row, cancel, job>> /\ pc[d][j] \notin {"rowSent", "cancelSent"}
    BY <1>9 DEF Send, Answer
  <2> QED BY <1>3, <2>1
<1> QED BY <1>4, <1>5, <1>6, <1>7, <1>8, <1>9 DEF ProcessJob, LocalStep

LEMMA StepFollows ==
  ASSUME IInv, Known, RowFollows, [Next]_vars, "storage" \notin FaultKinds,
         NEW j \in OrderJobs
  PROVE  RowsFollow(j)
<1>1. /\ row \in [OrderJobs -> {"NONE", "PENDING", "SENT", "FAILED"}]
      /\ cancel \in [OrderJobs -> {"NONE", "PENDING", "SENT", "FAILED"}]
      /\ pc \in [Drains -> [Jobs -> PCs]] /\ job \in [Jobs -> JobRow] /\ j \in Jobs
      /\ faults \in Nat
  BY DEF IInv, TypeOK, Jobs
<1>2. faults' = faults + 1 => faults' # 0
  BY <1>1
<1>3. ASSUME NEW d \in Drains, NEW k \in Jobs, ProcessJob(d, k) PROVE RowsFollow(j)
  <2>1. CASE k = j
    BY <1>3, <2>1, ProcessJobFollows
  <2>2. CASE k # j
    <3>1. job'[j] = job[j] /\ \A e \in Drains : pc'[e][j] = pc[e][j]
      BY <1>1, <1>3, <2>2, ElsewhereQuiet
    <3>2. row'[j] = row[j] /\ cancel'[j] = cancel[j]
      BY <1>1, <1>3, <2>2 DEF ProcessJob, LocalStep, Reserve, Claim, GiveUp, MarkSent,
                              MarkFailed, MarkRow, MarkCancellation, Send, Answer
    <3> QED BY <3>1, <3>2, RowsKept
  <2> QED BY <2>1, <2>2
<1>4. ASSUME NEW d \in Drains, StartDrain(d) \/ StartNext(d) \/ EndDrain(d) \/ Crash(d)
      PROVE  RowsFollow(j)
  <2>1. UNCHANGED <<row, cancel, job>>
    BY <1>4 DEF StartDrain, StartNext, EndDrain, Crash
  <2>2. \/ faults' = faults + 1
        \/ \A e \in Drains : pc[e][j] \in {"rowSent", "cancelSent"} => pc'[e][j] = pc[e][j]
    <3>1. CASE StartDrain(d)
      BY <1>1, <3>1 DEF StartDrain
    <3>2. CASE StartNext(d)
      BY <1>1, <3>2 DEF StartNext, Selected
    <3>3. CASE EndDrain(d) \/ Crash(d)
      BY <3>3 DEF EndDrain, Crash, Fault
    <3> QED BY <1>4, <3>1, <3>2, <3>3
  <2> QED BY <1>2, <2>1, <2>2, RowsKept
<1>5. ASSUME NEW k \in Jobs, UNCHANGED <<pc, row, cancel>>,
             \/ \E lease : job' = [job EXCEPT ![k].lease = lease]
             \/ job' = [job EXCEPT ![k].due = "now"]
      PROVE  RowsFollow(j)
  <2>1. ASSUME NEW lease, job' = [job EXCEPT ![k].lease = lease]
        PROVE  job'[j].status = job[j].status
    BY <1>1, <2>1 DEF JobRow
  <2>2. ASSUME job' = [job EXCEPT ![k].due = "now"]
        PROVE  job'[j].status = job[j].status
    BY <1>1, <2>2 DEF JobRow
  <2> QED BY <1>5, <2>1, <2>2, RowsKept
<1>6. ASSUME NEW k \in Jobs, (\E d \in Drains : Renew(d, k)) \/ LeaseExpires(k) \/ BecomeDue(k)
      PROVE  RowsFollow(j)
  BY <1>5, <1>6 DEF Renew, LeaseExpires, BecomeDue
<1>7. ASSUME NEW k \in TxJobs, CompleteSale(k) PROVE RowsFollow(j)
  <2>1. job'[j] = job[j] /\ UNCHANGED <<row, cancel, pc>>
    BY <1>1, <1>7, OutboxAssumption DEF CompleteSale
  <2> QED BY <2>1, RowsKept
<1>8. ASSUME NEW k \in OrderJobs, EnqueueOrderUpdate(k) PROVE RowsFollow(j)
  <2>1. CASE k = j
    <3>1. job'[j].status = "PENDING" /\ row'[j] = "PENDING" /\ cancel'[j] \in {"NONE", "PENDING"}
      BY <1>1, <1>8, <2>1 DEF EnqueueOrderUpdate, JobRow
    <3> QED BY <3>1 DEF RowsFollow, FollowsStep
  <2>2. CASE k # j
    <3>1. job'[j] = job[j] /\ row'[j] = row[j] /\ cancel'[j] = cancel[j] /\ UNCHANGED pc
      BY <1>1, <1>8, <2>2 DEF EnqueueOrderUpdate
    <3> QED BY <3>1, RowsKept
  <2> QED BY <2>1, <2>2
<1>9. ASSUME NEW d \in Drains, NEW k \in Jobs, StorageError(d, k) PROVE FALSE
  BY <1>9 DEF StorageError, Fault
<1>10. CASE UNCHANGED <<row, cancel, job, pc>>
  BY <1>10, RowsKept
<1> QED
  BY <1>3, <1>4, <1>6, <1>7, <1>8, <1>9, <1>10
  DEF Next, Local, ProcessJob, vars, VoidSale, RequestPush, DropRequest

\* A row that was not ahead, and behind only for a drain's sake, stays so.
LEMMA StaysBehind ==
  ASSUME NEW j, NEW s, NEW t, NEW Done, NEW Phases, Behind(j, s, Done, Phases),
         FollowsStep(j, s, t, Done, Phases), "SENT" \in Done, faults' = 0 => faults = 0
  PROVE  /\ t = "SENT" => job'[j].status = "SENT"
         /\ faults' = 0 /\ job'[j].status = "SENT" =>
              t \in Done \/ \E d \in Drains : pc'[d][j] \in Phases
BY DEF Behind, FollowsStep

LEMMA RowFollowsStep ==
  ASSUME IInv, Released, Known, RowFollows, [Next]_vars, "storage" \notin FaultKinds
  PROVE  RowFollows'
<1> SUFFICES ASSUME NEW j \in OrderJobs
             PROVE  /\ Behind(j, row[j], {"SENT"}, {"rowSent"})'
                    /\ Behind(j, cancel[j], {"NONE", "SENT"}, {"rowSent", "cancelSent"})'
  BY DEF RowFollows
<1>1. RowsFollow(j)
  BY StepFollows
<1>2. faults' = 0 => faults = 0
  <2>1. j \in Jobs /\ faults \in Nat
    BY DEF IInv, TypeOK, Jobs
  <2>2. Claimed(j) \/ Settled(j) \/ Kept(j)
    BY <2>1, StepCost
  <2>3. faults' = faults \/ faults' = faults + 1
    BY <2>2 DEF Claimed, Settled, Kept
  <2> QED BY <2>1, <2>3
<1>3. /\ Behind(j, row[j], {"SENT"}, {"rowSent"})
      /\ FollowsStep(j, row[j], row'[j], {"SENT"}, {"rowSent"})
  BY <1>1 DEF RowFollows, RowsFollow
<1>4. Behind(j, row[j], {"SENT"}, {"rowSent"})'
  BY <1>2, <1>3, StaysBehind DEF Behind
<1>5. /\ Behind(j, cancel[j], {"NONE", "SENT"}, {"rowSent", "cancelSent"})
      /\ FollowsStep(j, cancel[j], cancel'[j], {"NONE", "SENT"}, {"rowSent", "cancelSent"})
  BY <1>1 DEF RowFollows, RowsFollow
<1>6. Behind(j, cancel[j], {"NONE", "SENT"}, {"rowSent", "cancelSent"})'
  BY <1>2, <1>5, StaysBehind DEF Behind
<1> QED BY <1>4, <1>6

LEMMA ExclusiveInvariance ==
  ASSUME WebLocks, "storage" \notin FaultKinds
  PROVE  Spec => [](IInv /\ Alone /\ Known /\ RowFollows)
<1>1. Init => Alone /\ Known /\ RowFollows
  BY DEF Init, Alone, Known, Knows, RowFollows, Behind, Jobs
<1>2. IInv /\ Released /\ Alone /\ Known /\ RowFollows /\ [Next]_vars
        => (Alone /\ Known /\ RowFollows)'
  BY AloneStep, KnownStep, RowFollowsStep
<1> QED BY <1>1, <1>2, Invariance, CostInvariance, PTL DEF Spec

\* Under the leader lock a job is not posted before its backoff elapsed: its
\* due date moves only after the one drain that selected it has its answer.
THEOREM BackoffIsKept ==
  ASSUME WebLocks, "storage" \notin FaultKinds
  PROVE  Spec => []BackoffRespected
<1>1. Known => BackoffRespected
  BY DEF Known, Knows, BackoffRespected
<1> QED BY <1>1, ExclusiveInvariance, PTL

\* Under the leader lock the order-update row and the cancellation row never say
\* SENT before the job, and say so with the job once the drain is done, unless a
\* fault came between.
THEOREM RowFollowsJob ==
  ASSUME WebLocks, "storage" \notin FaultKinds
  PROVE  Spec => []RowAgreesWithJob
<1>1. RowFollows => RowAgreesWithJob
  BY DEF RowFollows, Behind, RowAgreesWithJob
<1> QED BY <1>1, ExclusiveInvariance, PTL
=============================================================================
