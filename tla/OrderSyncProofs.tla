--------------------------- MODULE OrderSyncProofs ---------------------------
(***************************************************************************)
(* What holds of OrderSync for any number of saves, jobs and requests: a   *)
(* job is counted as delivered for what is recorded, the snapshot is what  *)
(* one request brought while nothing disturbed it, and then it is the      *)
(* order of the till.                                                      *)
(***************************************************************************)
EXTENDS OrderSync, TLAPS

-----------------------------------------------------------------------------
(* Types. *)

Results   == {"none", "OK", "DUPLICATE", "ERROR"}
LinesType == [Items -> 0 .. MaxQty]
Saving    == {"order", "lines", "update", "job"}

CallRecord == [pc : {"idle", "close"} \cup Saving, order : Header \cup {NoOrder}, lines : LinesType]
ReqRecord  == [pc : {"unsent", "upsert", "delete", "insert", "check", "record", "checkCancel",
                     "recordCancel", "answered", "done"},
               order : Header \cup {NoOrder}, lines : LinesType, todo : SUBSET Items,
               update : Results, cancel : Results]

\* A save under way has a time of its own, and no job yet.
SaveIsNew ==
  /\ \A c \in Calls :
       /\ call[c].pc \in Saving => /\ call[c].order.at \in Changes
                                   /\ call[c].order.at <= clock
                                   /\ job[call[c].order.at] = "NONE"
       /\ call[c].pc = "job" => call[c].order.at \in updates
  /\ \A c, d \in Calls :
       call[c].pc \in Saving /\ call[d].pc \in Saving /\ call[c].order.at = call[d].order.at => c = d

\* A job has an update, of a change that has begun; a request has a job, and
\* what it withdraws was cancelled.
JobIsOld ==
  /\ \A u \in updates : u <= clock
  /\ \A u \in Changes : job[u] # "NONE" => u \in updates
  /\ \A u \in sending : attempts[u] > 0
  /\ \A r \in Requests :
       /\ req[r].pc # "unsent" => r[2] <= attempts[r[1]] /\ r[1] \in updates
       /\ req[r].pc \in {"checkCancel", "recordCancel"} => r[1] \in cancels

TInv == /\ TypeOK /\ call \in [Calls -> CallRecord] /\ req \in [Requests -> ReqRecord]
        /\ SaveIsNew /\ JobIsOld

-----------------------------------------------------------------------------
LEMMA Records ==
  /\ NoLines \in LinesType /\ Idle \in CallRecord /\ Unsent \in ReqRecord /\ Done \in ReqRecord
  /\ Idle.pc = "idle" /\ Unsent.pc = "unsent" /\ Done.pc = "done" /\ Done.update = "none"
<1>1. NoLines \in LinesType
  BY OrderSyncAssumption DEF NoLines, LinesType
<1>2. Idle \in CallRecord
  BY <1>1 DEF Idle, CallRecord
<1>3. Unsent \in ReqRecord
  BY <1>1 DEF Unsent, ReqRecord, Results
<1>4. Done \in ReqRecord
  BY <1>3 DEF Done, ReqRecord
<1> QED BY <1>1, <1>2, <1>3, <1>4 DEF Idle, Unsent, Done

LEMMA InitTyped == Init => TInv
<1> SUFFICES ASSUME Init PROVE TInv
  OBVIOUS
<1>1. TypeOK
  BY Records, OrderSyncAssumption DEF Init, TypeOK, LinesType
<1>2. call \in [Calls -> CallRecord] /\ req \in [Requests -> ReqRecord]
  BY Records DEF Init
<1>3. SaveIsNew /\ JobIsOld
  BY Records DEF Init, SaveIsNew, JobIsOld, Saving
<1> QED BY <1>1, <1>2, <1>3 DEF TInv

\* The parts of the invariant that the server keeps alone.
LEMMA ServerTyped ==
  ASSUME TInv, UNCHANGED <<tillVars, attempts, sending>>,
         NEW r \in Requests, NEW k \in ReqRecord, req' = [req EXCEPT ![r] = k],
         req[r].pc # "unsent", k.pc \in {"checkCancel", "recordCancel"} => r[1] \in cancels,
         snap' \in Header \cup {NoOrder}, snapLines' \in LinesType,
         recorded' \subseteq recorded \cup {r[1]},
         withdrawn' \subseteq withdrawn \cup ({r[1]} \cap cancels)
  PROVE  TInv'
<1>1. req' \in [Requests -> ReqRecord] /\ DOMAIN req' = Requests
  BY DEF TInv
<1>2. r[1] \in updates
  BY DEF TInv, JobIsOld
<1>3. TypeOK'
  BY <1>1, <1>2 DEF TInv, TypeOK, tillVars, LinesType
<1>4. SaveIsNew'
  BY DEF TInv, SaveIsNew, tillVars
<1>5. JobIsOld'
  BY DEF TInv, JobIsOld, tillVars
<1> QED BY <1>1, <1>3, <1>4, <1>5 DEF TInv, tillVars

\* A save or a close goes on or begins.
LEMMA CallTyped ==
  ASSUME TInv, UNCHANGED <<cancels, attempts, sending, snap, snapLines, recorded, withdrawn, req>>,
         NEW c \in Calls, NEW k \in CallRecord, call' = [call EXCEPT ![c] = k],
         clock' \in clock .. MaxChanges, order' \in Header \cup {NoOrder}, lines' \in LinesType,
         updates \subseteq updates', updates' \subseteq Changes, \A u \in updates' : u <= clock',
         UNCHANGED job,
         k.pc \in Saving =>
           /\ k.order.at \in Changes /\ k.order.at <= clock' /\ job[k.order.at] = "NONE"
           /\ \/ k.order.at = clock' /\ clock' > clock
              \/ call[c].pc \in Saving /\ k.order.at = call[c].order.at,
         k.pc = "job" => k.order.at \in updates'
  PROVE  TInv'
<1>0. clock \in Nat /\ clock' \in 0 .. MaxChanges /\ clock <= clock'
  BY DEF TInv, TypeOK
<1>1. TypeOK'
  BY <1>0 DEF TInv, TypeOK, LinesType
<1>2. call' \in [Calls -> CallRecord] /\ call'[c] = k /\ \A d \in Calls : d # c => call'[d] = call[d]
  BY DEF TInv
<1>3. SaveIsNew'
  BY <1>0, <1>2 DEF TInv, SaveIsNew, Changes
<1>4. JobIsOld'
  BY <1>0 DEF TInv, JobIsOld
<1> QED BY <1>1, <1>2, <1>3, <1>4 DEF TInv

LEMMA SaveTyped ==
  ASSUME TInv, NEW c \in Calls, NEW cart \in Carts, Save(c, cart)
  PROVE  TInv'
<1> DEFINE o == [state |-> cart.state, final |-> cart.final, at |-> clock']
           k == [pc |-> "order", lines |-> cart.lines, order |-> o]
<1>1. clock \in 0 .. MaxChanges /\ clock' = clock + 1 /\ clock' \in Changes
  BY OrderSyncAssumption DEF TInv, TypeOK, Save, Tick, Changes
<1>2. /\ cart.state \in {"OPEN", "CLOSED"} /\ cart.final \in BOOLEAN
      /\ cart.lines \in LinesType
  BY OrderSyncAssumption DEF LinesType
<1>3. o \in Header
  BY <1>1, <1>2 DEF Header
<1>4. k \in CallRecord /\ k.pc = "order" /\ k.order.at = clock'
  BY <1>2, <1>3 DEF CallRecord, Saving
<1>5. /\ call' = [call EXCEPT ![c] = k]
      /\ UNCHANGED <<order, lines, updates, cancels, job, attempts, sending, snap, snapLines,
                     recorded, withdrawn, req>>
  BY DEF Save, jobVars, serverVars
<1>6. job[clock'] = "NONE" /\ \A u \in updates : u <= clock'
  BY <1>1 DEF TInv, TypeOK, JobIsOld, Changes
<1>7. order \in Header \cup {NoOrder} /\ lines \in LinesType /\ updates \subseteq Changes
      /\ clock' \in clock .. MaxChanges /\ clock' <= clock' /\ clock' > clock
  BY <1>1 DEF TInv, TypeOK, LinesType, Changes
<1> HIDE DEF k
<1> QED BY <1>1, <1>4, <1>5, <1>6, <1>7, CallTyped

LEMMA CloseTyped ==
  ASSUME TInv, NEW c \in Calls, Close(c)
  PROVE  TInv'
<1> DEFINE o == [order EXCEPT !.state = "CLOSED", !.at = clock']
           k == [Idle EXCEPT !.pc = "close", !.order = o]
<1>1. clock \in 0 .. MaxChanges /\ clock' = clock + 1 /\ clock' \in Changes
  BY OrderSyncAssumption DEF TInv, TypeOK, Close, Tick, Changes
<1>2. order \in Header
  BY DEF Close, TInv, TypeOK
<1>3. o \in Header
  BY <1>1, <1>2 DEF Header
<1>4. k \in CallRecord /\ k.pc = "close"
  BY <1>3, Records DEF CallRecord, Idle
<1>5. /\ call' = [call EXCEPT ![c] = k]
      /\ UNCHANGED <<order, lines, updates, cancels, job, attempts, sending, snap, snapLines,
                     recorded, withdrawn, req>>
  BY DEF Close, jobVars, serverVars
<1>6. \A u \in updates : u <= clock'
  BY <1>1 DEF TInv, TypeOK, JobIsOld, Changes
<1>7. order \in Header \cup {NoOrder} /\ lines \in LinesType /\ updates \subseteq Changes
      /\ clock' \in clock .. MaxChanges
  BY <1>1 DEF TInv, TypeOK, LinesType, Changes
<1>8. k.pc \notin Saving /\ k.pc # "job"
  BY <1>4 DEF Saving
<1> HIDE DEF k
<1> QED BY <1>4, <1>5, <1>6, <1>7, <1>8, CallTyped

\* A save or a close that goes on writes one of the rows.
LEMMA PutTyped ==
  ASSUME TInv, NEW c \in Calls, PutOrder(c) \/ PutLines(c) \/ PutUpdate(c)
  PROVE  TInv'
<1>1. /\ UNCHANGED <<clock, cancels, job, attempts, sending, snap, snapLines, recorded,
                     withdrawn, req>>
      /\ call[c] \in CallRecord /\ clock \in clock .. MaxChanges
  BY DEF PutOrder, PutLines, PutUpdate, jobVars, serverVars, TInv, TypeOK
<1>2. /\ order \in Header \cup {NoOrder} /\ lines \in LinesType
      /\ updates \subseteq Changes /\ \A u \in updates : u <= clock
  BY DEF TInv, TypeOK, LinesType, JobIsOld
<1>3. CASE PutOrder(c)
  <2>1. UNCHANGED <<lines, updates>> /\ order' \in Header \cup {NoOrder}
    BY <1>1, <1>3 DEF PutOrder, CallRecord
  <2>2. CASE call' = [call EXCEPT ![c] = Idle]
    BY <1>1, <1>2, <2>1, <2>2, Records, CallTyped DEF Saving
  <2>3. CASE call[c].pc = "order" /\ call' = [call EXCEPT ![c].pc = "lines"]
    <3> DEFINE k == [call[c] EXCEPT !.pc = "lines"]
    <3>1. k \in CallRecord /\ k.pc = "lines" /\ k.order = call[c].order
      BY <1>1 DEF CallRecord, Saving
    <3>2. call' = [call EXCEPT ![c] = k]
      BY <2>3
    <3>3. /\ k.order.at \in Changes /\ k.order.at <= clock /\ job[k.order.at] = "NONE"
          /\ call[c].pc \in Saving
      BY <2>3, <3>1 DEF TInv, SaveIsNew, Saving
    <3> HIDE DEF k
    <3> QED BY <1>1, <1>2, <2>1, <3>1, <3>2, <3>3, CallTyped
  <2> QED BY <1>3, <2>2, <2>3 DEF PutOrder
<1>4. CASE PutLines(c)
  <2>1. UNCHANGED <<order, updates>> /\ lines' \in LinesType /\ call[c].pc = "lines"
    BY <1>1, <1>4 DEF PutLines, CallRecord
  <2> DEFINE k == [call[c] EXCEPT !.pc = "update"]
  <2>2. k \in CallRecord /\ k.pc = "update" /\ k.order = call[c].order
    BY <1>1 DEF CallRecord, Saving
  <2>3. call' = [call EXCEPT ![c] = k]
    BY <1>4 DEF PutLines
  <2>4. /\ k.order.at \in Changes /\ k.order.at <= clock /\ job[k.order.at] = "NONE"
        /\ call[c].pc \in Saving
    BY <2>1, <2>2 DEF TInv, SaveIsNew, Saving
  <2> HIDE DEF k
  <2> QED BY <1>1, <1>2, <2>1, <2>2, <2>3, <2>4, CallTyped
<1>5. CASE PutUpdate(c)
  <2>1. UNCHANGED <<order, lines>> /\ call[c].pc = "update"
    BY <1>5 DEF PutUpdate
  <2> DEFINE k == [call[c] EXCEPT !.pc = "job"]
  <2>2. k \in CallRecord /\ k.pc = "job" /\ k.order = call[c].order
    BY <1>1 DEF CallRecord, Saving
  <2>3. call' = [call EXCEPT ![c] = k]
    BY <1>5 DEF PutUpdate
  <2>4. /\ k.order.at \in Changes /\ k.order.at <= clock /\ job[k.order.at] = "NONE"
        /\ call[c].pc \in Saving
    BY <2>1, <2>2 DEF TInv, SaveIsNew, Saving
  <2>5. updates' = updates \cup {k.order.at}
    BY <1>5, <2>2 DEF PutUpdate
  <2> HIDE DEF k
  <2> QED BY <1>1, <1>2, <2>1, <2>2, <2>3, <2>4, <2>5, CallTyped
<1> QED BY <1>3, <1>4, <1>5

LEMMA EnqueueTyped ==
  ASSUME TInv, NEW c \in Calls, Enqueue(c)
  PROVE  TInv'
<1> DEFINE u == call[c].order.at
<1>1. /\ u \in Changes /\ u \in updates /\ job[u] = "NONE" /\ call[c].pc = "job"
  BY DEF Enqueue, TInv, SaveIsNew, Saving
<1>2. /\ job' = [job EXCEPT ![u] = "PENDING"] /\ call' = [call EXCEPT ![c] = Idle]
      /\ UNCHANGED <<clock, order, lines, updates, cancels, attempts, sending, snap, snapLines,
                     recorded, withdrawn, req>>
  BY DEF Enqueue, serverVars
<1>3. \A v \in Changes : job'[v] = IF v = u THEN "PENDING" ELSE job[v]
  BY <1>1, <1>2 DEF TInv, TypeOK
<1>4. \A d \in Calls : call'[d] = IF d = c THEN Idle ELSE call[d]
  BY <1>2 DEF TInv
<1> HIDE DEF u
<1>5. TypeOK'
  <2>1. job' \in [Changes -> {"NONE", "PENDING", "SENT", "FAILED"}]
    BY <1>2 DEF TInv, TypeOK
  <2>2. sending \subseteq {v \in Changes : job'[v] = "PENDING"}
    BY <1>3 DEF TInv, TypeOK
  <2>3. DOMAIN call' = Calls
    BY <1>2 DEF TInv
  <2> QED BY <1>2, <2>1, <2>2, <2>3 DEF TInv, TypeOK
<1>6. SaveIsNew'
  <2>1. \A d \in Calls : d # c /\ call[d].pc \in Saving => call[d].order.at # u
    BY <1>1 DEF TInv, SaveIsNew, Saving, u
  <2> QED BY <1>2, <1>3, <1>4, <2>1, Records DEF TInv, SaveIsNew, Saving
<1>7. JobIsOld'
  BY <1>1, <1>2, <1>3 DEF TInv, JobIsOld
<1>8. call' \in [Calls -> CallRecord]
  BY <1>2, Records DEF TInv
<1> QED BY <1>2, <1>5, <1>6, <1>7, <1>8 DEF TInv

LEMMA CancelTyped ==
  ASSUME TInv, NEW i \in Items, NEW n \in 1 .. MaxQty, CancelLine(i, n)
  PROVE  TInv'
<1>1. /\ clock \in 0 .. MaxChanges /\ clock' = clock + 1 /\ clock' \in Changes
      /\ clock' \in 0 .. MaxChanges
  BY OrderSyncAssumption DEF TInv, TypeOK, CancelLine, Tick, Changes
<1>2. order \in Header /\ lines \in LinesType /\ lines[i] >= n
  BY DEF CancelLine, TInv, TypeOK, NoOrder, LinesType
<1>3. order' \in Header
  BY <1>1, <1>2 DEF CancelLine, Header
<1>4. lines' \in LinesType
  <2>1. lines[i] - n \in 0 .. MaxQty
    <3>1. lines[i] \in 0 .. MaxQty
      BY <1>2 DEF LinesType
    <3> QED BY <1>2, <3>1, OrderSyncAssumption
  <2> QED BY <1>2, <2>1 DEF CancelLine, LinesType
<1>5. /\ job' = [job EXCEPT ![clock'] = "PENDING"]
      /\ updates' = updates \cup {clock'} /\ cancels' = cancels \cup {clock'}
      /\ UNCHANGED <<call, attempts, sending, snap, snapLines, recorded, withdrawn, req>>
  BY DEF CancelLine, serverVars
<1>6. \A v \in Changes : job'[v] = IF v = clock' THEN "PENDING" ELSE job[v]
  BY <1>1, <1>5 DEF TInv, TypeOK
<1>7. TypeOK'
  <2>1. job' \in [Changes -> {"NONE", "PENDING", "SENT", "FAILED"}]
    BY <1>5 DEF TInv, TypeOK
  <2>2. sending \subseteq {v \in Changes : job'[v] = "PENDING"}
    BY <1>6 DEF TInv, TypeOK
  <2>3. /\ cancels' \subseteq updates' /\ updates' \subseteq Changes
        /\ withdrawn \subseteq cancels' /\ recorded \subseteq updates'
    BY <1>1, <1>5 DEF TInv, TypeOK
  <2> QED BY <1>1, <1>3, <1>4, <1>5, <2>1, <2>2, <2>3 DEF TInv, TypeOK, LinesType
<1>8. SaveIsNew'
  <2>1. \A d \in Calls : call[d].pc \in Saving =>
          /\ call[d].order.at \in Changes /\ call[d].order.at <= clock
          /\ call[d].order.at # clock' /\ call[d].order.at <= clock'
    BY <1>1 DEF TInv, SaveIsNew, Changes
  <2>2. \A d \in Calls : call[d].pc = "job" => call[d].order.at \in updates'
    BY <1>5 DEF TInv, SaveIsNew
  <2> QED BY <1>5, <1>6, <2>1, <2>2 DEF TInv, SaveIsNew
<1>9. JobIsOld'
  <2>1. \A u \in updates' : u <= clock'
    BY <1>1, <1>5 DEF TInv, TypeOK, JobIsOld, Changes
  <2> QED BY <1>5, <1>6, <2>1 DEF TInv, JobIsOld
<1> QED BY <1>5, <1>7, <1>8, <1>9 DEF TInv

LEMMA RowTyped ==
  ASSUME TInv, TransferTable \/ CompleteSession
  PROVE  TInv'
<1>1. /\ clock \in 0 .. MaxChanges /\ clock' = clock + 1 /\ clock' \in Changes
      /\ clock' \in 0 .. MaxChanges
  BY OrderSyncAssumption DEF TInv, TypeOK, TransferTable, CompleteSession, Tick, Changes
<1>2. order \in Header
  BY DEF TransferTable, CompleteSession, TInv, TypeOK, NoOrder
<1>3. order' \in Header
  BY <1>1, <1>2 DEF TransferTable, CompleteSession, Header
<1>4. UNCHANGED <<lines, updates, cancels, job, attempts, sending, call, snap, snapLines,
                  recorded, withdrawn, req>>
  BY DEF TransferTable, CompleteSession, jobVars, serverVars
<1>5. TypeOK'
  BY <1>1, <1>3, <1>4 DEF TInv, TypeOK
<1>6. SaveIsNew' /\ JobIsOld'
  BY <1>1, <1>4 DEF TInv, TypeOK, SaveIsNew, JobIsOld, Changes
<1> QED BY <1>4, <1>5, <1>6 DEF TInv

LEMMA SendTyped ==
  ASSUME TInv, NEW u \in Changes, Send(u)
  PROVE  TInv'
<1> DEFINE r == <<u, attempts[u] + 1>>
           k == [Unsent EXCEPT !.pc = "upsert", !.order = order, !.lines = lines]
<1>1. /\ job[u] = "PENDING" /\ attempts[u] \in 0 .. MaxAttempts /\ attempts[u] < MaxAttempts
      /\ attempts' = [attempts EXCEPT ![u] = @ + 1] /\ sending' = sending \cup {u}
      /\ req' = [req EXCEPT ![r] = k]
      /\ UNCHANGED <<tillVars, snap, snapLines, recorded, withdrawn>>
  BY DEF Send, TInv, TypeOK
<1>2. r \in Requests /\ r[1] = u /\ r[2] = attempts[u] + 1 /\ attempts[u] + 1 \in 0 .. MaxAttempts
  BY <1>1, OrderSyncAssumption DEF Requests
<1>3. k \in ReqRecord /\ k.pc = "upsert"
  BY Records DEF Unsent, ReqRecord, TInv, TypeOK, LinesType
<1> HIDE DEF r, k
<1>4. /\ req' \in [Requests -> ReqRecord]
      /\ \A q \in Requests : req'[q] = IF q = r THEN k ELSE req[q]
  BY <1>1, <1>3 DEF TInv
<1>5. \A v \in Changes : attempts'[v] = IF v = u THEN attempts[u] + 1 ELSE attempts[v]
  BY <1>1 DEF TInv, TypeOK
<1>6. TypeOK'
  <2>1. attempts' \in [Changes -> 0 .. MaxAttempts]
    BY <1>1, <1>2 DEF TInv, TypeOK
  <2>2. sending' \subseteq {v \in Changes : job[v] = "PENDING"}
    BY <1>1 DEF TInv, TypeOK
  <2> QED BY <1>1, <1>4, <2>1, <2>2 DEF TInv, TypeOK, tillVars
<1>7. SaveIsNew'
  BY <1>1 DEF TInv, SaveIsNew, tillVars
<1>8. JobIsOld'
  <2>1. \A v \in sending' : attempts'[v] > 0
    BY <1>1, <1>5 DEF TInv, TypeOK, JobIsOld
  <2>2. ASSUME NEW q \in Requests, req'[q].pc # "unsent"
        PROVE  q[2] <= attempts'[q[1]] /\ q[1] \in updates
    <3>0. q[1] \in Changes /\ q[2] \in Int /\ attempts[q[1]] \in 0 .. MaxAttempts
      BY OrderSyncAssumption DEF Requests, TInv, TypeOK
    <3>1. CASE q = r
      BY <1>1, <1>2, <1>5, <3>1 DEF TInv, JobIsOld
    <3>2. CASE q # r
      BY <1>1, <1>4, <1>5, <2>2, <3>0, <3>2 DEF TInv, JobIsOld
    <3> QED BY <3>1, <3>2
  <2>3. \A q \in Requests : req'[q].pc \in {"checkCancel", "recordCancel"} => q[1] \in cancels
    BY <1>3, <1>4 DEF TInv, JobIsOld
  <2> QED BY <1>1, <2>1, <2>2, <2>3 DEF TInv, JobIsOld, tillVars
<1> QED BY <1>1, <1>4, <1>6, <1>7, <1>8 DEF TInv, tillVars

LEMMA SettleTyped ==
  ASSUME TInv, NEW u \in Changes, NEW status \in {"PENDING", "SENT", "FAILED"}, Settle(u, status),
         u \in sending
  PROVE  TInv'
<1>1. /\ job' = [job EXCEPT ![u] = status] /\ sending' = sending \ {u}
      /\ UNCHANGED <<clock, order, lines, updates, cancels, call, attempts, snap, snapLines,
                     recorded, withdrawn>>
      /\ job[u] = "PENDING"
  BY DEF Settle, TInv, TypeOK
<1>2. \A v \in Changes : job'[v] = IF v = u THEN status ELSE job[v]
  BY <1>1 DEF TInv, TypeOK
<1>3. /\ req' \in [Requests -> ReqRecord]
      /\ \A q \in Requests : \/ req'[q] = req[q]
                             \/ req'[q] = Done /\ req[q].pc = "answered"
  BY Records DEF Settle, TInv
<1>4. TypeOK'
  <2>1. job' \in [Changes -> {"NONE", "PENDING", "SENT", "FAILED"}]
    BY <1>1 DEF TInv, TypeOK
  <2>2. sending' \subseteq {v \in Changes : job'[v] = "PENDING"}
    BY <1>1, <1>2 DEF TInv, TypeOK
  <2> QED BY <1>1, <1>3, <2>1, <2>2 DEF TInv, TypeOK
<1>5. SaveIsNew'
  BY <1>1, <1>2 DEF TInv, SaveIsNew
<1>6. JobIsOld'
  <2>1. \A q \in Requests : req'[q].pc # "unsent" => req[q].pc # "unsent"
    BY <1>3
  <2>2. \A q \in Requests : req'[q].pc \in {"checkCancel", "recordCancel"} => req'[q] = req[q]
    BY <1>3, Records
  <2> QED BY <1>1, <1>2, <2>1, <2>2 DEF TInv, JobIsOld
<1> QED BY <1>1, <1>3, <1>4, <1>5, <1>6 DEF TInv

LEMMA CrashTyped ==
  ASSUME TInv, ServerCrash \/ TabCrash
  PROVE  TInv'
<1>1. CASE ServerCrash
  <2>1. /\ req' = [r \in Requests |-> IF r \in AtWork THEN Done ELSE req[r]]
        /\ UNCHANGED <<tillVars, attempts, sending, snap, snapLines, recorded, withdrawn>>
    BY <1>1 DEF ServerCrash
  <2>2. req' \in [Requests -> ReqRecord] /\ DOMAIN req' = Requests
    BY <2>1, Records DEF TInv
  <2>3. \A r \in Requests : \/ req'[r] = req[r]
                            \/ req'[r] = Done /\ req[r].pc # "unsent"
    BY <2>1 DEF AtWork, InSnapshot
  <2>4. JobIsOld'
    BY <2>1, <2>3, Records DEF TInv, JobIsOld, tillVars
  <2> QED BY <2>1, <2>2, <2>4 DEF TInv, TypeOK, SaveIsNew, tillVars
<1>2. CASE TabCrash
  <2>1. /\ call' = [c \in Calls |-> Idle]
        /\ UNCHANGED <<clock, order, lines, updates, cancels, job, attempts, sending, snap,
                       snapLines, recorded, withdrawn, req>>
    BY <1>2 DEF TabCrash, jobVars, serverVars
  <2>2. call' \in [Calls -> CallRecord] /\ \A c \in Calls : call'[c].pc \notin Saving
    BY <2>1, Records DEF Saving
  <2>3. SaveIsNew'
    BY <2>2 DEF SaveIsNew, Saving
  <2> QED BY <2>1, <2>2, <2>3 DEF TInv, TypeOK, JobIsOld
<1> QED BY <1>1, <1>2

-----------------------------------------------------------------------------
(* What the server does to a request. *)

Judging == {"check", "record", "checkCancel", "recordCancel"}
JudgeSteps(r) == \/ Check(r) \/ Record(r) \/ CheckCancel(r) \/ RecordCancel(r)
                 \/ StatementFails(r) /\ req[r].pc \in Judging

\* k is true of the records rec and wd.
TrueOf(r, k, rec, wd) ==
  /\ k.pc \in {"checkCancel", "recordCancel", "answered"} /\ Taken(k.update) => r[1] \in rec
  /\ k.pc = "answered" /\ Taken(k.cancel) => r[1] \in wd

\* What the three sections of a push make of r.
Judged(r) ==
  \E k \in ReqRecord :
    /\ req' = [req EXCEPT ![r] = k]
    /\ k.pc \in {"record", "checkCancel", "recordCancel", "answered", "done"}
    /\ k.pc \in {"checkCancel", "recordCancel"} => r[1] \in cancels
    /\ TrueOf(r, k, recorded', withdrawn')

LEMMA AnswerEffect ==
  ASSUME TInv, NEW r \in Requests, NEW update \in Results, NEW cancel \in Results,
         Answer(r, update, cancel)
  PROVE  \E k \in ReqRecord :
           /\ req' = [req EXCEPT ![r] = k]
           /\ \/ k.pc = "done"
              \/ k.pc = "answered" /\ k.update = update /\ k.cancel = cancel
<1> DEFINE a == [Unsent EXCEPT !.pc = "answered", !.update = update, !.cancel = cancel]
<1>1. a \in ReqRecord /\ a.pc = "answered" /\ a.update = update /\ a.cancel = cancel
  BY Records DEF Unsent, ReqRecord
<1>2. req' = [req EXCEPT ![r] = IF Awaited(r) THEN a ELSE Done]
  BY DEF Answer
<1> HIDE DEF a
<1>3. CASE Awaited(r)
  BY <1>1, <1>2, <1>3
<1>4. CASE ~Awaited(r)
  <2>1. req' = [req EXCEPT ![r] = Done]
    BY <1>2, <1>4
  <2>2. PICK d \in ReqRecord : d = Done /\ d.pc = "done"
    BY Records
  <2> QED BY <2>1, <2>2
<1> QED BY <1>3, <1>4

LEMMA JudgeEffect ==
  ASSUME TInv, NEW r \in Requests, NEW result \in Results, Judge(r, result)
  PROVE  \E k \in ReqRecord :
           /\ req' = [req EXCEPT ![r] = k]
           /\ \/ k.pc = "done"
              \/ k.pc = "answered" /\ r[1] \notin cancels /\ k.update = result /\ k.cancel = "none"
              \/ k.pc = "checkCancel" /\ r[1] \in cancels /\ k.update = result
<1>1. CASE r[1] \in cancels
  <2> DEFINE k == [[req[r] EXCEPT !.pc = "checkCancel"] EXCEPT !.update = result]
  <2>1. req[r] \in ReqRecord
    BY DEF TInv
  <2>2. k \in ReqRecord /\ k.pc = "checkCancel" /\ k.update = result
    BY <2>1 DEF ReqRecord
  <2>3. req' = [req EXCEPT ![r] = k]
    <3>1. req' = [[req EXCEPT ![r].pc = "checkCancel"] EXCEPT ![r].update = result]
      BY <1>1 DEF Judge
    <3>2. DOMAIN req' = Requests /\ \A q \in Requests : q # r => req'[q] = req[q]
      BY <3>1 DEF TInv
    <3>3. req'[r] = k
      BY <3>1 DEF TInv
    <3>4. req' = [q \in Requests |-> req'[q]]
      BY <3>1 DEF TInv
    <3> HIDE DEF k
    <3> QED BY <3>2, <3>3, <3>4 DEF TInv
  <2> HIDE DEF k
  <2> QED BY <1>1, <2>2, <2>3
<1>2. CASE r[1] \notin cancels
  BY <1>2, AnswerEffect DEF Judge, Results
<1> QED BY <1>1, <1>2

LEMMA JudgeStep ==
  ASSUME TInv, NEW r \in Requests, JudgeSteps(r),
         TrueOf(r, req[r], recorded, withdrawn)
  PROVE  /\ UNCHANGED <<tillVars, attempts, sending, snap, snapLines, newest, writer, wrote, clean>>
         /\ recorded \subseteq recorded' /\ recorded' \subseteq recorded \cup {r[1]}
         /\ withdrawn \subseteq withdrawn' /\ withdrawn' \subseteq withdrawn \cup ({r[1]} \cap cancels)
         /\ req[r].pc \in Judging
         /\ Judged(r)
<1>0. /\ UNCHANGED <<tillVars, attempts, sending, snap, snapLines, newest, writer, wrote, clean>>
      /\ recorded \subseteq recorded' /\ recorded' \subseteq recorded \cup {r[1]}
      /\ withdrawn \subseteq withdrawn' /\ withdrawn' \subseteq withdrawn \cup {r[1]}
      /\ (withdrawn' = withdrawn \/ req[r].pc = "recordCancel")
      /\ req[r].pc \in Judging /\ req[r] \in ReqRecord
  BY DEF JudgeSteps, Check, Record, CheckCancel, RecordCancel, StatementFails, Judging, TInv
<1>1. req[r].pc \in {"checkCancel", "recordCancel"} => r[1] \in cancels
  BY DEF TInv, JobIsOld
<1>2. ASSUME NEW result \in Results, Judge(r, result), Taken(result) => r[1] \in recorded'
      PROVE  Judged(r)
  BY <1>2, JudgeEffect DEF Judged, TrueOf, Taken
<1>3. ASSUME NEW result \in Results, JudgeCancel(r, result), Taken(result) => r[1] \in withdrawn',
             req[r].pc \in {"checkCancel", "recordCancel"}
      PROVE  Judged(r)
  <2>1. req[r].update \in Results
    BY <1>0 DEF ReqRecord
  <2>2. Taken(req[r].update) => r[1] \in recorded'
    BY <1>0, <1>3 DEF TrueOf
  <2>3. \E k \in ReqRecord :
           /\ req' = [req EXCEPT ![r] = k]
           /\ \/ k.pc = "done"
              \/ k.pc = "answered" /\ k.update = req[r].update /\ k.cancel = result
    BY <1>3, <2>1, AnswerEffect DEF JudgeCancel
  <2> QED BY <1>1, <1>3, <2>2, <2>3 DEF Judged, TrueOf
<1>4. ASSUME NEW where \in {"record", "recordCancel"}, Goto(r, where),
             where = "recordCancel" => req[r].pc = "checkCancel"
      PROVE  Judged(r)
  <2> DEFINE k == [req[r] EXCEPT !.pc = where]
  <2>1. k \in ReqRecord /\ k.pc = where /\ k.update = req[r].update
    BY <1>0 DEF ReqRecord
  <2>2. req' = [req EXCEPT ![r] = k]
    BY <1>4 DEF Goto
  <2> HIDE DEF k
  <2>3. TrueOf(r, k, recorded', withdrawn')
    BY <1>0, <1>4, <2>1 DEF TrueOf
  <2> QED BY <1>1, <1>4, <2>1, <2>2, <2>3 DEF Judged
<1>5. ASSUME Check(r) PROVE Judged(r)
  BY <1>0, <1>2, <1>4, <1>5 DEF Check, Results
<1>6. ASSUME Record(r) PROVE Judged(r)
  <2>1. \/ Judge(r, "OK") /\ r[1] \in recorded'
        \/ Judge(r, "ERROR")
    BY <1>6 DEF Record
  <2>2. "OK" \in Results /\ "ERROR" \in Results /\ ~Taken("ERROR")
    BY DEF Results, Taken
  <2>3. CASE Judge(r, "OK") /\ r[1] \in recorded'
    BY <1>2, <2>2, <2>3
  <2>4. CASE Judge(r, "ERROR")
    BY <1>2, <2>2, <2>4
  <2> QED BY <2>1, <2>3, <2>4
<1>7. ASSUME CheckCancel(r) PROVE Judged(r)
  BY <1>0, <1>3, <1>4, <1>7 DEF CheckCancel, Results
<1>8. ASSUME RecordCancel(r) PROVE Judged(r)
  <2>1. \/ JudgeCancel(r, "OK") /\ r[1] \in withdrawn'
        \/ JudgeCancel(r, "ERROR")
    BY <1>8 DEF RecordCancel
  <2>2. "OK" \in Results /\ "ERROR" \in Results /\ ~Taken("ERROR")
    BY DEF Results, Taken
  <2>3. CASE JudgeCancel(r, "OK") /\ r[1] \in withdrawn'
    BY <1>3, <1>8, <2>2, <2>3 DEF RecordCancel
  <2>4. CASE JudgeCancel(r, "ERROR")
    BY <1>3, <1>8, <2>2, <2>4 DEF RecordCancel
  <2> QED BY <2>1, <2>3, <2>4
<1>9. ASSUME StatementFails(r) PROVE Judged(r)
  BY <1>0, <1>2, <1>3, <1>9 DEF StatementFails, Results, Taken, Judging
<1>10. Judged(r)
  BY <1>5, <1>6, <1>7, <1>8, <1>9 DEF JudgeSteps
<1> QED BY <1>0, <1>1, <1>10

\* The next statement on the snapshot, or the next section.
LEMMA InsertsEffect ==
  ASSUME TInv, NEW r \in Requests, NEW left \in SUBSET Items, Inserts(r, left)
  PROVE  \E k \in ReqRecord :
           /\ req' = [req EXCEPT ![r] = k]
           /\ k.pc = IF left = {} THEN "check" ELSE "insert"
           /\ k.todo = left /\ k.lines = req[r].lines
<1> DEFINE where == IF left = {} THEN "check" ELSE "insert"
           k == [[req[r] EXCEPT !.pc = where] EXCEPT !.todo = left]
<1>1. req[r] \in ReqRecord
  BY DEF TInv
<1>2. /\ k \in ReqRecord /\ k.pc = where /\ k.todo = left /\ k.lines = req[r].lines
  BY <1>1 DEF ReqRecord
<1>3. req' = [req EXCEPT ![r] = k]
  <2>1. req' = [[req EXCEPT ![r].pc = where] EXCEPT ![r].todo = left]
    BY DEF Inserts
  <2>2. DOMAIN req' = Requests /\ \A q \in Requests : q # r => req'[q] = req[q]
    BY <2>1 DEF TInv
  <2>3. req'[r] = k
    BY <2>1 DEF TInv
  <2>4. req' = [q \in Requests |-> req'[q]]
    BY <2>1 DEF TInv
  <2> HIDE DEF k
  <2> QED BY <2>2, <2>3, <2>4 DEF TInv
<1> HIDE DEF k
<1> QED BY <1>2, <1>3

SnapSteps(r) == \/ Upsert(r) \/ Delete(r) \/ InsertLine(r)
                \/ StatementFails(r) /\ req[r].pc \notin Judging

LEMMA SnapStep ==
  ASSUME TInv, NEW r \in Requests, SnapSteps(r)
  PROVE  /\ UNCHANGED <<tillVars, attempts, sending, recorded, withdrawn, newest>>
         /\ req[r].pc \in {"upsert", "delete", "insert"}
         /\ snap' \in Header \cup {NoOrder} /\ snapLines' \in LinesType
         /\ \E k \in ReqRecord : /\ req' = [req EXCEPT ![r] = k]
                                 /\ k.pc \in {"delete", "insert", "check"}
<1>0. /\ req[r] \in ReqRecord /\ snap \in Header \cup {NoOrder} /\ snapLines \in LinesType
  BY DEF TInv, TypeOK, LinesType
<1>1. CASE Upsert(r)
  <2> DEFINE k == [req[r] EXCEPT !.pc = "delete"]
  <2>1. k \in ReqRecord /\ k.pc = "delete" /\ snap' \in Header \cup {NoOrder}
    BY <1>0, <1>1 DEF ReqRecord, Upsert
  <2>2. req' = [req EXCEPT ![r] = k]
    BY <1>1 DEF Upsert, Goto
  <2> HIDE DEF k
  <2> QED BY <1>0, <1>1, <2>1, <2>2 DEF Upsert
<1>2. CASE Delete(r)
  <2>1. \E k \in ReqRecord : /\ req' = [req EXCEPT ![r] = k]
                             /\ k.pc \in {"delete", "insert", "check"}
    BY <1>2, InsertsEffect DEF Delete
  <2> QED BY <1>0, <1>2, <2>1, Records DEF Delete
<1>3. CASE InsertLine(r)
  <2>1. PICK i \in req[r].todo :
          IF snapLines[i] = 0
            THEN /\ snapLines' = [snapLines EXCEPT ![i] = req[r].lines[i]]
                 /\ Inserts(r, req[r].todo \ {i})
            ELSE UNCHANGED snapLines /\ Inserts(r, {})
    BY <1>3 DEF InsertLine
  <2>2. i \in Items /\ req[r].todo \subseteq Items /\ req[r].lines[i] \in 0 .. MaxQty
    BY <1>0 DEF ReqRecord, LinesType
  <2>3. \E k \in ReqRecord : /\ req' = [req EXCEPT ![r] = k]
                             /\ k.pc \in {"delete", "insert", "check"}
    BY <2>1, <2>2, InsertsEffect
  <2>4. snapLines' \in LinesType
    BY <1>0, <2>1, <2>2 DEF LinesType
  <2> QED BY <1>0, <1>3, <2>3, <2>4 DEF InsertLine
<1>4. CASE StatementFails(r) /\ req[r].pc \notin Judging
  <2>1. /\ req[r].pc \in {"upsert", "delete", "insert"} /\ Inserts(r, {})
        /\ UNCHANGED <<tillVars, attempts, sending, snap, snapLines, recorded, withdrawn, newest>>
    BY <1>4 DEF StatementFails, Judging
  <2>2. \E k \in ReqRecord : /\ req' = [req EXCEPT ![r] = k]
                             /\ k.pc \in {"delete", "insert", "check"}
    BY <2>1, InsertsEffect
  <2> QED BY <1>0, <2>1, <2>2
<1> QED BY <1>1, <1>2, <1>3, <1>4 DEF SnapSteps

-----------------------------------------------------------------------------
(* What the answers say. *)

AInv == /\ TInv /\ AckedIsRecorded
        /\ \A r \in Requests : TrueOf(r, req[r], recorded, withdrawn)

\* The till's own steps: no job is delivered, none that was is touched, and
\* only a new update comes with a cancellation.
LEMMA TillAcked ==
  ASSUME AInv, TInv', UNCHANGED <<recorded, withdrawn>>,
         \A u \in Changes : job'[u] = "SENT" => job[u] = "SENT",
         \A u \in Changes : job'[u] = "SENT" /\ u \in cancels' => u \in cancels,
         \A r \in Requests : req'[r] = req[r] \/ req'[r].pc \in {"upsert", "done"}
  PROVE  AInv'
BY DEF AInv, AckedIsRecorded, TrueOf

LEMMA ServerAcked ==
  ASSUME AInv, NEW r \in Requests, SnapSteps(r) \/ JudgeSteps(r)
  PROVE  AInv'
<1>1. CASE SnapSteps(r)
  <2>1. PICK k \in ReqRecord : req' = [req EXCEPT ![r] = k] /\ k.pc \in {"delete", "insert", "check"}
    BY <1>1, SnapStep DEF AInv
  <2>2. /\ UNCHANGED <<tillVars, attempts, sending, recorded, withdrawn, newest>>
        /\ req[r].pc \in {"upsert", "delete", "insert"}
        /\ snap' \in Header \cup {NoOrder} /\ snapLines' \in LinesType
    BY <1>1, SnapStep DEF AInv
  <2>3. TInv'
    BY <2>1, <2>2, ServerTyped DEF AInv
  <2>4. \A q \in Requests : req'[q] = IF q = r THEN k ELSE req[q]
    BY <2>1 DEF AInv, TInv
  <2> QED BY <2>1, <2>2, <2>3, <2>4 DEF AInv, AckedIsRecorded, TrueOf, tillVars
<1>2. CASE JudgeSteps(r)
  <2>1. PICK k \in ReqRecord :
              /\ req' = [req EXCEPT ![r] = k]
              /\ k.pc \in {"record", "checkCancel", "recordCancel", "answered", "done"}
              /\ k.pc \in {"checkCancel", "recordCancel"} => r[1] \in cancels
              /\ TrueOf(r, k, recorded', withdrawn')
    BY <1>2, JudgeStep DEF AInv, Judged
  <2>2. /\ UNCHANGED <<tillVars, attempts, sending, snap, snapLines, newest, writer, wrote, clean>>
        /\ recorded \subseteq recorded' /\ recorded' \subseteq recorded \cup {r[1]}
        /\ withdrawn \subseteq withdrawn' /\ withdrawn' \subseteq withdrawn \cup ({r[1]} \cap cancels)
        /\ req[r].pc \in Judging
    BY <1>2, JudgeStep DEF AInv
  <2>3. snap' \in Header \cup {NoOrder} /\ snapLines' \in LinesType
    BY <2>2 DEF AInv, TInv, TypeOK, LinesType
  <2>4. TInv'
    BY <2>1, <2>2, <2>3, ServerTyped DEF AInv, Judging
  <2>5. \A q \in Requests : req'[q] = IF q = r THEN k ELSE req[q]
    BY <2>1 DEF AInv, TInv
  <2>6. \A q \in Requests : TrueOf(q, req'[q], recorded', withdrawn')
    BY <2>1, <2>2, <2>5 DEF AInv, TrueOf
  <2> QED BY <2>2, <2>4, <2>6 DEF AInv, AckedIsRecorded, tillVars
<1> QED BY <1>1, <1>2

LEMMA SettleAcked ==
  ASSUME AInv, NEW u \in Changes, Reply(u) \/ NoReply(u)
  PROVE  AInv'
<1> DEFINE r == <<u, attempts[u]>>
<1>1. PICK status \in {"PENDING", "SENT", "FAILED"} :
        /\ u \in sending /\ Settle(u, status)
        /\ status = "SENT" => req[r].pc = "answered" /\ Acked(u)
  BY DEF Reply, NoReply, Retried
<1>2. TInv'
  BY <1>1, SettleTyped DEF AInv
<1>3. r \in Requests
  BY <1>1, OrderSyncAssumption DEF AInv, TInv, TypeOK, JobIsOld, Requests
<1>4. status = "SENT" => u \in recorded /\ (u \in cancels => u \in withdrawn)
  BY <1>1, <1>3 DEF AInv, TrueOf, Acked
<1>5. /\ \A v \in Changes : job'[v] = IF v = u THEN status ELSE job[v]
      /\ UNCHANGED <<cancels, recorded, withdrawn>>
  BY <1>1 DEF Settle, AInv, TInv, TypeOK
<1>6. \A q \in Requests : req'[q] = req[q] \/ req'[q].pc = "done"
  BY <1>1, Records DEF Settle, AInv, TInv
<1> HIDE DEF r
<1> QED BY <1>2, <1>4, <1>5, <1>6 DEF AInv, AckedIsRecorded, TrueOf

LEMMA InitAcked == Init => AInv
<1> SUFFICES ASSUME Init PROVE AInv
  OBVIOUS
<1>1. AckedIsRecorded
  BY DEF Init, AckedIsRecorded
<1>2. \A r \in Requests : TrueOf(r, req[r], recorded, withdrawn)
  BY Records DEF Init, TrueOf
<1> QED BY <1>1, <1>2, InitTyped DEF AInv

LEMMA NextAcked == AInv /\ [Next]_vars => AInv'
<1> SUFFICES ASSUME AInv, [Next]_vars PROVE AInv'
  OBVIOUS
<1>1. ASSUME NEW c \in Calls,
             \/ \E cart \in Carts : Save(c, cart)
             \/ Close(c) \/ PutOrder(c) \/ PutLines(c) \/ PutUpdate(c)
      PROVE  AInv'
  <2>1. TInv'
    BY <1>1, SaveTyped, CloseTyped, PutTyped DEF AInv
  <2>2. UNCHANGED <<cancels, job, recorded, withdrawn, req>>
    BY <1>1 DEF Save, Close, PutOrder, PutLines, PutUpdate, jobVars, serverVars
  <2> QED BY <2>1, <2>2, TillAcked
<1>2. ASSUME NEW c \in Calls, Enqueue(c) PROVE AInv'
  <2>1. TInv'
    BY <1>2, EnqueueTyped DEF AInv
  <2>2. /\ UNCHANGED <<cancels, recorded, withdrawn, req>>
        /\ \A u \in Changes : job'[u] = "SENT" => job[u] = "SENT"
    BY <1>2 DEF Enqueue, serverVars, AInv, TInv, TypeOK
  <2> QED BY <2>1, <2>2, TillAcked
<1>3. ASSUME NEW i \in Items, NEW n \in 1 .. MaxQty, CancelLine(i, n) PROVE AInv'
  <2>1. TInv'
    BY <1>3, CancelTyped DEF AInv
  <2>2. UNCHANGED <<recorded, withdrawn, req>> /\ cancels' = cancels \cup {clock'}
    BY <1>3 DEF CancelLine, serverVars
  <2>3. \A u \in Changes : job'[u] = "SENT" => job[u] = "SENT" /\ u # clock'
    BY <1>3 DEF CancelLine, AInv, TInv, TypeOK
  <2> QED BY <2>1, <2>2, <2>3, TillAcked
<1>4. CASE TransferTable \/ CompleteSession
  <2>1. TInv'
    BY <1>4, RowTyped DEF AInv
  <2>2. UNCHANGED <<cancels, job, recorded, withdrawn, req>>
    BY <1>4 DEF TransferTable, CompleteSession, jobVars, serverVars
  <2> QED BY <2>1, <2>2, TillAcked
<1>5. ASSUME NEW u \in Changes, Send(u) PROVE AInv'
  <2>1. TInv'
    BY <1>5, SendTyped DEF AInv
  <2>2. UNCHANGED <<cancels, job, recorded, withdrawn>>
    BY <1>5 DEF Send, tillVars
  <2>3. \A q \in Requests : req'[q] = req[q] \/ req'[q].pc = "upsert"
    BY <1>5, Records DEF Send, AInv, TInv, Unsent
  <2> QED BY <2>1, <2>2, <2>3, TillAcked
<1>6. ASSUME NEW u \in Changes, Reply(u) \/ NoReply(u) PROVE AInv'
  BY <1>6, SettleAcked
<1>7. CASE Server
  <2>1. \E r \in Requests : SnapSteps(r) \/ JudgeSteps(r)
    BY <1>7 DEF Server, SnapSteps, JudgeSteps
  <2> QED BY <2>1, ServerAcked
<1>8. CASE ServerCrash \/ TabCrash
  <2>1. TInv'
    BY <1>8, CrashTyped DEF AInv
  <2>2. /\ UNCHANGED <<cancels, job, recorded, withdrawn>>
        /\ \A q \in Requests : req'[q] = req[q] \/ req'[q].pc = "done"
    BY <1>8, Records DEF ServerCrash, TabCrash, tillVars, jobVars, serverVars
  <2> QED BY <2>1, <2>2, TillAcked
<1>9. CASE UNCHANGED vars
  BY <1>9 DEF vars, tillVars, serverVars, AInv, TInv, TypeOK, SaveIsNew, JobIsOld,
              AckedIsRecorded, TrueOf
<1> QED BY <1>1, <1>2, <1>3, <1>4, <1>5, <1>6, <1>7, <1>8, <1>9 DEF Next, Till

\* The rows, the jobs and the requests keep their types, and no line of the
\* order falls below zero (cancelFinalizedOrderLine).
THEOREM OrderTyped == Spec => []TypeOK
<1>1. AInv => TypeOK
  BY DEF AInv, TInv
<1> QED BY <1>1, InitAcked, NextAcked, PTL DEF Spec

\* An update the till counts as delivered is on the server, its cancellation
\* with it, however often the two were sent and whichever answers were lost
\* (assertOrderUpdateAck, assertItemCancellationAck, processOrderUpdates).
THEOREM DeliveredIsRecorded == Spec => []AckedIsRecorded
<1>1. AInv => AckedIsRecorded
  BY DEF AInv
<1> QED BY <1>1, InitAcked, NextAcked, PTL DEF Spec

-----------------------------------------------------------------------------
(* What the snapshot holds. *)

\* How far the request that wrote the row has come with the lines.
SnapOf ==
  /\ snap = wrote.order /\ wrote.lines \in LinesType
  /\ req[writer].pc = "delete" => req[writer].lines = wrote.lines
  /\ req[writer].pc = "insert" =>
       /\ req[writer].lines = wrote.lines /\ req[writer].todo # {}
       /\ snapLines = [i \in Items |-> IF i \in req[writer].todo THEN 0 ELSE wrote.lines[i]]
  /\ writer \notin InSnapshot => snapLines = wrote.lines

SInv ==
  /\ writer \in Requests \cup {NoRequest}
  /\ writer \in Requests => req[writer].pc \notin {"unsent", "upsert"}
  /\ clean => /\ InSnapshot \subseteq {writer}
              /\ writer \in Requests => SnapOf

\* A step that leaves the snapshot alone: requests come, or go on elsewhere.
Early == {"unsent", "upsert", "delete", "insert"}
LEMMA SnapKept ==
  ASSUME SInv, UNCHANGED <<snap, snapLines, writer, wrote, clean>>,
         \A q \in Requests : \/ req'[q] = req[q]
                             \/ req[q].pc \notin Early /\ req'[q].pc \notin Early
                             \/ req[q].pc = "unsent" /\ req'[q].pc = "upsert"
  PROVE  SInv'
<1>1. InSnapshot' = InSnapshot
  BY DEF InSnapshot, Early
<1>2. writer \in Requests => /\ req'[writer].pc \notin {"unsent", "upsert"}
                             /\ req'[writer] = req[writer] \/ writer \notin InSnapshot
  BY DEF SInv, Early, InSnapshot
<1>3. clean /\ writer \in Requests => SnapOf'
  <2> SUFFICES ASSUME clean, writer \in Requests PROVE SnapOf'
    OBVIOUS
  <2>1. SnapOf
    BY DEF SInv
  <2>2. CASE req'[writer] = req[writer]
    BY <1>1, <2>1, <2>2 DEF SnapOf
  <2>3. CASE req'[writer] # req[writer]
    <3>1. writer \notin InSnapshot /\ writer \notin InSnapshot'
      BY <1>1, <1>2, <2>3
    <3>2. req'[writer].pc \notin {"delete", "insert"}
      BY <3>1 DEF InSnapshot
    <3> QED BY <2>1, <3>1, <3>2 DEF SnapOf
  <2> QED BY <2>2, <2>3
<1> QED BY <1>1, <1>2, <1>3 DEF SInv

LEMMA UpsertWhole ==
  ASSUME TInv, SInv, NEW r \in Requests, Upsert(r)
  PROVE  SInv'
<1>1. /\ req' = [req EXCEPT ![r].pc = "delete"] /\ writer' = r
      /\ snap' = req[r].order /\ clean' = (InSnapshot = {})
      /\ wrote' = [order |-> req[r].order, lines |-> req[r].lines]
  BY DEF Upsert, Goto
<1>2. /\ req'[r].pc = "delete" /\ req'[r].lines = req[r].lines /\ req[r].lines \in LinesType
      /\ \A q \in Requests : q # r => req'[q] = req[q]
  BY <1>1 DEF TInv, ReqRecord
<1>3. r \in InSnapshot' /\ (InSnapshot = {} => InSnapshot' = {r})
  BY <1>2 DEF InSnapshot
<1>4. SnapOf'
  BY <1>1, <1>2, <1>3 DEF SnapOf
<1> QED BY <1>1, <1>2, <1>3, <1>4 DEF SInv

LEMMA DeleteWhole ==
  ASSUME TInv, SInv, NEW r \in Requests, Delete(r)
  PROVE  SInv'
<1> DEFINE left == {i \in Items : req[r].lines[i] > 0}
<1>1. /\ req[r].pc = "delete" /\ snapLines' = NoLines /\ UNCHANGED <<snap, writer, wrote, clean>>
      /\ Inserts(r, left)
  BY DEF Delete
<1>2. PICK k \in ReqRecord :
        /\ req' = [req EXCEPT ![r] = k] /\ k.pc = IF left = {} THEN "check" ELSE "insert"
        /\ k.todo = left /\ k.lines = req[r].lines
  BY <1>1, InsertsEffect
<1>3. \A q \in Requests : req'[q] = IF q = r THEN k ELSE req[q]
  BY <1>2 DEF TInv
<1>4. req[r].lines \in LinesType
  BY DEF TInv, ReqRecord
<1>5. r \in InSnapshot /\ InSnapshot' \subseteq InSnapshot
  BY <1>1, <1>2, <1>3 DEF InSnapshot
<1>6. writer \in Requests => req'[writer].pc \notin {"unsent", "upsert"}
  BY <1>2, <1>3 DEF SInv
<1>7. ASSUME clean, writer \in Requests PROVE SnapOf'
  <2>1. writer = r /\ SnapOf
    BY <1>5, <1>7 DEF SInv
  <2>2. wrote.lines = req[r].lines
    BY <1>1, <2>1 DEF SnapOf
  <2>3. \A i \in Items : i \notin left => req[r].lines[i] = 0
    <3> SUFFICES ASSUME NEW i \in Items, i \notin left PROVE req[r].lines[i] = 0
      OBVIOUS
    <3>1. ~(req[r].lines[i] > 0)
      OBVIOUS
    <3>2. req[r].lines[i] \in 0 .. MaxQty /\ MaxQty \in Nat
      BY <1>4, OrderSyncAssumption DEF LinesType
    <3> HIDE DEF left
    <3> QED BY <3>1, <3>2
  <2>4. CASE left = {}
    <3>1. NoLines = wrote.lines
      BY <1>4, <2>2, <2>3, <2>4 DEF NoLines, LinesType
    <3> QED BY <1>1, <1>2, <1>3, <1>4, <2>1, <2>2, <2>4, <3>1 DEF SnapOf
  <2>5. CASE left # {}
    <3>1. NoLines = [i \in Items |-> IF i \in left THEN 0 ELSE wrote.lines[i]]
      BY <2>2, <2>3 DEF NoLines
    <3>2. writer \in InSnapshot'
      BY <1>2, <1>3, <2>1, <2>5, <1>1 DEF InSnapshot
    <3> HIDE DEF left
    <3> QED BY <1>1, <1>2, <1>3, <1>4, <2>1, <2>2, <2>5, <3>1, <3>2 DEF SnapOf
  <2> QED BY <2>4, <2>5
<1> QED BY <1>1, <1>5, <1>6, <1>7 DEF SInv

LEMMA InsertWhole ==
  ASSUME TInv, SInv, NEW r \in Requests, InsertLine(r)
  PROVE  SInv'
<1>1. /\ req[r].pc = "insert" /\ UNCHANGED <<snap, writer, wrote, clean>>
      /\ req[r] \in ReqRecord
  BY DEF InsertLine, TInv
<1>2. PICK i \in req[r].todo :
        IF snapLines[i] = 0
          THEN /\ snapLines' = [snapLines EXCEPT ![i] = req[r].lines[i]]
               /\ Inserts(r, req[r].todo \ {i})
          ELSE UNCHANGED snapLines /\ Inserts(r, {})
  BY DEF InsertLine
<1>3. i \in Items /\ req[r].todo \subseteq Items /\ req[r].lines \in LinesType
  BY <1>1 DEF ReqRecord
<1>4. PICK k \in ReqRecord :
        /\ req' = [req EXCEPT ![r] = k]
        /\ k.pc \in {"insert", "check"} /\ k.lines = req[r].lines
        /\ snapLines[i] = 0 => /\ k.todo = req[r].todo \ {i}
                               /\ k.pc = IF k.todo = {} THEN "check" ELSE "insert"
  <2>1. CASE snapLines[i] = 0
    BY <1>2, <1>3, <2>1, InsertsEffect
  <2>2. CASE snapLines[i] # 0
    BY <1>2, <1>3, <2>2, InsertsEffect
  <2> QED BY <2>1, <2>2
<1>5. \A q \in Requests : req'[q] = IF q = r THEN k ELSE req[q]
  BY <1>4 DEF TInv
<1>6. r \in InSnapshot /\ InSnapshot' \subseteq InSnapshot
  BY <1>1, <1>4, <1>5 DEF InSnapshot
<1>7. writer \in Requests => req'[writer].pc \notin {"unsent", "upsert"}
  BY <1>4, <1>5 DEF SInv
<1>8. ASSUME clean, writer \in Requests PROVE SnapOf'
  <2>1. writer = r /\ SnapOf
    BY <1>6, <1>8 DEF SInv
  <2>2. /\ wrote.lines = req[r].lines
        /\ snapLines = [j \in Items |-> IF j \in req[r].todo THEN 0 ELSE wrote.lines[j]]
    BY <1>1, <2>1 DEF SnapOf
  <2>3. snapLines[i] = 0
    BY <1>3, <2>2
  <2>4. snapLines' = [j \in Items |-> IF j \in k.todo THEN 0 ELSE wrote.lines[j]]
    <3>1. snapLines' = [snapLines EXCEPT ![i] = wrote.lines[i]] /\ k.todo = req[r].todo \ {i}
      BY <1>2, <1>4, <2>2, <2>3
    <3> QED BY <1>3, <2>2, <3>1
  <2>5. CASE k.todo = {}
    <3>1. snapLines' = wrote.lines
      BY <1>3, <2>2, <2>4, <2>5 DEF LinesType
    <3>2. k.pc = "check"
      BY <1>4, <2>3, <2>5
    <3> QED BY <1>1, <1>3, <1>5, <2>1, <2>2, <3>1, <3>2 DEF SnapOf
  <2>6. CASE k.todo # {}
    <3>1. k.pc = "insert"
      BY <1>4, <2>3, <2>6
    <3>2. writer \in InSnapshot'
      BY <1>1, <1>5, <2>1, <3>1 DEF InSnapshot
    <3> QED BY <1>1, <1>3, <1>4, <1>5, <2>1, <2>2, <2>4, <2>6, <3>1, <3>2 DEF SnapOf
  <2> QED BY <2>5, <2>6
<1> QED BY <1>1, <1>6, <1>7, <1>8 DEF SInv

\* A snapshot that fails half way is not what any request brought.
LEMMA FailsWhole ==
  ASSUME TInv, SInv, NEW r \in Requests, StatementFails(r), req[r].pc \notin Judging
  PROVE  SInv'
<1>1. Inserts(r, {}) /\ clean' = FALSE /\ UNCHANGED writer
  BY DEF StatementFails, Judging
<1>2. PICK k \in ReqRecord : req' = [req EXCEPT ![r] = k] /\ k.pc = "check"
  BY <1>1, InsertsEffect
<1>3. \A q \in Requests : req'[q] = IF q = r THEN k ELSE req[q]
  BY <1>2 DEF TInv
<1> QED BY <1>1, <1>2, <1>3 DEF SInv

LEMMA ServerCrashWhole ==
  ASSUME TInv, SInv, ServerCrash
  PROVE  SInv'
<1>1. /\ req' = [r \in Requests |-> IF r \in AtWork THEN Done ELSE req[r]]
      /\ clean' = (clean /\ InSnapshot = {}) /\ UNCHANGED <<snap, snapLines, writer, wrote>>
  BY DEF ServerCrash
<1>2. InSnapshot' = {}
  BY <1>1, Records DEF InSnapshot, AtWork
<1>3. writer \in Requests => req'[writer].pc \notin {"unsent", "upsert"}
  BY <1>1, Records DEF SInv, AtWork
<1>4. clean' /\ writer \in Requests => SnapOf'
  <2> SUFFICES ASSUME clean', writer \in Requests PROVE SnapOf'
    OBVIOUS
  <2>1. SnapOf /\ InSnapshot = {}
    BY <1>1 DEF SInv
  <2>2. req'[writer].pc \notin {"delete", "insert"}
    BY <1>2 DEF InSnapshot
  <2> QED BY <1>1, <1>2, <2>1, <2>2 DEF SnapOf
<1> QED BY <1>1, <1>2, <1>3, <1>4 DEF SInv

\* Beside them, every step leaves the snapshot alone.
LEMMA NextWhole == AInv /\ SInv /\ [Next]_vars => SInv'
<1> SUFFICES ASSUME AInv, TInv, SInv, [Next]_vars PROVE SInv'
  BY DEF AInv
<1>1. CASE UNCHANGED <<snap, snapLines, writer, wrote, clean, req>>
  BY <1>1, SnapKept
<1>2. ASSUME NEW u \in Changes, Send(u) PROVE SInv'
  <2> DEFINE r == <<u, attempts[u] + 1>>
  <2>1. r \in Requests /\ r[1] = u /\ r[2] = attempts[u] + 1 /\ attempts[u] \in Nat
    BY <1>2, OrderSyncAssumption DEF Send, TInv, TypeOK, Requests
  <2>2. req[r].pc = "unsent"
    BY <2>1 DEF TInv, JobIsOld
  <2>3. \A q \in Requests : \/ req'[q] = req[q]
                            \/ q = r /\ req'[q].pc = "upsert"
    BY <1>2, Records DEF Send, TInv, Unsent
  <2>4. UNCHANGED <<snap, snapLines, writer, wrote, clean>>
    BY <1>2 DEF Send
  <2> HIDE DEF r
  <2> QED BY <2>2, <2>3, <2>4, SnapKept
<1>3. ASSUME NEW u \in Changes, Reply(u) \/ NoReply(u) PROVE SInv'
  <2>1. PICK status : Settle(u, status)
    BY <1>3 DEF Reply, NoReply
  <2>2. \A q \in Requests : \/ req'[q] = req[q]
                            \/ req[q].pc = "answered" /\ req'[q].pc = "done"
    BY <2>1, Records DEF Settle, TInv
  <2>3. UNCHANGED <<snap, snapLines, writer, wrote, clean>>
    BY <2>1 DEF Settle
  <2> QED BY <2>2, <2>3, SnapKept DEF Early
<1>4. ASSUME NEW r \in Requests, JudgeSteps(r) PROVE SInv'
  <2>1. Judged(r) /\ req[r].pc \in Judging /\ UNCHANGED <<snap, snapLines, writer, wrote, clean>>
    BY <1>4, JudgeStep DEF AInv
  <2>2. PICK k \in ReqRecord :
          /\ req' = [req EXCEPT ![r] = k]
          /\ k.pc \in {"record", "checkCancel", "recordCancel", "answered", "done"}
    BY <2>1 DEF Judged
  <2>3. \A q \in Requests : \/ req'[q] = req[q]
                            \/ req[q].pc \notin Early /\ req'[q].pc \notin Early
    BY <2>1, <2>2 DEF Judging, Early, TInv
  <2> QED BY <2>1, <2>3, SnapKept
<1>5. ASSUME NEW r \in Requests, SnapSteps(r) PROVE SInv'
  BY <1>5, UpsertWhole, DeleteWhole, InsertWhole, FailsWhole DEF SnapSteps
<1>6. CASE Server
  <2>1. \E r \in Requests : SnapSteps(r) \/ JudgeSteps(r)
    BY <1>6 DEF Server, SnapSteps, JudgeSteps
  <2> QED BY <1>4, <1>5, <2>1
<1>7. CASE ServerCrash
  BY <1>7, ServerCrashWhole
<1> QED BY <1>1, <1>2, <1>3, <1>6, <1>7
        DEF Next, Till, Save, Close, PutOrder, PutLines, PutUpdate, Enqueue, CancelLine,
            TransferTable, CompleteSession, TabCrash, vars, jobVars, serverVars

LEMMA InitWhole == Init => SInv
BY OrderSyncAssumption DEF Init, SInv, InSnapshot, Unsent, NoRequest, Requests, Changes

LEMMA WholeNow == TInv /\ SInv => SnapshotIsWhole
BY DEF SInv, SnapOf, SnapshotIsWhole

\* The snapshot is one push's, row and lines, while its statements ran
\* undisturbed (upsertOrderSnapshot, the delete and the inserts of the lines).
THEOREM WholeSnapshot == Spec => []SnapshotIsWhole
<1>1. Init => AInv /\ SInv
  BY InitAcked, InitWhole
<1>2. AInv /\ SInv /\ [Next]_vars => (AInv /\ SInv)'
  BY NextAcked, NextWhole
<1>3. AInv /\ SInv => SnapshotIsWhole
  BY WholeNow DEF AInv
<1> QED BY <1>1, <1>2, <1>3, PTL DEF Spec

-----------------------------------------------------------------------------
(* Why the last push brings the order of the till. *)

\* The push posted last carries the order as it is, or brought it.
Fresh ==
  /\ newest \in Requests /\ req[newest].pc = "upsert" =>
       req[newest].order = order /\ req[newest].lines = lines
  /\ newest \in Requests /\ writer = newest => wrote.order = order /\ wrote.lines = lines

\* A save is on its way to its job.
Pending == \E c \in Calls : call[c].pc \in {"lines", "update", "job"}

\* A job waits to be sent.
Queued == \E u \in Changes : job[u] = "PENDING" /\ u \notin sending

FInv == newest \in Requests \cup {NoRequest} /\ (Fresh \/ silent \/ Pending \/ Queued)

LEMMA FreshKept ==
  ASSUME Fresh, UNCHANGED <<order, lines, newest, writer, wrote>>,
         \A q \in Requests : req'[q] = req[q] \/ req'[q].pc # "upsert"
  PROVE  Fresh'
BY DEF Fresh

LEMMA NextFresh == AInv /\ SInv /\ FInv /\ [Next]_vars => FInv'
<1> SUFFICES ASSUME AInv, TInv, SInv, FInv, [Next]_vars PROVE FInv'
  BY DEF AInv
<1>1. ASSUME NEW c \in Calls,
             \/ \E cart \in Carts : Save(c, cart)
             \/ Close(c) \/ PutOrder(c) \/ PutLines(c) \/ PutUpdate(c)
      PROVE  FInv'
  <2>1. UNCHANGED <<job, sending, newest, writer, wrote, req>>
    BY <1>1 DEF Save, Close, PutOrder, PutLines, PutUpdate, jobVars, serverVars
  <2>2. CASE PutOrder(c) \/ PutLines(c) \/ PutUpdate(c)
    <3>1. silent' \/ call'[c].pc \in {"lines", "update", "job"}
      BY <2>2 DEF PutOrder, PutLines, PutUpdate, TInv, CallRecord
    <3> QED BY <2>1, <3>1 DEF FInv, Pending
  <2>3. CASE Close(c) \/ \E cart \in Carts : Save(c, cart)
    <3>1. /\ UNCHANGED <<order, lines, silent>> /\ call[c].pc = "idle"
          /\ \A d \in Calls : d # c => call'[d] = call[d]
      BY <2>3 DEF Close, Save, TInv
    <3>2. Pending => Pending'
      BY <3>1 DEF Pending
    <3>3. Queued => Queued'
      BY <2>1 DEF Queued
    <3>4. Fresh => Fresh'
      BY <2>1, <3>1, FreshKept
    <3> QED BY <2>1, <3>1, <3>2, <3>3, <3>4 DEF FInv
  <2> QED BY <1>1, <2>2, <2>3
<1>2. ASSUME NEW c \in Calls, Enqueue(c) PROVE FInv'
  <2>1. /\ call[c].order.at \in Changes /\ job[call[c].order.at] = "NONE"
        /\ job' = [job EXCEPT ![call[c].order.at] = "PENDING"] /\ UNCHANGED <<sending, newest>>
    BY <1>2 DEF Enqueue, TInv, SaveIsNew, Saving, serverVars
  <2>2. Queued'
    BY <2>1 DEF Queued, TInv, TypeOK
  <2> QED BY <2>1, <2>2 DEF FInv
<1>3. ASSUME NEW i \in Items, NEW n \in 1 .. MaxQty, CancelLine(i, n) PROVE FInv'
  <2>1. /\ clock' \in Changes /\ clock' > clock
        /\ job' = [job EXCEPT ![clock'] = "PENDING"] /\ UNCHANGED <<sending, newest>>
    BY <1>3, OrderSyncAssumption DEF CancelLine, Tick, TInv, TypeOK, Changes, serverVars
  <2>2. job[clock'] = "NONE"
    BY <2>1 DEF TInv, TypeOK, JobIsOld, Changes
  <2>3. Queued'
    BY <2>1, <2>2 DEF Queued, TInv, TypeOK
  <2> QED BY <2>1, <2>3 DEF FInv
<1>4. CASE TransferTable \/ CompleteSession
  BY <1>4 DEF TransferTable, CompleteSession, serverVars, FInv
<1>5. ASSUME NEW u \in Changes, Send(u) PROVE FInv'
  <2> DEFINE r == <<u, attempts[u] + 1>>
  <2>1. r \in Requests /\ r[1] = u /\ r[2] = attempts[u] + 1 /\ attempts[u] \in Nat
    BY <1>5, OrderSyncAssumption DEF Send, TInv, TypeOK, Requests
  <2>2. req[r].pc = "unsent"
    BY <2>1 DEF TInv, JobIsOld
  <2>3. newest' = r /\ UNCHANGED <<order, lines, writer>>
    BY <1>5 DEF Send, tillVars
  <2>4. req'[r].order = order /\ req'[r].lines = lines
    BY <1>5, <2>1, Records DEF Send, TInv, Unsent
  <2>5. writer # r
    BY <2>1, <2>2 DEF SInv
  <2> HIDE DEF r
  <2> QED BY <2>1, <2>3, <2>4, <2>5 DEF FInv, Fresh
<1>6. ASSUME NEW u \in Changes, Reply(u) \/ NoReply(u) PROVE FInv'
  <2>1. PICK status : Settle(u, status) /\ u \in sending
    BY <1>6 DEF Reply, NoReply
  <2>2. /\ UNCHANGED <<order, lines, call, silent, newest, writer, wrote>>
        /\ job' = [job EXCEPT ![u] = status] /\ sending' = sending \ {u}
    BY <2>1 DEF Settle
  <2>3. \A q \in Requests : req'[q] = req[q] \/ req'[q].pc # "upsert"
    BY <2>1, Records DEF Settle, TInv
  <2>4. Fresh => Fresh'
    BY <2>2, <2>3, FreshKept
  <2>5. (Pending => Pending') /\ (Queued => Queued')
    BY <2>1, <2>2 DEF Pending, Queued, TInv, TypeOK
  <2> QED BY <2>2, <2>4, <2>5 DEF FInv
<1>7. ASSUME NEW r \in Requests, SnapSteps(r) \/ JudgeSteps(r) PROVE FInv'
  <2>1. /\ UNCHANGED <<tillVars, attempts, sending, newest>>
        /\ \E k \in ReqRecord : req' = [req EXCEPT ![r] = k] /\ k.pc # "upsert"
    BY <1>7, SnapStep, JudgeStep DEF AInv, Judged
  <2>2. \A q \in Requests : IF q = r THEN req'[q].pc # "upsert" ELSE req'[q] = req[q]
    BY <2>1 DEF TInv
  <2>3. Fresh => Fresh'
    <3>1. CASE Upsert(r)
      <4>1. /\ req[r].pc = "upsert" /\ writer' = r
            /\ wrote' = [order |-> req[r].order, lines |-> req[r].lines]
        BY <3>1 DEF Upsert
      <4> QED BY <2>1, <2>2, <4>1 DEF Fresh, tillVars
    <3>2. CASE ~Upsert(r)
      <4>1. UNCHANGED <<writer, wrote>>
        BY <1>7, <3>2, JudgeStep DEF AInv, SnapSteps, Delete, InsertLine, StatementFails
      <4> QED BY <2>1, <2>2, <4>1, FreshKept DEF tillVars
    <3> QED BY <3>1, <3>2
  <2>4. (Pending => Pending') /\ (Queued => Queued')
    BY <2>1 DEF Pending, Queued, tillVars
  <2> QED BY <2>1, <2>3, <2>4 DEF FInv, tillVars
<1>8. CASE ServerCrash
  <2>1. /\ UNCHANGED <<tillVars, sending, newest, writer, wrote>>
        /\ \A q \in Requests : req'[q] = req[q] \/ req'[q].pc # "upsert"
    BY <1>8, Records DEF ServerCrash
  <2>2. Fresh => Fresh'
    BY <2>1, FreshKept DEF tillVars
  <2> QED BY <2>1, <2>2 DEF FInv, Pending, Queued, tillVars
<1>9. CASE TabCrash
  <2>1. UNCHANGED <<order, lines, jobVars, serverVars>> /\ silent' = (silent \/ Pending)
    BY <1>9 DEF TabCrash, Pending
  <2> QED BY <2>1 DEF FInv, Fresh, Queued, jobVars, serverVars
<1>10. CASE UNCHANGED vars
  BY <1>10 DEF vars, tillVars, serverVars, FInv, Fresh, Pending, Queued
<1>11. Server => \E r \in Requests : SnapSteps(r) \/ JudgeSteps(r)
  BY DEF Server, SnapSteps, JudgeSteps
<1> QED BY <1>1, <1>2, <1>3, <1>4, <1>5, <1>6, <1>7, <1>8, <1>9, <1>10, <1>11 DEF Next, Till

\* Once every job is delivered and no save is under way, the push posted last
\* has brought the server the order of the till, whatever the interleaving of
\* the saves and the drains (enqueueOrderUpdateOutboxJob, sendOutboxJob-
\* ToSyncPush).
THEOREM CatchesUp == Spec => []ServerCatchesUp
<1>1. Init => AInv /\ SInv /\ FInv
  <2>1. Init => FInv
    BY OrderSyncAssumption DEF Init, FInv, Fresh, NoRequest, Requests, Changes
  <2> QED BY <2>1, InitAcked, InitWhole
<1>2. AInv /\ SInv /\ FInv /\ [Next]_vars => (AInv /\ SInv /\ FInv)'
  BY NextAcked, NextWhole, NextFresh
<1>3. AInv /\ SInv /\ FInv => ServerCatchesUp
  <2> SUFFICES ASSUME AInv, SInv, FInv,
                      \A c \in Calls : call[c].pc = "idle",
                      \A u \in Changes : job[u] \in {"NONE", "SENT"},
                      clean, writer = newest, writer # NoRequest, writer \notin InSnapshot, ~silent
               PROVE  snap = order /\ snapLines = lines
    BY DEF ServerCatchesUp
  <2>1. ~Pending /\ ~Queued
    BY DEF Pending, Queued
  <2>2. Fresh /\ newest \in Requests
    BY <2>1 DEF FInv
  <2>3. SnapshotIsWhole
    BY WholeNow DEF AInv
  <2> QED BY <2>2, <2>3 DEF Fresh, SnapshotIsWhole
<1> QED BY <1>1, <1>2, <1>3, PTL DEF Spec
=============================================================================
