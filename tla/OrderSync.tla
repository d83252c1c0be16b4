----------------------------- MODULE OrderSync -----------------------------
(***************************************************************************)
(* One open order of a till and the copy of it the server keeps            *)
(* (runtime-service.ts and outbox-sender.ts of apps/pos; processActive-    *)
(* Orders, processOrderUpdates and processItemCancellations of pos-sync).  *)
(*                                                                         *)
(* Every change of the cart saves the whole order: row, lines, update      *)
(* event and outbox job in four writes, and the page does not wait for the *)
(* previous save.  A push carries the order as it is when it is sent,      *)
(* whichever update it is for.  On the server each statement commits on    *)
(* its own.  An order is its state, its kitchen flag and updated_at, a     *)
(* number here; that number also names the update event of the change.     *)
(* Leases, backoff and retry limit of the jobs are those of Outbox.        *)
(***************************************************************************)
EXTENDS Integers, FiniteSets

CONSTANTS
  Calls,        \* saves and closes of the order that may be under way
  Items,        \* item_id's, in the order of the lines
  MaxQty,       \* bound on the quantity of a line
  Carts,        \* what a save may write: state, kitchen flag and lines
  MaxChanges,   \* bound on the changes of the order
  MaxAttempts,  \* requests for one job
  MaxRequests,  \* bound on the requests posted
  Drains,       \* drains that run side by side
  FaultKinds,   \* the faults considered: "statement", "crash", "tab"
  MaxFaults     \* bound on how many of them happen

ASSUME OrderSyncAssumption ==
  /\ MaxQty \in Nat /\ MaxChanges \in Nat /\ MaxAttempts \in Nat
  /\ MaxRequests \in Nat /\ Drains \in Nat /\ MaxFaults \in Nat
  /\ Items \subseteq Nat
  /\ Carts \subseteq [state : {"OPEN", "CLOSED"}, final : BOOLEAN, lines : [Items -> 0 .. MaxQty]]
  /\ FaultKinds \subseteq {"statement", "crash", "tab"}

VARIABLES
  clock,     \* updated_at of the last change begun
  order,     \* the row of active_orders
  lines,     \* active_order_lines: quantity by item, 0 for no line
  updates,   \* active_order_updates
  cancels,   \* item_cancellations, by their update
  job,       \* outbox_jobs, by their update: the status
  attempts,  \* requests posted for each job
  sending,   \* jobs whose answer a drain awaits
  call,      \* the saves and closes
  snap,      \* the row of pos_order_snapshots
  snapLines, \* pos_order_snapshot_lines
  recorded,  \* pos_order_updates
  withdrawn, \* pos_item_cancellations, by their update
  req,       \* the requests
  newest,    \* history: the request posted last
  writer,    \* history: the request that wrote the snapshot row last
  wrote,     \* history: the row and the lines it came with
  clean,     \* history: nothing disturbed it so far
  silent,    \* history: the order changed and no job was made since
  faults     \* faults so far

tillVars   == <<clock, order, lines, updates, cancels, job, call, silent>>
jobVars    == <<job, attempts, sending>>
serverVars == <<snap, snapLines, recorded, withdrawn, req, newest, writer, wrote, clean>>
vars == <<tillVars, attempts, sending, serverVars, faults>>

-----------------------------------------------------------------------------
Changes  == 1 .. MaxChanges
Requests == Changes \X (1 .. MaxAttempts)
NoRequest == <<0, 0>>

NoOrder == [state |-> "NONE", final |-> FALSE, at |-> 0]
Header  == [state : {"OPEN", "CLOSED"}, final : BOOLEAN, at : Changes]
NoLines == [i \in Items |-> 0]

Idle   == [pc |-> "idle", order |-> NoOrder, lines |-> NoLines]
Unsent == [pc |-> "unsent", order |-> NoOrder, lines |-> NoLines, todo |-> {},
           update |-> "none", cancel |-> "none"]
Done   == [Unsent EXCEPT !.pc = "done"]

\* The till still waits for the answer to r.
Awaited(r) == r[1] \in sending /\ attempts[r[1]] = r[2]

\* The requests between the first and the last statement on the snapshot.
InSnapshot == {r \in Requests : req[r].pc \in {"delete", "insert"}}
AtWork == InSnapshot \cup
          {r \in Requests : req[r].pc \in {"upsert", "check", "record", "checkCancel", "recordCancel"}}

Goto(r, where) == req' = [req EXCEPT ![r].pc = where]

-----------------------------------------------------------------------------
Init == /\ clock = 0 /\ order = NoOrder /\ lines = NoLines
        /\ updates = {} /\ cancels = {}
        /\ job = [u \in Changes |-> "NONE"]
        /\ attempts = [u \in Changes |-> 0] /\ sending = {}
        /\ call = [c \in Calls |-> Idle]
        /\ snap = NoOrder /\ snapLines = NoLines
        /\ recorded = {} /\ withdrawn = {}
        /\ req = [r \in Requests |-> Unsent]
        /\ newest = NoRequest /\ writer = NoRequest /\ clean = TRUE
        /\ wrote = [order |-> NoOrder, lines |-> NoLines]
        /\ silent = FALSE /\ faults = 0

(* The till. *)

\* A change of the order begins: the time is read.
Tick == clock < MaxChanges /\ clock' = clock + 1

\* upsertActiveOrderSnapshot: the row and the lines are made from the cart,
\* the update event from the rows they replace.
Save(c, cart) ==
  /\ call[c].pc = "idle" /\ Tick
  /\ call' = [call EXCEPT ![c] = [pc |-> "order", lines |-> cart.lines,
                order |-> [state |-> cart.state, final |-> cart.final, at |-> clock']]]
  /\ UNCHANGED <<order, lines, updates, cancels, jobVars, serverVars, silent, faults>>

\* closeActiveOrder reads the row; it writes no line, no event and no job.
Close(c) ==
  /\ call[c].pc = "idle" /\ order # NoOrder /\ Tick
  /\ call' = [call EXCEPT ![c] = [Idle EXCEPT !.pc = "close",
                !.order = [order EXCEPT !.state = "CLOSED", !.at = clock']]]
  /\ UNCHANGED <<order, lines, updates, cancels, jobVars, serverVars, silent, faults>>

PutOrder(c) ==
  /\ call[c].pc \in {"order", "close"}
  /\ order' = call[c].order
  /\ IF call[c].pc = "order"
       THEN call' = [call EXCEPT ![c].pc = "lines"] /\ UNCHANGED silent
       ELSE call' = [call EXCEPT ![c] = Idle] /\ silent' = TRUE
  /\ UNCHANGED <<clock, lines, updates, cancels, jobVars, serverVars, faults>>

PutLines(c) ==
  /\ call[c].pc = "lines"
  /\ lines' = call[c].lines
  /\ call' = [call EXCEPT ![c].pc = "update"]
  /\ UNCHANGED <<clock, order, updates, cancels, jobVars, serverVars, silent, faults>>

PutUpdate(c) ==
  /\ call[c].pc = "update"
  /\ updates' = updates \cup {call[c].order.at}
  /\ call' = [call EXCEPT ![c].pc = "job"]
  /\ UNCHANGED <<clock, order, lines, cancels, jobVars, serverVars, silent, faults>>

Enqueue(c) ==
  /\ call[c].pc = "job"
  /\ job' = [job EXCEPT ![call[c].order.at] = "PENDING"]
  /\ call' = [call EXCEPT ![c] = Idle]
  /\ silent' = FALSE
  /\ UNCHANGED <<clock, order, lines, updates, cancels, attempts, sending, serverVars, faults>>

\* Mutated forms of CancelLine: the quantity is not compared; no job is made.
CancelLineUnchecked(i, n) ==
  /\ order.state = "OPEN" /\ order.final /\ Tick
  /\ order' = [order EXCEPT !.at = clock']
  /\ lines' = [lines EXCEPT ![i] = @ - n]
  /\ updates' = updates \cup {clock'} /\ cancels' = cancels \cup {clock'}
  /\ job' = [job EXCEPT ![clock'] = "PENDING"] /\ silent' = FALSE
  /\ UNCHANGED <<attempts, sending, call, serverVars, faults>>
CancelLineUnqueued(i, n) ==
  /\ order.state = "OPEN" /\ order.final /\ lines[i] >= n /\ Tick
  /\ order' = [order EXCEPT !.at = clock']
  /\ lines' = [lines EXCEPT ![i] = @ - n]
  /\ updates' = updates \cup {clock'} /\ cancels' = cancels \cup {clock'}
  /\ silent' = FALSE
  /\ UNCHANGED <<jobVars, call, serverVars, faults>>

\* cancelFinalizedOrderLine, one transaction; any refusal rolls it back.
CancelLine(i, n) ==
  /\ order.state = "OPEN" /\ order.final /\ lines[i] >= n /\ Tick
  /\ order' = [order EXCEPT !.at = clock']
  /\ lines' = [lines EXCEPT ![i] = @ - n]
  /\ updates' = updates \cup {clock'} /\ cancels' = cancels \cup {clock'}
  /\ job' = [job EXCEPT ![clock'] = "PENDING"] /\ silent' = FALSE
  /\ UNCHANGED <<attempts, sending, call, serverVars, faults>>

\* The order row of transferActiveOrderTable, and of completeOrderSession: a
\* transaction each, neither of which makes an event or a job.
TransferTable ==
  /\ order.state = "OPEN" /\ Tick
  /\ order' = [order EXCEPT !.at = clock'] /\ silent' = TRUE
  /\ UNCHANGED <<lines, updates, cancels, jobVars, call, serverVars, faults>>

CompleteSession ==
  /\ order # NoOrder /\ Tick
  /\ order' = [order EXCEPT !.state = "CLOSED", !.at = clock'] /\ silent' = TRUE
  /\ UNCHANGED <<lines, updates, cancels, jobVars, call, serverVars, faults>>

\* hydrateOrderUpdateSnapshot, one read transaction, and the fetch.
Send(u) ==
  LET r == <<u, attempts[u] + 1>> IN
  /\ job[u] = "PENDING" /\ u \notin sending
  /\ attempts[u] < MaxAttempts /\ Cardinality(sending) < Drains
  /\ Cardinality({q \in Requests : req[q].pc # "unsent"}) < MaxRequests
  /\ attempts' = [attempts EXCEPT ![u] = @ + 1]
  /\ sending' = sending \cup {u}
  /\ req' = [req EXCEPT ![r] = [Unsent EXCEPT !.pc = "upsert", !.order = order, !.lines = lines]]
  /\ newest' = r
  /\ UNCHANGED <<tillVars, snap, snapLines, recorded, withdrawn, writer, wrote, clean, faults>>

Taken(result) == result \in {"OK", "DUPLICATE"}

\* Mutated form of Acked: assertItemCancellationAck is not called.
AckedUpdateOnly(u) == Taken(req[<<u, attempts[u]>>].update)

\* assertOrderUpdateAck and assertItemCancellationAck; what became of the
\* snapshot is not looked at.
Acked(u) == LET ans == req[<<u, attempts[u]>>]
            IN  Taken(ans.update) /\ (u \in cancels => Taken(ans.cancel))

\* The drain goes on; an answer nobody awaits is forgotten.
Settle(u, status) ==
  LET r == <<u, attempts[u]>> IN
  /\ job' = [job EXCEPT ![u] = status]
  /\ sending' = sending \ {u}
  /\ req' = IF req[r].pc = "answered" THEN [req EXCEPT ![r] = Done] ELSE req
  /\ UNCHANGED <<clock, order, lines, updates, cancels, call, silent, attempts, snap,
                 snapLines, recorded, withdrawn, newest, writer, wrote, clean, faults>>

Retried(u) == IF attempts[u] < MaxAttempts THEN "PENDING" ELSE "FAILED"

Reply(u) == /\ u \in sending /\ req[<<u, attempts[u]>>].pc = "answered"
            /\ Settle(u, IF Acked(u) THEN "SENT" ELSE Retried(u))

\* The network fails, or the timeout aborts the fetch; the server may be at
\* work on the request, or begin it later.
NoReply(u) == u \in sending /\ Settle(u, Retried(u))

-----------------------------------------------------------------------------
(* The server. *)

\* upsertOrderSnapshot, whatever the updated_at of the row it replaces.
Upsert(r) ==
  /\ req[r].pc = "upsert"
  /\ snap' = req[r].order
  /\ writer' = r /\ clean' = (InSnapshot = {})
  /\ wrote' = [order |-> req[r].order, lines |-> req[r].lines]
  /\ Goto(r, "delete")
  /\ UNCHANGED <<tillVars, attempts, sending, snapLines, recorded, withdrawn, newest, faults>>

Inserts(r, left) == req' = [req EXCEPT ![r].pc = IF left = {} THEN "check" ELSE "insert",
                                       ![r].todo = left]

\* Mutated form of Delete: the lines of the last push stay.
DeleteNothing(r) ==
  /\ req[r].pc = "delete"
  /\ Inserts(r, {i \in Items : req[r].lines[i] > snapLines[i]})
  /\ UNCHANGED <<tillVars, attempts, sending, snap, snapLines, recorded, withdrawn, newest, writer, wrote, clean, faults>>

Delete(r) ==
  /\ req[r].pc = "delete"
  /\ snapLines' = NoLines
  /\ Inserts(r, {i \in Items : req[r].lines[i] > 0})
  /\ UNCHANGED <<tillVars, attempts, sending, snap, recorded, withdrawn, newest, writer, wrote, clean, faults>>

\* insertOrderSnapshotLine; the unique key on order and item refuses a line
\* that another request has put there, and ends the snapshot of this one.
InsertLine(r) ==
  /\ req[r].pc = "insert"
  /\ \E i \in req[r].todo :
       /\ \A k \in req[r].todo : i <= k
       /\ IF snapLines[i] = 0
            THEN /\ snapLines' = [snapLines EXCEPT ![i] = req[r].lines[i]]
                 /\ Inserts(r, req[r].todo \ {i})
            ELSE UNCHANGED snapLines /\ Inserts(r, {})
  /\ UNCHANGED <<tillVars, attempts, sending, snap, recorded, withdrawn, newest, writer, wrote, clean, faults>>

Answer(r, update, cancel) ==
  req' = [req EXCEPT ![r] =
    IF Awaited(r) THEN [Unsent EXCEPT !.pc = "answered", !.update = update, !.cancel = cancel]
                  ELSE Done]

\* The result for the update; a request without a cancellation is done.
Judge(r, result) ==
  IF r[1] \in cancels THEN req' = [req EXCEPT ![r].pc = "checkCancel", ![r].update = result]
                      ELSE Answer(r, result, "none")

JudgeCancel(r, result) == Answer(r, req[r].update, result)

Check(r) ==
  /\ req[r].pc = "check"
  /\ IF r[1] \in recorded THEN Judge(r, "DUPLICATE") ELSE Goto(r, "record")
  /\ UNCHANGED <<tillVars, attempts, sending, snap, snapLines, recorded, withdrawn, newest, writer, wrote, clean, faults>>

\* insertOrderUpdate: refused by the unique key on update_id, and by the
\* foreign key while the order has no snapshot.
Record(r) ==
  /\ req[r].pc = "record"
  /\ IF r[1] \notin recorded /\ snap # NoOrder
       THEN recorded' = recorded \cup {r[1]} /\ Judge(r, "OK")
       ELSE UNCHANGED recorded /\ Judge(r, "ERROR")
  /\ UNCHANGED <<tillVars, attempts, sending, snap, snapLines, withdrawn, newest, writer, wrote, clean, faults>>

CheckCancel(r) ==
  /\ req[r].pc = "checkCancel"
  /\ IF r[1] \in withdrawn THEN JudgeCancel(r, "DUPLICATE") ELSE Goto(r, "recordCancel")
  /\ UNCHANGED <<tillVars, attempts, sending, snap, snapLines, recorded, withdrawn, newest, writer, wrote, clean, faults>>

RecordCancel(r) ==
  /\ req[r].pc = "recordCancel"
  /\ IF r[1] \notin withdrawn /\ snap # NoOrder
       THEN withdrawn' = withdrawn \cup {r[1]} /\ JudgeCancel(r, "OK")
       ELSE UNCHANGED withdrawn /\ JudgeCancel(r, "ERROR")
  /\ UNCHANGED <<tillVars, attempts, sending, snap, snapLines, recorded, newest, writer, wrote, clean, faults>>

-----------------------------------------------------------------------------
(* Faults. *)

Fault(kind) == kind \in FaultKinds /\ faults < MaxFaults /\ faults' = faults + 1

\* A statement throws: each of the three sections catches it, reports an ERROR
\* of its own and lets the next one run.
StatementFails(r) ==
  /\ Fault("statement")
  /\ \/ req[r].pc \in {"upsert", "delete", "insert"} /\ Inserts(r, {}) /\ clean' = FALSE
     \/ req[r].pc \in {"check", "record"} /\ Judge(r, "ERROR") /\ UNCHANGED clean
     \/ req[r].pc \in {"checkCancel", "recordCancel"} /\ JudgeCancel(r, "ERROR") /\ UNCHANGED clean
  /\ UNCHANGED <<tillVars, attempts, sending, snap, snapLines, recorded, withdrawn, newest, writer, wrote>>

ServerCrash ==
  /\ Fault("crash") /\ AtWork # {}
  /\ req' = [r \in Requests |-> IF r \in AtWork THEN Done ELSE req[r]]
  /\ clean' = (clean /\ InSnapshot = {})
  /\ UNCHANGED <<tillVars, attempts, sending, snap, snapLines, recorded, withdrawn, newest, writer, wrote>>

\* The tab of the saves goes away; what they wrote stays.
TabCrash ==
  /\ Fault("tab") /\ \E c \in Calls : call[c].pc # "idle"
  /\ call' = [c \in Calls |-> Idle]
  /\ silent' = (silent \/ \E c \in Calls : call[c].pc \in {"lines", "update", "job"})
  /\ UNCHANGED <<clock, order, lines, updates, cancels, jobVars, serverVars>>

-----------------------------------------------------------------------------
Till ==
  \/ \E c \in Calls :
       \/ \E cart \in Carts : Save(c, cart)
       \/ Close(c) \/ PutOrder(c) \/ PutLines(c) \/ PutUpdate(c) \/ Enqueue(c)
  \/ \E i \in Items, n \in 1 .. MaxQty : CancelLine(i, n)
  \/ TransferTable \/ CompleteSession
  \/ \E u \in Changes : Send(u) \/ Reply(u) \/ NoReply(u)

Server == \E r \in Requests :
            \/ Upsert(r) \/ Delete(r) \/ InsertLine(r)
            \/ Check(r) \/ Record(r) \/ CheckCancel(r) \/ RecordCancel(r)
            \/ StatementFails(r)

Next == Till \/ Server \/ ServerCrash \/ TabCrash

Spec == Init /\ [][Next]_vars

-----------------------------------------------------------------------------
(* Properties. *)

\* The rows, the jobs and the requests have the shape the code gives them; no
\* line falls below zero.
TypeOK ==
  /\ clock \in 0 .. MaxChanges
  /\ order \in Header \cup {NoOrder} /\ snap \in Header \cup {NoOrder}
  /\ lines \in [Items -> 0 .. MaxQty] /\ snapLines \in [Items -> 0 .. MaxQty]
  /\ cancels \subseteq updates /\ updates \subseteq Changes
  /\ withdrawn \subseteq cancels /\ recorded \subseteq updates
  /\ job \in [Changes -> {"NONE", "PENDING", "SENT", "FAILED"}]
  /\ attempts \in [Changes -> 0 .. MaxAttempts]
  /\ sending \subseteq {u \in Changes : job[u] = "PENDING"}
  /\ DOMAIN req = Requests /\ DOMAIN call = Calls

\* An update the till counts as delivered is on the server, and the
\* cancellation it announces with it: the two are pushed and answered one by
\* one, and a retry may find either already there (assertOrderUpdateAck,
\* assertItemCancellationAck).
AckedIsRecorded ==
  \A u \in Changes : job[u] = "SENT" => u \in recorded /\ (u \in cancels => u \in withdrawn)

\* The snapshot is what one request brought, row and lines, when that request
\* has written the row last and none of its statements ran beside those of
\* another, failed or was cut off: delete and insert leave nothing behind.
SnapshotIsWhole ==
  clean /\ writer # NoRequest /\ writer \notin InSnapshot =>
    snap = wrote.order /\ snapLines = wrote.lines

\* All jobs delivered, no save under way, and the push posted last wrote the
\* snapshot undisturbed: the server has the order as the till has it, though
\* saves overlapped and jobs were sent in any order.  A close, a transfer, a
\* completion, or a save cut off before its job, is not announced.
ServerCatchesUp ==
  /\ \A c \in Calls : call[c].pc = "idle"
  /\ \A u \in Changes : job[u] \in {"NONE", "SENT"}
  /\ clean /\ writer = newest /\ writer # NoRequest /\ writer \notin InSnapshot
  /\ ~silent
  => snap = order /\ snapLines = lines
=============================================================================
