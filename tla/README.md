# Jurnapod in TLA+

Jurnapod is an ERP whose point of sale works offline: a till completes a sale in
its own IndexedDB, an outbox pushes it to `POST /sync/push`, and the server turns
it into a document, a stock deduction and a cost-of-goods journal. The modules
here specify that path, from the cart to the answer of the server and
back, with what feeds it (the pull of master data, the server's stock and its
cost), and what is correct about it however drains, tabs, requests and failures
interleave. TLC checks small instances; TLAPS proves every safety and action
property of the passing runs for all of them, and that the till and the server
together implement what delivery promises. Liveness stays with TLC.

## The system

| Component | State it keeps | Operations | Hard behaviour | Correct when |
|---|---|---|---|---|
| POS outbox and drain (`apps/pos/src/offline/outbox.ts`, `outbox-drainer.ts`) | `outbox_jobs` in IndexedDB: status, attempts, lease, due date | enqueue, select, reserve, renew, update status | overlapping drains, stale snapshots, late answers, crashes under a lease | one holder, final outcomes, a bounded number of attempts, every job ends |
| Sender (`outbox-sender.ts`) | none | hydrate, post, classify | timeout against a late answer | a success is never invented |
| Leader election (`outbox-leader.ts`) | Web Lock, or a lease in localStorage, or one in memory | acquire, renew, release | several tabs, lapsed leases | at most one leader per browser, with Web Locks |
| Push requests (`outbox-drain-scheduler.ts`, `services/sync-orchestrator.ts`) | pending reasons, `pushInFlight` | request, run, drop | dropped requests | a pending job is asked for again |
| Sales (`sales.ts`) | sales, items, payments, the completion locks of a tab | draft, complete, void | calls beside each other, void before push | completed once, under one id; sale and job commit together |
| Order updates (`services/runtime-service.ts`) | active orders, lines, update rows, cancellations | save, close, cancel a line, transfer, complete | overlapping saves, order of updates, row beside job | the server ends up with the order of the till |
| Local stock (`services/stock.ts`) | local quantities and reservations | check, reserve, release | check before the transaction, variants beside products | what is reserved is what sales hold |
| Pull (`sync-orchestrator.ts`, `pos-sync/src/pull`) | cached master data, version | pull, apply table by table | several reads, several writes, concurrent pulls | the cache is some version of the server |
| Server push (`pos-sync/src/push/index.ts`) | pos_transactions and its lines, order snapshots, updates, cancellations | handlePushSync, its sections | no surrounding database transaction | one document per `client_tx_id`, a snapshot of one request |
| Inventory (`modules/inventory`) | inventory_stock, inventory_transactions | deduct, reserve, restore, adjust | row locks, outlet and company rows | stock equals its movements |
| Costing (`modules/inventory-costing`) | cost layers | deduct with cost | concurrent consumption, rounding | cost of the layers is conserved |
| Posting (`modules/accounting/src/posting`) | journal batches and lines | post | swallowed failures | balanced, once per document |
| Accounting, sales, purchasing, treasury | documents, fiscal years, assets | create, approve, post, close | closing against posting | no posting into a closed year |
| Reservations, tables, sessions | tables, occupancy, versions | seat, hold, release | optimistic versions | one session per table |
| Backoffice sync | batches | enqueue, run, retry | retry of half a batch | each batch once |
| Platform, auth, numbering, import/export, notifications, telemetry, reporting, UI, migrations | settings, counters, files | | mostly I/O and request checks | |

How they meet: the till's components share IndexedDB, every access to which is an
`await`, so other callbacks and other tabs run in between. Till and server meet
over HTTP only; a request may be lost before or after the server worked on it.
On the server, concurrent requests meet in MySQL; the push handler runs on the
connection pool with no transaction around it, while the stock deduction and the
journal are each a transaction of their own.

`PROJECT.json` lists the components with what is and is not modelled, and the
hazards found in the code, each at its line with the properties aimed at it.

## The modules

### Outbox

The rows of `outbox_jobs`, the sales and order updates they stand for, and the
drains working on them.

* `job` is the table of rows. Time is reduced to what the code compares: `lease`
  says whether `lease_expires_at` is ahead, `due` whether `next_attempt_at` is
  past, ahead, or the year 275760 written when a job is given up. The random
  lease token is named by the attempt it was minted for. These are told apart
  because `attempts` only grows.
* `pc[d][j]` and `att[d][j]` are where `processJob` of drain `d` stands for job
  `j`, and the attempt it reserved. A step of the model is the code between two
  awaits: `StartDrain` (snapshot), `StartNext` (order updates one by one, then
  sales in chunks), `Reserve`, `GiveUp`, `Send`, `Answer`, `MarkSent`,
  `MarkFailed`, `MarkRow`, `MarkCancellation`, `EndDrain`; `Renew` is the heartbeat.
* `row` and `cancel` are the `sync_status` of the update's row and of the cancellation
  row it may carry, two writes that follow the one of the job.
* `Crash` closes a tab. `StorageError` is an IndexedDB operation that throws: while
  the body is hydrated or the answer recorded, the catch block takes it for a
  failure; elsewhere the drain rejects
  and gives up its lock while its siblings go on. `LeaseExpires` of a drain that
  is still alive needs a stall, which counts as a fault.
* `WebLocks` says which leader election the browser allows: with it one drain runs
  at a time, without it drains may overlap, as `LeaderLease` shows that they do.
* `wanted` is a push request not served yet. `DropRequest` stands for all the early
  returns of `executePushCycle`.

`failures` is a history variable: failed attempts the outbox wrote down.

### PushServer

The transaction section of `handlePushSync`. `req` is the HTTP calls, each between
two statements of `filterNewTransactions` or `processTransaction`; `header`,
`lines`, `deducted`, `cogs` and `stock` are the tables. `Insert` is guarded by the
unique index on `client_tx_id`; `Deduct` is
`resolveAndDeductForPosTransaction` as one database transaction; `PostCogs`
another. `StatementFails` follows each place where an exception is caught, and
`ServerCrash` takes all the calls that are in flight. A payload is what its hash
tells apart. Sales are COMPLETED, in the outlet of the request, with
stock-tracked items of one product.

### SyncPipeline and Delivery

`SyncPipeline` is an instance of `Outbox` and one of `PushServer` joined by HTTP:
`Post` may reach the handler or not, `NoReply` may happen while the server still
works, `Reply` reads the answer. Every other step is one of the two instances.
`Delivery` is what the two promise together: a sale is placed, recorded once,
charged once and only if recorded, and confirmed only if recorded. It names no
code; it is checked through the refinement mapping `Promise` in `SyncPipeline`.

### LeaderLease

The lease in localStorage that stands in for Web Locks. `store` is the key, `pc`
where each call of `runIfLeader` stands, `held` the process lock of each tab. Tabs
are processes: each access to localStorage is a step (`Start` and `RenewRead` read,
`WriteLease`, `RenewWrite` and `Remove` write, `Confirm`, `Settle` and `Release`
compare), and the accesses of one synchronous section interleave with those of
other tabs and not with the tab itself (`TabIsFree`). `expires_at` is reduced to
whether it is ahead; `Lapse` under a live call is a stall. The random token is
named by the call, which `NoLeaseLeftBehind` justifies: no token outlives its
call. `Settle` and `Enter` run in one task, so that a call is not turned away in
`Enter` in the instance that is checked.

`Timely` is the assumption the settle delay rests on: when it ends, a tab that was
between reading and writing the lease has written it. The code does not ensure
it; `contenders` is the instance without it.

### TillSales

Sales and the local stock they hold. `call[c]` is where a call of `completeSale` or
`voidSale` stands; a step is the code between two awaits: `Begin` (lock and status),
`CheckItem` (one of the concurrent stock checks), `Checked`, `Commit` (the
transaction), `Finish` (the verification the lock is kept for). `Locked` is
`saleCompletionLocks`, a set in the memory of a tab, so `CloseTab` empties it. A
sale is worked on by the tab that drafted it (`Till`), the page holds it in memory;
all tabs share the stock. A good is a product sold as it is, with a row of
`inventory_stock`, or a variant, whose stock is what its reservations leave of
`stock_quantity`. What one completion adds is one member of `docs`.

`raced` and `leaked` are history. The stock check comes before the transaction, so
`raced` has the sales whose check was out of date when they committed. `reserveStock`
leaves the row of a variant's product alone and `releaseStock` lowers it: `leaked`
has the products this happened to.

### OrderSync

One open order of the till and the server's copy of it. A save of the cart is four
writes (`PutOrder`, `PutLines`, `PutUpdate`, `Enqueue`) in no transaction, and the
page does not wait for the previous save, so `call` may have several under way;
`CancelLine`, `TransferTable` and `CompleteSession` are one transaction each. An
update is named by the `updated_at` of its change. `Send` reads the order as it is
now, for whichever update is sent. On the server the sections for the
snapshot (`Upsert`, `Delete`, `InsertLine`), the update (`Check`, `Record`) and the
cancellation (`CheckCancel`, `RecordCancel`) run statement by statement, beside
other requests; `StatementFails` ends a section, `ServerCrash` every request.
`Outbox` has the leases, the backoff and the retry limit; here a job is pending,
sent or failed, and any pending job may be sent, which its backoff allows.

`clean`, `writer` and `wrote` are history: which request wrote the snapshot last,
with what, and whether another request, a failure or a crash came between its
statements. `silent` is set while the order has a change that made no job.

### Inventory

The rows of `inventory_stock`, their movements, and the layers and the summary that
pay for them. Every operation locks what it reads and is one database transaction,
hence one step; `reserveStock` alone reads before its transaction (`Ask`, `Reserve`).
The steps rest on those locks (`FOR UPDATE`): what would happen without one is not
a question of this module.
A `Loop` of the service names its body, its outlet and the costing method that is
set; `Body` is what it does to one item, `Each` the items one after the other,
`Then` a loop that follows another in the same transaction. A line that answers
false stops the operation and leaves what the earlier lines wrote, one that throws
undoes them all (`Ends`). `Change` is an UPDATE of the rows a statement matches,
`Legal` the table's CHECK constraints. `moved` and `holds` are the movements of a
product without those of its variants, whose sales lower `stock_quantity` (`vstock`)
and no row. A product may have the row of an outlet and a
company-wide one: `Picked` is the row that is compared, `Matching` the rows that are
changed. `CostLine` is the three costing methods, in quantities: AVG lowers the
summary, FIFO and LIFO the layers. `SetMethod` is an administrator.

### SyncPull

The pull of master data. `Ask` reads metadata and active products, `Read` is one of
the concurrent queries of the handler, `PutProducts`, `PutVariants`, `PutMetadata`
and `PutFloor` are the writes, each a transaction of its own. `Change` is the
procedure the triggers call, and `ChangeVariants` a change no trigger announces.

### The proof modules

`OutboxProofs`, `PushServerProofs`, `SyncPipelineProofs`, `LeaderLeaseProofs`,
`OrderSyncProofs`, `TillSalesProofs` and `InventoryProofs` each extend the module
they are about, see below; `SyncPipelineProofs` has instances of the first two.
`SumLemmas` holds what they need of sums over finite sets. The `MC` modules hold the
model values and symmetries of the runs. Operators described as mutated forms are alternatives to
the definition that follows them, kept to see that the properties tell them
apart from the code.

## What is checked

| Run | Question | Instance |
|---|---|---|
| `exclusive` | Under the leader lock, is the backoff kept (`BackoffRespected`), is an attempt lost only to a fault (`GivenUpAfterFailures`), do the order-update row and the cancellation row agree with their job (`RowAgreesWithJob`)? | 2 drains, 2 sales and 1 order update, with or without a cancellation, in batches of 2, 2 retries, 1 crash or stall |
| `overlap` | When drains of two tabs overlap: one holder (`OneHolder`), late answers without effect (`StaleAnswerIgnored`), final outcomes (`SettledIsFinal`), attempts bounded (`AttemptsBounded`, `NoSendPastCeiling`), every job ends (`EveryJobSettles`)? | 2 drains, 1 sale, 1 order update, 2 retries, 1 crash, stall or storage error |
| `unattended` | Does every job end if nobody asks again? It does not. | 1 drain, 1 sale |
| `server` | Concurrent pushes of the same and of different sales: charged once, stock accounted for, answers true, documents final, what is not charged reported | 2 requests of 1 or 2 transactions, 2 sales, 2 payloads, stock for one and a half of them, 1 fault |
| `document` | Is a recorded sale whole, as the PRD says? It is not. | 1 sale, no stock |
| `pipeline` | Do outbox and server implement `Delivery`; is SENT always recorded, and charged when the first attempt succeeded? | 1 sale of one unit out of two, 2 drains, 2 retries, 1 fault on each side |
| `leader` | Does the storage lease elect one leader but for stalls (`OneLeader`), agree with the process lock (`OneLeaderPerTab`), vanish with its call (`NoLeaseLeftBehind`), survive a closed tab (`OrphanIsReclaimed`)? | 2 calls in one tab, 1 in another, 1 stall, 1 closed tab, `Timely` |
| `contenders` | And if a tab is slow between reading and writing? It does not. | 2 tabs, no fault |
| `till_sales` | When calls race in two tabs: is each sale completed once, under one id (`SaleIsOnce`), and final (`SaleIsFinal`); does it hold the stock of its items while it is completed (`HeldByCompleted`); does the product's row say so (`ReservedIsHeld`); is no more held than there was (`SoldWithinStock`)? | 3 sales in 2 tabs, 2 calls in one tab and 1 in the other, a product of two with a variant of one, tabs closed at any time |
| `orders` | Overlapping saves, cancellations, requests retried and late: is what was acknowledged recorded (`AckedIsRecorded`), is a snapshot that nothing disturbed one request's (`SnapshotIsWhole`), does the server end up with the order (`ServerCatchesUp`)? | 2 saves side by side, 2 changes of an order of 2 items, 3 requests, 2 for one job, 1 fault |
| `inventory` | Operations in any order, half way or whole: does stock equal its movements (`StockAccounts`), do reservations (`HoldsAccount`), is cost taken once (`CostFollowsGoods`), is stock costed under every method (`StockIsCosted`), are layers used in order (`LayersInOrder`)? | 1 product, 1 variant, 2 outlets and the company, orders of 1 or 2 lines, 3 units in, all 3 methods |
| `catalog` | Does a till with an empty catalogue heal itself by a full pull? It does not. | 1 tab, 1 item, no fault |

The bounds. Two drains are the least that overlap, and a third meets a job only
through the fence, about which `OutboxProofs` holds for any number. Jobs interact
through the batch and the chunk of a drain only, so a chunk of two and an order
update before it show each interaction; `exclusive` has them all. The cancellation
row is read and written by the drain that recorded the outcome alone, so `overlap`,
which asks nothing of it, has an update without one (`CancelJobs`). Two retries
give a first attempt, a retry and the attempt past the ceiling. One fault at a
time is enough for each place where it can strike; two faults are left out of the
runs, not of the theorems. The server runs have two requests because every
conflict there is between a first and a second writer of a row. Sales in
`server` take one and two units of two, so that either fits and not both.
The lease runs have two calls in one tab and one in another, the least in which calls
of a tab overwrite each other's lease while another tab contends; a third tab meets
the lease as the second does.
`till_sales` has two sales in one tab, so that the lock is asked for the same and for
another sale, and a third in the other tab, which meets the first two in the stock
alone; one more product would repeat what one shows, and its variant is what makes
the two kinds of stock meet. `orders` needs two changes, for an older and a newer
order, and a request more than them for the retry that arrives late; the theorems of
`OrderSyncProofs` hold for any number of each. In `inventory` lines of an operation
meet through one product (the same product twice is among the orders), and three
units make up two layers, the least that have an order; a second product would
share nothing with the first but the transaction.

Deadlock is not checked: when every job is settled and every request answered,
nothing more has to happen.

### Fairness

`FairSpec` has weak fairness of the steps of a drain that is under way, since each
follows an `await` that settles: IndexedDB answers, the fetch is aborted by a
timeout. The body of a response that has begun is not covered by that timeout
(`outbox-sender.ts:694`); it is taken to end. Time passes: leases lapse and due
dates come. `StartDrain` has strong fairness, since requests come and go: it
excludes only that every request is dropped (no connectivity for ever). Nothing
is assumed of the cashier. `AttendedSpec` adds that somebody keeps pressing "sync
now" or completing sales, for in this code only such an action asks for a push.

In `LeaderLease` a call goes on by itself (weak fairness), its operation ends and
the lease is released although the renewal timer runs in between (strong fairness
of `Leave`), leases lapse, and some call is made again and again: without one
nobody is there to take an orphaned lease over.

### What the violations show

* `unattended`: `docs/prd/prd-jurnapod-overview.md:155` speaks of a background
  worker that retries with exponential backoff. In the code a push is requested by
  a checkout, an order change or the button; the timers and the online handler of
  the router only refresh and pull. A request that `executePushCycle` drops is
  gone, and so is the retry of a failed job until somebody asks again. (The trace goes
  on to void the sale, which leaves the job as it is.)
* `document`: line 161 of the same document has document and journal in one
  database transaction. The code commits the header by itself, and a retry
  returns DUPLICATE before it comes to the deduction. `SentAtOnceIsCharged` and
  `UnchargedIsReported` say what does hold instead.
* `contenders`: `outbox-leader.test.mjs:145` has near-simultaneous contenders settle
  to one winner, and does with both tabs on one event loop. Two tabs are two
  processes: one that read the free key, was slow, and wrote after the other had
  looked for the last time leads beside it. `overlap` and `OutboxProofs` show that
  the fence of the outbox bears it.

* `catalog`: the comment at `sync-orchestrator.ts:164` has an empty catalogue healed by
  a full pull. The till makes its rows from `prices`, which `handlePullSync` always
  leaves empty (`pull/index.ts:266`), and then writes the version as pulled. The
  same line makes the next version mark active products inactive.

Related, and allowed by the properties as the code stands: a crash uses up an
attempt, so a job may be given up with fewer than three failures; after a crash
between their writes an order-update row or a cancellation may stay behind its job; a batch that
repeats a `client_tx_id` answers DUPLICATE even if the first of the two failed; a
product with an outlet's and a company's row is charged in both for one movement
(`StockAccounts` speaks of products with one row); a void of a variant lowers what its
product has reserved; a close, a transfer or a completion of an order reaches the
server with its next update, if there is one; a snapshot that was disturbed stays so
until the next push.

## What is proved

Every theorem holds for any number of drains, tabs, calls, requests, sales, items and
faults, from the assumption its module states of its constants (three assume more, see
below): their kinds, sets
that are disjoint in the code, at least one retry, and finiteness of what is counted
or summed (drains and jobs, the sales of the server and the pipeline, the sales and
goods of a till, the outlets of a company).

### Outbox

From `OutboxAssumption`, with and without Web Locks:

* `TypeCorrect`: `Spec => []TypeOK`
* `FenceHolds`: `Spec => []OneHolder`
* `CeilingHolds`: `Spec => []NoSendPastCeiling`
* `AttemptsAreBounded`: `Spec => []AttemptsBounded`
* `GivingUpIsEarned`: `Spec => []GivenUpAfterFailures`
* `StaleAnswerHasNoEffect`: `Spec => StaleAnswerIgnored`
* `OutcomeIsFinal`: `Spec => SettledIsFinal`

and under Web Locks, with an IndexedDB that answers:

* `BackoffIsKept`: `Spec => []BackoffRespected`
* `RowFollowsJob`: `Spec => []RowAgreesWithJob`

The argument. `OneHolder` is not inductive: that the next reservation differs from
all the earlier ones depends on `attempts` being their maximum. The inductive
invariant `IInv` says that
1. a lease token is null or that of the latest attempt (`TokenIsLatest`);
2. no attempt is owned twice, nor ahead of its row (`AttemptsAreOwned`);
3. a drain has an attempt from its reservation on, at most the ceiling if it will
   send, above it if it gives up (`AttemptFitsPhase`);
4. drafts have no job and drains work on jobs that exist (`DraftHasNoJob`,
   `OnlyJobsAreDrained`), so that an enqueue meets no drain;
5. a job that was given up is past every attempt that may still send
   (`GivenUpIsPast`).

`Reserve` is the one action that hands out an attempt; lemma `Frame` disposes of
(1) and (2) for all the others. The two action properties rest on `StepOutcome`:
a step that changes the outcome of a job enqueues it, makes it due, or settles it
by the drain that holds it. `SettledIsFinal` then follows from (3) and (5): once a
job is given up the fence turns away every attempt that is still out.

What attempts cost. Each step of a drain claims the next attempt of a job, settles
the one under way, or does neither (`StepCost`), and nobody loses a row it holds but by
a fault. So an attempt is paid for by a recorded failure or by a fault, or a live drain
still holds it (`Accounted`), which is `GivenUpAfterFailures` once the last attempt is
settled. `Bounded` counts the other way: attempts and the drains that have the job in a
snapshot and may still claim it (`Waiting`) never exceed the ceiling, the drains and
the faults together; a claim moves a drain from the second to the first. A drain may
join `Waiting` only while the job is not given up and nobody holds it, when attempts are
at most the ceiling and the faults, so that there is room for every drain.

Under the lock. One drain is in `processJob` (`Alone`), so what it knows of a row stays
true while it works (`Known`: due until the answer is recorded, then the outcome), and
the order-update row and the cancellation row are behind their job only while that
drain is about to write them (`RowFollows`). Both hypotheses are needed: without Web Locks drains overlap
(`overlap`), and a drain that IndexedDB rejects gives the lock up while its siblings in
`processJob` go on, so that the next holder works beside them.

### Push endpoint

`PushServerProofs`, from `PushServerAssumption`: `ServerTyped` (`TypeOK`),
`NoDoubleCharge` (`ChargedOnce`), `FinalDocument` (`DocumentIsFinal`), `TrueAnswers`
(`AnswerIsTrue`), `StockIsAccounted` (`StockAccounts`), `UnchargedReported`
(`UnchargedIsReported`). That a request
read `deducted = 0` says nothing of what other requests do before it deducts. The
invariant has the unique index make one request the only one past the header of a
sale (`OneWriter`), so that what it read stays true until it charges
(`ChargesAhead`). For the answers, `Truthful` says of each request what its results
so far imply of the tables; documents, lines and deductions only grow (`Grows`), so
the steps of other requests preserve it. `StockAccounts` needs no more than that one
step lowers the stock and raises one term of the sum by the same. `UnchargedIsReported`
does not say who has to report: the invariant `RInv` does. A recorded sale that was not
charged is being charged by a request that is past its header, or a request has an
error for it or was lost with its answer (`Accounted`), and what has no answer yet is still left to process (`Unanswered`),
so that no request returns without an answer for each of its transactions.

### Till and server together

`SyncPipelineProofs`, from `PipelineAssumption`, for faults on both sides:
`DeliveredIsRecorded` (`SentIsRecorded`), `DeliveredAtOnceIsCharged`
(`SentAtOnceIsCharged`) and `PipelineDelivers`: `Spec => KeepsPromise`, that is, the
pipeline implements `Delivery` under the mapping `Promise`. Every step of the pipeline is
a step of the outbox, of the server, or of both, so the invariants of the two are
invariants here (`Parts`) by the lemmas of their own modules. `Link` adds what neither
knows: what a request carries and that its attempt was reserved (`Posted`), that what
the server has the till has placed (`RecordedIsPlaced`), that a drain which read a good
answer read it of a recorded sale (`AckedIsRecorded`), and that as long as a sale had
one attempt no other request carries it (`FirstIsSole`), so that the answer to a first
attempt is not the DUPLICATE of one that failed half way (`FirstIsCharged`). The
refinement takes each step in turn: it places, records, charges or confirms a sale, or
changes nothing `Delivery` sees.

### Leader lease

`LeaderLeaseProofs`, from `LeaderLeaseAssumption`:
`LeaseTyped` (`TypeOK`), `OnePerTab` (`OneLeaderPerTab`), `NoOrphanLease`
(`NoLeaseLeftBehind`), and, assuming `Timely`, `OneLeaderIfTimely` (`OneLeader`). The
process lock and the calls of a tab agree (`LockTells`, `TabAgrees`, `OneTask`), which
is what lets a call that ends find its own lease. `OneLeader` counts: a leader, or a
call about to lead, is lost when the store no longer has a live lease of its own or
another tab may still write. `LossesCounted` has at most one such call per stall,
and two leaders that are not lost would own the same key.

### Orders

`OrderSyncProofs`, from `OrderSyncAssumption`: `OrderTyped` (`TypeOK`), `DeliveredIsRecorded`
(`AckedIsRecorded`), `WholeSnapshot` (`SnapshotIsWhole`), `CatchesUp`
(`ServerCatchesUp`). `AInv` has the answers of every request true of the records,
which only grow. `SInv` says that while nothing disturbed the snapshot only its
writer is between its statements, and how far it has come. `FInv` is the reason the
server catches up: the newest request carries the order as it is, or the order
changed silently, or a save is still under way that will make a job, or one waits.

### Sales and stock of the till

`TillSalesProofs`, from `TillSalesAssumption`: `TypeCorrect` (`TypeOK`), `CompletedOnce`
(`SaleIsOnce`), `HoldsItsItems` (`HeldByCompleted`), `FinalSale` (`SaleIsFinal`),
`ReservedIsAccounted` (`ReservedIsHeld`), `NeverOversold` (`SoldWithinStock`).
Since `Commit` does not read the status again, the
invariant `IInv` says that a call which may still commit works on a draft, and that two
calls never work on one sale. For the stock, `SInv` adds that the available quantity is
what the reserved one leaves (`AvailableFits`) and that a check which no other sale
overtook still holds: its items fit in the room that is left (`ChecksHold`). The only
step that takes room away is a commit, and a commit makes every other check stale.

### Inventory

`InventoryProofs`, from `InventoryAssumption`, for any products, variants, outlets and
layers and for operations on any list of items: `TypeCorrect` (`TypeOK`),
`StockIsMovements` (`StockAccounts`), `ReservedIsMovements` (`HoldsAccount`),
`CostIsTakenOnce` (`CostFollowsGoods`), `StockHasCost` (`StockIsCosted`),
`LayersEmptyInOrder` (`LayersInOrder`). The inductive invariant is `Sound(Tables)`: the
tables are typed and legal, and for each product rows, movements, layers, summary and
charges fit each other (`Fits`). An operation is a loop, so soundness is shown of one
line and then of the loop by induction on its items (`EachKeeps`); since a line that
stops the loop leaves what the others wrote, each line has to keep it on its own. A
sale does not: it records the movements of all its items, then lowers the rows, then
takes the cost, and only the three loops together balance. Each is measured by what the
first n items ask for (`Wanted`), which makes the three meet at the end
(`LoopsSettle`). A sale that names a product twice may pass the comparison and find no
row left to lower; then all of it is undone.
For the layers, `TakenOfFirst` says that the loop takes n units in all, or what there
is, and `TakenInOrder` that it touches a layer only
after emptying those in front; `InOrderTwice` carries that over the items of a sale.

### Sums and induction

The accounts are sums over finite sets (`SumFunctionOnSet` of the community modules).
The library's induction takes the claim as an operator, which the provers cannot
instantiate, so `SumLemmas` and `InventoryProofs` state it with a set: the subsets (or
numbers) for which the claim holds, and the step to all of them because strict inclusion
of finite sets, and `<` on numbers, are well founded (`FiniteInduction`, `Ladder`). From
this come that the recursive functions behind a sum and behind `Each` exist, and what a
sum does when an element is added, removed or changed.

### Model-checked only

The liveness properties `EveryJobSettles` and `OrphanIsReclaimed`, as temporal proofs
under fairness are out of this prover's reach, and the expected violations, `SyncPull`'s
among them: a counterexample needs no proof.

## Not modelled

The body of a sale is abstracted to its identity, the results of a push to OK,
DUPLICATE and ERROR. The sections of a push for variant sales and variant stock
adjustments are left out: the till's outbox sends neither. So are the tables and
reservations an order occupies, the resumption of an order, stock rows of a variant,
and money: prices, unit costs and their rounding. The age order in which due jobs are
selected is left open (any batch of the right size). Recovery
(`recovery-service.ts`), `offline/sync-pull.ts`, `releaseExpiredReservations` and the
stock update after a pull have no caller in the application and are left out.

The repository is a whole ERP of some 265,000 lines, most of them pages, routes,
queries, schemas, fixtures and request checks without state that steps of several
actors share. The models cover the part where such steps meet, a small share of the
lines; the other components with state of that kind follow in the plan.

## Plan

In order of importance:

1. `SyncPipeline` with the order jobs of `OrderSync`.
2. `DrainScheduler`: the reason set, the run loop and `pushInFlight`, refining the
   `wanted` flag.
3. `BatchProcessor`: the backoffice queue and its retry.
4. `JournalPosting` and `FiscalYear`: balance, posting against closing.
5. `TableOccupancy`: versions of tables and sessions, with the orders that occupy them.
6. The remaining sections of the push; stock rows of variants in `Inventory`.

Each with an abstract statement of what it promises where it has a client above,
and with properties aimed at the hazards in `PROJECT.json` that have none yet.
