----------------------------- MODULE TillSales -----------------------------
(***************************************************************************)
(* Sales of a till and the local stock they hold (apps/pos/src/offline/    *)
(* sales.ts, services/stock.ts): a draft is completed, or voided, by calls *)
(* that run in several tabs over one IndexedDB.                            *)
(*                                                                         *)
(* A step is what runs between two awaits: the lock and the read of the    *)
(* sale, the stock check of one good, the transaction, the verification    *)
(* after it.  A good is a product sold without a variant, or a variant.    *)
(* The sale_items and payments one completion adds are one member of docs. *)
(* raced and leaked are history: what the stock checks could not know.     *)
(***************************************************************************)
EXTENDS Integers, FiniteSets, Functions

CONSTANTS
  Sales,         \* sale_id values
  Calls,         \* calls of completeSale and voidSale that may be under way
  Tabs,
  Home,          \* the tab of each call
  Till,          \* the tab that drafts each sale, which alone works on it
  Products,      \* tracked products with a row of inventory_stock
  Variants,      \* rows of variants_cache
  ProductOf,     \* the product of each variant
  OnHand,        \* quantity_on_hand of each product, of the last pull
  VariantStock,  \* stock_quantity of each variant, of the last pull
  Carts,         \* quantities of goods that may be sold together
  NoSale         \* the sale of a call that is idle

Goods == Products \cup Variants

ASSUME TillSalesAssumption ==
  /\ IsFiniteSet(Sales) /\ IsFiniteSet(Products) /\ IsFiniteSet(Variants)
  /\ Home \in [Calls -> Tabs] /\ Till \in [Sales -> Tabs]
  /\ Products \cap Variants = {}
  /\ ProductOf \in [Variants -> Products]
  /\ OnHand \in [Products -> Nat] /\ VariantStock \in [Variants -> Nat]
  /\ Carts \subseteq [Goods -> Nat]
  /\ NoSale \notin Sales

VARIABLES
  status,   \* sales.status; "NONE" before the draft
  tx,       \* sales.client_tx_id, 0 while null
  docs,     \* item and payment rows, by the completion that added them
  jobs,     \* outbox_jobs of the sales, by client_tx_id
  held,     \* stock_reservations of each sale: quantity by good
  stock,    \* quantity_reserved and quantity_available of each product
  call,     \* where each call stands
  raced,    \* sales whose stock check was out of date when they committed
  leaked    \* products that the release of a variant lowered

vars == <<status, tx, docs, jobs, held, stock, call, raced, leaked>>

-----------------------------------------------------------------------------
Status == {"NONE", "DRAFT", "COMPLETED", "VOID"}
PCs == {"idle", "checking", "reserving", "verifying", "voiding", "voided"}

Nothing == [g \in Goods |-> 0]
Idle == [pc |-> "idle", sale |-> NoSale, cart |-> Nothing, todo |-> {}, fresh |-> FALSE]

Item(g) == IF g \in Variants THEN ProductOf[g] ELSE g

\* What the reservations of the sales in S hold of the goods in G.
Held(S, G) == SumFunctionOnSet([s \in Sales |-> SumFunctionOnSet(held[s], G)], S)

Floor(n) == IF n < 0 THEN 0 ELSE n

Goto(c, where) == call' = [call EXCEPT ![c].pc = where]
Return(c) == call' = [call EXCEPT ![c] = Idle]

\* saleCompletionLocks, a set of the tab: a call is under way for the sale.
Locked(t, s) == \E c \in Calls : Home[c] = t /\ call[c].sale = s

-----------------------------------------------------------------------------
Init == /\ status = [s \in Sales |-> "NONE"]
        /\ tx = [s \in Sales |-> 0]
        /\ docs = {} /\ jobs = {}
        /\ held = [s \in Sales |-> Nothing]
        /\ stock = [p \in Products |-> [reserved |-> 0, available |-> OnHand[p]]]
        /\ call = [c \in Calls |-> Idle]
        /\ raced = {} /\ leaked = {}

CreateDraft(s) == /\ status[s] = "NONE"
                  /\ status' = [status EXCEPT ![s] = "DRAFT"]
                  /\ UNCHANGED <<tx, docs, jobs, held, stock, call, raced, leaked>>

(* completeSale. *)

\* Mutated form of Begin: withSaleCompletionLock does not refuse a second call.
BeginUnlocked(c, s, cart) ==
  /\ call[c].pc = "idle" /\ Home[c] = Till[s] /\ status[s] = "DRAFT"
  /\ call' = [call EXCEPT ![c] = [pc |-> "checking", sale |-> s, cart |-> cart,
                                  todo |-> {g \in Goods : cart[g] > 0},
                                  fresh |-> TRUE]]
  /\ UNCHANGED <<status, tx, docs, jobs, held, stock, raced, leaked>>

\* The lock is taken and the sale read; a call that finds the lock taken or
\* the sale no draft throws and changes nothing.
Begin(c, s, cart) ==
  /\ call[c].pc = "idle" /\ Home[c] = Till[s]
  /\ ~Locked(Home[c], s) /\ status[s] = "DRAFT"
  /\ call' = [call EXCEPT ![c] = [pc |-> "checking", sale |-> s, cart |-> cart,
                                  todo |-> {g \in Goods : cart[g] > 0},
                                  fresh |-> TRUE]]
  /\ UNCHANGED <<status, tx, docs, jobs, held, stock, raced, leaked>>

\* Mutated form of Available: reservations of the variant are not counted.
AvailableUnreserved(g) ==
  IF g \in Variants THEN VariantStock[g] ELSE stock[g].available

\* quantityAvailable: a product's is in its row, a variant's is what the
\* reservations leave of it.
Available(g) ==
  IF g \in Variants THEN Floor(VariantStock[g] - Held(Sales, {g})) ELSE stock[g].available

\* One of the concurrent checks of validateStockForItems; the call throws if
\* one of them finds too little.
CheckItem(c, g) ==
  /\ call[c].pc = "checking" /\ g \in call[c].todo
  /\ IF Available(g) >= call[c].cart[g]
       THEN call' = [call EXCEPT ![c].todo = @ \ {g}]
       ELSE Return(c)
  /\ UNCHANGED <<status, tx, docs, jobs, held, stock, raced, leaked>>

Checked(c) == /\ call[c].pc = "checking" /\ call[c].todo = {}
              /\ Goto(c, "reserving")
              /\ UNCHANGED <<status, tx, docs, jobs, held, stock, raced, leaked>>

\* reserveStock: a product's row and a reservation, for a variant the
\* reservation alone.
Reserve(s, cart) ==
  /\ held' = [held EXCEPT ![s] = [g \in Goods |-> @[g] + cart[g]]]
  /\ stock' = [p \in Products |->
       IF cart[p] = 0 THEN stock[p]
       ELSE LET r == stock[p].reserved + cart[p]
            IN  [reserved |-> r, available |-> Floor(OnHand[p] - r)]]

\* The transaction, which does not read the status again: a new client_tx_id,
\* the items and payments, the reservations and the outbox job together.
\* Every check made before it is out of date now.
Commit(c) ==
  LET s == call[c].sale
      id == 1 + Cardinality({d \in docs : d.sale = s})
  IN  /\ call[c].pc = "reserving"
      /\ Reserve(s, call[c].cart)
      /\ status' = [status EXCEPT ![s] = "COMPLETED"]
      /\ tx' = [tx EXCEPT ![s] = id]
      /\ docs' = docs \cup {[sale |-> s, tx |-> id, cart |-> call[c].cart]}
      /\ jobs' = jobs \cup {[sale |-> s, tx |-> id]}
      /\ raced' = IF call[c].fresh THEN raced ELSE raced \cup {s}
      /\ call' = [d \in Calls |-> [call[d] EXCEPT !.pc = IF d = c THEN "verifying" ELSE @,
                                                  !.fresh = FALSE]]
      /\ UNCHANGED leaked

\* The call throws: a snapshot is missing, the totals do not agree, or
\* IndexedDB fails.
Abort(c) == /\ call[c].pc \in {"checking", "reserving", "voiding"}
            /\ Return(c)
            /\ UNCHANGED <<status, tx, docs, jobs, held, stock, raced, leaked>>

\* The lock is kept until the transaction was verified.
Finish(c) == /\ call[c].pc \in {"verifying", "voided"}
             /\ Return(c)
             /\ UNCHANGED <<status, tx, docs, jobs, held, stock, raced, leaked>>

(* voidSale. *)

\* Mutated form of BeginVoid: the lock is not asked for.
BeginVoidUnlocked(c, s) ==
  /\ call[c].pc = "idle" /\ Home[c] = Till[s] /\ status[s] # "NONE"
  /\ call' = [call EXCEPT ![c] = [Idle EXCEPT !.pc = "voiding", !.sale = s]]
  /\ UNCHANGED <<status, tx, docs, jobs, held, stock, raced, leaked>>

BeginVoid(c, s) ==
  /\ call[c].pc = "idle" /\ Home[c] = Till[s]
  /\ ~Locked(Home[c], s) /\ status[s] # "NONE"
  /\ call' = [call EXCEPT ![c] = [Idle EXCEPT !.pc = "voiding", !.sale = s]]
  /\ UNCHANGED <<status, tx, docs, jobs, held, stock, raced, leaked>>

Reservations(s) == {g \in Goods : held[s][g] > 0}

\* Mutated form of Release: the row is lowered below zero.
ReleaseBelowZero(s) ==
  /\ held' = [held EXCEPT ![s] = Nothing]
  /\ stock' = [p \in Products |->
       LET G == {g \in Reservations(s) : Item(g) = p}
           r == stock[p].reserved - Held({s}, G)
       IN  IF G = {} THEN stock[p]
           ELSE [reserved |-> r, available |-> OnHand[p] - r]]
  /\ leaked' = leaked \cup {ProductOf[v] : v \in Reservations(s) \cap Variants}

\* Mutated form of Release: the rows of stock_reservations are not deleted.
ReleaseRowsOnly(s) ==
  /\ held' = held
  /\ stock' = [p \in Products |->
       LET G == {g \in Reservations(s) : Item(g) = p}
           r == Floor(stock[p].reserved - Held({s}, G))
       IN  IF G = {} THEN stock[p]
           ELSE [reserved |-> r, available |-> OnHand[p] - r]]
  /\ leaked' = leaked \cup {ProductOf[v] : v \in Reservations(s) \cap Variants}

\* Mutated form of Release: the quantity of the product's row stays reserved.
ReleaseKeepsQuantity(s) ==
  /\ held' = [held EXCEPT ![s] = Nothing]
  /\ stock' = stock
  /\ leaked' = leaked \cup {ProductOf[v] : v \in Reservations(s) \cap Variants}

\* releaseStock: every reservation lowers the row of its item, that of a
\* variant too, although reserveStock did not raise it.
Release(s) ==
  /\ held' = [held EXCEPT ![s] = Nothing]
  /\ stock' = [p \in Products |->
       LET G == {g \in Reservations(s) : Item(g) = p}
           r == Floor(stock[p].reserved - Held({s}, G))
       IN  IF G = {} THEN stock[p]
           ELSE [reserved |-> r, available |-> OnHand[p] - r]]
  /\ leaked' = leaked \cup {ProductOf[v] : v \in Reservations(s) \cap Variants}

\* The transaction, which refuses any status but these.
Void(c) == LET s == call[c].sale IN
           /\ call[c].pc = "voiding"
           /\ status[s] \in {"DRAFT", "COMPLETED"}
           /\ Release(s)
           /\ status' = [status EXCEPT ![s] = "VOID"]
           /\ Goto(c, "voided")
           /\ UNCHANGED <<tx, docs, jobs, raced>>

\* The tab is closed: its calls end where they stand, its locks with them.
CloseTab(t) == /\ \E c \in Calls : Home[c] = t /\ call[c].pc # "idle"
               /\ call' = [c \in Calls |-> IF Home[c] = t THEN Idle ELSE call[c]]
               /\ UNCHANGED <<status, tx, docs, jobs, held, stock, raced, leaked>>

-----------------------------------------------------------------------------
Complete(c) == \/ \E s \in Sales, cart \in Carts : Begin(c, s, cart)
               \/ \E g \in Goods : CheckItem(c, g)
               \/ Checked(c) \/ Commit(c)

Next == \/ \E s \in Sales : CreateDraft(s)
        \/ \E c \in Calls : \/ Complete(c) \/ Abort(c) \/ Finish(c)
                            \/ Void(c) \/ \E s \in Sales : BeginVoid(c, s)
        \/ \E t \in Tabs : CloseTab(t)

Spec == Init /\ [][Next]_vars

-----------------------------------------------------------------------------
\* The type invariant: reserved is never negative, and only quantity_available
\* may be, which releaseStock does not bound as reserveStock does.
TypeOK ==
  /\ status \in [Sales -> Status]
  /\ tx \in [Sales -> Nat]
  /\ docs \subseteq [sale : Sales, tx : Nat, cart : Carts]
  /\ jobs \subseteq [sale : Sales, tx : Nat]
  /\ held \in [Sales -> [Goods -> Nat]]
  /\ stock \in [Products -> [reserved : Nat, available : Int]]
  /\ call \in [Calls -> [pc : PCs, sale : Sales \cup {NoSale},
                         cart : Carts \cup {Nothing}, todo : SUBSET Goods,
                         fresh : BOOLEAN]]
  /\ raced \subseteq Sales /\ leaked \subseteq Products

DocsOf(s) == {d \in docs : d.sale = s}
JobsOf(s) == {j \in jobs : j.sale = s}

\* A sale is completed at most once, whatever calls run beside each other: it
\* has one set of items and payments and one outbox job, both under the
\* client_tx_id it carries, or none of them.  The lock alone sees to it, since
\* the transaction reads the status before the lock's last await
\* (withSaleCompletionLock, completeSale).
SaleIsOnce ==
  \A s \in Sales :
    /\ status[s] \in {"NONE", "DRAFT"} => tx[s] = 0
    /\ status[s] = "COMPLETED" => tx[s] # 0
    /\ IF tx[s] = 0 THEN DocsOf(s) = {} /\ JobsOf(s) = {}
       ELSE /\ JobsOf(s) = {[sale |-> s, tx |-> tx[s]]}
            /\ \E cart \in Carts : DocsOf(s) = {[sale |-> s, tx |-> tx[s], cart |-> cart]}

\* What a sale holds of the stock is what its items say while it is completed,
\* and nothing before and after (reserveStock in completeSale, releaseStock in
\* voidSale).
HeldByCompleted ==
  \A s \in Sales :
    IF status[s] = "COMPLETED"
      THEN \E d \in docs : d.sale = s /\ held[s] = d.cart
      ELSE held[s] = Nothing

\* quantity_reserved of a product is the sum of its reservations, unless the
\* release of one of its variants lowered it: then it is at most that sum
\* (reserveStock, releaseStock).
ReservedIsHeld ==
  \A p \in Products :
    /\ stock[p].reserved <= Held(Sales, {p})
    /\ p \notin leaked => stock[p].reserved = Held(Sales, {p})

\* Sales whose check was not overtaken by another sale hold no more than there
\* was: of a variant always, of a product unless the release of one of its
\* variants lowered what counts as reserved (validateStockForItems).
SoldWithinStock ==
  /\ \A v \in Variants : Held(Sales \ raced, {v}) <= VariantStock[v]
  /\ \A p \in Products \ leaked : Held(Sales \ raced, {p}) <= OnHand[p]

\* A voided sale stays void, and a sale keeps the client_tx_id it was pushed
\* under: no completion under way brings it back (voidSale, completeSale).
SaleIsFinal ==
  [][\A s \in Sales : /\ status[s] = "VOID" => status'[s] = "VOID"
                      /\ tx[s] # 0 => tx'[s] = tx[s]]_vars
=============================================================================
