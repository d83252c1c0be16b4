----------------------------- MODULE Inventory -----------------------------
(***************************************************************************)
(* Stock and its cost on the server (packages/modules/inventory/src/       *)
(* services/stock-service.ts, packages/modules/inventory-costing/src/      *)
(* index.ts): the rows of inventory_stock, the movements that explain      *)
(* them, and the cost layers and the summary that pay for them.            *)
(*                                                                         *)
(* Every operation is one database transaction that locks the rows it      *)
(* reads, so it is one step; reserveStock alone reads before it (Ask).  A  *)
(* line that answers false stops the operation and keeps what the earlier  *)
(* lines wrote, a line that throws undoes them all.                        *)
(*                                                                         *)
(* available_quantity is quantity - reserved_quantity, by a CHECK of the   *)
(* table.  Unit costs are abstracted to whether there is one: quantities   *)
(* are what the properties are about.  Companies do not meet, so there is  *)
(* one.                                                                    *)
(***************************************************************************)
EXTENDS Integers, FiniteSets, Sequences, Functions

CONSTANTS
  Products,      \* items with track_stock
  Variants,      \* item_variants that are sold from stock_quantity
  VariantStock,  \* stock_quantity of each to begin with
  Outlets,
  Company,       \* the outlet_id of a company-wide row, null
  Priced,        \* products with a price in item_prices
  Methods,       \* values of inventory.costing_method that may be set
  Callers,       \* calls of reserveStock that may be under way
  Orders,        \* the items an operation may be asked for: sequences of
                 \* [good, qty], in which a good may repeat
  Adjustments,   \* the quantities adjustStock may be asked for
  MaxInbound,    \* bound on the quantity that ever came in, for a product
  MaxMoved       \* bound on the net quantity moved at a place, or reserved

Places == Outlets \cup {Company}
Goods == Products \cup Variants

ASSUME InventoryAssumption ==
  /\ Company \notin Outlets /\ IsFiniteSet(Outlets)
  /\ Products \cap Variants = {}
  /\ VariantStock \in [Variants -> Nat]
  /\ Priced \subseteq Products
  /\ Methods \subseteq {"AVG", "FIFO", "LIFO"} /\ Methods # {}
  /\ Orders \subseteq Seq([good : Goods, qty : Nat \ {0}])
  /\ Adjustments \subseteq Int
  /\ MaxInbound \in Nat /\ MaxMoved \in Nat

VARIABLES
  rows,     \* inventory_stock of each product: quantity and reserved by place
  moved,    \* net stock movements of each product at each place, those of its
            \* variants left out
  holds,    \* RESERVATION less RELEASE movements of each product
  vstock,   \* item_variants.stock_quantity
  layers,   \* inventory_cost_layers, oldest first, and what
            \* cost_layer_consumption says was used of them
  summary,  \* inventory_item_costs.total_layers_qty
  charged,  \* quantity whose cost was calculated
  method,   \* inventory.costing_method
  asked     \* reservations that passed checkAvailability

vars == <<rows, moved, holds, vstock, layers, summary, charged, method, asked>>

-----------------------------------------------------------------------------
(* A transaction at work on the tables, and how a line of it ends. *)

Tables == [rows |-> rows, moved |-> moved, holds |-> holds, vstock |-> vstock,
           layers |-> layers, summary |-> summary, charged |-> charged]

Ok(S)  == [st |-> S, end |-> "ok"]
No(S)  == [st |-> S, end |-> "false"]
Throw(S) == [st |-> S, end |-> "throw"]

\* What remains of a transaction: everything, or nothing if it threw.
Ends(a) ==
  LET T == IF a.end = "throw" THEN Tables ELSE a.st
  IN  /\ rows' = T.rows /\ moved' = T.moved /\ holds' = T.holds /\ vstock' = T.vstock
      /\ layers' = T.layers /\ summary' = T.summary /\ charged' = T.charged

\* Mutated form of Legal: the table has no CHECK on available_quantity.
LegalStock(S) == \A p \in Products : \A x \in DOMAIN S.rows[p] : S.rows[p][x].q >= 0

\* The CHECK constraints of inventory_stock, which fail the statement.
Legal(S) == \A p \in Products : \A x \in DOMAIN S.rows[p] :
              0 <= S.rows[p][x].r /\ S.rows[p][x].r <= S.rows[p][x].q
Statement(S) == IF Legal(S) THEN Ok(S) ELSE Throw(S)

\* The rows a statement about product p at outlet o matches, and the one that
\* ORDER BY outlet_id IS NULL LIMIT 1 picks of them.
Matching(S, o, p) == DOMAIN S.rows[p] \cap {o, Company}
Picked(S, o, p) == S.rows[p][IF o \in DOMAIN S.rows[p] THEN o ELSE Company]
Missing(S, o, p) == Matching(S, o, p) = {}

WithRows(S, p, f) == [S EXCEPT !.rows[p] = f]
Change(S, p, X, dq, dr) ==
  LET f == S.rows[p] IN
  WithRows(S, p, [x \in DOMAIN f |-> IF x \in X THEN [q |-> f[x].q + dq, r |-> f[x].r + dr]
                                    ELSE f[x]])

\* The movement recorded after a statement that went well.
Move(a, o, p, n) == IF a.end = "ok" THEN Ok([a.st EXCEPT !.moved[p][o] = @ + n]) ELSE a
Hold(a, p, n) == IF a.end = "ok" THEN Ok([a.st EXCEPT !.holds[p] = @ + n]) ELSE a

\* The two unique keys let a product have one company-wide row and one row of
\* one outlet.
InsertRow(S, o, p, n) ==
  LET f == S.rows[p]
      T == WithRows(S, p, [x \in DOMAIN f \cup {o} |->
                             IF x = o THEN [q |-> n, r |-> 0] ELSE f[x]])
  IN  IF o # Company /\ DOMAIN S.rows[p] \cap Outlets # {} THEN Throw(S) ELSE Ok(T)

-----------------------------------------------------------------------------
(* Costing. *)

Total(f, I) == SumFunctionOnSet(f, I)
Remaining(S, p) == [i \in DOMAIN S.layers[p] |-> S.layers[p][i].rem]
OnLayers(S, p) == Total(Remaining(S, p), DOMAIN S.layers[p])

\* Mutated form of Before: FIFO takes the newest layer first.
BeforeSwapped(S, p, m, i) ==
  {k \in DOMAIN S.layers[p] : IF m = "LIFO" THEN k < i ELSE k > i}

\* The layers that a method empties before layer i.
Before(S, p, m, i) == {k \in DOMAIN S.layers[p] : IF m = "FIFO" THEN k < i ELSE k > i}

Least(a, b) == IF a < b THEN a ELSE b
Most(a, b) == IF a > b THEN a ELSE b

\* What the loop over the layers consumes of layer i to make up n units.
Taken(S, p, m, n, i) ==
  Least(S.layers[p][i].rem, Most(0, n - Total(Remaining(S, p), Before(S, p, m, i))))

\* A layer that gave n units.
Less(l, n) == [l EXCEPT !.rem = @ - n, !.used = @ + n]

ConsumeLayers(S, p, m, n) ==
  [S EXCEPT !.layers[p] = [i \in DOMAIN @ |-> Less(@[i], Taken(S, p, m, n, i))]]

\* Mutated form of CostLine: the layers' cost is taken off the summary too.
CostTwice(S, m, it) ==
  LET p == it.good
      T == [S EXCEPT !.charged[p] = @ + it.qty]
  IN  IF m = "AVG"
        THEN IF S.summary[p] < it.qty THEN Throw(S)
             ELSE Ok([T EXCEPT !.summary[p] = @ - it.qty])
        ELSE IF OnLayers(S, p) < it.qty THEN Throw(S)
             ELSE Ok([ConsumeLayers(T, p, m, it.qty) EXCEPT !.summary[p] = @ - it.qty])

\* calculateCost: AVG works on the summary and leaves the layers, FIFO and LIFO
\* on the layers and leave the summary.
CostLine(S, m, it) ==
  LET p == it.good
      T == [S EXCEPT !.charged[p] = @ + it.qty]
  IN  IF m = "AVG"
        THEN IF S.summary[p] < it.qty THEN Throw(S)
             ELSE Ok([T EXCEPT !.summary[p] = @ - it.qty])
        ELSE IF OnLayers(S, p) < it.qty THEN Throw(S)
             ELSE Ok(ConsumeLayers(T, p, m, it.qty))

\* Mutated form of Inbound: the layer is not created.
InboundUncosted(a, p, n) == a

\* resolveInboundUnitCost and createCostLayer after what went well: the average
\* cost, which is positive while the summary is, or the price, or an error.
Inbound(a, p, n) ==
  IF a.end # "ok" THEN a
  ELSE IF a.st.summary[p] > 0 \/ p \in Priced
    THEN Ok([a.st EXCEPT !.layers[p] = Append(@, [orig |-> n, rem |-> n, used |-> 0]),
                         !.summary[p] = @ + n])
    ELSE Throw(a.st)

-----------------------------------------------------------------------------
(* Lines of the operations. *)

\* deductStock.
DeductLine(o, S, it) ==
  LET p == it.good
      X == {x \in Matching(S, o, p) : S.rows[p][x].q >= it.qty}
  IN  IF Missing(S, o, p) THEN No(S)
      ELSE IF Picked(S, o, p).q < it.qty THEN No(S)
      ELSE Move(Statement(Change(S, p, X, -it.qty, 0)), o, p, -it.qty)

\* reserveStock, in its transaction.
ReserveLine(o, S, it) ==
  LET p == it.good
      X == {x \in Matching(S, o, p) : S.rows[p][x].q - S.rows[p][x].r >= it.qty}
  IN  IF X = {} THEN No(S)
      ELSE Hold(Statement(Change(S, p, X, 0, it.qty)), p, it.qty)

\* Mutated form of ReleaseLine: the movement records the quantity asked for.
ReleaseAsked(o, S, it) ==
  LET p == it.good
      n == Least(it.qty, Picked(S, o, p).r)
      X == {x \in Matching(S, o, p) : S.rows[p][x].r >= n}
  IN  IF Missing(S, o, p) THEN Ok(S)
      ELSE IF n = 0 THEN Ok(S)
      ELSE Hold(Statement(Change(S, p, X, 0, -n)), p, -it.qty)

\* releaseStock: no more than is reserved.
ReleaseLine(o, S, it) ==
  LET p == it.good
      n == Least(it.qty, Picked(S, o, p).r)
      X == {x \in Matching(S, o, p) : S.rows[p][x].r >= n}
  IN  IF Missing(S, o, p) THEN Ok(S)
      ELSE IF n = 0 THEN Ok(S)
      ELSE Hold(Statement(Change(S, p, X, 0, -n)), p, -n)

\* restoreStock: every row that matches is raised, or one is inserted.
RestoreLine(o, S, it) ==
  LET p == it.good
      a == IF Missing(S, o, p) THEN InsertRow(S, o, p, it.qty)
           ELSE Statement(Change(S, p, Matching(S, o, p), it.qty, 0))
  IN  Inbound(Move(a, o, p, it.qty), p, it.qty)

\* Mutated form of Adjusted: the new quantity starts from the available one.
AdjustedAvailable(S, o, p, n) ==
  IF Missing(S, o, p) THEN n ELSE Picked(S, o, p).q - Picked(S, o, p).r + n

\* newQty.
Adjusted(S, o, p, n) == IF Missing(S, o, p) THEN n ELSE Picked(S, o, p).q + n

\* adjustStock: every row that matches is set to the new quantity, with the
\* available quantity of the row that was read; o may be Company.
AdjustLine(S, o, p, n) ==
  LET new == Adjusted(S, o, p, n)
      same == \A x \in Matching(S, o, p) : S.rows[p][x].r = Picked(S, o, p).r
      a == IF Missing(S, o, p) THEN InsertRow(S, o, p, new)
           ELSE IF ~same THEN Throw(S)
           ELSE Statement(WithRows(S, p, [x \in DOMAIN S.rows[p] |->
                  IF x \in Matching(S, o, p) THEN [S.rows[p][x] EXCEPT !.q = new]
                  ELSE S.rows[p][x]]))
  IN  IF new < 0 THEN No(S)
      ELSE IF n > 0 THEN Inbound(Move(a, o, p, n), p, n)
      ELSE Move(a, o, p, n)

\* deductStockWithCost: every line is compared and recorded first, then the rows
\* are lowered, then the cost is calculated.
CompareLine(o, S, it) ==
  IF Missing(S, o, it.good) THEN Throw(S)
  ELSE IF Picked(S, o, it.good).q < it.qty THEN Throw(S)
  ELSE Move(Ok(S), o, it.good, -it.qty)

LowerLine(o, S, it) ==
  LET p == it.good
      X == {x \in Matching(S, o, p) : S.rows[p][x].q >= it.qty}
  IN  IF X = {} THEN Throw(S)
      ELSE Statement(Change(S, p, X, -it.qty, 0))

\* A variant without a stock row of its own, at no cost.
VariantLine(S, it) ==
  IF S.vstock[it.good] < it.qty THEN Throw(S)
  ELSE Ok([S EXCEPT !.vstock[it.good] = @ - it.qty])

\* A loop of the service: its body, the outlet, and the costing method set.
Loop(body, o) == [body |-> body, at |-> o, by |-> method]

\* What a loop does to one item; an item of the other kind is not in its list.
Body(k, S, it) ==
  IF (k.body = "variant") # (it.good \in Variants) THEN Ok(S)
  ELSE CASE k.body = "variant" -> VariantLine(S, it)
         [] k.body = "deduct"  -> DeductLine(k.at, S, it)
         [] k.body = "reserve" -> ReserveLine(k.at, S, it)
         [] k.body = "release" -> ReleaseLine(k.at, S, it)
         [] k.body = "restore" -> RestoreLine(k.at, S, it)
         [] k.body = "compare" -> CompareLine(k.at, S, it)
         [] k.body = "lower"   -> LowerLine(k.at, S, it)
         [] k.body = "cost"    -> CostLine(S, k.by, it)

\* The items one after the other, until one does not go well.
Each(k, S, items) ==
  LET a[n \in 0 .. Len(items)] ==
        IF n = 0 THEN Ok(S)
        ELSE IF a[n - 1].end = "ok" THEN Body(k, a[n - 1].st, items[n]) ELSE a[n - 1]
  IN  a[Len(items)]

Then(a, k, items) == IF a.end = "ok" THEN Each(k, a.st, items) ELSE a

DeductWithCost(S, o, items) ==
  Then(Then(Each(Loop("compare", o), S, items), Loop("lower", o), items),
       Loop("cost", o), items)

\* resolveAndDeductForPosTransaction: the variants, then the rest.
DeductForPos(S, o, items) ==
  LET a == Each(Loop("variant", o), S, items)
  IN  IF a.end = "ok" THEN DeductWithCost(a.st, o, items) ELSE a

-----------------------------------------------------------------------------
Init == /\ rows = [p \in Products |-> [x \in {} |-> [q |-> 0, r |-> 0]]]
        /\ moved = [p \in Products |-> [x \in Places |-> 0]]
        /\ holds = [p \in Products |-> 0]
        /\ vstock = VariantStock
        /\ layers = [p \in Products |-> <<>>]
        /\ summary = [p \in Products |-> 0]
        /\ charged = [p \in Products |-> 0]
        /\ method \in Methods
        /\ asked = [c \in Callers |-> <<>>]

Simple(items) == \A i \in DOMAIN items : items[i].good \in Products

Adjust(o, p, n) == /\ Ends(AdjustLine(Tables, o, p, n))
                   /\ UNCHANGED <<method, asked>>

Restore(o, items) == /\ Simple(items)
                     /\ Ends(Each(Loop("restore", o), Tables, items))
                     /\ UNCHANGED <<method, asked>>

Deduct(o, items) == /\ Simple(items)
                    /\ Ends(Each(Loop("deduct", o), Tables, items))
                    /\ UNCHANGED <<method, asked>>

\* deductStockWithCost, and the push of a sale.
Sell(o, items) == /\ Ends(DeductForPos(Tables, o, items))
                  /\ UNCHANGED <<method, asked>>

\* checkAvailability, outside of the transaction: line by line, so a product
\* that repeats is compared with all of what is there.
Ask(c, o, items) ==
  /\ asked[c] = <<>> /\ items # <<>> /\ Simple(items)
  /\ \A i \in DOMAIN items :
       LET p == items[i].good IN
       ~Missing(Tables, o, p) /\ Picked(Tables, o, p).q - Picked(Tables, o, p).r >= items[i].qty
  /\ asked' = [asked EXCEPT ![c] = <<o, items>>]
  /\ UNCHANGED <<rows, moved, holds, vstock, layers, summary, charged, method>>

Reserve(c) == /\ asked[c] # <<>>
              /\ Ends(Each(Loop("reserve", asked[c][1]), Tables, asked[c][2]))
              /\ asked' = [asked EXCEPT ![c] = <<>>]
              /\ UNCHANGED method

Release(o, items) == /\ Simple(items)
                     /\ Ends(Each(Loop("release", o), Tables, items))
                     /\ UNCHANGED <<method, asked>>

\* An administrator changes the setting; nothing is converted.
SetMethod(m) == /\ method # m
                /\ method' = m
                /\ UNCHANGED <<rows, moved, holds, vstock, layers, summary, charged, asked>>

\* The bounds of the model.
Came(S, p) == Total([i \in DOMAIN S.layers[p] |-> S.layers[p][i].orig], DOMAIN S.layers[p])
Bounded == \A p \in Products :
             /\ Came(Tables, p)' <= MaxInbound
             /\ \A x \in Places : moved[p][x]' \in -MaxMoved .. MaxMoved
             /\ holds'[p] \in -MaxMoved .. MaxMoved

Operation ==
  \/ \E x \in Places, p \in Products, n \in Adjustments : Adjust(x, p, n)
  \/ \E o \in Outlets, items \in Orders :
       \/ Restore(o, items) \/ Deduct(o, items) \/ Sell(o, items) \/ Release(o, items)
       \/ \E c \in Callers : Ask(c, o, items)
  \/ \E c \in Callers : Reserve(c)
  \/ \E m \in Methods : SetMethod(m)

Next == Operation /\ Bounded

Spec == Init /\ [][Next]_vars

-----------------------------------------------------------------------------
Row == [q : Nat, r : Nat]

\* The type invariant; with it, reservations of a row never exceed its stock.
TypeOK ==
  /\ \A p \in Products : /\ DOMAIN rows[p] \subseteq Places
                         /\ \A x \in DOMAIN rows[p] :
                              rows[p][x] \in Row /\ rows[p][x].r <= rows[p][x].q
  /\ moved \in [Products -> [Places -> Int]]
  /\ holds \in [Products -> Int]
  /\ vstock \in [Variants -> Nat]
  /\ layers \in [Products -> Seq([orig : Nat \ {0}, rem : Nat, used : Nat])]
  /\ summary \in [Products -> Nat]
  /\ charged \in [Products -> Nat]
  /\ method \in Methods
  /\ asked \in [Callers -> {<<>>} \cup (Outlets \X Orders)]

\* A product that has one row of stock, its outlet's or the company's.
OneRow(S, p) == \A x, y \in DOMAIN S.rows[p] : x = y
Stock(S, p) == Total([x \in DOMAIN S.rows[p] |-> S.rows[p][x].q], DOMAIN S.rows[p])
Reserved(S, p) == Total([x \in DOMAIN S.rows[p] |-> S.rows[p][x].r], DOMAIN S.rows[p])
Used(S, p) == Total([i \in DOMAIN S.layers[p] |-> S.layers[p][i].used], DOMAIN S.layers[p])

\* The stock of a product is the sum of its movements, whatever operations
\* succeed, stop half way or throw: no row is written without a movement and no
\* movement without a row (inventory_transactions beside every update).
StockAccounts ==
  \A p \in Products : OneRow(Tables, p) => Stock(Tables, p) = Total(moved[p], Places)

\* What a product has reserved is what the RESERVATION and RELEASE movements
\* say, also where a release asks for more than there is.
HoldsAccount ==
  \A p \in Products : OneRow(Tables, p) => Reserved(Tables, p) = holds[p]

\* The cost of what was sold is taken exactly once, from a layer or from the
\* summary, whichever method was set when it was sold; a layer never gives more
\* than it had (calculateCost, createCostLayer).
CostFollowsGoods ==
  \A p \in Products :
    /\ \A i \in DOMAIN layers[p] :
         layers[p][i].rem + layers[p][i].used = layers[p][i].orig
    /\ charged[p] = Used(Tables, p) + (Came(Tables, p) - summary[p])

\* What is on stock has a cost under every method, so that a sale that finds its
\* stock never fails for want of a layer, and an administrator may change the
\* method at any time (deductWithCost after the stock check).
StockIsCosted ==
  \A p \in Products : OneRow(Tables, p) =>
    Stock(Tables, p) <= OnLayers(Tables, p) /\ Stock(Tables, p) <= summary[p]

\* FIFO empties the oldest layer before it touches another, LIFO the newest.
LayersInOrder ==
  [][\A p \in Products : \A i, k \in DOMAIN layers[p] :
       /\ layers'[p][i].rem < layers[p][i].rem
       /\ IF method = "FIFO" THEN k < i ELSE k > i
       => layers'[p][k].rem = 0]_vars
=============================================================================
