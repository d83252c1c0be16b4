-------------------------- MODULE InventoryProofs --------------------------
(***************************************************************************)
(* What holds of Inventory for any number of products, outlets and layers, *)
(* and for operations on any list of items.                                *)
(*                                                                         *)
(* An operation is a loop over its items, so what it preserves is shown of *)
(* one line and then, by induction, of the loop.  The loops of a sale      *)
(* leave the accounts open until the last of them ended: each is measured  *)
(* by the quantity its first n items ask for (Wanted).                     *)
(***************************************************************************)
EXTENDS Inventory, SumLemmas, NaturalsInduction

-----------------------------------------------------------------------------
(* Induction over numbers, for a claim given as a set, and the loop. *)

LEMMA Ladder ==
  ASSUME NEW N \in Nat, NEW G, 0 \in G,
         \A n \in 1 .. N : n - 1 \in G => n \in G
  PROVE  N \in G
<1> DEFINE B == (0 .. N) \ G
<1>1. SUFFICES ASSUME N \notin G PROVE FALSE
  OBVIOUS
<1>2. IsWellFoundedOn(OpToRel(<, Nat), Nat)
  BY NatLessThanWellFounded
<1>3. B \subseteq Nat /\ N \in B
  BY <1>1
<1> HIDE DEF B
<1>4. PICK m \in B : \A n \in B : <<n, m>> \notin OpToRel(<, Nat)
  BY <1>2, <1>3, WFMin
<1>5. \A n \in B : ~(n < m)
  BY <1>3, <1>4 DEF OpToRel
<1>6. m \in 1 .. N /\ m - 1 \in 0 .. N
  BY <1>3 DEF B
<1>7. m - 1 \in G
  BY <1>5, <1>6 DEF B
<1> QED BY <1>6, <1>7 DEF B

\* a is what the loop computes, item after item, on its first N items.
Trace(a, k, S, items, N) ==
  a = [n \in 0 .. N |->
         IF n = 0 THEN Ok(S)
         ELSE IF a[n - 1].end = "ok" THEN Body(k, a[n - 1].st, items[n]) ELSE a[n - 1]]

LEMMA TraceExists ==
  ASSUME NEW k, NEW S, NEW items, NEW N \in Nat
  PROVE  \E a : Trace(a, k, S, items, N)
<1> DEFINE G == {n \in Nat : \E a : Trace(a, k, S, items, n)}
<1>1. 0 \in G
  <2>1. Trace([n \in 0 .. 0 |-> Ok(S)], k, S, items, 0)
    BY DEF Trace
  <2> QED BY <2>1
<1>2. ASSUME NEW n \in 1 .. N, n - 1 \in G PROVE n \in G
  <2>1. PICK a : Trace(a, k, S, items, n - 1)
    BY <1>2
  <2> DEFINE last == IF a[n - 1].end = "ok" THEN Body(k, a[n - 1].st, items[n]) ELSE a[n - 1]
             b == [i \in 0 .. n |-> IF i = n THEN last ELSE a[i]]
  <2>2. \A i \in 0 .. n - 1 : b[i] = a[i]
    OBVIOUS
  <2>3. b[n] = last
    OBVIOUS
  <2>4. \A i \in 0 .. n :
          b[i] = IF i = 0 THEN Ok(S)
                 ELSE IF b[i - 1].end = "ok" THEN Body(k, b[i - 1].st, items[i]) ELSE b[i - 1]
    <3> TAKE i \in 0 .. n
    <3>1. CASE i = n
      <4>1. b[i - 1] = a[n - 1] /\ i # 0 /\ b[i] = last
        BY <2>2, <2>3, <3>1
      <4> HIDE DEF b
      <4> QED BY <3>1, <4>1
    <3>2. CASE i = 0
      <4>1. a[0] = Ok(S) /\ b[i] = a[i]
        BY <2>1, <2>2, <3>2 DEF Trace
      <4> HIDE DEF b
      <4> QED BY <3>2, <4>1
    <3>3. CASE i # n /\ i # 0
      <4>1. i - 1 \in 0 .. n - 1 /\ i \in 0 .. n - 1
        BY <3>3
      <4>2. b[i] = a[i] /\ b[i - 1] = a[i - 1]
        BY <2>2, <4>1
      <4>3. a[i] = IF a[i - 1].end = "ok" THEN Body(k, a[i - 1].st, items[i]) ELSE a[i - 1]
        BY <2>1, <3>3, <4>1 DEF Trace
      <4> HIDE DEF b
      <4> QED BY <3>3, <4>2, <4>3
    <3> QED BY <3>1, <3>2, <3>3
  <2>5. DOMAIN b = 0 .. n /\ b = [i \in DOMAIN b |-> b[i]]
    OBVIOUS
  <2> HIDE DEF b
  <2>6. Trace(b, k, S, items, n)
    BY <2>4, <2>5 DEF Trace
  <2> QED BY <2>6
<1> HIDE DEF G
<1>3. N \in G
  BY <1>1, <1>2, Ladder
<1> QED BY <1>3 DEF G

LEMMA EachIsTrace ==
  ASSUME NEW k, NEW S, NEW items
  PROVE  Each(k, S, items) = (CHOOSE a : Trace(a, k, S, items, Len(items)))[Len(items)]
BY DEF Each, Trace

LEMMA EachSteps ==
  ASSUME NEW k, NEW S, NEW items, Len(items) \in Nat
  PROVE  \E a : /\ a[0] = Ok(S)
                /\ \A n \in 1 .. Len(items) :
                     a[n] = IF a[n - 1].end = "ok" THEN Body(k, a[n - 1].st, items[n])
                            ELSE a[n - 1]
                /\ Each(k, S, items) = a[Len(items)]
<1> DEFINE N == Len(items)
           a == CHOOSE f : Trace(f, k, S, items, N)
<1>1. Trace(a, k, S, items, N)
  BY TraceExists
<1>2. Each(k, S, items) = a[N]
  BY EachIsTrace
<1> HIDE DEF a
<1>3. /\ a[0] = Ok(S)
      /\ \A n \in 1 .. N : a[n] = IF a[n - 1].end = "ok" THEN Body(k, a[n - 1].st, items[n])
                                  ELSE a[n - 1]
  BY <1>1 DEF Trace
<1> QED BY <1>2, <1>3

-----------------------------------------------------------------------------
(* The tables an operation works on. *)

Rows == UNION {[X -> Row] : X \in SUBSET Places}
Layer == [orig : Nat \ {0}, rem : Nat, used : Nat]
Item == [good : Goods, qty : Nat \ {0}]

Store == [rows : [Products -> Rows], moved : [Products -> [Places -> Int]],
          holds : [Products -> Int], vstock : [Variants -> Nat],
          layers : [Products -> Seq(Layer)], summary : [Products -> Nat],
          charged : [Products -> Nat]]

LEMMA RowsOf ==
  ASSUME NEW f \in Rows
  PROVE  /\ DOMAIN f \subseteq Places /\ IsFiniteSet(DOMAIN f)
         /\ f \in [DOMAIN f -> Row]
         /\ \A x \in DOMAIN f : f[x].q \in Nat /\ f[x].r \in Nat
<1>1. PICK X \in SUBSET Places : f \in [X -> Row]
  BY DEF Rows
<1>2. IsFiniteSet(Places)
  BY InventoryAssumption, FS_AddElement DEF Places
<1>3. IsFiniteSet(X)
  BY <1>2, FS_Subset
<1> QED BY <1>1, <1>3 DEF Row

LEMMA IntoRows ==
  ASSUME NEW X \in SUBSET Places, NEW f \in [X -> Row]
  PROVE  f \in Rows
BY DEF Rows

-----------------------------------------------------------------------------
(* What the rows and the layers of one product add up to. *)

One(f) == \A x, y \in DOMAIN f : x = y
Qty(f) == Total([x \in DOMAIN f |-> f[x].q], DOMAIN f)
Res(f) == Total([x \in DOMAIN f |-> f[x].r], DOMAIN f)
Rem(L) == Total([i \in DOMAIN L |-> L[i].rem], DOMAIN L)
Use(L) == Total([i \in DOMAIN L |-> L[i].used], DOMAIN L)
Orig(L) == Total([i \in DOMAIN L |-> L[i].orig], DOMAIN L)

\* The rows of a product that has one: f rows, m movements, h reservations, L
\* layers, s summary.
RowFits(f, m, h, L, s) ==
  One(f) => /\ Qty(f) = Total(m, Places) /\ Res(f) = h
            /\ Qty(f) <= Rem(L) /\ Qty(f) <= s

\* The cost of a product: c charged.
CostFits(L, s, c) ==
  /\ \A i \in DOMAIN L : L[i].rem + L[i].used = L[i].orig
  /\ c = Use(L) + (Orig(L) - s)

Fits(S, p) == /\ RowFits(S.rows[p], S.moved[p], S.holds[p], S.layers[p], S.summary[p])
              /\ CostFits(S.layers[p], S.summary[p], S.charged[p])

Sound(S) == S \in Store /\ Legal(S) /\ \A p \in Products : Fits(S, p)

LEMMA Readings ==
  \A S, p : /\ OneRow(S, p) <=> One(S.rows[p])
            /\ Stock(S, p) = Qty(S.rows[p]) /\ Reserved(S, p) = Res(S.rows[p])
            /\ OnLayers(S, p) = Rem(S.layers[p]) /\ Used(S, p) = Use(S.layers[p])
            /\ Came(S, p) = Orig(S.layers[p])
BY DEF OneRow, One, Stock, Qty, Reserved, Res, OnLayers, Remaining, Rem, Used, Use, Came, Orig

\* A product without a row has nothing, one with a row what the row says.
LEMMA QtyEmpty == \A f : DOMAIN f = {} => Qty(f) = 0 /\ Res(f) = 0
BY SumEmpty DEF Qty, Res, Total

LEMMA QtySingle ==
  ASSUME NEW f, NEW x, DOMAIN f = {x}, f[x].q \in Int, f[x].r \in Int
  PROVE  Qty(f) = f[x].q /\ Res(f) = f[x].r
<1>1. /\ [y \in DOMAIN f |-> f[y].q][x] = f[x].q
      /\ [y \in DOMAIN f |-> f[y].r][x] = f[x].r
  OBVIOUS
<1> QED BY <1>1, SumSingle DEF Qty, Res, Total

LEMMA QtyType ==
  ASSUME NEW f \in Rows
  PROVE  Qty(f) \in Nat /\ Res(f) \in Nat
<1>1. /\ \A x \in DOMAIN f : [y \in DOMAIN f |-> f[y].q][x] \in Nat
      /\ \A x \in DOMAIN f : [y \in DOMAIN f |-> f[y].r][x] \in Nat
  BY RowsOf
<1> QED BY <1>1, RowsOf, SumNonNegative DEF Qty, Res, Total

LEMMA MovedType ==
  ASSUME NEW m \in [Places -> Int]
  PROVE  Total(m, Places) \in Int
<1>1. IsFiniteSet(Places)
  BY InventoryAssumption, FS_AddElement DEF Places
<1> QED BY <1>1, SumType DEF Total

LEMMA MovedBy ==
  ASSUME NEW m \in [Places -> Int], NEW o \in Places, NEW n \in Int
  PROVE  Total([m EXCEPT ![o] = @ + n], Places) = Total(m, Places) + n
<1> DEFINE w == [m EXCEPT ![o] = @ + n]
<1>1. IsFiniteSet(Places)
  BY InventoryAssumption, FS_AddElement DEF Places
<1>2. /\ \A x \in Places : m[x] \in Int /\ w[x] \in Int
      /\ \A x \in Places \ {o} : w[x] = m[x]
      /\ w[o] = m[o] + n
  OBVIOUS
<1>3. SumFunctionOnSet(w, Places) = SumFunctionOnSet(m, Places) + w[o] - m[o]
  <2> HIDE DEF w
  <2> QED BY <1>1, <1>2, SumChange
<1>4. SumFunctionOnSet(m, Places) \in Int
  BY <1>1, SumType
<1> HIDE DEF w
<1>5. SumFunctionOnSet(w, Places) = SumFunctionOnSet(m, Places) + n
  BY <1>2, <1>3, <1>4
<1> QED BY <1>5 DEF Total, w

LEMMA LayerNumbers ==
  ASSUME NEW L \in Seq(Layer)
  PROVE  /\ Len(L) \in Nat /\ DOMAIN L = 1 .. Len(L) /\ IsFiniteSet(DOMAIN L)
         /\ \A i \in DOMAIN L : L[i] \in Layer /\ L[i].rem \in Nat /\ L[i].used \in Nat
                                /\ L[i].orig \in Nat
         /\ Rem(L) \in Nat /\ Use(L) \in Nat /\ Orig(L) \in Nat
<1>1. /\ Len(L) \in Nat /\ DOMAIN L = 1 .. Len(L)
      /\ \A i \in DOMAIN L : L[i] \in Layer
  OBVIOUS
<1>2. IsFiniteSet(DOMAIN L)
  BY <1>1, FS_Interval
<1>3. \A i \in DOMAIN L : L[i].rem \in Nat /\ L[i].used \in Nat /\ L[i].orig \in Nat
  BY <1>1 DEF Layer
<1>4. /\ \A i \in DOMAIN L : [j \in DOMAIN L |-> L[j].rem][i] \in Nat
      /\ \A i \in DOMAIN L : [j \in DOMAIN L |-> L[j].used][i] \in Nat
      /\ \A i \in DOMAIN L : [j \in DOMAIN L |-> L[j].orig][i] \in Nat
  BY <1>3
<1>5. Rem(L) \in Nat /\ Use(L) \in Nat /\ Orig(L) \in Nat
  BY <1>2, <1>4, SumNonNegative DEF Rem, Use, Orig, Total
<1> QED BY <1>1, <1>2, <1>3, <1>5

LEMMA SumExtended ==
  ASSUME NEW S, IsFiniteSet(S), NEW x, x \notin S, NEW f, NEW g, f[x] \in Int,
         \A i \in S : g[i] \in Int /\ f[i] = g[i]
  PROVE  SumFunctionOnSet(f, S \cup {x}) = SumFunctionOnSet(g, S) + f[x]
<1>1. SumFunctionOnSet(f, S \cup {x}) = f[x] + SumFunctionOnSet(f, S)
  BY SumAdd
<1>2. SumFunctionOnSet(f, S) = SumFunctionOnSet(g, S)
  BY SumSame
<1>3. SumFunctionOnSet(g, S) \in Int
  BY SumType
<1> QED BY <1>1, <1>2, <1>3

\* A layer more.
LEMMA LayerAdded ==
  ASSUME NEW L \in Seq(Layer), NEW n \in Nat \ {0}
  PROVE  LET M == Append(L, [orig |-> n, rem |-> n, used |-> 0])
         IN  /\ M \in Seq(Layer)
             /\ DOMAIN L \subseteq DOMAIN M /\ \A i \in DOMAIN L : M[i] = L[i]
             /\ \A i \in DOMAIN M \ DOMAIN L : M[i].rem + M[i].used = M[i].orig
             /\ Rem(M) = Rem(L) + n /\ Use(M) = Use(L) /\ Orig(M) = Orig(L) + n
<1> DEFINE l == [orig |-> n, rem |-> n, used |-> 0]
           M == Append(L, l)
           N == Len(L) + 1
<1>1. l \in Layer /\ l.rem = n /\ l.used = 0 /\ l.orig = n
  BY DEF Layer
<1>2. /\ M \in Seq(Layer) /\ Len(L) \in Nat /\ DOMAIN L = 1 .. Len(L)
      /\ DOMAIN M = 1 .. N /\ M[N] = l /\ \A i \in DOMAIN L : M[i] = L[i]
  BY <1>1
<1> HIDE DEF l, M
<1>3. DOMAIN M = DOMAIN L \cup {N} /\ N \notin DOMAIN L
  BY <1>2
<1>4. IsFiniteSet(DOMAIN L)
  BY <1>2, FS_Interval
<1>5. \A i \in DOMAIN L : L[i].rem \in Nat /\ L[i].used \in Nat /\ L[i].orig \in Nat
  BY LayerNumbers
<1>6. M[N].rem = n /\ M[N].used = 0 /\ M[N].orig = n
  BY <1>1, <1>2
<1>0. N \in DOMAIN M /\ \A i \in DOMAIN L : i \in DOMAIN M /\ M[i] = L[i]
  BY <1>2, <1>3
<1> HIDE DEF N
<1>7. Rem(M) = Rem(L) + n
  <2> DEFINE f == [i \in DOMAIN M |-> M[i].rem]
             g == [i \in DOMAIN L |-> L[i].rem]
  <2>1. f[N] = n /\ f[N] \in Int
    BY <1>0, <1>6
  <2>0. \A i \in DOMAIN L : g[i] \in Int /\ f[i] = g[i]
    BY <1>0, <1>5
  <2> HIDE DEF f, g
  <2>2. SumFunctionOnSet(f, DOMAIN L \cup {N}) = SumFunctionOnSet(g, DOMAIN L) + f[N]
    BY <1>3, <1>4, <2>0, <2>1, SumExtended
  <2> QED BY <1>3, <2>1, <2>2 DEF Rem, Total, f, g
<1>8. Use(M) = Use(L)
  <2> DEFINE f == [i \in DOMAIN M |-> M[i].used]
             g == [i \in DOMAIN L |-> L[i].used]
  <2>1. f[N] = 0 /\ f[N] \in Int
    BY <1>0, <1>6
  <2>0. \A i \in DOMAIN L : g[i] \in Int /\ f[i] = g[i]
    BY <1>0, <1>5
  <2> HIDE DEF f, g
  <2>2. SumFunctionOnSet(f, DOMAIN L \cup {N}) = SumFunctionOnSet(g, DOMAIN L) + f[N]
    BY <1>3, <1>4, <2>0, <2>1, SumExtended
  <2>3. SumFunctionOnSet(g, DOMAIN L) \in Int
    BY <1>4, <2>0, SumType
  <2>4. SumFunctionOnSet(f, DOMAIN L \cup {N}) = SumFunctionOnSet(g, DOMAIN L)
    BY <2>1, <2>2, <2>3
  <2> QED BY <1>3, <2>4 DEF Use, Total, f, g
<1>9. Orig(M) = Orig(L) + n
  <2> DEFINE f == [i \in DOMAIN M |-> M[i].orig]
             g == [i \in DOMAIN L |-> L[i].orig]
  <2>1. f[N] = n /\ f[N] \in Int
    BY <1>0, <1>6
  <2>0. \A i \in DOMAIN L : g[i] \in Int /\ f[i] = g[i]
    BY <1>0, <1>5
  <2> HIDE DEF f, g
  <2>2. SumFunctionOnSet(f, DOMAIN L \cup {N}) = SumFunctionOnSet(g, DOMAIN L) + f[N]
    BY <1>3, <1>4, <2>0, <2>1, SumExtended
  <2> QED BY <1>3, <2>1, <2>2 DEF Orig, Total, f, g
<1>10. \A i \in DOMAIN M \ DOMAIN L : M[i].rem + M[i].used = M[i].orig
  BY <1>3, <1>6
<1> QED BY <1>2, <1>3, <1>7, <1>8, <1>9, <1>10 DEF M, l

-----------------------------------------------------------------------------
(* What the loop over the layers consumes. *)

LEMMA SumTogether ==
  ASSUME NEW S, IsFiniteSet(S), NEW f, NEW g, NEW h,
         \A x \in S : f[x] \in Int /\ g[x] \in Int /\ h[x] = f[x] + g[x]
  PROVE  SumFunctionOnSet(h, S) = SumFunctionOnSet(f, S) + SumFunctionOnSet(g, S)
<1> DEFINE G == {T \in SUBSET S : SumFunctionOnSet(h, T)
                                  = SumFunctionOnSet(f, T) + SumFunctionOnSet(g, T)}
<1>1. ASSUME NEW T \in SUBSET S, \A U \in SUBSET T : U # T => U \in G PROVE T \in G
  <2>1. CASE T = {}
    BY <2>1, SumEmpty
  <2>2. CASE T # {}
    <3>1. PICK x \in T : TRUE
      BY <2>2
    <3> DEFINE W == T \ {x}
    <3>2. IsFiniteSet(T) /\ IsFiniteSet(W) /\ W \in SUBSET T /\ W # T
      BY <3>1, FS_Subset
    <3>3. SumFunctionOnSet(h, W) = SumFunctionOnSet(f, W) + SumFunctionOnSet(g, W)
      BY <1>1, <3>2
    <3>4. /\ SumFunctionOnSet(f, T) = f[x] + SumFunctionOnSet(f, W)
          /\ SumFunctionOnSet(g, T) = g[x] + SumFunctionOnSet(g, W)
          /\ SumFunctionOnSet(h, T) = h[x] + SumFunctionOnSet(h, W)
      BY <3>1, <3>2, SumRemove
    <3>5. SumFunctionOnSet(f, W) \in Int /\ SumFunctionOnSet(g, W) \in Int
      BY <3>2, SumType
    <3>6. f[x] \in Int /\ g[x] \in Int /\ h[x] = f[x] + g[x]
      BY <3>1
    <3> QED BY <3>3, <3>4, <3>5, <3>6
  <2> QED BY <2>1, <2>2
<1> HIDE DEF G
<1>2. S \in G
  BY <1>1, FiniteInduction
<1> QED BY <1>2 DEF G

\* The first j layers in the order of the method.
First(L, m, j) == IF m = "FIFO" THEN 1 .. j ELSE (Len(L) - j + 1) .. Len(L)
At(L, m, j) == IF m = "FIFO" THEN j ELSE Len(L) - j + 1

LEMMA FirstLayers ==
  ASSUME NEW L \in Seq(Layer), NEW m, NEW j \in 1 .. Len(L)
  PROVE  /\ First(L, m, 0) = {} /\ First(L, m, Len(L)) = DOMAIN L
         /\ First(L, m, j) = First(L, m, j - 1) \cup {At(L, m, j)}
         /\ At(L, m, j) \notin First(L, m, j - 1) /\ At(L, m, j) \in DOMAIN L
         /\ First(L, m, j - 1) \subseteq DOMAIN L
         /\ First(L, m, j - 1) =
              {k \in DOMAIN L : IF m = "FIFO" THEN k < At(L, m, j) ELSE k > At(L, m, j)}
<1>1. Len(L) \in Nat /\ DOMAIN L = 1 .. Len(L)
  OBVIOUS
<1>2. CASE m = "FIFO"
  BY <1>1, <1>2 DEF First, At
<1>3. CASE m # "FIFO"
  BY <1>1, <1>3 DEF First, At
<1> QED BY <1>2, <1>3

LEMMA TakenType ==
  ASSUME NEW S, NEW p, S.layers[p] \in Seq(Layer), NEW m, NEW n \in Nat,
         NEW i \in DOMAIN S.layers[p]
  PROVE  /\ Taken(S, p, m, n, i) \in 0 .. S.layers[p][i].rem
         /\ Total(Remaining(S, p), Before(S, p, m, i)) \in Nat
<1> DEFINE L == S.layers[p]
<1>1. /\ Before(S, p, m, i) \subseteq DOMAIN L /\ IsFiniteSet(DOMAIN L)
      /\ \A k \in DOMAIN L : Remaining(S, p)[k] \in Nat
  BY LayerNumbers DEF Before, Remaining
<1>2. IsFiniteSet(Before(S, p, m, i))
  BY <1>1, FS_Subset
<1>3. Total(Remaining(S, p), Before(S, p, m, i)) \in Nat
  BY <1>1, <1>2, SumNonNegative DEF Total
<1>4. L[i].rem \in Nat
  BY LayerNumbers
<1> HIDE DEF L
<1> QED BY <1>3, <1>4 DEF Taken, Least, Most, L

\* Of the first layers the loop takes all they have, but not more than it needs.
LEMMA TakenOfFirst ==
  ASSUME NEW S, NEW p, S.layers[p] \in Seq(Layer), NEW m, NEW n \in Nat
  PROVE  SumFunctionOnSet([i \in DOMAIN S.layers[p] |-> Taken(S, p, m, n, i)],
                          DOMAIN S.layers[p])
           = Least(n, OnLayers(S, p))
<1> DEFINE L == S.layers[p]
           N == Len(L)
           t == [i \in DOMAIN L |-> Taken(S, p, m, n, i)]
           r == Remaining(S, p)
           F(j) == First(L, m, j)
           G == {j \in 0 .. N : SumFunctionOnSet(t, F(j)) = Least(n, SumFunctionOnSet(r, F(j)))}
<1>1. N \in Nat /\ IsFiniteSet(DOMAIN L) /\ DOMAIN L = 1 .. N
  BY LayerNumbers
<1>2. \A i \in DOMAIN L : t[i] \in Nat /\ r[i] \in Nat /\ r[i] = L[i].rem
                          /\ t[i] = Taken(S, p, m, n, i)
  <2> TAKE i \in DOMAIN L
  <2>1. L[i].rem \in Nat /\ Taken(S, p, m, n, i) \in 0 .. L[i].rem
    BY TakenType, LayerNumbers
  <2>2. r[i] = L[i].rem /\ t[i] = Taken(S, p, m, n, i)
    BY DEF Remaining
  <2> HIDE DEF r, t, L
  <2> QED BY <2>1, <2>2
<1>3. F(0) = {} /\ F(N) = DOMAIN L
  BY <1>1 DEF First
<1>4. 0 \in G
  <2>1. SumFunctionOnSet(t, F(0)) = 0 /\ SumFunctionOnSet(r, F(0)) = 0
    BY <1>3, SumEmpty
  <2>2. Least(n, 0) = 0 /\ 0 \in 0 .. N
    BY <1>1 DEF Least
  <2> HIDE DEF t, r, F, N
  <2> QED BY <2>1, <2>2
<1>5. ASSUME NEW j \in 1 .. N, j - 1 \in G PROVE j \in G
  <2> DEFINE x == At(L, m, j)
             W == F(j - 1)
  <2>1. F(j) = W \cup {x} /\ x \notin W /\ x \in DOMAIN L /\ W \subseteq DOMAIN L
    <3> L \in Seq(Layer)
      OBVIOUS
    <3> HIDE DEF L
    <3> QED BY FirstLayers
  <2>2. W = Before(S, p, m, x)
    <3> L \in Seq(Layer)
      OBVIOUS
    <3> HIDE DEF L
    <3>1. W = {k \in DOMAIN L : IF m = "FIFO" THEN k < x ELSE k > x}
      BY FirstLayers
    <3> QED BY <3>1 DEF Before, L
  <2>3. IsFiniteSet(W)
    BY <1>1, <2>1, FS_Subset
  <2>4. /\ SumFunctionOnSet(t, W) = Least(n, SumFunctionOnSet(r, W))
        /\ SumFunctionOnSet(r, W) \in Nat
    BY <1>2, <1>5, <2>1, <2>3, SumNonNegative
  <2>5. t[x] = Least(r[x], Most(0, n - SumFunctionOnSet(r, W)))
    BY <1>2, <2>1, <2>2 DEF Taken, Total
  <2>6. r[x] \in Nat /\ t[x] \in Nat
    BY <1>2, <2>1
  <2>7. /\ SumFunctionOnSet(t, F(j)) = t[x] + SumFunctionOnSet(t, W)
        /\ SumFunctionOnSet(r, F(j)) = r[x] + SumFunctionOnSet(r, W)
    <3> HIDE DEF t, r, x, F, L, W
    <3>1. \A i \in W \cup {x} : t[i] \in Int /\ r[i] \in Int
      BY <1>2, <2>1
    <3> QED BY <2>1, <2>3, <3>1, SumAdd
  <2> HIDE DEF t, r, x, F, W, G
  <2>8. SumFunctionOnSet(t, F(j)) = Least(n, SumFunctionOnSet(r, F(j)))
    BY <2>4, <2>5, <2>6, <2>7 DEF Least, Most
  <2> QED BY <1>1, <2>8 DEF G
<1>6. N \in G
  <2> HIDE DEF G
  <2> QED BY <1>1, <1>4, <1>5, Ladder
<1>7. SumFunctionOnSet(t, DOMAIN L) = Least(n, SumFunctionOnSet(r, DOMAIN L))
  BY <1>3, <1>6
<1> QED BY <1>7 DEF OnLayers, Total

\* No layer is touched before those in front of it are empty.
LEMMA TakenInOrder ==
  ASSUME NEW S, NEW p, S.layers[p] \in Seq(Layer), NEW m, NEW n \in Nat,
         NEW i \in DOMAIN S.layers[p], NEW k \in Before(S, p, m, i),
         Taken(S, p, m, n, i) > 0
  PROVE  Taken(S, p, m, n, k) = S.layers[p][k].rem
<1> DEFINE L == S.layers[p]
           r == Remaining(S, p)
           B(j) == Before(S, p, m, j)
<1>1. /\ Len(L) \in Nat /\ DOMAIN L = 1 .. Len(L) /\ IsFiniteSet(DOMAIN L)
      /\ \A j \in DOMAIN L : r[j] \in Nat /\ r[j] = L[j].rem
  BY LayerNumbers DEF Remaining
<1>2. k \in DOMAIN L /\ B(k) \cup {k} \subseteq B(i) /\ k \notin B(k) /\ B(i) \subseteq DOMAIN L
  BY <1>1 DEF Before
<1>3. IsFiniteSet(B(i)) /\ IsFiniteSet(B(k))
  BY <1>1, <1>2, FS_Subset
<1>4. SumFunctionOnSet(r, B(k) \cup {k}) <= SumFunctionOnSet(r, B(i))
  BY <1>1, <1>2, <1>3, SumOfSubset
<1>5. SumFunctionOnSet(r, B(k) \cup {k}) = r[k] + SumFunctionOnSet(r, B(k))
  <2>1. \A j \in B(k) \cup {k} : r[j] \in Int
    BY <1>1, <1>2
  <2> HIDE DEF r, B
  <2> QED BY <1>2, <1>3, <2>1, SumAdd
<1>6. SumFunctionOnSet(r, B(k)) \in Nat /\ SumFunctionOnSet(r, B(i)) \in Nat
  BY TakenType, <1>2 DEF Total
<1>7. SumFunctionOnSet(r, B(i)) < n
  BY <1>1, <1>6 DEF Taken, Least, Most, Total
<1>8. n - SumFunctionOnSet(r, B(k)) > r[k] /\ r[k] \in Nat /\ r[k] = L[k].rem
  <2>1. r[k] \in Nat /\ r[k] = L[k].rem
    BY <1>1, <1>2
  <2> HIDE DEF r, B, L
  <2> QED BY <1>4, <1>5, <1>6, <1>7, <2>1
<1> HIDE DEF r, B, L
<1>9. Taken(S, p, m, n, k) = Least(L[k].rem, Most(0, n - SumFunctionOnSet(r, B(k))))
  BY DEF Taken, Total, r, B, L
<1> QED BY <1>6, <1>8, <1>9 DEF Least, Most, L

\* The layers after the loop, M, when t was taken of the layers L.
LEMMA LayersTaken ==
  ASSUME NEW L \in Seq(Layer), NEW t, \A i \in DOMAIN L : t[i] \in 0 .. L[i].rem,
         NEW M \in Seq(Layer), DOMAIN M = DOMAIN L,
         \A i \in DOMAIN L : /\ M[i].orig = L[i].orig /\ M[i].rem = L[i].rem - t[i]
                             /\ M[i].used = L[i].used + t[i]
  PROVE  LET n == SumFunctionOnSet(t, DOMAIN L)
         IN  Rem(M) = Rem(L) - n /\ Use(M) = Use(L) + n /\ Orig(M) = Orig(L)
<1> DEFINE n == SumFunctionOnSet(t, DOMAIN L)
<1>1. IsFiniteSet(DOMAIN L) /\ Rem(M) \in Nat /\ Rem(L) \in Nat
  BY LayerNumbers
<1>2. \A i \in DOMAIN L : /\ L[i].rem \in Nat /\ L[i].used \in Nat /\ L[i].orig \in Nat
                          /\ M[i].rem \in Nat /\ t[i] \in Int
  BY LayerNumbers
<1>3. n \in Int
  BY <1>1, <1>2, SumType
<1>4. Rem(L) = Rem(M) + n
  <2> DEFINE f == [i \in DOMAIN M |-> M[i].rem]
             g == [i \in DOMAIN L |-> L[i].rem]
  <2>1. \A i \in DOMAIN L : f[i] \in Int /\ t[i] \in Int /\ g[i] = f[i] + t[i]
    BY <1>2
  <2> HIDE DEF f, g
  <2>2. SumFunctionOnSet(g, DOMAIN L)
          = SumFunctionOnSet(f, DOMAIN L) + SumFunctionOnSet(t, DOMAIN L)
    BY <1>1, <2>1, SumTogether
  <2> QED BY <2>2 DEF Rem, Total, f, g
<1>5. Use(M) = Use(L) + n
  <2> DEFINE f == [i \in DOMAIN M |-> M[i].used]
             g == [i \in DOMAIN L |-> L[i].used]
  <2>1. \A i \in DOMAIN L : g[i] \in Int /\ t[i] \in Int /\ f[i] = g[i] + t[i]
    BY <1>2
  <2> HIDE DEF f, g
  <2>2. SumFunctionOnSet(f, DOMAIN L)
          = SumFunctionOnSet(g, DOMAIN L) + SumFunctionOnSet(t, DOMAIN L)
    BY <1>1, <2>1, SumTogether
  <2> QED BY <2>2 DEF Use, Total, f, g
<1>6. Orig(M) = Orig(L)
  <2> DEFINE f == [i \in DOMAIN M |-> M[i].orig]
             g == [i \in DOMAIN L |-> L[i].orig]
  <2>1. \A i \in DOMAIN L : g[i] \in Int /\ f[i] = g[i]
    BY <1>2
  <2> HIDE DEF f, g
  <2>2. SumFunctionOnSet(f, DOMAIN L) = SumFunctionOnSet(g, DOMAIN L)
    BY <1>1, <2>1, SumSame
  <2> QED BY <2>2 DEF Orig, Total, f, g
<1> HIDE DEF n
<1>7. Rem(M) = Rem(L) - n
  BY <1>1, <1>3, <1>4
<1> QED BY <1>5, <1>6, <1>7 DEF n

LEMMA LayerLess ==
  ASSUME NEW l \in Layer, NEW u \in 0 .. l.rem
  PROVE  /\ Less(l, u) \in Layer /\ Less(l, u).orig = l.orig
         /\ Less(l, u).rem = l.rem - u /\ Less(l, u).used = l.used + u
<1> DEFINE k == Less(l, u)
<1>1. l.rem \in Nat /\ l.used \in Nat /\ l.orig \in Nat \ {0} /\ u \in Nat
  BY DEF Layer
<1>2. l.rem - u \in Nat /\ l.used + u \in Nat
  BY <1>1
<1>3. k.orig = l.orig /\ k.rem = l.rem - u /\ k.used = l.used + u
  BY DEF Layer, Less
<1>4. k \in Layer
  BY <1>1, <1>2 DEF Layer, Less
<1> QED BY <1>3, <1>4

\* M are the layers of p after the loop took n units of them by method m.
AfterLoop(S, p, m, n, M) ==
  M = [i \in DOMAIN S.layers[p] |-> Less(S.layers[p][i], Taken(S, p, m, n, i))]

LEMMA LoopType ==
  ASSUME NEW S, NEW p, NEW L \in Seq(Layer), S.layers[p] = L, NEW m, NEW n \in Nat,
         NEW M, AfterLoop(S, p, m, n, M)
  PROVE  M \in Seq(Layer)
<1> DEFINE t(i) == Taken(S, p, m, n, i)
<1>1. Len(L) \in Nat /\ DOMAIN L = 1 .. Len(L) /\ \A i \in DOMAIN L : L[i] \in Layer
  BY LayerNumbers
<1>2. \A i \in DOMAIN L : t(i) \in 0 .. L[i].rem
  BY TakenType
<1>3. /\ M = [i \in 1 .. Len(L) |-> M[i]]
      /\ \A i \in DOMAIN L : M[i] = Less(L[i], t(i))
  BY <1>1 DEF AfterLoop
<1> HIDE DEF t
<1>4. ASSUME NEW i \in DOMAIN L PROVE M[i] \in Layer
  BY <1>1, <1>2, <1>3, LayerLess
<1>5. M \in [1 .. Len(L) -> Layer]
  BY <1>1, <1>3, <1>4
<1> QED BY <1>1, <1>5

\* M are layers L less n units, which came of the first ones by method m.
TakenOff(L, M, m, n) ==
  /\ DOMAIN M = DOMAIN L
  /\ \A i \in DOMAIN L : /\ M[i].orig = L[i].orig /\ M[i].rem <= L[i].rem
                         /\ M[i].rem + M[i].used = L[i].rem + L[i].used
  /\ \A i, k \in DOMAIN L :
       M[i].rem < L[i].rem /\ (IF m = "FIFO" THEN k < i ELSE k > i) => M[k].rem = 0
  /\ Rem(M) = Rem(L) - n /\ Use(M) = Use(L) + n /\ Orig(M) = Orig(L)

LEMMA Consumed ==
  ASSUME NEW S, NEW p, NEW L \in Seq(Layer), S.layers[p] = L, NEW m, NEW n \in Nat,
         n <= OnLayers(S, p), NEW M \in Seq(Layer), AfterLoop(S, p, m, n, M)
  PROVE  TakenOff(L, M, m, n)
<1> DEFINE t == [i \in DOMAIN L |-> Taken(S, p, m, n, i)]
<1>1. \A i \in DOMAIN L : t[i] = Taken(S, p, m, n, i) /\ t[i] \in 0 .. L[i].rem
  BY TakenType
<1>2. /\ DOMAIN M = DOMAIN L
      /\ \A i \in DOMAIN L :
           /\ M[i].orig = L[i].orig /\ M[i].rem = L[i].rem - t[i]
           /\ M[i].used = L[i].used + t[i]
  <2>1. DOMAIN M = DOMAIN L /\ \A i \in DOMAIN L : M[i] = Less(L[i], Taken(S, p, m, n, i))
    BY DEF AfterLoop
  <2>2. \A i \in DOMAIN L : L[i] \in Layer
    BY LayerNumbers
  <2> HIDE DEF t
  <2> QED BY <1>1, <2>1, <2>2, LayerLess
<1>3. \A i \in DOMAIN L : L[i].rem \in Nat /\ L[i].used \in Nat
  BY LayerNumbers
<1>4. \A i \in DOMAIN L : /\ M[i].rem <= L[i].rem
                          /\ M[i].rem + M[i].used = L[i].rem + L[i].used
  <2> HIDE DEF t
  <2> TAKE i \in DOMAIN L
  <2>1. /\ L[i].rem \in Nat /\ L[i].used \in Nat /\ t[i] \in 0 .. L[i].rem
        /\ M[i].rem = L[i].rem - t[i] /\ M[i].used = L[i].used + t[i]
    BY <1>1, <1>2, <1>3
  <2> QED BY <2>1
<1>5. ASSUME NEW i \in DOMAIN L, NEW k \in DOMAIN L, M[i].rem < L[i].rem,
             IF m = "FIFO" THEN k < i ELSE k > i
      PROVE  M[k].rem = 0
  <2>1. k \in Before(S, p, m, i)
    BY <1>5 DEF Before
  <2>2. t[i] > 0
    <3> HIDE DEF t
    <3> QED BY <1>1, <1>2, <1>3, <1>5
  <2>3. Taken(S, p, m, n, i) > 0
    BY <2>2
  <2>4. Taken(S, p, m, n, k) = L[k].rem
    BY <2>1, <2>3, TakenInOrder
  <2>5. t[k] = L[k].rem
    BY <2>4
  <2> HIDE DEF t
  <2> QED BY <1>2, <1>3, <2>5
<1>6. SumFunctionOnSet(t, DOMAIN L) = n
  <2>1. OnLayers(S, p) = Rem(L) /\ Rem(L) \in Nat
    BY Readings, LayerNumbers
  <2>2. Least(n, OnLayers(S, p)) = n
    BY <2>1 DEF Least
  <2> QED BY <2>2, TakenOfFirst
<1>7. Rem(M) = Rem(L) - n /\ Use(M) = Use(L) + n /\ Orig(M) = Orig(L)
  <2> HIDE DEF t
  <2> QED BY <1>1, <1>2, <1>6, LayersTaken
<1> HIDE DEF t
<1> QED BY <1>2, <1>4, <1>5, <1>7 DEF TakenOff

-----------------------------------------------------------------------------
(* What a statement writes. *)

\* T is S but for product p.
Beside(S, T, p) ==
  \A x \in Products \ {p} :
    /\ T.rows[x] = S.rows[x] /\ T.moved[x] = S.moved[x] /\ T.holds[x] = S.holds[x]
    /\ T.layers[x] = S.layers[x] /\ T.summary[x] = S.summary[x]
    /\ T.charged[x] = S.charged[x]

SameCost(S, T) == T.layers = S.layers /\ T.summary = S.summary /\ T.charged = S.charged

LEMMA BesideTwice ==
  ASSUME NEW S, NEW T, NEW U, NEW p, Beside(S, T, p), Beside(T, U, p)
  PROVE  Beside(S, U, p)
BY DEF Beside

LEMMA FitsBeside ==
  ASSUME NEW S, NEW T, NEW p, Beside(S, T, p), \A x \in Products : Fits(S, x), Fits(T, p)
  PROVE  \A x \in Products : Fits(T, x)
<1> TAKE x \in Products
<1>1. CASE x = p
  BY <1>1
<1>2. CASE x # p
  BY <1>2 DEF Beside, Fits
<1> QED BY <1>1, <1>2

LEMMA StoreFields ==
  ASSUME NEW S \in Store, NEW p \in Products
  PROVE  /\ S.rows[p] \in Rows /\ S.moved[p] \in [Places -> Int] /\ S.holds[p] \in Int
         /\ S.layers[p] \in Seq(Layer) /\ S.summary[p] \in Nat /\ S.charged[p] \in Nat
BY DEF Store

LEMMA WithRowsIs ==
  ASSUME NEW S \in Store, NEW p \in Products, NEW f
  PROVE  LET T == WithRows(S, p, f)
         IN  /\ T.rows[p] = f /\ T.moved = S.moved /\ T.holds = S.holds
             /\ T.vstock = S.vstock /\ SameCost(S, T) /\ Beside(S, T, p)
             /\ f \in Rows => T \in Store
BY DEF WithRows, Store, SameCost, Beside

LEMMA LegalRows ==
  ASSUME NEW S \in Store, NEW p \in Products, NEW X \in SUBSET Places,
         NEW f \in [X -> [q : Int, r : Int]], Legal(WithRows(S, p, f))
  PROVE  f \in Rows
<1>1. WithRows(S, p, f).rows[p] = f
  BY WithRowsIs
<1>2. \A x \in X : 0 <= f[x].r /\ f[x].r <= f[x].q
  BY <1>1 DEF Legal
<1>3. \A x \in X : f[x] \in [q : Int, r : Int]
  OBVIOUS
<1>4. f \in [X -> Row]
  BY <1>2, <1>3 DEF Row
<1> QED BY <1>4, IntoRows

LEMMA LegalSame == \A S, T : T.rows = S.rows /\ Legal(S) => Legal(T)
BY DEF Legal

LEMMA MoveIs ==
  ASSUME NEW a, NEW S \in Store, a.end = "ok", a.st = S,
         NEW p \in Products, NEW o \in Places, NEW n \in Int
  PROVE  LET T == Move(a, o, p, n).st
         IN  /\ Move(a, o, p, n).end = "ok" /\ T \in Store
             /\ T.rows = S.rows /\ T.holds = S.holds
             /\ Total(T.moved[p], Places) = Total(S.moved[p], Places) + n
             /\ T.vstock = S.vstock /\ SameCost(S, T) /\ Beside(S, T, p)
<1> DEFINE m == S.moved[p]
           w == [m EXCEPT ![o] = @ + n]
           T == [S EXCEPT !.moved[p] = w]
<1>1. Move(a, o, p, n) = Ok(T)
  BY DEF Move
<1>2. m \in [Places -> Int]
  BY StoreFields
<1>3. w \in [Places -> Int] /\ Total(w, Places) = Total(m, Places) + n
  <2> HIDE DEF m
  <2>1. w \in [Places -> Int]
    BY <1>2
  <2>2. Total(w, Places) = Total(m, Places) + n
    BY <1>2, MovedBy
  <2> QED BY <2>1, <2>2
<1> HIDE DEF w
<1>4. /\ T \in Store /\ T.rows = S.rows /\ T.holds = S.holds /\ T.moved[p] = w
      /\ T.vstock = S.vstock /\ SameCost(S, T) /\ Beside(S, T, p)
  BY <1>3 DEF Store, SameCost, Beside
<1> HIDE DEF T
<1> QED BY <1>1, <1>3, <1>4 DEF Ok

LEMMA HoldIs ==
  ASSUME NEW a, NEW S \in Store, a.end = "ok", a.st = S,
         NEW p \in Products, NEW n \in Int
  PROVE  LET T == Hold(a, p, n).st
         IN  /\ Hold(a, p, n).end = "ok" /\ T \in Store
             /\ T.rows = S.rows /\ T.moved = S.moved
             /\ T.holds[p] = S.holds[p] + n
             /\ T.vstock = S.vstock /\ SameCost(S, T) /\ Beside(S, T, p)
<1> DEFINE h == S.holds[p] + n
           T == [S EXCEPT !.holds[p] = h]
<1>1. Hold(a, p, n) = Ok(T)
  BY DEF Hold
<1>2. h \in Int
  BY StoreFields
<1> HIDE DEF h
<1>3. /\ T \in Store /\ T.rows = S.rows /\ T.moved = S.moved /\ T.holds[p] = h
      /\ T.vstock = S.vstock /\ SameCost(S, T) /\ Beside(S, T, p)
  BY <1>2 DEF Store, SameCost, Beside
<1> HIDE DEF T
<1> QED BY <1>1, <1>3 DEF Ok, h

\* The outcome of createCostLayer.
LEMMA InboundIs ==
  ASSUME NEW a, NEW S \in Store, a.end = "ok", a.st = S,
         NEW p \in Products, NEW n \in Nat \ {0}, Inbound(a, p, n).end # "throw"
  PROVE  LET T == Inbound(a, p, n).st
         IN  /\ Inbound(a, p, n).end = "ok" /\ T \in Store
             /\ T.rows = S.rows /\ T.moved = S.moved /\ T.holds = S.holds
             /\ T.vstock = S.vstock /\ Beside(S, T, p)
             /\ T.layers[p] = Append(S.layers[p], [orig |-> n, rem |-> n, used |-> 0])
             /\ T.summary[p] = S.summary[p] + n /\ T.charged = S.charged
<1> DEFINE M == Append(S.layers[p], [orig |-> n, rem |-> n, used |-> 0])
           s == S.summary[p] + n
           T == [S EXCEPT !.layers[p] = M, !.summary[p] = s]
<1>1. Inbound(a, p, n) = Ok(T)
  BY DEF Inbound, Throw
<1>2. M \in Seq(Layer) /\ s \in Nat
  BY StoreFields, LayerAdded
<1> HIDE DEF M, s
<1>3. /\ T \in Store /\ T.rows = S.rows /\ T.moved = S.moved /\ T.holds = S.holds
      /\ T.vstock = S.vstock /\ Beside(S, T, p)
      /\ T.layers[p] = M /\ T.summary[p] = s /\ T.charged = S.charged
  <2> DEFINE U == [S EXCEPT !.layers[p] = M]
  <2>1. /\ U \in Store /\ U.rows = S.rows /\ U.moved = S.moved /\ U.holds = S.holds
        /\ U.vstock = S.vstock /\ Beside(S, U, p)
        /\ U.layers[p] = M /\ U.summary = S.summary /\ U.charged = S.charged
    BY <1>2 DEF Store, Beside
  <2>2. T = [U EXCEPT !.summary[p] = s]
    BY DEF Store
  <2> HIDE DEF U, T
  <2>3. /\ T \in Store /\ T.rows = U.rows /\ T.moved = U.moved /\ T.holds = U.holds
        /\ T.vstock = U.vstock /\ Beside(U, T, p)
        /\ T.layers = U.layers /\ T.summary[p] = s /\ T.charged = U.charged
    BY <1>2, <2>1, <2>2 DEF Store, Beside
  <2> QED BY <2>1, <2>3, BesideTwice
<1> HIDE DEF T
<1> QED BY <1>1, <1>3 DEF Ok, M, s

-----------------------------------------------------------------------------
(* What the rows of a product come to. *)

\* T is S with dq units more on stock, dr more of them reserved, of product p.
Wrote(S, T, p, dq, dr) ==
  /\ T \in Store /\ Legal(T) /\ Beside(S, T, p)
  /\ T.moved = S.moved /\ T.holds = S.holds /\ T.vstock = S.vstock /\ SameCost(S, T)
  /\ One(T.rows[p]) => /\ One(S.rows[p])
                       /\ Qty(T.rows[p]) = Qty(S.rows[p]) + dq
                       /\ Res(T.rows[p]) = Res(S.rows[p]) + dr

\* The rows of X with dq and dr added.
Added(f, X, dq, dr) ==
  [x \in DOMAIN f |-> IF x \in X THEN [q |-> f[x].q + dq, r |-> f[x].r + dr] ELSE f[x]]

LEMMA AddedIs ==
  ASSUME NEW f \in Rows, NEW X \in SUBSET DOMAIN f, NEW dq \in Int, NEW dr \in Int
  PROVE  LET g == Added(f, X, dq, dr)
         IN  /\ g \in [DOMAIN f -> [q : Int, r : Int]]
             /\ One(g) => One(f)
             /\ One(g) /\ X # {} => Qty(g) = Qty(f) + dq /\ Res(g) = Res(f) + dr
<1> DEFINE g == Added(f, X, dq, dr)
<1>1. \A x \in DOMAIN f : f[x] \in Row /\ f[x].q \in Nat /\ f[x].r \in Nat
  BY RowsOf
<1>2. DOMAIN g = DOMAIN f /\ \A x \in X : g[x] = [q |-> f[x].q + dq, r |-> f[x].r + dr]
  BY DEF Added
<1>3. g \in [DOMAIN f -> [q : Int, r : Int]]
  BY <1>1 DEF Added, Row
<1>4. One(g) => One(f)
  BY <1>2 DEF One
<1>5. ASSUME One(g), X # {} PROVE Qty(g) = Qty(f) + dq /\ Res(g) = Res(f) + dr
  <2>1. PICK x \in X : TRUE
    BY <1>5
  <2>2. DOMAIN f = {x} /\ DOMAIN g = {x}
    BY <1>2, <1>5, <2>1 DEF One
  <2> HIDE DEF g
  <2>3. f[x].q \in Int /\ f[x].r \in Int /\ g[x].q = f[x].q + dq /\ g[x].r = f[x].r + dr
    <3>1. g[x] = [q |-> f[x].q + dq, r |-> f[x].r + dr] /\ x \in DOMAIN f
      BY <1>2, <2>1
    <3>2. f[x].q \in Nat /\ f[x].r \in Nat
      BY <1>1, <3>1
    <3> QED BY <3>1, <3>2
  <2>4. Qty(f) = f[x].q /\ Res(f) = f[x].r
    BY <2>2, <2>3, QtySingle
  <2>5. Qty(g) = g[x].q /\ Res(g) = g[x].r
    BY <2>2, <2>3, QtySingle
  <2> QED BY <2>3, <2>4, <2>5
<1> QED BY <1>3, <1>4, <1>5

LEMMA ChangeIs ==
  ASSUME NEW S \in Store, NEW p \in Products, NEW X \in SUBSET DOMAIN S.rows[p], X # {},
         NEW dq \in Int, NEW dr \in Int, Statement(Change(S, p, X, dq, dr)).end # "throw"
  PROVE  /\ Statement(Change(S, p, X, dq, dr)).end = "ok"
         /\ Wrote(S, Statement(Change(S, p, X, dq, dr)).st, p, dq, dr)
<1> DEFINE f == S.rows[p]
           g == Added(f, X, dq, dr)
           T == WithRows(S, p, g)
<1>1. Change(S, p, X, dq, dr) = T
  BY DEF Change, Added
<1>2. Legal(T) /\ Statement(T) = Ok(T)
  BY <1>1 DEF Statement, Throw
<1>3. f \in Rows /\ DOMAIN f \subseteq Places
  BY StoreFields, RowsOf
<1>4. /\ g \in [DOMAIN f -> [q : Int, r : Int]]
      /\ One(g) => One(f) /\ Qty(g) = Qty(f) + dq /\ Res(g) = Res(f) + dr
  <2> HIDE DEF f
  <2>1. X \in SUBSET DOMAIN f
    BY DEF f
  <2> QED BY <1>3, <2>1, AddedIs
<1> HIDE DEF f, g
<1>5. g \in Rows
  BY <1>2, <1>3, <1>4, LegalRows
<1>6. Wrote(S, T, p, dq, dr)
  BY <1>2, <1>4, <1>5, WithRowsIs DEF Wrote, f
<1> HIDE DEF T
<1> QED BY <1>1, <1>2, <1>6 DEF Ok

\* A row is inserted where the product has none.
LEMMA InsertIs ==
  ASSUME NEW S \in Store, Legal(S), NEW p \in Products, NEW o \in Places, Missing(S, o, p),
         NEW n \in Nat, InsertRow(S, o, p, n).end # "throw"
  PROVE  /\ InsertRow(S, o, p, n).end = "ok"
         /\ Wrote(S, InsertRow(S, o, p, n).st, p, n, 0)
<1> DEFINE f == S.rows[p]
           g == [x \in DOMAIN f \cup {o} |-> IF x = o THEN [q |-> n, r |-> 0] ELSE f[x]]
           T == WithRows(S, p, g)
<1>1. InsertRow(S, o, p, n) = Ok(T)
  BY DEF InsertRow, Throw
<1>2. f \in Rows /\ DOMAIN f \subseteq Places /\ \A x \in DOMAIN f : f[x] \in Row
  BY StoreFields, RowsOf
<1>3. o \notin DOMAIN f
  BY DEF Missing, Matching
<1>4. \A x \in DOMAIN f : 0 <= f[x].r /\ f[x].r <= f[x].q
  BY DEF Legal
<1>5. /\ DOMAIN g = DOMAIN f \cup {o} /\ g[o] = [q |-> n, r |-> 0]
      /\ \A x \in DOMAIN f : g[x] = f[x]
  BY <1>3
<1>6. g \in Rows
  <2>1. g \in [DOMAIN f \cup {o} -> Row]
    BY <1>2 DEF Row
  <2>2. DOMAIN f \cup {o} \in SUBSET Places
    BY <1>2
  <2> HIDE DEF f, g
  <2> QED BY <2>1, <2>2, IntoRows
<1>7. \A x \in DOMAIN g : 0 <= g[x].r /\ g[x].r <= g[x].q
  <2> TAKE x \in DOMAIN g
  <2>1. CASE x = o
    BY <1>5, <2>1
  <2>2. CASE x # o
    <3>1. x \in DOMAIN f /\ g[x] = f[x]
      BY <1>5, <2>2
    <3> HIDE DEF f, g
    <3> QED BY <1>4, <3>1
  <2> QED BY <2>1, <2>2
<1>8. One(g) => One(f) /\ Qty(g) = Qty(f) + n /\ Res(g) = Res(f) + 0
  <2> HAVE One(g)
  <2>1. DOMAIN f = {} /\ DOMAIN g = {o}
    BY <1>3, <1>5 DEF One
  <2>2. Qty(f) = 0 /\ Res(f) = 0 /\ One(f)
    BY <2>1, QtyEmpty DEF One
  <2>3. g[o].q = n /\ g[o].r = 0
    BY <1>5
  <2> HIDE DEF f, g
  <2>4. Qty(g) = n /\ Res(g) = 0
    BY <2>1, <2>3, QtySingle
  <2> QED BY <2>2, <2>4
<1> HIDE DEF f, g
<1>9. Legal(T)
  <2> SUFFICES ASSUME NEW y \in Products
               PROVE  \A x \in DOMAIN T.rows[y] :
                        0 <= T.rows[y][x].r /\ T.rows[y][x].r <= T.rows[y][x].q
    BY DEF Legal
  <2>1. T.rows[p] = g
    BY WithRowsIs
  <2>2. CASE y = p
    BY <1>7, <2>1, <2>2
  <2>3. CASE y # p
    <3>1. T.rows[y] = S.rows[y]
      BY <2>3, WithRowsIs DEF Beside
    <3> QED BY <3>1 DEF Legal
  <2> QED BY <2>2, <2>3
<1>10. Wrote(S, T, p, n, 0)
  BY <1>6, <1>8, <1>9, WithRowsIs DEF Wrote, f
<1> HIDE DEF T
<1> QED BY <1>1, <1>10 DEF Ok

\* The rows the statement of adjustStock sets.
LEMMA SetIs ==
  ASSUME NEW S \in Store, NEW p \in Products, NEW o \in Places, ~Missing(S, o, p),
         NEW n \in Int, NEW T,
         T = WithRows(S, p, [x \in DOMAIN S.rows[p] |->
               IF x \in Matching(S, o, p) THEN [S.rows[p][x] EXCEPT !.q = Adjusted(S, o, p, n)]
               ELSE S.rows[p][x]]),
         Statement(T).end # "throw"
  PROVE  Statement(T).end = "ok" /\ Wrote(S, Statement(T).st, p, n, 0)
<1> DEFINE f == S.rows[p]
           X == Matching(S, o, p)
           new == Adjusted(S, o, p, n)
           g == [x \in DOMAIN f |-> IF x \in X THEN [f[x] EXCEPT !.q = new] ELSE f[x]]
           y == IF o \in DOMAIN f THEN o ELSE Company
<1>1. T = WithRows(S, p, g)
  OBVIOUS
<1>2. Legal(T) /\ Statement(T) = Ok(T)
  BY DEF Statement, Throw
<1>3. /\ f \in Rows /\ DOMAIN f \subseteq Places
      /\ \A x \in DOMAIN f : f[x] \in Row /\ f[x].q \in Nat /\ f[x].r \in Nat
  BY StoreFields, RowsOf
<1>4. y \in X /\ X \subseteq DOMAIN f /\ new = f[y].q + n
  BY DEF Missing, Matching, Adjusted, Picked
<1>5. new \in Int
  BY <1>3, <1>4
<1>6. DOMAIN g = DOMAIN f /\ \A x \in X : g[x] = [f[x] EXCEPT !.q = new]
  BY <1>4
<1> HIDE DEF X, new, y
<1>7. g \in [DOMAIN f -> [q : Int, r : Int]]
  BY <1>3, <1>5 DEF Row
<1>8. One(g) => One(f) /\ Qty(g) = Qty(f) + n /\ Res(g) = Res(f) + 0
  <2> HAVE One(g)
  <2>1. DOMAIN f = {y} /\ DOMAIN g = {y} /\ One(f)
    BY <1>4, <1>6 DEF One
  <2>2. f[y].q \in Int /\ f[y].r \in Int
    BY <1>3, <1>4
  <2>3. g[y].q = f[y].q + n /\ g[y].r = f[y].r
    BY <1>3, <1>4, <1>6 DEF Row
  <2> HIDE DEF f, g
  <2>4. Qty(f) = f[y].q /\ Res(f) = f[y].r
    BY <2>1, <2>2, QtySingle
  <2>5. Qty(g) = g[y].q /\ Res(g) = g[y].r
    BY <2>1, <2>2, <2>3, QtySingle
  <2> QED BY <2>1, <2>2, <2>3, <2>4, <2>5
<1> HIDE DEF f, g
<1>9. g \in Rows
  <2>1. DOMAIN f \in SUBSET Places /\ Legal(WithRows(S, p, g))
    BY <1>1, <1>2, <1>3
  <2> QED BY <1>7, <2>1, LegalRows
<1>10. Wrote(S, T, p, n, 0)
  BY <1>1, <1>2, <1>8, <1>9, WithRowsIs DEF Wrote, f
<1> QED BY <1>2, <1>10 DEF Ok

-----------------------------------------------------------------------------
(* The lines that keep the accounts on their own. *)

Kept(L, M) == DOMAIN L \subseteq DOMAIN M /\ \A i \in DOMAIN L : M[i].rem = L[i].rem

\* T is sound, and no layer gave anything for it.
Keeps(S, T) == Sound(T) /\ \A p \in Products : Kept(S.layers[p], T.layers[p])

LEMMA KeptSame == \A L : Kept(L, L)
BY DEF Kept

LEMMA KeepsTwice ==
  ASSUME NEW S, NEW T, NEW U, Keeps(S, T), Keeps(T, U)
  PROVE  Keeps(S, U)
BY DEF Keeps, Kept

LEMMA NumberTypes ==
  ASSUME NEW S \in Store, NEW p \in Products
  PROVE  /\ Qty(S.rows[p]) \in Nat /\ Res(S.rows[p]) \in Nat
         /\ Total(S.moved[p], Places) \in Int /\ S.holds[p] \in Int
         /\ Rem(S.layers[p]) \in Nat /\ Use(S.layers[p]) \in Nat /\ Orig(S.layers[p]) \in Nat
         /\ S.summary[p] \in Nat /\ S.charged[p] \in Nat
BY StoreFields, QtyType, MovedType, LayerNumbers

\* T differs from S in product p: its stock by dq, its reservations by dr, and
\* its layers and its summary by dc.
LEMMA Settled ==
  ASSUME NEW S, NEW T, NEW p \in Products, NEW dq \in Int, NEW dr \in Int, NEW dc \in Int,
         Sound(S), T \in Store, Legal(T), Beside(S, T, p), dq <= dc,
         One(T.rows[p]) => /\ One(S.rows[p]) /\ Qty(T.rows[p]) = Qty(S.rows[p]) + dq
                           /\ Res(T.rows[p]) = Res(S.rows[p]) + dr,
         Total(T.moved[p], Places) = Total(S.moved[p], Places) + dq,
         T.holds[p] = S.holds[p] + dr,
         Rem(T.layers[p]) = Rem(S.layers[p]) + dc, T.summary[p] = S.summary[p] + dc,
         CostFits(T.layers[p], T.summary[p], T.charged[p])
  PROVE  Sound(T)
<1>1. S \in Store /\ \A x \in Products : Fits(S, x)
  BY DEF Sound
<1>2. RowFits(T.rows[p], T.moved[p], T.holds[p], T.layers[p], T.summary[p])
  <2>1. RowFits(S.rows[p], S.moved[p], S.holds[p], S.layers[p], S.summary[p])
    BY <1>1 DEF Fits
  <2>2. /\ Qty(S.rows[p]) \in Nat /\ Res(S.rows[p]) \in Nat
        /\ Total(S.moved[p], Places) \in Int /\ S.holds[p] \in Int
        /\ Rem(S.layers[p]) \in Nat /\ S.summary[p] \in Nat
    BY <1>1, NumberTypes
  <2> QED BY <2>1, <2>2 DEF RowFits
<1>3. Fits(T, p)
  BY <1>2 DEF Fits
<1>4. \A x \in Products : Fits(T, x)
  BY <1>1, <1>3, FitsBeside
<1> QED BY <1>4 DEF Sound

\* The same, when the cost is left alone.
LEMMA SettledAtNoCost ==
  ASSUME NEW S, NEW T, NEW p \in Products, NEW dq \in Int, NEW dr \in Int,
         Sound(S), T \in Store, Legal(T), Beside(S, T, p), dq <= 0, SameCost(S, T),
         One(T.rows[p]) => /\ One(S.rows[p]) /\ Qty(T.rows[p]) = Qty(S.rows[p]) + dq
                           /\ Res(T.rows[p]) = Res(S.rows[p]) + dr,
         Total(T.moved[p], Places) = Total(S.moved[p], Places) + dq,
         T.holds[p] = S.holds[p] + dr
  PROVE  Keeps(S, T)
<1>1. CostFits(T.layers[p], T.summary[p], T.charged[p])
  BY DEF Sound, Fits, SameCost
<1>2. /\ Rem(T.layers[p]) = Rem(S.layers[p]) + 0
      /\ T.summary[p] = S.summary[p] + 0
  BY NumberTypes DEF Sound, SameCost
<1>3. Sound(T)
  BY <1>1, <1>2, Settled
<1> QED BY <1>3, KeptSame DEF Keeps, SameCost

\* The same, when a layer of n units is added.
LEMMA SettledWithLayer ==
  ASSUME NEW S, NEW T, NEW p \in Products, NEW n \in Nat \ {0},
         Sound(S), T \in Store, Legal(T), Beside(S, T, p),
         T.layers[p] = Append(S.layers[p], [orig |-> n, rem |-> n, used |-> 0]),
         T.summary[p] = S.summary[p] + n, T.charged[p] = S.charged[p],
         One(T.rows[p]) => /\ One(S.rows[p]) /\ Qty(T.rows[p]) = Qty(S.rows[p]) + n
                           /\ Res(T.rows[p]) = Res(S.rows[p]) + 0,
         Total(T.moved[p], Places) = Total(S.moved[p], Places) + n,
         T.holds[p] = S.holds[p]
  PROVE  Keeps(S, T)
<1> DEFINE L == S.layers[p]
           M == T.layers[p]
<1>1. L \in Seq(Layer) /\ CostFits(L, S.summary[p], S.charged[p])
  BY StoreFields DEF Sound, Fits
<1>2. M = Append(L, [orig |-> n, rem |-> n, used |-> 0])
  OBVIOUS
<1>3. /\ S.summary[p] \in Nat /\ S.charged[p] \in Nat /\ S.holds[p] \in Int
      /\ Rem(L) \in Nat /\ Use(L) \in Nat /\ Orig(L) \in Nat
  BY NumberTypes DEF Sound
<1> HIDE DEF L, M
<1>4. /\ DOMAIN L \subseteq DOMAIN M /\ \A i \in DOMAIN L : M[i] = L[i]
      /\ \A i \in DOMAIN M \ DOMAIN L : M[i].rem + M[i].used = M[i].orig
      /\ Rem(M) = Rem(L) + n /\ Use(M) = Use(L) /\ Orig(M) = Orig(L) + n
  BY <1>1, <1>2, LayerAdded
<1>5. CostFits(M, T.summary[p], T.charged[p])
  <2>1. \A i \in DOMAIN M : M[i].rem + M[i].used = M[i].orig
    BY <1>1, <1>4 DEF CostFits
  <2>2. T.charged[p] = Use(M) + (Orig(M) - T.summary[p])
    BY <1>1, <1>3, <1>4 DEF CostFits
  <2> QED BY <2>1, <2>2 DEF CostFits
<1>6. Sound(T)
  <2>1. T.holds[p] = S.holds[p] + 0 /\ Rem(T.layers[p]) = Rem(S.layers[p]) + n
    BY <1>3, <1>4 DEF L, M
  <2>2. CostFits(T.layers[p], T.summary[p], T.charged[p])
    BY <1>5 DEF M
  <2>3. n \in Int /\ 0 \in Int /\ n <= n
    OBVIOUS
  <2> QED BY <2>1, <2>2, <2>3, Settled
<1>7. Kept(L, M)
  BY <1>4 DEF Kept
<1>8. ASSUME NEW x \in Products PROVE Kept(S.layers[x], T.layers[x])
  <2>1. CASE x = p
    BY <1>7, <2>1 DEF L, M
  <2>2. CASE x # p
    BY <2>2, KeptSame DEF Beside
  <2> QED BY <2>1, <2>2
<1> QED BY <1>6, <1>8 DEF Keeps

LEMMA KeepsItself == ASSUME NEW S, Sound(S) PROVE Keeps(S, S)
BY KeptSame DEF Keeps

LEMMA PickedMatches ==
  ASSUME NEW S, NEW o, NEW p, ~Missing(S, o, p)
  PROVE  \E y \in Matching(S, o, p) : Picked(S, o, p) = S.rows[p][y]
BY DEF Missing, Matching, Picked

\* A statement, and a movement of as much.
LEMMA WrittenAndMoved ==
  ASSUME NEW S, NEW p \in Products, NEW o \in Places, NEW n \in Int, Sound(S),
         NEW a, a.end # "throw" => a.end = "ok" /\ Wrote(S, a.st, p, n, 0),
         Move(a, o, p, n).end # "throw"
  PROVE  LET T == Move(a, o, p, n).st
         IN  /\ Move(a, o, p, n).end = "ok" /\ T \in Store /\ Legal(T) /\ Beside(S, T, p)
             /\ SameCost(S, T) /\ T.vstock = S.vstock /\ T.holds = S.holds
             /\ One(T.rows[p]) => /\ One(S.rows[p])
                                  /\ Qty(T.rows[p]) = Qty(S.rows[p]) + n
                                  /\ Res(T.rows[p]) = Res(S.rows[p]) + 0
             /\ Total(T.moved[p], Places) = Total(S.moved[p], Places) + n
<1> DEFINE T == Move(a, o, p, n).st
<1>1. a.end # "throw"
  BY DEF Move
<1>2. a.end = "ok" /\ Wrote(S, a.st, p, n, 0)
  BY <1>1
<1>3. a.st \in Store /\ a.st.moved = S.moved
  BY <1>2 DEF Wrote
<1>4. /\ Move(a, o, p, n).end = "ok" /\ T \in Store
      /\ T.rows = a.st.rows /\ T.holds = a.st.holds
      /\ Total(T.moved[p], Places) = Total(a.st.moved[p], Places) + n
      /\ T.vstock = a.st.vstock /\ SameCost(a.st, T) /\ Beside(a.st, T, p)
  BY <1>2, <1>3, MoveIs
<1> HIDE DEF T
<1>5. Legal(T) /\ Beside(S, T, p)
  BY <1>2, <1>4, LegalSame, BesideTwice DEF Wrote
<1> QED BY <1>2, <1>3, <1>4, <1>5 DEF Wrote, SameCost, T

LEMMA WrittenAndHeld ==
  ASSUME NEW S, NEW p \in Products, NEW n \in Int, Sound(S),
         NEW a, a.end # "throw" => a.end = "ok" /\ Wrote(S, a.st, p, 0, n),
         Hold(a, p, n).end # "throw"
  PROVE  Keeps(S, Hold(a, p, n).st)
<1> DEFINE T == Hold(a, p, n).st
<1>1. a.end # "throw"
  BY DEF Hold
<1>2. a.end = "ok" /\ Wrote(S, a.st, p, 0, n)
  BY <1>1
<1>3. a.st \in Store /\ a.st.holds = S.holds /\ S \in Store
  BY <1>2 DEF Wrote, Sound
<1>4. /\ T \in Store /\ T.rows = a.st.rows /\ T.moved = a.st.moved
      /\ T.holds[p] = a.st.holds[p] + n
      /\ T.vstock = a.st.vstock /\ SameCost(a.st, T) /\ Beside(a.st, T, p)
  BY <1>2, <1>3, HoldIs
<1> HIDE DEF T
<1>5. Legal(T) /\ Beside(S, T, p)
  BY <1>2, <1>4, LegalSame, BesideTwice DEF Wrote
<1>6. SameCost(S, T) /\ T.holds[p] = S.holds[p] + n
  BY <1>2, <1>3, <1>4 DEF Wrote, SameCost
<1>7. One(T.rows[p]) => /\ One(S.rows[p]) /\ Qty(T.rows[p]) = Qty(S.rows[p]) + 0
                        /\ Res(T.rows[p]) = Res(S.rows[p]) + n
  BY <1>2, <1>4 DEF Wrote
<1>8. Total(T.moved[p], Places) = Total(S.moved[p], Places) + 0
  <2>1. Total(S.moved[p], Places) \in Int
    BY <1>3, NumberTypes
  <2>2. T.moved = S.moved
    BY <1>2, <1>4 DEF Wrote
  <2> QED BY <2>1, <2>2
<1>9. 0 \in Int /\ 0 <= 0
  OBVIOUS
<1> QED BY <1>4, <1>5, <1>6, <1>7, <1>8, <1>9, SettledAtNoCost DEF T

LEMMA DeductLineKeeps ==
  ASSUME NEW S, NEW it \in Item, it.good \in Products, NEW o \in Outlets, Sound(S),
         DeductLine(o, S, it).end # "throw"
  PROVE  Keeps(S, DeductLine(o, S, it).st)
<1> DEFINE p == it.good
           X == {x \in Matching(S, o, p) : S.rows[p][x].q >= it.qty}
           a == Statement(Change(S, p, X, -it.qty, 0))
<1>1. CASE Missing(S, o, p) \/ Picked(S, o, p).q < it.qty
  <2>1. DeductLine(o, S, it) = No(S)
    BY <1>1 DEF DeductLine
  <2> QED BY <2>1, KeepsItself DEF No
<1>2. CASE ~Missing(S, o, p) /\ ~(Picked(S, o, p).q < it.qty)
  <2>1. DeductLine(o, S, it) = Move(a, o, p, -it.qty)
    BY <1>2 DEF DeductLine
  <2>2. S \in Store /\ it.qty \in Nat \ {0} /\ o \in Places
    BY DEF Sound, Item, Places
  <2>3. X \in SUBSET DOMAIN S.rows[p] /\ X # {}
    <3>1. PICK y \in Matching(S, o, p) : Picked(S, o, p) = S.rows[p][y]
      BY <1>2, PickedMatches
    <3>2. S.rows[p][y].q \in Nat
      BY <2>2, <3>1, StoreFields, RowsOf DEF Matching
    <3>3. y \in X
      BY <1>2, <2>2, <3>1, <3>2
    <3> QED BY <3>3 DEF Matching
  <2> HIDE DEF X
  <2>4. a.end # "throw" => a.end = "ok" /\ Wrote(S, a.st, p, -it.qty, 0)
    BY <2>2, <2>3, ChangeIs
  <2> DEFINE n == -it.qty
             T == Move(a, o, p, n).st
  <2>6. Move(a, o, p, n).end # "throw"
    BY <2>1
  <2>7. n \in Int /\ n <= 0
    BY <2>2
  <2> HIDE DEF a, n
  <2>8. /\ T \in Store /\ Legal(T) /\ Beside(S, T, p) /\ SameCost(S, T) /\ T.holds = S.holds
        /\ One(T.rows[p]) => /\ One(S.rows[p])
                             /\ Qty(T.rows[p]) = Qty(S.rows[p]) + n
                             /\ Res(T.rows[p]) = Res(S.rows[p]) + 0
        /\ Total(T.moved[p], Places) = Total(S.moved[p], Places) + n
    BY <2>2, <2>4, <2>6, <2>7, WrittenAndMoved DEF n
  <2> HIDE DEF T
  <2>9. T.holds[p] = S.holds[p] + 0 /\ 0 \in Int
    BY <2>2, <2>8, NumberTypes
  <2>10. Keeps(S, T)
    BY <2>7, <2>8, <2>9, SettledAtNoCost
  <2> QED BY <2>1, <2>10 DEF T, n
<1> QED BY <1>1, <1>2

LEMMA ReserveLineKeeps ==
  ASSUME NEW S, NEW it \in Item, it.good \in Products, NEW o \in Outlets, Sound(S),
         ReserveLine(o, S, it).end # "throw"
  PROVE  Keeps(S, ReserveLine(o, S, it).st)
<1> DEFINE p == it.good
           n == it.qty
           X == {x \in Matching(S, o, p) : S.rows[p][x].q - S.rows[p][x].r >= n}
           a == Statement(Change(S, p, X, 0, n))
<1>1. CASE X = {}
  <2>1. ReserveLine(o, S, it) = No(S)
    BY <1>1 DEF ReserveLine
  <2> QED BY <2>1, KeepsItself DEF No
<1>2. CASE X # {}
  <2>1. ReserveLine(o, S, it) = Hold(a, p, n)
    BY <1>2 DEF ReserveLine
  <2>2. S \in Store /\ n \in Int /\ X \in SUBSET DOMAIN S.rows[p]
    BY DEF Sound, Item, Matching
  <2> HIDE DEF X, n
  <2>3. a.end # "throw" => a.end = "ok" /\ Wrote(S, a.st, p, 0, n)
    BY <1>2, <2>2, ChangeIs
  <2> HIDE DEF a
  <2> QED BY <2>1, <2>2, <2>3, WrittenAndHeld
<1> QED BY <1>1, <1>2

LEMMA ReleaseLineKeeps ==
  ASSUME NEW S, NEW it \in Item, it.good \in Products, NEW o \in Outlets, Sound(S),
         ReleaseLine(o, S, it).end # "throw"
  PROVE  Keeps(S, ReleaseLine(o, S, it).st)
<1> DEFINE p == it.good
           n == Least(it.qty, Picked(S, o, p).r)
           X == {x \in Matching(S, o, p) : S.rows[p][x].r >= n}
           a == Statement(Change(S, p, X, 0, -n))
<1>1. CASE Missing(S, o, p) \/ n = 0
  <2>1. ReleaseLine(o, S, it) = Ok(S)
    BY <1>1 DEF ReleaseLine
  <2> QED BY <2>1, KeepsItself DEF Ok
<1>2. CASE ~Missing(S, o, p) /\ n # 0
  <2>1. ReleaseLine(o, S, it) = Hold(a, p, -n)
    BY <1>2 DEF ReleaseLine
  <2>2. S \in Store /\ it.qty \in Nat
    BY DEF Sound, Item
  <2>3. PICK y \in Matching(S, o, p) : Picked(S, o, p) = S.rows[p][y]
    BY <1>2, PickedMatches
  <2>4. S.rows[p][y].r \in Nat
    BY <2>2, StoreFields, RowsOf DEF Matching
  <2>5. n \in Int /\ -n \in Int /\ S.rows[p][y].r >= n
    BY <2>2, <2>3, <2>4 DEF Least
  <2> HIDE DEF n
  <2>6. X \in SUBSET DOMAIN S.rows[p] /\ X # {}
    BY <2>5 DEF Matching
  <2> HIDE DEF X
  <2>7. a.end # "throw" => a.end = "ok" /\ Wrote(S, a.st, p, 0, -n)
    BY <2>2, <2>5, <2>6, ChangeIs
  <2> HIDE DEF a
  <2> QED BY <2>1, <2>5, <2>7, WrittenAndHeld
<1> QED BY <1>1, <1>2

\* A statement, a movement of as much, and a layer for it.
LEMMA WrittenMovedCosted ==
  ASSUME NEW S, NEW p \in Products, NEW o \in Places, NEW n \in Nat \ {0}, Sound(S),
         NEW a, a.end # "throw" => a.end = "ok" /\ Wrote(S, a.st, p, n, 0),
         Inbound(Move(a, o, p, n), p, n).end # "throw"
  PROVE  Keeps(S, Inbound(Move(a, o, p, n), p, n).st)
<1> DEFINE b == Move(a, o, p, n)
           U == b.st
           T == Inbound(b, p, n).st
<1>1. b.end # "throw" /\ n \in Int
  BY DEF Inbound
<1>2. /\ b.end = "ok" /\ U \in Store /\ Legal(U) /\ Beside(S, U, p)
      /\ SameCost(S, U) /\ U.holds = S.holds
      /\ One(U.rows[p]) => /\ One(S.rows[p])
                           /\ Qty(U.rows[p]) = Qty(S.rows[p]) + n
                           /\ Res(U.rows[p]) = Res(S.rows[p]) + 0
      /\ Total(U.moved[p], Places) = Total(S.moved[p], Places) + n
  BY <1>1, WrittenAndMoved
<1> HIDE DEF b
<1>3. /\ T \in Store /\ T.rows = U.rows /\ T.moved = U.moved /\ T.holds = U.holds
      /\ Beside(U, T, p)
      /\ T.layers[p] = Append(U.layers[p], [orig |-> n, rem |-> n, used |-> 0])
      /\ T.summary[p] = U.summary[p] + n /\ T.charged = U.charged
  BY <1>2, InboundIs DEF b
<1> HIDE DEF U, T
<1>4. Legal(T) /\ Beside(S, T, p)
  BY <1>2, <1>3, LegalSame, BesideTwice
<1>5. /\ T.layers[p] = Append(S.layers[p], [orig |-> n, rem |-> n, used |-> 0])
      /\ T.summary[p] = S.summary[p] + n /\ T.charged[p] = S.charged[p]
      /\ T.holds[p] = S.holds[p]
  BY <1>2, <1>3 DEF SameCost
<1>6. /\ One(T.rows[p]) => /\ One(S.rows[p]) /\ Qty(T.rows[p]) = Qty(S.rows[p]) + n
                           /\ Res(T.rows[p]) = Res(S.rows[p]) + 0
      /\ Total(T.moved[p], Places) = Total(S.moved[p], Places) + n
  BY <1>2, <1>3
<1>7. Keeps(S, T)
  BY <1>3, <1>4, <1>5, <1>6, SettledWithLayer
<1> QED BY <1>7 DEF T, b

LEMMA RestoreLineKeeps ==
  ASSUME NEW S, NEW it \in Item, it.good \in Products, NEW o \in Outlets, Sound(S),
         RestoreLine(o, S, it).end # "throw"
  PROVE  Keeps(S, RestoreLine(o, S, it).st)
<1> DEFINE p == it.good
           n == it.qty
           X == Matching(S, o, p)
           a == IF Missing(S, o, p) THEN InsertRow(S, o, p, n)
                ELSE Statement(Change(S, p, X, n, 0))
<1>1. RestoreLine(o, S, it) = Inbound(Move(a, o, p, n), p, n)
  BY DEF RestoreLine
<1>2. S \in Store /\ Legal(S) /\ n \in Nat \ {0} /\ n \in Int /\ o \in Places
  BY DEF Sound, Item, Places
<1>3. a.end # "throw" => a.end = "ok" /\ Wrote(S, a.st, p, n, 0)
  <2>1. CASE Missing(S, o, p)
    BY <1>2, <2>1, InsertIs
  <2>2. CASE ~Missing(S, o, p)
    <3>1. X \in SUBSET DOMAIN S.rows[p] /\ X # {}
      BY <2>2 DEF Missing, Matching
    <3> HIDE DEF X, n
    <3>2. LET b == Statement(Change(S, p, X, n, 0))
          IN  b.end # "throw" => b.end = "ok" /\ Wrote(S, b.st, p, n, 0)
      BY <1>2, <3>1, ChangeIs
    <3> QED BY <2>2, <3>2
  <2> QED BY <2>1, <2>2
<1> HIDE DEF a, n
<1> QED BY <1>1, <1>2, <1>3, WrittenMovedCosted

LEMMA AdjustLineKeeps ==
  ASSUME NEW S, NEW o \in Places, NEW p \in Products, NEW n \in Int, Sound(S),
         AdjustLine(S, o, p, n).end # "throw"
  PROVE  Keeps(S, AdjustLine(S, o, p, n).st)
<1> DEFINE new == Adjusted(S, o, p, n)
           same == \A x \in Matching(S, o, p) : S.rows[p][x].r = Picked(S, o, p).r
           T == WithRows(S, p, [x \in DOMAIN S.rows[p] |->
                  IF x \in Matching(S, o, p) THEN [S.rows[p][x] EXCEPT !.q = new]
                  ELSE S.rows[p][x]])
           a == IF Missing(S, o, p) THEN InsertRow(S, o, p, new)
                ELSE IF ~same THEN Throw(S)
                ELSE Statement(T)
<1>1. CASE new < 0
  <2>1. AdjustLine(S, o, p, n) = No(S)
    BY <1>1 DEF AdjustLine
  <2> QED BY <2>1, KeepsItself DEF No
<1>2. CASE ~(new < 0)
  <2>1. AdjustLine(S, o, p, n) = IF n > 0 THEN Inbound(Move(a, o, p, n), p, n)
                                 ELSE Move(a, o, p, n)
    BY <1>2 DEF AdjustLine
  <2>2. S \in Store /\ Legal(S)
    BY DEF Sound
  <2>3. a.end # "throw" => a.end = "ok" /\ Wrote(S, a.st, p, n, 0)
    <3>1. CASE Missing(S, o, p)
      <4>1. new = n /\ n \in Nat /\ a = InsertRow(S, o, p, n)
        BY <1>2, <3>1 DEF Adjusted
      <4> HIDE DEF a
      <4> QED BY <2>2, <3>1, <4>1, InsertIs
    <3>2. CASE ~Missing(S, o, p) /\ ~same
      BY <3>2 DEF Throw
    <3>3. CASE ~Missing(S, o, p) /\ same
      <4>1. a = Statement(T)
        BY <3>3
      <4>2. Statement(T).end # "throw" =>
              Statement(T).end = "ok" /\ Wrote(S, Statement(T).st, p, n, 0)
        BY <2>2, <3>3, SetIs
      <4> HIDE DEF a, T
      <4> QED BY <4>1, <4>2
    <3> QED BY <3>1, <3>2, <3>3
  <2> HIDE DEF a
  <2>4. CASE n > 0
    <3>1. n \in Nat \ {0}
      BY <2>4
    <3> QED BY <2>1, <2>3, <2>4, <3>1, WrittenMovedCosted
  <2>5. CASE ~(n > 0)
    <3> DEFINE U == Move(a, o, p, n).st
    <3>1. AdjustLine(S, o, p, n) = Move(a, o, p, n)
      BY <2>1, <2>5
    <3>2. /\ U \in Store /\ Legal(U) /\ Beside(S, U, p) /\ SameCost(S, U) /\ U.holds = S.holds
          /\ One(U.rows[p]) => /\ One(S.rows[p])
                               /\ Qty(U.rows[p]) = Qty(S.rows[p]) + n
                               /\ Res(U.rows[p]) = Res(S.rows[p]) + 0
          /\ Total(U.moved[p], Places) = Total(S.moved[p], Places) + n
      BY <2>3, <3>1, WrittenAndMoved
    <3> HIDE DEF U
    <3>3. U.holds[p] = S.holds[p] + 0 /\ 0 \in Int /\ n <= 0
      BY <2>2, <2>5, <3>2, NumberTypes
    <3>4. Keeps(S, U)
      BY <3>2, <3>3, SettledAtNoCost
    <3> QED BY <3>1, <3>4 DEF U
  <2> QED BY <2>4, <2>5
<1> QED BY <1>1, <1>2

-----------------------------------------------------------------------------
(* The loops that keep the accounts. *)

LEMMA BodyKeeps ==
  ASSUME NEW S, NEW k, NEW it \in Item, it.good \in Products, k.at \in Outlets, Sound(S),
         k.body \in {"deduct", "reserve", "release", "restore"},
         Body(k, S, it).end # "throw"
  PROVE  Keeps(S, Body(k, S, it).st)
<1>1. it.good \notin Variants
  BY InventoryAssumption
<1>2. CASE k.body = "deduct"
  <2>1. Body(k, S, it) = DeductLine(k.at, S, it)
    BY <1>1, <1>2 DEF Body
  <2> QED BY <2>1, DeductLineKeeps
<1>3. CASE k.body = "reserve"
  <2>1. Body(k, S, it) = ReserveLine(k.at, S, it)
    BY <1>1, <1>3 DEF Body
  <2> QED BY <2>1, ReserveLineKeeps
<1>4. CASE k.body = "release"
  <2>1. Body(k, S, it) = ReleaseLine(k.at, S, it)
    BY <1>1, <1>4 DEF Body
  <2> QED BY <2>1, ReleaseLineKeeps
<1>5. CASE k.body = "restore"
  <2>1. Body(k, S, it) = RestoreLine(k.at, S, it)
    BY <1>1, <1>5 DEF Body
  <2> QED BY <2>1, RestoreLineKeeps
<1> QED BY <1>2, <1>3, <1>4, <1>5

LEMMA EachKeeps ==
  ASSUME NEW S, NEW k, NEW items \in Seq(Item), Simple(items), k.at \in Outlets, Sound(S),
         k.body \in {"deduct", "reserve", "release", "restore"},
         Each(k, S, items).end # "throw"
  PROVE  Keeps(S, Each(k, S, items).st)
<1> DEFINE N == Len(items)
<1>1. /\ N \in Nat
      /\ \A n \in 1 .. N : items[n] \in Item /\ items[n].good \in Products
  BY DEF Simple
<1>2. PICK a : /\ a[0] = Ok(S)
               /\ \A n \in 1 .. N :
                    a[n] = IF a[n - 1].end = "ok" THEN Body(k, a[n - 1].st, items[n])
                           ELSE a[n - 1]
               /\ Each(k, S, items) = a[N]
  BY <1>1, EachSteps
<1> DEFINE G == {n \in 0 .. N : a[n].end # "throw" => Keeps(S, a[n].st)}
<1>3. 0 \in G
  BY <1>1, <1>2, KeepsItself DEF Ok
<1>4. ASSUME NEW n \in 1 .. N, n - 1 \in G PROVE n \in G
  <2> DEFINE b == a[n - 1]
  <2>1. CASE b.end # "ok"
    <3>1. a[n] = b
      BY <1>2, <2>1
    <3> QED BY <1>4, <3>1
  <2>2. CASE b.end = "ok"
    <3>1. a[n] = Body(k, b.st, items[n])
      BY <1>2, <2>2
    <3>2. Keeps(S, b.st)
      BY <1>4, <2>2
    <3> HIDE DEF b
    <3>3. ASSUME a[n].end # "throw" PROVE Keeps(S, a[n].st)
      <4>1. Keeps(b.st, a[n].st)
        BY <1>1, <3>1, <3>2, <3>3, BodyKeeps DEF Keeps
      <4> QED BY <3>2, <4>1, KeepsTwice
    <3> QED BY <3>3
  <2> QED BY <2>1, <2>2
<1>5. N \in G
  <2> HIDE DEF G
  <2> QED BY <1>1, <1>3, <1>4, Ladder
<1> QED BY <1>2, <1>5

\* The variants of a sale have their stock in item_variants alone.
LEMMA VariantBodyKeeps ==
  ASSUME NEW S, NEW k, NEW it \in Item, k.body = "variant", Sound(S),
         Body(k, S, it).end # "throw"
  PROVE  Body(k, S, it).end = "ok" /\ Keeps(S, Body(k, S, it).st)
<1>1. CASE it.good \notin Variants
  <2>1. Body(k, S, it) = Ok(S)
    BY <1>1 DEF Body
  <2> QED BY <2>1, KeepsItself DEF Ok
<1>2. CASE it.good \in Variants
  <2> DEFINE g == it.good
             v == S.vstock[g] - it.qty
             T == [S EXCEPT !.vstock[g] = v]
  <2>1. Body(k, S, it) = VariantLine(S, it)
    BY <1>2 DEF Body
  <2>2. S \in Store /\ S.vstock[g] \in Nat /\ it.qty \in Nat
    BY <1>2 DEF Sound, Store, Item
  <2>3. ~(S.vstock[g] < it.qty) /\ Body(k, S, it) = Ok(T)
    BY <2>1 DEF VariantLine, Throw
  <2>4. v \in Nat
    BY <2>2, <2>3
  <2> HIDE DEF v
  <2>5. /\ T \in Store /\ T.rows = S.rows /\ T.moved = S.moved /\ T.holds = S.holds
        /\ T.layers = S.layers /\ T.summary = S.summary /\ T.charged = S.charged
    BY <2>2, <2>4 DEF Store
  <2> HIDE DEF T
  <2>6. Legal(T) /\ \A x \in Products : Fits(T, x)
    BY <2>5 DEF Sound, Legal, Fits
  <2>7. Keeps(S, T)
    BY <2>5, <2>6, KeptSame DEF Keeps, Sound
  <2> QED BY <2>3, <2>7 DEF Ok
<1> QED BY <1>1, <1>2

LEMMA EachVariantKeeps ==
  ASSUME NEW S, NEW k, NEW items \in Seq(Item), k.body = "variant", Sound(S),
         Each(k, S, items).end # "throw"
  PROVE  Each(k, S, items).end = "ok" /\ Keeps(S, Each(k, S, items).st)
<1> DEFINE N == Len(items)
<1>1. N \in Nat /\ \A n \in 1 .. N : items[n] \in Item
  OBVIOUS
<1>2. PICK a : /\ a[0] = Ok(S)
               /\ \A n \in 1 .. N :
                    a[n] = IF a[n - 1].end = "ok" THEN Body(k, a[n - 1].st, items[n])
                           ELSE a[n - 1]
               /\ Each(k, S, items) = a[N]
  BY <1>1, EachSteps
<1> DEFINE G == {n \in 0 .. N : a[n].end # "throw" => a[n].end = "ok" /\ Keeps(S, a[n].st)}
<1>3. 0 \in G
  BY <1>1, <1>2, KeepsItself DEF Ok
<1>4. ASSUME NEW n \in 1 .. N, n - 1 \in G PROVE n \in G
  <2> DEFINE b == a[n - 1]
  <2>1. ASSUME a[n].end # "throw" PROVE a[n].end = "ok" /\ Keeps(S, a[n].st)
    <3>1. b.end = "ok" /\ Keeps(S, b.st)
      BY <1>2, <1>4, <2>1
    <3>2. a[n] = Body(k, b.st, items[n])
      BY <1>2, <3>1
    <3> HIDE DEF b
    <3>3. a[n].end = "ok" /\ Keeps(b.st, a[n].st)
      BY <1>1, <2>1, <3>1, <3>2, VariantBodyKeeps DEF Keeps
    <3> QED BY <3>1, <3>3, KeepsTwice
  <2> QED BY <2>1
<1>5. N \in G
  <2> HIDE DEF G
  <2> QED BY <1>1, <1>3, <1>4, Ladder
<1> QED BY <1>2, <1>5

-----------------------------------------------------------------------------
(* The loops of a sale, each measured by what the items ask for. *)

Requested(it, p) == IF it.good = p THEN it.qty ELSE 0
Wanted(items, p, n) ==
  Total([i \in DOMAIN items |-> Requested(items[i], p)], 1 .. n)

LEMMA WantedStep ==
  ASSUME NEW items \in Seq(Item), NEW p
  PROVE  /\ Wanted(items, p, 0) = 0
         /\ \A n \in 1 .. Len(items) :
              /\ Wanted(items, p, n) = Wanted(items, p, n - 1) + Requested(items[n], p)
              /\ Wanted(items, p, n - 1) \in Nat /\ Wanted(items, p, n) \in Nat
              /\ Requested(items[n], p) \in Nat
<1> DEFINE f == [i \in DOMAIN items |-> Requested(items[i], p)]
           N == Len(items)
<1>1. /\ N \in Nat /\ \A i \in 1 .. N : items[i] \in Item
      /\ \A i \in 1 .. N : f[i] = Requested(items[i], p)
  OBVIOUS
<1>2. \A i \in 1 .. N : f[i] \in Nat
  BY <1>1 DEF Requested, Item
<1>3. Wanted(items, p, 0) = 0
  <2>1. 1 .. 0 = {}
    OBVIOUS
  <2> QED BY <2>1, SumEmpty DEF Wanted, Total
<1>4. \A n \in 0 .. N : Wanted(items, p, n) = SumFunctionOnSet(f, 1 .. n)
  BY DEF Wanted, Total
<1> HIDE DEF f
<1>5. \A n \in 0 .. N : IsFiniteSet(1 .. n) /\ SumFunctionOnSet(f, 1 .. n) \in Nat
  <2> TAKE n \in 0 .. N
  <2>1. IsFiniteSet(1 .. n)
    BY FS_Interval
  <2>2. \A i \in 1 .. n : f[i] \in Nat
    BY <1>1, <1>2
  <2> QED BY <2>1, <2>2, SumNonNegative
<1>6. ASSUME NEW n \in 1 .. N
      PROVE  SumFunctionOnSet(f, 1 .. n) = f[n] + SumFunctionOnSet(f, 1 .. (n - 1))
  <2>1. 1 .. n = (1 .. (n - 1)) \cup {n} /\ n \notin 1 .. (n - 1) /\ n - 1 \in 0 .. N
    BY <1>1
  <2>2. \A i \in (1 .. (n - 1)) \cup {n} : f[i] \in Int
    BY <1>1, <1>2
  <2>3. IsFiniteSet(1 .. (n - 1))
    BY <1>5, <2>1
  <2> QED BY <2>1, <2>2, <2>3, SumAdd
<1>7. ASSUME NEW n \in 1 .. N
      PROVE  /\ Wanted(items, p, n) = Wanted(items, p, n - 1) + Requested(items[n], p)
             /\ Wanted(items, p, n - 1) \in Nat /\ Wanted(items, p, n) \in Nat
             /\ Requested(items[n], p) \in Nat
  <2>1. n \in 0 .. N /\ n - 1 \in 0 .. N
    BY <1>1
  <2>2. f[n] = Requested(items[n], p) /\ f[n] \in Nat
    BY <1>1, <1>2
  <2> QED BY <1>4, <1>5, <1>6, <2>1, <2>2
<1> QED BY <1>3, <1>7

\* After n lines of the first loop, that compares and records.
Compared(S, T, items, n) ==
  /\ T \in Store /\ T.rows = S.rows /\ T.holds = S.holds /\ SameCost(S, T)
  /\ \A p \in Products :
       Total(T.moved[p], Places) = Total(S.moved[p], Places) - Wanted(items, p, n)

LEMMA CompareBody ==
  ASSUME NEW S \in Store, NEW k, NEW it \in Item, k.body = "compare", k.at \in Outlets,
         Body(k, S, it).end # "throw"
  PROVE  LET T == Body(k, S, it).st
         IN  /\ Body(k, S, it).end = "ok" /\ T \in Store
             /\ T.rows = S.rows /\ T.holds = S.holds /\ SameCost(S, T)
             /\ \A p \in Products : Total(T.moved[p], Places)
                                    = Total(S.moved[p], Places) - Requested(it, p)
<1>1. \A p \in Products : Total(S.moved[p], Places) \in Int
  BY NumberTypes
<1>2. CASE it.good \in Variants
  <2>1. Body(k, S, it) = Ok(S)
    BY <1>2 DEF Body
  <2>2. \A p \in Products : Requested(it, p) = 0
    BY <1>2, InventoryAssumption DEF Requested
  <2>3. \A p \in Products :
          Total(S.moved[p], Places) = Total(S.moved[p], Places) - Requested(it, p)
    BY <1>1, <2>2
  <2> QED BY <2>1, <2>3 DEF Ok, SameCost
<1>3. CASE it.good \notin Variants
  <2> DEFINE g == it.good
             n == -it.qty
             T == Move(Ok(S), k.at, g, n).st
  <2>1. Body(k, S, it) = CompareLine(k.at, S, it)
    BY <1>3 DEF Body
  <2>2. Body(k, S, it) = Move(Ok(S), k.at, g, n)
    BY <2>1 DEF CompareLine, Throw
  <2>3. /\ g \in Products /\ k.at \in Places /\ n \in Int /\ it.qty \in Nat
        /\ Ok(S).end = "ok" /\ Ok(S).st = S
    BY <1>3 DEF Item, Goods, Places, Ok
  <2>4. /\ Move(Ok(S), k.at, g, n).end = "ok" /\ T \in Store
        /\ T.rows = S.rows /\ T.holds = S.holds
        /\ Total(T.moved[g], Places) = Total(S.moved[g], Places) + n
        /\ SameCost(S, T) /\ Beside(S, T, g)
    <3> HIDE DEF n
    <3> QED BY <2>3, MoveIs
  <2> HIDE DEF T
  <2>5. ASSUME NEW p \in Products
        PROVE  Total(T.moved[p], Places) = Total(S.moved[p], Places) - Requested(it, p)
    <3>1. CASE p = g
      BY <1>1, <2>3, <2>4, <3>1 DEF Requested
    <3>2. CASE p # g
      <4>1. Requested(it, p) = 0 /\ T.moved[p] = S.moved[p]
        BY <2>4, <3>2 DEF Requested, Beside
      <4> QED BY <1>1, <4>1
    <3> QED BY <3>1, <3>2
  <2> QED BY <2>2, <2>4, <2>5 DEF T
<1> QED BY <1>2, <1>3

LEMMA EachCompared ==
  ASSUME NEW S \in Store, NEW k, NEW items \in Seq(Item), k.body = "compare",
         k.at \in Outlets, Each(k, S, items).end # "throw"
  PROVE  /\ Each(k, S, items).end = "ok"
         /\ Compared(S, Each(k, S, items).st, items, Len(items))
<1> DEFINE N == Len(items)
<1>1. N \in Nat /\ \A n \in 1 .. N : items[n] \in Item
  OBVIOUS
<1>2. PICK a : /\ a[0] = Ok(S)
               /\ \A n \in 1 .. N :
                    a[n] = IF a[n - 1].end = "ok" THEN Body(k, a[n - 1].st, items[n])
                           ELSE a[n - 1]
               /\ Each(k, S, items) = a[N]
  BY <1>1, EachSteps
<1> DEFINE G == {n \in 0 .. N : a[n].end # "throw" =>
                                  a[n].end = "ok" /\ Compared(S, a[n].st, items, n)}
<1>3. 0 \in G
  <2>1. \A p \in Products :
          Total(S.moved[p], Places) = Total(S.moved[p], Places) - Wanted(items, p, 0)
    BY WantedStep, NumberTypes
  <2>2. Compared(S, S, items, 0)
    BY <2>1 DEF Compared, SameCost
  <2> QED BY <1>1, <1>2, <2>2 DEF Ok
<1>4. ASSUME NEW n \in 1 .. N, n - 1 \in G PROVE n \in G
  <2> DEFINE b == a[n - 1]
             T == a[n].st
  <2>1. ASSUME a[n].end # "throw" PROVE a[n].end = "ok" /\ Compared(S, T, items, n)
    <3>1. b.end = "ok" /\ Compared(S, b.st, items, n - 1)
      BY <1>2, <1>4, <2>1
    <3>2. a[n] = Body(k, b.st, items[n])
      BY <1>2, <3>1
    <3> HIDE DEF b
    <3>3. b.st \in Store /\ items[n] \in Item
      BY <1>1, <3>1 DEF Compared
    <3>4. /\ a[n].end = "ok" /\ T \in Store
          /\ T.rows = b.st.rows /\ T.holds = b.st.holds /\ SameCost(b.st, T)
          /\ \A p \in Products : Total(T.moved[p], Places)
                                 = Total(b.st.moved[p], Places) - Requested(items[n], p)
      BY <2>1, <3>2, <3>3, CompareBody
    <3> HIDE DEF T
    <3>5. ASSUME NEW p \in Products
          PROVE  Total(T.moved[p], Places) = Total(S.moved[p], Places) - Wanted(items, p, n)
      <4>1. /\ Wanted(items, p, n) = Wanted(items, p, n - 1) + Requested(items[n], p)
            /\ Wanted(items, p, n - 1) \in Nat /\ Requested(items[n], p) \in Nat
        BY WantedStep
      <4>2. Total(S.moved[p], Places) \in Int
        BY NumberTypes
      <4>3. Total(b.st.moved[p], Places)
              = Total(S.moved[p], Places) - Wanted(items, p, n - 1)
        BY <3>1 DEF Compared
      <4>4. Total(T.moved[p], Places)
              = Total(b.st.moved[p], Places) - Requested(items[n], p)
        BY <3>4
      <4> QED BY <4>1, <4>2, <4>3, <4>4
    <3> QED BY <3>1, <3>4, <3>5 DEF Compared, SameCost
  <2> QED BY <2>1
<1>5. N \in G
  <2> HIDE DEF G
  <2> QED BY <1>1, <1>3, <1>4, Ladder
<1> QED BY <1>2, <1>5


\* After n lines of the second loop, that lowers the rows.
Lowered(S, T, items, n) ==
  /\ T \in Store /\ Legal(T)
  /\ T.moved = S.moved /\ T.holds = S.holds /\ SameCost(S, T)
  /\ \A p \in Products : One(T.rows[p]) =>
       /\ One(S.rows[p]) /\ Qty(T.rows[p]) = Qty(S.rows[p]) - Wanted(items, p, n)
       /\ Res(T.rows[p]) = Res(S.rows[p])

LEMMA LowerBody ==
  ASSUME NEW S \in Store, Legal(S), NEW k, NEW it \in Item, k.body = "lower",
         k.at \in Outlets, Body(k, S, it).end # "throw"
  PROVE  LET T == Body(k, S, it).st
         IN  /\ Body(k, S, it).end = "ok" /\ T \in Store /\ Legal(T)
             /\ T.moved = S.moved /\ T.holds = S.holds /\ SameCost(S, T)
             /\ \A p \in Products : One(T.rows[p]) =>
                  /\ One(S.rows[p]) /\ Qty(T.rows[p]) = Qty(S.rows[p]) - Requested(it, p)
                  /\ Res(T.rows[p]) = Res(S.rows[p])
<1>1. \A p \in Products : Qty(S.rows[p]) \in Nat /\ Res(S.rows[p]) \in Nat
  BY NumberTypes
<1>2. CASE it.good \in Variants
  <2>1. Body(k, S, it) = Ok(S)
    BY <1>2 DEF Body
  <2>2. \A p \in Products : Requested(it, p) = 0
    BY <1>2, InventoryAssumption DEF Requested
  <2>3. \A p \in Products : Qty(S.rows[p]) = Qty(S.rows[p]) - Requested(it, p)
    BY <1>1, <2>2
  <2> QED BY <2>1, <2>3 DEF Ok, SameCost
<1>3. CASE it.good \notin Variants
  <2> DEFINE g == it.good
             n == -it.qty
             X == {x \in Matching(S, k.at, g) : S.rows[g][x].q >= it.qty}
             a == Statement(Change(S, g, X, n, 0))
             T == a.st
  <2>1. Body(k, S, it) = LowerLine(k.at, S, it)
    BY <1>3 DEF Body
  <2>2. X # {} /\ Body(k, S, it) = a
    BY <2>1 DEF LowerLine, Throw
  <2>3. g \in Products /\ n \in Int /\ it.qty \in Nat
    BY <1>3 DEF Item, Goods
  <2>4. X \in SUBSET DOMAIN S.rows[g]
    BY DEF Matching
  <2>5. a.end = "ok" /\ Wrote(S, T, g, n, 0)
    <3> HIDE DEF n, X
    <3> QED BY <2>2, <2>3, <2>4, ChangeIs
  <2> HIDE DEF X, T
  <2>6. ASSUME NEW p \in Products, One(T.rows[p])
        PROVE  /\ One(S.rows[p]) /\ Qty(T.rows[p]) = Qty(S.rows[p]) - Requested(it, p)
               /\ Res(T.rows[p]) = Res(S.rows[p])
    <3>1. CASE p = g
      <4>1. /\ One(S.rows[p]) /\ Qty(T.rows[p]) = Qty(S.rows[p]) + n
            /\ Res(T.rows[p]) = Res(S.rows[p]) + 0
        BY <2>5, <2>6, <3>1 DEF Wrote
      <4>2. Requested(it, p) = it.qty
        BY <3>1 DEF Requested
      <4> QED BY <1>1, <2>3, <4>1, <4>2
    <3>2. CASE p # g
      <4>1. Requested(it, p) = 0 /\ T.rows[p] = S.rows[p]
        BY <2>5, <3>2 DEF Requested, Wrote, Beside
      <4> QED BY <1>1, <2>6, <4>1
    <3> QED BY <3>1, <3>2
  <2> QED BY <2>2, <2>5, <2>6 DEF Wrote, T
<1> QED BY <1>2, <1>3

LEMMA EachLowered ==
  ASSUME NEW S \in Store, Legal(S), NEW k, NEW items \in Seq(Item), k.body = "lower",
         k.at \in Outlets, Each(k, S, items).end # "throw"
  PROVE  /\ Each(k, S, items).end = "ok"
         /\ Lowered(S, Each(k, S, items).st, items, Len(items))
<1> DEFINE N == Len(items)
<1>1. N \in Nat /\ \A n \in 1 .. N : items[n] \in Item
  OBVIOUS
<1>2. PICK a : /\ a[0] = Ok(S)
               /\ \A n \in 1 .. N :
                    a[n] = IF a[n - 1].end = "ok" THEN Body(k, a[n - 1].st, items[n])
                           ELSE a[n - 1]
               /\ Each(k, S, items) = a[N]
  BY <1>1, EachSteps
<1> DEFINE G == {n \in 0 .. N : a[n].end # "throw" =>
                                  a[n].end = "ok" /\ Lowered(S, a[n].st, items, n)}
<1>3. 0 \in G
  <2>1. \A p \in Products : Qty(S.rows[p]) = Qty(S.rows[p]) - Wanted(items, p, 0)
    BY WantedStep, NumberTypes
  <2>2. Lowered(S, S, items, 0)
    BY <2>1 DEF Lowered, SameCost
  <2> QED BY <1>1, <1>2, <2>2 DEF Ok
<1>4. ASSUME NEW n \in 1 .. N, n - 1 \in G PROVE n \in G
  <2> DEFINE b == a[n - 1]
             T == a[n].st
  <2>1. ASSUME a[n].end # "throw" PROVE a[n].end = "ok" /\ Lowered(S, T, items, n)
    <3>1. b.end = "ok" /\ Lowered(S, b.st, items, n - 1)
      BY <1>2, <1>4, <2>1
    <3>2. a[n] = Body(k, b.st, items[n])
      BY <1>2, <3>1
    <3> HIDE DEF b
    <3>3. b.st \in Store /\ Legal(b.st) /\ items[n] \in Item
      BY <1>1, <3>1 DEF Lowered
    <3>4. /\ a[n].end = "ok" /\ T \in Store /\ Legal(T)
          /\ T.moved = b.st.moved /\ T.holds = b.st.holds /\ SameCost(b.st, T)
          /\ \A p \in Products : One(T.rows[p]) =>
               /\ One(b.st.rows[p])
               /\ Qty(T.rows[p]) = Qty(b.st.rows[p]) - Requested(items[n], p)
               /\ Res(T.rows[p]) = Res(b.st.rows[p])
      BY <2>1, <3>2, <3>3, LowerBody
    <3> HIDE DEF T
    <3>5. ASSUME NEW p \in Products, One(T.rows[p])
          PROVE  /\ One(S.rows[p])
                 /\ Qty(T.rows[p]) = Qty(S.rows[p]) - Wanted(items, p, n)
                 /\ Res(T.rows[p]) = Res(S.rows[p])
      <4>1. /\ Wanted(items, p, n) = Wanted(items, p, n - 1) + Requested(items[n], p)
            /\ Wanted(items, p, n - 1) \in Nat /\ Requested(items[n], p) \in Nat
        BY WantedStep
      <4>2. Qty(S.rows[p]) \in Nat
        BY NumberTypes
      <4>3. /\ One(S.rows[p])
            /\ Qty(b.st.rows[p]) = Qty(S.rows[p]) - Wanted(items, p, n - 1)
            /\ Res(b.st.rows[p]) = Res(S.rows[p])
        BY <3>1, <3>4, <3>5 DEF Lowered
      <4>4. /\ Qty(T.rows[p]) = Qty(b.st.rows[p]) - Requested(items[n], p)
            /\ Res(T.rows[p]) = Res(b.st.rows[p])
        BY <3>4, <3>5
      <4> QED BY <4>1, <4>2, <4>3, <4>4
    <3> QED BY <3>1, <3>4, <3>5 DEF Lowered, SameCost
  <2> QED BY <2>1
<1>5. N \in G
  <2> HIDE DEF G
  <2> QED BY <1>1, <1>3, <1>4, Ladder
<1> QED BY <1>2, <1>5

\* M are the layers L after consumption by method m.
InOrder(L, M, m) ==
  /\ DOMAIN L \subseteq DOMAIN M
  /\ \A i \in DOMAIN L : M[i].rem <= L[i].rem
  /\ \A i, k \in DOMAIN L :
       M[i].rem < L[i].rem /\ (IF m = "FIFO" THEN k < i ELSE k > i) => M[k].rem = 0

LEMMA KeptInOrder ==
  ASSUME NEW L \in Seq(Layer), NEW M, Kept(L, M), NEW m
  PROVE  InOrder(L, M, m)
<1>1. \A i \in DOMAIN L : L[i].rem \in Nat /\ M[i].rem = L[i].rem
  BY LayerNumbers DEF Kept
<1> QED BY <1>1 DEF Kept, InOrder

LEMMA InOrderTwice ==
  ASSUME NEW L \in Seq(Layer), NEW M \in Seq(Layer), NEW K \in Seq(Layer), NEW m,
         InOrder(L, M, m), InOrder(M, K, m)
  PROVE  InOrder(L, K, m)
<1>1. /\ \A i \in DOMAIN L : L[i].rem \in Nat
      /\ \A i \in DOMAIN M : M[i].rem \in Nat
      /\ \A i \in DOMAIN K : K[i].rem \in Nat
  BY LayerNumbers
<1>2. DOMAIN L \subseteq DOMAIN M /\ DOMAIN M \subseteq DOMAIN K
  BY DEF InOrder
<1>3. \A i \in DOMAIN L : K[i].rem <= M[i].rem /\ M[i].rem <= L[i].rem
  BY <1>2 DEF InOrder
<1>4. ASSUME NEW i \in DOMAIN L, NEW k \in DOMAIN L, K[i].rem < L[i].rem,
             IF m = "FIFO" THEN k < i ELSE k > i
      PROVE  K[k].rem = 0
  <2>1. /\ K[i].rem \in Nat /\ M[i].rem \in Nat /\ L[i].rem \in Nat
        /\ K[k].rem \in Nat /\ M[k].rem \in Nat
    BY <1>1, <1>2
  <2>2. CASE K[i].rem < M[i].rem
    BY <1>2, <1>4, <2>2 DEF InOrder
  <2>3. CASE ~(K[i].rem < M[i].rem)
    <3>1. M[i].rem < L[i].rem
      BY <1>3, <1>4, <2>1, <2>3
    <3>2. M[k].rem = 0
      BY <1>4, <3>1 DEF InOrder
    <3>3. K[k].rem <= M[k].rem
      BY <1>3
    <3> QED BY <2>1, <3>2, <3>3
  <2> QED BY <2>2, <2>3
<1>5. \A i \in DOMAIN L : K[i].rem <= L[i].rem
  BY <1>1, <1>2, <1>3
<1> QED BY <1>2, <1>4, <1>5 DEF InOrder

\* What is costed of a product: at most w units of its layers, and of its
\* summary.
CostedBy(S, T, p, w, m) ==
  /\ CostFits(T.layers[p], T.summary[p], T.charged[p])
  /\ Rem(T.layers[p]) >= Rem(S.layers[p]) - w /\ T.summary[p] >= S.summary[p] - w
  /\ InOrder(S.layers[p], T.layers[p], m)

\* After n lines of the last loop, that calculates the cost.
Costed(S, T, items, n, m) ==
  /\ T \in Store /\ T.rows = S.rows /\ T.moved = S.moved /\ T.holds = S.holds
  /\ \A p \in Products : CostedBy(S, T, p, Wanted(items, p, n), m)

CostSound(S) == \A p \in Products : CostFits(S.layers[p], S.summary[p], S.charged[p])

LEMMA CostedNothing ==
  ASSUME NEW S \in Store, CostSound(S), NEW T \in Store, NEW p \in Products, NEW m,
         T.layers[p] = S.layers[p], T.summary[p] = S.summary[p], T.charged[p] = S.charged[p]
  PROVE  CostedBy(S, T, p, 0, m)
<1>1. S.layers[p] \in Seq(Layer) /\ Rem(S.layers[p]) \in Nat /\ S.summary[p] \in Nat
  BY StoreFields, LayerNumbers
<1>2. InOrder(S.layers[p], T.layers[p], m)
  BY <1>1, KeptSame, KeptInOrder
<1>3. /\ Rem(S.layers[p]) >= Rem(S.layers[p]) - 0
      /\ S.summary[p] >= S.summary[p] - 0
  BY <1>1
<1> QED BY <1>2, <1>3 DEF CostedBy, CostSound

\* What one line takes of the summary (AVG), or of the layers.
LEMMA CostOfSummary ==
  ASSUME NEW S \in Store, CostSound(S), NEW it \in Item, it.good \in Products, NEW m,
         m = "AVG", CostLine(S, m, it).end # "throw"
  PROVE  LET T == CostLine(S, m, it).st
         IN  /\ CostLine(S, m, it).end = "ok" /\ T \in Store
             /\ T.rows = S.rows /\ T.moved = S.moved /\ T.holds = S.holds
             /\ Beside(S, T, it.good) /\ CostedBy(S, T, it.good, it.qty, m)
<1> DEFINE p == it.good
           c == S.charged[p] + it.qty
           s == S.summary[p] - it.qty
           U == [S EXCEPT !.charged[p] = c]
           T == [U EXCEPT !.summary[p] = s]
<1>1. it.qty \in Nat /\ S.summary[p] \in Nat /\ S.charged[p] \in Nat
  BY StoreFields DEF Item
<1>2. c \in Nat
  BY <1>1
<1>3. ~(S.summary[p] < it.qty)
  BY DEF CostLine, Throw
<1>4. s \in Nat
  BY <1>1, <1>3
<1>5. CostLine(S, m, it) = Ok(T)
  BY <1>3 DEF CostLine, Store
<1> HIDE DEF c, s
<1>6. /\ U \in Store /\ U.rows = S.rows /\ U.moved = S.moved /\ U.holds = S.holds
      /\ U.layers = S.layers /\ U.summary = S.summary /\ U.charged[p] = c
      /\ Beside(S, U, p)
  BY <1>2 DEF Store, Beside
<1> HIDE DEF U
<1>7. /\ T \in Store /\ T.rows = U.rows /\ T.moved = U.moved /\ T.holds = U.holds
      /\ T.layers = U.layers /\ T.summary[p] = s /\ T.charged = U.charged
      /\ Beside(U, T, p)
  BY <1>4, <1>6 DEF Store, Beside
<1> HIDE DEF T
<1>8. Beside(S, T, p)
  BY <1>6, <1>7, BesideTwice
<1> DEFINE L == S.layers[p]
<1>9. /\ L \in Seq(Layer) /\ Rem(L) \in Nat /\ Use(L) \in Nat /\ Orig(L) \in Nat
      /\ CostFits(L, S.summary[p], S.charged[p])
  BY StoreFields, LayerNumbers DEF CostSound
<1>10. T.layers[p] = L /\ T.summary[p] = s /\ T.charged[p] = c
  BY <1>6, <1>7
<1> HIDE DEF L, p
<1>11. CostFits(L, s, c)
  BY <1>1, <1>9 DEF CostFits, s, c
<1>12. Rem(L) >= Rem(L) - it.qty /\ s >= S.summary[p] - it.qty
  BY <1>1, <1>9 DEF s
<1>13. InOrder(L, L, m)
  BY <1>9, KeptSame, KeptInOrder
<1>14. CostedBy(S, T, p, it.qty, m)
  BY <1>10, <1>11, <1>12, <1>13 DEF CostedBy, L
<1> QED BY <1>5, <1>6, <1>7, <1>8, <1>14 DEF Ok, p

LEMMA CostOfLayers ==
  ASSUME NEW S \in Store, CostSound(S), NEW it \in Item, it.good \in Products, NEW m,
         m # "AVG", CostLine(S, m, it).end # "throw"
  PROVE  LET T == CostLine(S, m, it).st
         IN  /\ CostLine(S, m, it).end = "ok" /\ T \in Store
             /\ T.rows = S.rows /\ T.moved = S.moved /\ T.holds = S.holds
             /\ Beside(S, T, it.good) /\ CostedBy(S, T, it.good, it.qty, m)
<1> DEFINE p == it.good
           n == it.qty
           c == S.charged[p] + n
           U == [S EXCEPT !.charged[p] = c]
           L == S.layers[p]
           M == [i \in DOMAIN U.layers[p] |-> Less(U.layers[p][i], Taken(U, p, m, n, i))]
           T == [U EXCEPT !.layers[p] = M]
<1>1. n \in Nat /\ S.charged[p] \in Nat /\ S.summary[p] \in Nat
  BY StoreFields DEF Item
<1>2. c \in Nat
  BY <1>1
<1>3. ~(OnLayers(S, p) < n) /\ CostLine(S, m, it) = Ok(ConsumeLayers(U, p, m, n))
  BY DEF CostLine, Throw
<1> HIDE DEF c
<1>4. /\ U \in Store /\ U.rows = S.rows /\ U.moved = S.moved /\ U.holds = S.holds
      /\ U.layers = S.layers /\ U.summary = S.summary /\ U.charged[p] = c
      /\ Beside(S, U, p)
  BY <1>2 DEF Store, Beside
<1> HIDE DEF U
<1>5. ConsumeLayers(U, p, m, n) = T
  BY DEF ConsumeLayers
<1>6. /\ L \in Seq(Layer) /\ Rem(L) \in Nat /\ Use(L) \in Nat /\ Orig(L) \in Nat
      /\ CostFits(L, S.summary[p], S.charged[p])
  BY StoreFields, LayerNumbers DEF CostSound
<1>7. U.layers[p] = L /\ AfterLoop(U, p, m, n, M)
  BY <1>4 DEF AfterLoop
<1>8. n <= OnLayers(U, p)
  <2>1. OnLayers(S, p) = Rem(L) /\ OnLayers(U, p) = Rem(L)
    BY <1>7, Readings
  <2> HIDE DEF L, n
  <2> QED BY <1>1, <1>3, <1>6, <2>1
<1> HIDE DEF L, M, n
<1>9. M \in Seq(Layer)
  BY <1>1, <1>6, <1>7, LoopType
<1>10. TakenOff(L, M, m, n)
  BY <1>1, <1>6, <1>7, <1>8, <1>9, Consumed
<1>11. /\ T \in Store /\ T.rows = U.rows /\ T.moved = U.moved /\ T.holds = U.holds
       /\ T.layers[p] = M /\ T.summary = U.summary /\ T.charged = U.charged
       /\ Beside(U, T, p)
  BY <1>4, <1>9 DEF Store, Beside
<1> HIDE DEF T
<1>12. Beside(S, T, p)
  BY <1>4, <1>11, BesideTwice
<1>13. CostFits(M, S.summary[p], c)
  <2>1. \A i \in DOMAIN M : M[i].rem + M[i].used = M[i].orig
    BY <1>6, <1>10 DEF CostFits, TakenOff
  <2>2. c = Use(M) + (Orig(M) - S.summary[p])
    BY <1>1, <1>6, <1>10 DEF CostFits, TakenOff, c
  <2> QED BY <2>1, <2>2 DEF CostFits
<1>14. Rem(M) >= Rem(L) - n /\ S.summary[p] >= S.summary[p] - n
  BY <1>1, <1>6, <1>10 DEF TakenOff
<1>15. InOrder(L, M, m)
  BY <1>10 DEF TakenOff, InOrder
<1>16. CostedBy(S, T, p, n, m)
  <2>1. T.summary[p] = S.summary[p] /\ T.charged[p] = c
    BY <1>4, <1>11
  <2> QED BY <1>11, <1>13, <1>14, <1>15, <2>1 DEF CostedBy, L
<1> QED BY <1>3, <1>4, <1>5, <1>11, <1>12, <1>16 DEF Ok, n

LEMMA CostBody ==
  ASSUME NEW S \in Store, CostSound(S), NEW k, NEW it \in Item, k.body = "cost",
         Body(k, S, it).end # "throw"
  PROVE  LET T == Body(k, S, it).st
         IN  /\ Body(k, S, it).end = "ok" /\ T \in Store
             /\ T.rows = S.rows /\ T.moved = S.moved /\ T.holds = S.holds
             /\ \A p \in Products : CostedBy(S, T, p, Requested(it, p), k.by)
<1>1. CASE it.good \in Variants
  <2>1. Body(k, S, it) = Ok(S)
    BY <1>1 DEF Body
  <2>2. \A p \in Products : Requested(it, p) = 0
    BY <1>1, InventoryAssumption DEF Requested
  <2>3. \A p \in Products : CostedBy(S, S, p, Requested(it, p), k.by)
    BY <2>2, CostedNothing
  <2> QED BY <2>1, <2>3 DEF Ok
<1>2. CASE it.good \notin Variants
  <2> DEFINE a == CostLine(S, k.by, it)
             T == a.st
  <2>1. Body(k, S, it) = a
    BY <1>2 DEF Body
  <2>2. it.good \in Products /\ a.end # "throw"
    BY <1>2, <2>1 DEF Item, Goods
  <2>3. /\ a.end = "ok" /\ T \in Store
        /\ T.rows = S.rows /\ T.moved = S.moved /\ T.holds = S.holds
        /\ Beside(S, T, it.good) /\ CostedBy(S, T, it.good, it.qty, k.by)
    BY <2>2, CostOfSummary, CostOfLayers
  <2> HIDE DEF a
  <2>4. ASSUME NEW p \in Products PROVE CostedBy(S, T, p, Requested(it, p), k.by)
    <3>1. CASE p = it.good
      BY <2>3, <3>1 DEF Requested
    <3>2. CASE p # it.good
      <4>1. /\ T.layers[p] = S.layers[p] /\ T.summary[p] = S.summary[p]
            /\ T.charged[p] = S.charged[p] /\ Requested(it, p) = 0
        BY <2>3, <3>2 DEF Beside, Requested
      <4> HIDE DEF T
      <4>2. CostedBy(S, T, p, 0, k.by)
        BY <2>3, <4>1, CostedNothing DEF T
      <4> QED BY <4>1, <4>2
    <3> QED BY <3>1, <3>2
  <2> QED BY <2>1, <2>3, <2>4
<1> QED BY <1>1, <1>2

LEMMA CostedTwice ==
  ASSUME NEW S \in Store, NEW T \in Store, NEW U \in Store, NEW p \in Products, NEW m,
         NEW v \in Nat, NEW w \in Nat, CostedBy(S, T, p, v, m), CostedBy(T, U, p, w, m)
  PROVE  CostedBy(S, U, p, v + w, m)
<1>1. /\ S.layers[p] \in Seq(Layer) /\ T.layers[p] \in Seq(Layer) /\ U.layers[p] \in Seq(Layer)
      /\ Rem(S.layers[p]) \in Nat /\ Rem(T.layers[p]) \in Nat /\ Rem(U.layers[p]) \in Nat
      /\ S.summary[p] \in Nat /\ T.summary[p] \in Nat /\ U.summary[p] \in Nat
  BY StoreFields, NumberTypes
<1>2. InOrder(S.layers[p], U.layers[p], m)
  BY <1>1, InOrderTwice DEF CostedBy
<1>3. /\ Rem(U.layers[p]) >= Rem(S.layers[p]) - (v + w)
      /\ U.summary[p] >= S.summary[p] - (v + w)
  <2>1. /\ Rem(T.layers[p]) >= Rem(S.layers[p]) - v /\ T.summary[p] >= S.summary[p] - v
        /\ Rem(U.layers[p]) >= Rem(T.layers[p]) - w /\ U.summary[p] >= T.summary[p] - w
    BY DEF CostedBy
  <2>2. \A x, y, z \in Nat : y >= x - v /\ z >= y - w => z >= x - (v + w)
    OBVIOUS
  <2> QED BY <1>1, <2>1, <2>2
<1> QED BY <1>2, <1>3 DEF CostedBy

LEMMA EachCosted ==
  ASSUME NEW S \in Store, CostSound(S), NEW k, NEW items \in Seq(Item), k.body = "cost",
         Each(k, S, items).end # "throw"
  PROVE  /\ Each(k, S, items).end = "ok"
         /\ Costed(S, Each(k, S, items).st, items, Len(items), k.by)
<1> DEFINE N == Len(items)
           m == k.by
<1>1. N \in Nat /\ \A n \in 1 .. N : items[n] \in Item
  OBVIOUS
<1>2. PICK a : /\ a[0] = Ok(S)
               /\ \A n \in 1 .. N :
                    a[n] = IF a[n - 1].end = "ok" THEN Body(k, a[n - 1].st, items[n])
                           ELSE a[n - 1]
               /\ Each(k, S, items) = a[N]
  BY <1>1, EachSteps
<1> DEFINE G == {n \in 0 .. N : a[n].end # "throw" =>
                                  a[n].end = "ok" /\ Costed(S, a[n].st, items, n, m)}
<1>3. 0 \in G
  <2>1. \A p \in Products : CostedBy(S, S, p, Wanted(items, p, 0), m)
    BY WantedStep, CostedNothing
  <2>2. Costed(S, S, items, 0, m)
    BY <2>1 DEF Costed
  <2> QED BY <1>1, <1>2, <2>2 DEF Ok
<1>4. ASSUME NEW n \in 1 .. N, n - 1 \in G PROVE n \in G
  <2> DEFINE b == a[n - 1]
             T == a[n].st
  <2>1. ASSUME a[n].end # "throw" PROVE a[n].end = "ok" /\ Costed(S, T, items, n, m)
    <3>1. b.end = "ok" /\ Costed(S, b.st, items, n - 1, m)
      BY <1>2, <1>4, <2>1
    <3>2. a[n] = Body(k, b.st, items[n])
      BY <1>2, <3>1
    <3> HIDE DEF b
    <3>3. b.st \in Store /\ CostSound(b.st) /\ items[n] \in Item
      BY <1>1, <3>1 DEF Costed, CostedBy, CostSound
    <3>4. /\ a[n].end = "ok" /\ T \in Store
          /\ T.rows = b.st.rows /\ T.moved = b.st.moved /\ T.holds = b.st.holds
          /\ \A p \in Products : CostedBy(b.st, T, p, Requested(items[n], p), m)
      BY <2>1, <3>2, <3>3, CostBody
    <3> HIDE DEF T, m
    <3>5. ASSUME NEW p \in Products PROVE CostedBy(S, T, p, Wanted(items, p, n), m)
      <4>1. /\ Wanted(items, p, n) = Wanted(items, p, n - 1) + Requested(items[n], p)
            /\ Wanted(items, p, n - 1) \in Nat /\ Requested(items[n], p) \in Nat
        BY WantedStep
      <4>2. CostedBy(S, b.st, p, Wanted(items, p, n - 1), m)
        BY <3>1 DEF Costed
      <4>3. CostedBy(b.st, T, p, Requested(items[n], p), m)
        BY <3>4
      <4> QED BY <3>3, <3>4, <4>1, <4>2, <4>3, CostedTwice
    <3> QED BY <3>1, <3>4, <3>5 DEF Costed
  <2> QED BY <2>1
<1>5. N \in G
  <2> HIDE DEF G
  <2> QED BY <1>1, <1>3, <1>4, Ladder
<1> QED BY <1>2, <1>5

-----------------------------------------------------------------------------
(* A sale. *)

\* Its three loops together, when none threw: S before, A compared, B lowered,
\* C costed.
LEMMA LoopsSettle ==
  ASSUME NEW S, Sound(S), NEW A, NEW B, NEW C, NEW items \in Seq(Item), NEW m,
         Compared(S, A, items, Len(items)), Lowered(A, B, items, Len(items)),
         Costed(B, C, items, Len(items), m)
  PROVE  Sound(C) /\ \A p \in Products : InOrder(S.layers[p], C.layers[p], m)
<1> DEFINE W(p) == Wanted(items, p, Len(items))
<1>1. /\ S \in Store /\ A \in Store /\ B \in Store /\ C \in Store
      /\ C.rows = B.rows /\ Legal(B)
  BY DEF Sound, Compared, Lowered, Costed
<1>2. Legal(C)
  BY <1>1, LegalSame
<1>3. ASSUME NEW p \in Products PROVE Fits(C, p) /\ InOrder(S.layers[p], C.layers[p], m)
  <2> DEFINE w == W(p)
  <2>1. w \in Nat
    <3>1. CASE Len(items) = 0
      <4>1. Wanted(items, p, 0) = 0
        BY WantedStep
      <4> QED BY <3>1, <4>1
    <3>2. CASE Len(items) # 0
      <4>1. Len(items) \in 1 .. Len(items)
        BY <3>2
      <4> QED BY <4>1, WantedStep
    <3> QED BY <3>1, <3>2
  <2>2. /\ Total(C.moved[p], Places) = Total(S.moved[p], Places) - w
        /\ C.holds[p] = S.holds[p]
        /\ B.layers[p] = S.layers[p] /\ B.summary[p] = S.summary[p]
    BY DEF Compared, Lowered, Costed, SameCost
  <2>3. One(C.rows[p]) => /\ One(S.rows[p]) /\ Qty(C.rows[p]) = Qty(S.rows[p]) - w
                          /\ Res(C.rows[p]) = Res(S.rows[p])
    BY DEF Compared, Lowered, Costed
  <2>4. CostedBy(B, C, p, w, m)
    BY DEF Costed
  <2> HIDE DEF w
  <2>5. /\ CostFits(C.layers[p], C.summary[p], C.charged[p])
        /\ Rem(C.layers[p]) >= Rem(S.layers[p]) - w /\ C.summary[p] >= S.summary[p] - w
        /\ InOrder(S.layers[p], C.layers[p], m)
    BY <2>2, <2>4 DEF CostedBy
  <2>6. RowFits(C.rows[p], C.moved[p], C.holds[p], C.layers[p], C.summary[p])
    <3>1. /\ Qty(S.rows[p]) \in Nat /\ Total(S.moved[p], Places) \in Int
          /\ Rem(S.layers[p]) \in Nat /\ S.summary[p] \in Nat
          /\ Rem(C.layers[p]) \in Nat /\ C.summary[p] \in Nat
      BY <1>1, NumberTypes
    <3>2. RowFits(S.rows[p], S.moved[p], S.holds[p], S.layers[p], S.summary[p])
      BY DEF Sound, Fits
    <3>3. ASSUME One(C.rows[p])
          PROVE  /\ Qty(C.rows[p]) = Total(C.moved[p], Places)
                 /\ Res(C.rows[p]) = C.holds[p]
                 /\ Qty(C.rows[p]) <= Rem(C.layers[p]) /\ Qty(C.rows[p]) <= C.summary[p]
      <4>1. /\ Qty(S.rows[p]) = Total(S.moved[p], Places) /\ Res(S.rows[p]) = S.holds[p]
            /\ Qty(S.rows[p]) <= Rem(S.layers[p]) /\ Qty(S.rows[p]) <= S.summary[p]
        BY <2>3, <3>2, <3>3 DEF RowFits
      <4>2. Qty(C.rows[p]) = Qty(S.rows[p]) - w /\ Res(C.rows[p]) = Res(S.rows[p])
        BY <2>3, <3>3
      <4> QED BY <2>1, <2>2, <2>5, <3>1, <4>1, <4>2
    <3> QED BY <3>3 DEF RowFits
  <2> QED BY <2>5, <2>6 DEF Fits
<1> QED BY <1>1, <1>2, <1>3 DEF Sound

LEMMA DeductWithCostKeeps ==
  ASSUME NEW S, Sound(S), NEW o \in Outlets, NEW items \in Seq(Item),
         DeductWithCost(S, o, items).end # "throw"
  PROVE  LET T == DeductWithCost(S, o, items).st
         IN  Sound(T) /\ \A p \in Products : InOrder(S.layers[p], T.layers[p], method)
<1> DEFINE a == Each(Loop("compare", o), S, items)
           b == Each(Loop("lower", o), a.st, items)
           c == Each(Loop("cost", o), b.st, items)
<1>1. /\ Loop("compare", o).body = "compare" /\ Loop("compare", o).at = o
      /\ Loop("lower", o).body = "lower" /\ Loop("lower", o).at = o
      /\ Loop("cost", o).body = "cost" /\ Loop("cost", o).by = method
  BY DEF Loop
<1>2. DeductWithCost(S, o, items) =
        Then(Then(a, Loop("lower", o), items), Loop("cost", o), items)
  BY DEF DeductWithCost
<1>3. a.end # "throw"
  <2> HIDE DEF a
  <2> QED BY <1>2 DEF Then
<1>4. a.end = "ok" /\ Compared(S, a.st, items, Len(items))
  BY <1>1, <1>3, EachCompared DEF Sound
<1>5. DeductWithCost(S, o, items) = Then(b, Loop("cost", o), items)
  <2> HIDE DEF a
  <2> QED BY <1>2, <1>4 DEF Then
<1>6. b.end # "throw"
  <2> HIDE DEF b
  <2> QED BY <1>5 DEF Then
<1>7. a.st \in Store /\ Legal(a.st) /\ CostSound(a.st)
  <2> HIDE DEF a
  <2> QED BY <1>4, LegalSame DEF Sound, Fits, Compared, SameCost, CostSound
<1>8. b.end = "ok" /\ Lowered(a.st, b.st, items, Len(items))
  <2> HIDE DEF a
  <2> QED BY <1>1, <1>6, <1>7, EachLowered
<1>9. DeductWithCost(S, o, items) = c
  <2> HIDE DEF b
  <2> QED BY <1>5, <1>8 DEF Then
<1>10. b.st \in Store /\ CostSound(b.st)
  <2> HIDE DEF a, b
  <2> QED BY <1>7, <1>8 DEF Lowered, SameCost, CostSound
<1>11. Costed(b.st, c.st, items, Len(items), method)
  <2>1. c.end # "throw"
    BY <1>9
  <2> HIDE DEF b
  <2> QED BY <1>1, <1>10, <2>1, EachCosted
<1> HIDE DEF a, b, c
<1>12. Sound(c.st) /\ \A p \in Products : InOrder(S.layers[p], c.st.layers[p], method)
  BY <1>4, <1>8, <1>11, LoopsSettle
<1> QED BY <1>9, <1>12

LEMMA DeductForPosKeeps ==
  ASSUME NEW S, Sound(S), NEW o \in Outlets, NEW items \in Seq(Item),
         DeductForPos(S, o, items).end # "throw"
  PROVE  LET T == DeductForPos(S, o, items).st
         IN  Sound(T) /\ \A p \in Products : InOrder(S.layers[p], T.layers[p], method)
<1> DEFINE a == Each(Loop("variant", o), S, items)
           A == a.st
           T == DeductWithCost(A, o, items).st
<1>1. Loop("variant", o).body = "variant"
  BY DEF Loop
<1>2. DeductForPos(S, o, items) = IF a.end = "ok" THEN DeductWithCost(A, o, items) ELSE a
  BY DEF DeductForPos
<1>3. a.end # "throw"
  <2> HIDE DEF a
  <2> QED BY <1>2
<1>4. a.end = "ok" /\ Keeps(S, A)
  BY <1>1, <1>3, EachVariantKeeps
<1>5. DeductForPos(S, o, items) = DeductWithCost(A, o, items)
  BY <1>2, <1>4
<1> HIDE DEF a, A
<1>6. Sound(T) /\ \A p \in Products : InOrder(A.layers[p], T.layers[p], method)
  BY <1>4, <1>5, DeductWithCostKeeps DEF Keeps
<1> HIDE DEF T
<1>7. ASSUME NEW p \in Products PROVE InOrder(S.layers[p], T.layers[p], method)
  <2>1. /\ S.layers[p] \in Seq(Layer) /\ A.layers[p] \in Seq(Layer)
        /\ T.layers[p] \in Seq(Layer)
    BY <1>4, <1>6, StoreFields DEF Keeps, Sound
  <2>2. InOrder(S.layers[p], A.layers[p], method)
    BY <1>4, <2>1, KeptInOrder DEF Keeps
  <2> QED BY <1>6, <2>1, <2>2, InOrderTwice
<1> QED BY <1>5, <1>6, <1>7 DEF T

-----------------------------------------------------------------------------
(* The invariant. *)

Call == {<<>>} \cup (Outlets \X Orders)

IInv == /\ Sound(Tables)
        /\ method \in Methods
        /\ asked \in [Callers -> Call]
        /\ \A c \in Callers : asked[c] # <<>> => Simple(asked[c][2])

LEMMA OrderItems == Orders \subseteq Seq(Item)
BY InventoryAssumption DEF Item

LEMMA TablesFields ==
  /\ Tables.rows = rows /\ Tables.moved = moved /\ Tables.holds = holds
  /\ Tables.vstock = vstock /\ Tables.layers = layers /\ Tables.summary = summary
  /\ Tables.charged = charged
BY DEF Tables

LEMMA InitSound == Init => IInv
<1> SUFFICES ASSUME Init PROVE IInv
  OBVIOUS
<1>1. Tables \in Store
  <2>1. rows \in [Products -> Rows]
    <3>1. [x \in {} |-> [q |-> 0, r |-> 0]] \in [{} -> Row]
      OBVIOUS
    <3>2. [x \in {} |-> [q |-> 0, r |-> 0]] \in Rows
      BY <3>1, IntoRows
    <3> QED BY <3>2 DEF Init
  <2>2. /\ moved \in [Products -> [Places -> Int]] /\ holds \in [Products -> Int]
        /\ vstock \in [Variants -> Nat] /\ summary \in [Products -> Nat]
        /\ charged \in [Products -> Nat]
    BY InventoryAssumption DEF Init
  <2>3. layers \in [Products -> Seq(Layer)]
    <3>1. <<>> \in Seq(Layer)
      OBVIOUS
    <3> QED BY <3>1 DEF Init
  <2> QED BY <2>1, <2>2, <2>3 DEF Tables, Store
<1>2. Legal(Tables)
  BY DEF Init, Legal, Tables
<1>3. ASSUME NEW p \in Products PROVE Fits(Tables, p)
  <2>1. DOMAIN rows[p] = {} /\ holds[p] = 0 /\ summary[p] = 0 /\ charged[p] = 0
    BY DEF Init
  <2>2. Qty(rows[p]) = 0 /\ Res(rows[p]) = 0
    BY <2>1, QtyEmpty
  <2>3. Total(moved[p], Places) = 0
    <3>1. IsFiniteSet(Places)
      BY InventoryAssumption, FS_AddElement DEF Places
    <3>2. \A x \in Places : moved[p][x] = 0
      BY DEF Init
    <3> QED BY <3>1, <3>2, SumZero DEF Total
  <2>4. DOMAIN layers[p] = {}
    BY DEF Init
  <2>5. Rem(layers[p]) = 0 /\ Use(layers[p]) = 0 /\ Orig(layers[p]) = 0
    BY <2>4, SumEmpty DEF Rem, Use, Orig, Total
  <2>6. RowFits(rows[p], moved[p], holds[p], layers[p], summary[p])
    BY <2>1, <2>2, <2>3, <2>5 DEF RowFits
  <2>7. CostFits(layers[p], summary[p], charged[p])
    BY <2>1, <2>4, <2>5 DEF CostFits
  <2> QED BY <2>6, <2>7, TablesFields DEF Fits
<1>4. /\ method \in Methods /\ asked \in [Callers -> Call]
      /\ \A c \in Callers : asked[c] = <<>>
  BY DEF Init, Call
<1> QED BY <1>1, <1>2, <1>3, <1>4 DEF IInv, Sound

\* What a step may do with the tables.
Step == Sound(Tables') /\ \A p \in Products : InOrder(layers[p], layers'[p], method)

LEMMA StandsStill ==
  ASSUME Sound(Tables),
         UNCHANGED <<rows, moved, holds, vstock, layers, summary, charged>>
  PROVE  Step
<1>1. Tables' = Tables
  BY DEF Tables
<1>2. \A p \in Products : layers[p] \in Seq(Layer) /\ layers'[p] = layers[p]
  BY StoreFields, TablesFields DEF Sound
<1> QED BY <1>1, <1>2, KeptSame, KeptInOrder DEF Step

LEMMA Committed ==
  ASSUME Sound(Tables), NEW a, Ends(a),
         a.end # "throw" =>
           Sound(a.st) /\ \A p \in Products : InOrder(layers[p], a.st.layers[p], method)
  PROVE  Step
<1>1. CASE a.end = "throw"
  <2>1. UNCHANGED <<rows, moved, holds, vstock, layers, summary, charged>>
    BY <1>1, TablesFields DEF Ends
  <2> QED BY <2>1, StandsStill
<1>2. CASE a.end # "throw"
  <2> DEFINE T == a.st
  <2>1. /\ rows' = T.rows /\ moved' = T.moved /\ holds' = T.holds /\ vstock' = T.vstock
        /\ layers' = T.layers /\ summary' = T.summary /\ charged' = T.charged
    BY <1>2 DEF Ends
  <2>2. T \in Store
    BY <1>2 DEF Sound
  <2>3. Tables' = T
    BY <2>1, <2>2 DEF Tables, Store
  <2> QED BY <1>2, <2>1, <2>3 DEF Step
<1> QED BY <1>1, <1>2

\* The same of an operation that takes nothing of a layer.
LEMMA CommittedAtNoCost ==
  ASSUME Sound(Tables), NEW a, Ends(a), a.end # "throw" => Keeps(Tables, a.st)
  PROVE  Step
<1>1. ASSUME a.end # "throw", NEW p \in Products
      PROVE  InOrder(layers[p], a.st.layers[p], method)
  <2>1. layers[p] \in Seq(Layer)
    BY StoreFields, TablesFields DEF Sound
  <2>2. Kept(layers[p], a.st.layers[p])
    BY <1>1, TablesFields DEF Keeps
  <2> QED BY <2>1, <2>2, KeptInOrder
<1> QED BY <1>1, Committed DEF Keeps

LEMMA LoopCommitted ==
  ASSUME Sound(Tables), NEW o \in Outlets, NEW items \in Seq(Item), Simple(items),
         NEW body \in {"deduct", "reserve", "release", "restore"},
         Ends(Each(Loop(body, o), Tables, items))
  PROVE  Step
<1> DEFINE a == Each(Loop(body, o), Tables, items)
<1>1. Loop(body, o).body = body /\ Loop(body, o).at = o
  BY DEF Loop
<1>2. a.end # "throw" => Keeps(Tables, a.st)
  BY <1>1, EachKeeps
<1> HIDE DEF a
<1>3. Ends(a)
  BY DEF a
<1> QED BY <1>2, <1>3, CommittedAtNoCost

LEMMA OperationSteps ==
  ASSUME IInv, Operation
  PROVE  Step /\ IInv'
<1>1. /\ Sound(Tables) /\ method \in Methods /\ asked \in [Callers -> Call]
      /\ \A c \in Callers : asked[c] # <<>> => Simple(asked[c][2])
  BY DEF IInv
<1>2. Step /\ UNCHANGED <<method, asked>> => Step /\ IInv'
  BY <1>1 DEF Step, IInv
<1>3. ASSUME NEW x \in Places, NEW p \in Products, NEW n \in Adjustments, Adjust(x, p, n)
      PROVE  Step /\ IInv'
  <2> DEFINE a == AdjustLine(Tables, x, p, n)
  <2>1. n \in Int
    BY InventoryAssumption
  <2>2. a.end # "throw" => Keeps(Tables, a.st)
    BY <1>1, <2>1, AdjustLineKeeps
  <2>3. Ends(a) /\ UNCHANGED <<method, asked>>
    BY <1>3 DEF Adjust
  <2> HIDE DEF a
  <2> QED BY <1>1, <1>2, <2>2, <2>3, CommittedAtNoCost
<1>4. ASSUME NEW o \in Outlets, NEW items \in Orders, Restore(o, items)
      PROVE  Step /\ IInv'
  BY <1>1, <1>2, <1>4, OrderItems, LoopCommitted DEF Restore
<1>5. ASSUME NEW o \in Outlets, NEW items \in Orders, Deduct(o, items)
      PROVE  Step /\ IInv'
  BY <1>1, <1>2, <1>5, OrderItems, LoopCommitted DEF Deduct
<1>6. ASSUME NEW o \in Outlets, NEW items \in Orders, Sell(o, items)
      PROVE  Step /\ IInv'
  <2> DEFINE a == DeductForPos(Tables, o, items)
  <2>1. a.end # "throw" =>
          Sound(a.st) /\ \A p \in Products : InOrder(layers[p], a.st.layers[p], method)
    BY <1>1, OrderItems, TablesFields, DeductForPosKeeps
  <2>2. Ends(a) /\ UNCHANGED <<method, asked>>
    BY <1>6 DEF Sell
  <2> HIDE DEF a
  <2> QED BY <1>1, <1>2, <2>1, <2>2, Committed
<1>7. ASSUME NEW o \in Outlets, NEW items \in Orders, Release(o, items)
      PROVE  Step /\ IInv'
  BY <1>1, <1>2, <1>7, OrderItems, LoopCommitted DEF Release
<1>8. ASSUME NEW c \in Callers, NEW o \in Outlets, NEW items \in Orders, Ask(c, o, items)
      PROVE  Step /\ IInv'
  <2>1. /\ asked' = [asked EXCEPT ![c] = <<o, items>>] /\ Simple(items)
        /\ UNCHANGED <<rows, moved, holds, vstock, layers, summary, charged>>
        /\ method' = method
    BY <1>8 DEF Ask
  <2>2. Step
    BY <1>1, <2>1, StandsStill
  <2>3. asked' \in [Callers -> Call]
    BY <1>1, <2>1 DEF Call
  <2>4. \A d \in Callers : asked'[d] # <<>> => Simple(asked'[d][2])
    <3> TAKE d \in Callers
    <3>1. CASE d = c
      <4>1. asked'[d] = <<o, items>>
        BY <1>1, <2>1, <3>1
      <4> QED BY <2>1, <4>1
    <3>2. CASE d # c
      BY <1>1, <2>1, <3>2
    <3> QED BY <3>1, <3>2
  <2> QED BY <1>1, <2>1, <2>2, <2>3, <2>4 DEF Step, IInv
<1>9. ASSUME NEW c \in Callers, Reserve(c)
      PROVE  Step /\ IInv'
  <2> DEFINE o == asked[c][1]
             items == asked[c][2]
  <2>1. o \in Outlets /\ items \in Seq(Item) /\ Simple(items)
    BY <1>1, <1>9, OrderItems DEF Reserve, Call
  <2>2. /\ Ends(Each(Loop("reserve", o), Tables, items))
        /\ asked' = [asked EXCEPT ![c] = <<>>] /\ method' = method
    BY <1>9 DEF Reserve
  <2> HIDE DEF o, items
  <2>3. Step
    BY <1>1, <2>1, <2>2, LoopCommitted
  <2>4. /\ asked' \in [Callers -> Call]
        /\ \A d \in Callers : asked'[d] # <<>> => Simple(asked'[d][2])
    BY <1>1, <2>2 DEF Call
  <2> QED BY <1>1, <2>2, <2>3, <2>4 DEF Step, IInv
<1>10. ASSUME NEW m \in Methods, SetMethod(m)
       PROVE  Step /\ IInv'
  <2>1. /\ method' = m /\ asked' = asked
        /\ UNCHANGED <<rows, moved, holds, vstock, layers, summary, charged>>
    BY <1>10 DEF SetMethod
  <2>2. Step
    BY <1>1, <2>1, StandsStill
  <2> QED BY <1>1, <2>1, <2>2 DEF Step, IInv
<1> QED BY <1>3, <1>4, <1>5, <1>6, <1>7, <1>8, <1>9, <1>10 DEF Operation

LEMMA StepSound == IInv /\ [Next]_vars => IInv'
<1>1. ASSUME IInv, Next PROVE IInv'
  BY <1>1, OperationSteps DEF Next
<1>2. ASSUME IInv, UNCHANGED vars PROVE IInv'
  <2>1. Tables' = Tables
    BY <1>2 DEF vars, Tables
  <2> QED BY <1>2, <2>1 DEF vars, IInv
<1> QED BY <1>1, <1>2

LEMMA Invariance == Spec => []IInv
BY InitSound, StepSound, PTL DEF Spec

-----------------------------------------------------------------------------
(* What the runs check, for every value of the constants. *)

\* The tables stay well typed, and no row reserves more than it has, whatever
\* the orders ask for (the CHECKs of inventory_stock, stock-service.ts).
THEOREM TypeCorrect == Spec => []TypeOK
<1>1. ASSUME IInv PROVE TypeOK
  <2>1. Tables \in Store /\ Legal(Tables)
    BY <1>1 DEF IInv, Sound
  <2>2. ASSUME NEW p \in Products
        PROVE  /\ DOMAIN rows[p] \subseteq Places
               /\ \A x \in DOMAIN rows[p] : rows[p][x] \in Row /\ rows[p][x].r <= rows[p][x].q
    <3>1. rows[p] \in Rows
      BY <2>1, StoreFields, TablesFields
    <3>2. DOMAIN rows[p] \subseteq Places /\ \A x \in DOMAIN rows[p] : rows[p][x] \in Row
      BY <3>1, RowsOf
    <3>3. \A x \in DOMAIN rows[p] : rows[p][x].r <= rows[p][x].q
      BY <2>1, TablesFields DEF Legal
    <3> QED BY <3>2, <3>3
  <2>3. /\ moved \in [Products -> [Places -> Int]] /\ holds \in [Products -> Int]
        /\ vstock \in [Variants -> Nat] /\ summary \in [Products -> Nat]
        /\ charged \in [Products -> Nat] /\ layers \in [Products -> Seq(Layer)]
    BY <2>1, TablesFields DEF Store
  <2> QED BY <1>1, <2>2, <2>3 DEF TypeOK, IInv, Call, Layer
<1> QED BY <1>1, Invariance, PTL

\* The stock of every product is the sum of its movements, after any number of
\* operations that succeed, stop half way or throw (deductStock, restoreStock,
\* adjustStock, deductStockWithCost).
THEOREM StockIsMovements == Spec => []StockAccounts
<1>1. ASSUME IInv PROVE StockAccounts
  <2>1. \A p \in Products : Fits(Tables, p)
    BY <1>1 DEF IInv, Sound
  <2> QED BY <2>1, Readings, TablesFields DEF StockAccounts, Fits, RowFits
<1> QED BY <1>1, Invariance, PTL

\* What a product has reserved is what its movements say, also after a release
\* of more than that (reserveStock, releaseStock).
THEOREM ReservedIsMovements == Spec => []HoldsAccount
<1>1. ASSUME IInv PROVE HoldsAccount
  <2>1. \A p \in Products : Fits(Tables, p)
    BY <1>1 DEF IInv, Sound
  <2> QED BY <2>1, Readings, TablesFields DEF HoldsAccount, Fits, RowFits
<1> QED BY <1>1, Invariance, PTL

\* The cost of what was sold is taken once, from a layer or from the summary,
\* however often the method was changed (calculateCost).
THEOREM CostIsTakenOnce == Spec => []CostFollowsGoods
<1>1. ASSUME IInv PROVE CostFollowsGoods
  <2>1. \A p \in Products : CostFits(layers[p], summary[p], charged[p])
    BY <1>1, TablesFields DEF IInv, Sound, Fits
  <2>2. \A p \in Products : /\ Used(Tables, p) = Use(layers[p])
                            /\ Came(Tables, p) = Orig(layers[p])
    BY Readings, TablesFields
  <2> QED BY <2>1, <2>2 DEF CostFollowsGoods, CostFits
<1> QED BY <1>1, Invariance, PTL

\* The layers and the summary each pay for all that is on stock, so a sale that
\* found its stock is never refused for its cost (deductWithCost).
THEOREM StockHasCost == Spec => []StockIsCosted
<1>1. ASSUME IInv PROVE StockIsCosted
  <2>1. \A p \in Products : Fits(Tables, p)
    BY <1>1 DEF IInv, Sound
  <2> QED BY <2>1, Readings, TablesFields DEF StockIsCosted, Fits, RowFits
<1> QED BY <1>1, Invariance, PTL

\* No layer gives anything before those in front of it are empty, for a sale of
\* any number of items, the same product among them more than once
\* (calculateFIFOCost, calculateLIFOCost).
THEOREM LayersEmptyInOrder == Spec => LayersInOrder
<1> DEFINE Ordered ==
      \A p \in Products : \A i, k \in DOMAIN layers[p] :
        /\ layers'[p][i].rem < layers[p][i].rem
        /\ IF method = "FIFO" THEN k < i ELSE k > i
        => layers'[p][k].rem = 0
<1>1. ASSUME IInv, Next PROVE Ordered
  <2>1. \A p \in Products : InOrder(layers[p], layers'[p], method)
    BY <1>1, OperationSteps DEF Next, Step
  <2> QED BY <2>1 DEF InOrder
<1>2. IInv /\ [Next]_vars => [Ordered]_vars
  BY <1>1
<1> QED BY <1>2, Invariance, PTL DEF Spec, LayersInOrder
=============================================================================
