-------------------------- MODULE OrderBookProofs --------------------------
(***************************************************************************)
(* The book's four shapes agree with one another and with the exchange,    *)
(* for any set of references, prices and sizes, any tick and any number of *)
(* levels.  The level totals, the occupancy bits and the order map need no *)
(* assumption on the prices; the cached top of book does.                  *)
(***************************************************************************)
EXTENDS OrderBook, FoldTheorems

Entry == [price : Price, shares : Nat \ {0}, side : Side]
LevelType == [Side -> [Index -> [shares : Int, count : Int]]]

\* The shapes as functions of an order map o over a window that starts at b.
At(o, b, s, i) == {r \in DOMAIN o : o[r].side = s /\ IndexIn(b, o[r].price) = i}
SharesIn(o) == [r \in DOMAIN o |-> o[r].shares]
Typed(o, b) ==
    /\ o \in [DOMAIN o -> Entry] /\ DOMAIN o \subseteq Ref /\ IsFiniteSet(DOMAIN o)
    /\ \A r \in DOMAIN o : IndexIn(b, o[r].price) \in Index
Total(o, A) == [shares |-> SumFunctionOnSet(SharesIn(o), A), count |-> Cardinality(A)]
Totals(o, b, l) ==
    /\ l \in LevelType
    /\ \A s \in Side, i \in Index : l[s][i] = Total(o, At(o, b, s, i))

-----------------------------------------------------------------------------
(* Order maps and their totals.                                            *)

LEMMA WithoutIs ==
    ASSUME NEW o, NEW r
    PROVE  /\ DOMAIN Without(o, r) = DOMAIN o \ {r}
           /\ \A x \in DOMAIN o : x # r => Without(o, r)[x] = o[x]
BY DEF Without

LEMMA AtFinite ==
    ASSUME NEW o, NEW b, Typed(o, b), NEW s, NEW i
    PROVE  /\ IsFiniteSet(At(o, b, s, i)) /\ Cardinality(At(o, b, s, i)) \in Nat
           /\ \A x \in At(o, b, s, i) : x \in DOMAIN o /\ SharesIn(o)[x] \in Nat \ {0}
           /\ Total(o, At(o, b, s, i)).shares \in Nat
<1> DEFINE A == At(o, b, s, i)
<1>1. A \subseteq DOMAIN o
  BY DEF At
<1>2. IsFiniteSet(A)
  BY <1>1, FS_Subset DEF Typed
<1>3. \A x \in DOMAIN o : SharesIn(o)[x] \in Nat \ {0}
  BY DEF Typed, Entry, SharesIn
<1> HIDE DEF A
<1>4. SumFunctionOnSet(SharesIn(o), A) \in Nat
  BY <1>1, <1>2, <1>3, SumNat
<1> QED BY <1>1, <1>2, <1>3, <1>4, FS_CardinalityType DEF A, Total

\* insert: one entry more.
Grown(l, s, i, n) == [l EXCEPT ![s][i] = [shares |-> @.shares + n, count |-> @.count + 1]]

LEMMA PutTotals ==
    ASSUME NEW o, NEW b, Typed(o, b), NEW r \in Ref, r \notin DOMAIN o,
           NEW e \in Entry, NEW i \in Index, IndexIn(b, e.price) = i,
           NEW l, Totals(o, b, l)
    PROVE  /\ Typed(Put(o, r, e), b)
           /\ Totals(Put(o, r, e), b,
                     Grown(l, e.side, i, e.shares))
<1> DEFINE q == Put(o, r, e)
           d == e.side
           m == Grown(l, d, i, e.shares)
<1>1. /\ DOMAIN q = DOMAIN o \cup {r} /\ q[r] = e
      /\ \A x \in DOMAIN o : q[x] = o[x]
  BY DEF Put
<1>2. q = [x \in DOMAIN q |-> q[x]]
  BY DEF Put
<1>3. d \in Side /\ e.shares \in Nat \ {0}
  BY DEF Entry
<1> HIDE DEF q
<1>4. Typed(q, b)
  <2>1. q \in [DOMAIN q -> Entry]
    BY <1>1, <1>2 DEF Typed
  <2>2. DOMAIN q \subseteq Ref
    BY <1>1 DEF Typed
  <2>3. IsFiniteSet(DOMAIN q)
    BY <1>1, FS_AddElement DEF Typed
  <2>4. \A x \in DOMAIN q : IndexIn(b, q[x].price) \in Index
    BY <1>1 DEF Typed
  <2> QED BY <2>1, <2>2, <2>3, <2>4 DEF Typed
<1>5. /\ SharesIn(q)[r] = e.shares
      /\ \A x \in DOMAIN o : SharesIn(q)[x] = SharesIn(o)[x]
  BY <1>1 DEF SharesIn
<1>6. ASSUME NEW s \in Side, NEW j \in Index
      PROVE  m[s][j] = Total(q, At(q, b, s, j))
  <2> DEFINE A == At(o, b, s, j)
  <2>1. IsFiniteSet(A) /\ Cardinality(A) \in Nat /\ A \subseteq DOMAIN o
    BY AtFinite
  <2>2. l[s][j] = Total(o, A)
    BY DEF Totals
  <2>3. SumFunctionOnSet(SharesIn(q), A) = SumFunctionOnSet(SharesIn(o), A)
    BY <1>5, <2>1, SumSame
  <2>4. CASE s = d /\ j = i
    <3>1. At(q, b, s, j) = A \cup {r} /\ r \notin A
      BY <1>1, <2>4 DEF At
    <3> HIDE DEF A
    <3>2. \A x \in A \cup {r} : SharesIn(q)[x] \in Int
      BY <1>3, <1>5, <2>1, AtFinite DEF A
    <3>3. SumFunctionOnSet(SharesIn(q), A \cup {r}) = e.shares + SumFunctionOnSet(SharesIn(q), A)
      BY <1>5, <2>1, <3>1, <3>2, SumAdd
    <3>4. Cardinality(A \cup {r}) = Cardinality(A) + 1
      BY <2>1, <3>1, FS_AddElement
    <3>5. SumFunctionOnSet(SharesIn(o), A) \in Nat
      BY AtFinite DEF A, Total
    <3>6. m[s][j] = [shares |-> l[d][i].shares + e.shares, count |-> l[d][i].count + 1]
      BY <1>3, <2>4 DEF Totals, LevelType, Grown
    <3>7. l[d][i].shares = SumFunctionOnSet(SharesIn(o), A) /\ l[d][i].count = Cardinality(A)
      BY <2>2, <2>4 DEF Total
    <3> HIDE DEF m
    <3> QED BY <1>3, <2>1, <2>3, <3>1, <3>3, <3>4, <3>5, <3>6, <3>7 DEF Total
  <2>5. CASE ~(s = d /\ j = i)
    <3>1. At(q, b, s, j) = A
      BY <1>1, <2>5 DEF At
    <3>2. m[s][j] = l[s][j]
      BY <1>3, <2>5 DEF Totals, LevelType, Grown
    <3> HIDE DEF m
    <3> QED BY <2>2, <2>3, <3>1, <3>2 DEF Total
  <2> QED BY <2>4, <2>5
<1>7. m \in LevelType
  BY <1>3 DEF Totals, LevelType, Grown
<1> QED BY <1>4, <1>6, <1>7 DEF Totals, q

\* erase: one entry less.
LEMMA WithoutTotals ==
    ASSUME NEW o, NEW b, Typed(o, b), NEW r \in DOMAIN o, NEW l, Totals(o, b, l)
    PROVE  /\ Typed(Without(o, r), b)
           /\ Totals(Without(o, r), b,
                     [l EXCEPT ![o[r].side][IndexIn(b, o[r].price)] =
                         [shares |-> @.shares - o[r].shares, count |-> @.count - 1]])
<1> DEFINE q == Without(o, r)
           d == o[r].side
           i == IndexIn(b, o[r].price)
           m == [l EXCEPT ![d][i] = [shares |-> @.shares - o[r].shares, count |-> @.count - 1]]
<1>1. /\ DOMAIN q = DOMAIN o \ {r}
      /\ \A x \in DOMAIN q : q[x] = o[x]
  BY WithoutIs
<1>2. q = [x \in DOMAIN q |-> q[x]]
  BY DEF Without
<1>3. d \in Side /\ o[r].shares \in Nat \ {0} /\ i \in Index
  BY DEF Entry, Typed
<1> HIDE DEF q
<1>4. Typed(q, b)
  <2>1. q \in [DOMAIN q -> Entry]
    BY <1>1, <1>2 DEF Typed
  <2>2. DOMAIN q \subseteq Ref
    BY <1>1 DEF Typed
  <2>3. IsFiniteSet(DOMAIN q)
    BY <1>1, FS_RemoveElement DEF Typed
  <2>4. \A x \in DOMAIN q : IndexIn(b, q[x].price) \in Index
    BY <1>1 DEF Typed
  <2> QED BY <2>1, <2>2, <2>3, <2>4 DEF Typed
<1>5. \A x \in DOMAIN q : SharesIn(q)[x] = SharesIn(o)[x]
  BY <1>1 DEF SharesIn
<1>6. ASSUME NEW s \in Side, NEW j \in Index
      PROVE  m[s][j] = Total(q, At(q, b, s, j))
  <2> DEFINE A == At(o, b, s, j)
             E == At(q, b, s, j)
  <2>1. IsFiniteSet(A) /\ Cardinality(A) \in Nat /\ IsFiniteSet(E) /\ E \subseteq DOMAIN q
    BY <1>4, AtFinite
  <2>2. l[s][j] = Total(o, A)
    BY DEF Totals
  <2>3. SumFunctionOnSet(SharesIn(q), E) = SumFunctionOnSet(SharesIn(o), E)
    BY <1>5, <2>1, SumSame
  <2>4. CASE s = d /\ j = i
    <3>1. E = A \ {r} /\ r \in A
      BY <1>1, <2>4 DEF At
    <3> HIDE DEF A, E
    <3>2. \A x \in A : SharesIn(o)[x] \in Int
      BY AtFinite DEF A
    <3>3. SumFunctionOnSet(SharesIn(o), A) = SharesIn(o)[r] + SumFunctionOnSet(SharesIn(o), A \ {r})
      BY <2>1, <3>1, <3>2, SumRemove
    <3>4. Cardinality(A \ {r}) = Cardinality(A) - 1
      BY <2>1, <3>1, FS_RemoveElement
    <3>5. SumFunctionOnSet(SharesIn(o), E) \in Nat
      BY <1>4, <2>3, AtFinite DEF E, Total
    <3>6. m[s][j] = [shares |-> l[d][i].shares - o[r].shares, count |-> l[d][i].count - 1]
      BY <1>3, <2>4 DEF Totals, LevelType
    <3>7. l[d][i].shares = SumFunctionOnSet(SharesIn(o), A) /\ l[d][i].count = Cardinality(A)
      BY <2>2, <2>4 DEF Total
    <3>8. SharesIn(o)[r] = o[r].shares
      BY DEF SharesIn
    <3>9. l[d][i].shares - o[r].shares = SumFunctionOnSet(SharesIn(q), E)
      BY <1>3, <2>3, <3>1, <3>3, <3>5, <3>7, <3>8
    <3> HIDE DEF m
    <3> QED BY <3>1, <3>4, <3>6, <3>7, <3>9 DEF Total, E
  <2>5. CASE ~(s = d /\ j = i)
    <3>1. E = A
      BY <1>1, <2>5 DEF At
    <3>2. m[s][j] = l[s][j]
      BY <1>3, <2>5 DEF Totals, LevelType
    <3> HIDE DEF m
    <3> QED BY <2>2, <2>3, <3>1, <3>2 DEF Total
  <2> QED BY <2>4, <2>5
<1>7. m \in LevelType
  BY <1>3 DEF Totals, LevelType
<1> QED BY <1>4, <1>6, <1>7 DEF Totals, q

\* A partial execution or cancel: one entry with fewer shares.
Cut(o, r, n) == [o EXCEPT ![r].shares = @ - n]
CutLevel(l, s, i, n) == [l EXCEPT ![s][i].shares = @ - n]

LEMMA CutTotals ==
    ASSUME NEW o, NEW b, Typed(o, b), NEW r \in DOMAIN o, NEW n \in Nat, n < o[r].shares,
           NEW l, Totals(o, b, l)
    PROVE  /\ Typed(Cut(o, r, n), b) /\ DOMAIN Cut(o, r, n) = DOMAIN o
           /\ \A s, i : At(Cut(o, r, n), b, s, i) = At(o, b, s, i)
           /\ Totals(Cut(o, r, n), b, CutLevel(l, o[r].side, IndexIn(b, o[r].price), n))
<1> DEFINE q == Cut(o, r, n)
           d == o[r].side
           i == IndexIn(b, o[r].price)
           m == CutLevel(l, d, i, n)
<1>0. \A x \in DOMAIN o : o[x] \in Entry
  BY DEF Typed
<1>1. /\ DOMAIN q = DOMAIN o
      /\ \A x \in DOMAIN o : /\ q[x] \in Entry
                             /\ q[x].side = o[x].side /\ q[x].price = o[x].price
                             /\ q[x].shares = IF x = r THEN o[r].shares - n ELSE o[x].shares
  BY <1>0 DEF Entry, Cut
<1>2. d \in Side /\ o[r].shares \in Nat \ {0} /\ i \in Index
  BY DEF Entry, Typed
<1>3. q = [x \in DOMAIN q |-> q[x]]
  BY DEF Cut
<1> HIDE DEF q
<1>4. Typed(q, b)
  BY <1>1, <1>3 DEF Typed
<1>5. \A s, j : At(q, b, s, j) = At(o, b, s, j)
  BY <1>1 DEF At
<1>6. \A x \in DOMAIN o : SharesIn(q)[x] = IF x = r THEN SharesIn(o)[r] - n ELSE SharesIn(o)[x]
  BY <1>1 DEF SharesIn
<1>7. ASSUME NEW s \in Side, NEW j \in Index
      PROVE  m[s][j] = Total(q, At(q, b, s, j))
  <2> DEFINE A == At(o, b, s, j)
  <2>1. /\ IsFiniteSet(A) /\ A \subseteq DOMAIN o
        /\ \A x \in A : SharesIn(o)[x] \in Int
        /\ SumFunctionOnSet(SharesIn(o), A) \in Nat
    BY AtFinite DEF Total
  <2>2. l[s][j] = Total(o, A)
    BY DEF Totals
  <2>3. CASE s = d /\ j = i
    <3>1. r \in A
      BY <2>3 DEF At
    <3> HIDE DEF A
    <3>2. \A x \in A : SharesIn(q)[x] \in Int
      BY <1>6, <2>1, <3>1
    <3>3. SumFunctionOnSet(SharesIn(q), A)
            = SumFunctionOnSet(SharesIn(o), A) + (SharesIn(q)[r] - SharesIn(o)[r])
      BY <1>6, <2>1, <3>1, <3>2, SumChange
    <3>4. SharesIn(q)[r] - SharesIn(o)[r] = -n
      BY <1>6, <2>1, <3>1
    <3>5. m[s][j] = [shares |-> l[d][i].shares - n, count |-> l[d][i].count]
      BY <1>2, <2>3 DEF Totals, LevelType, CutLevel
    <3>6. l[d][i].shares = SumFunctionOnSet(SharesIn(o), A) /\ l[d][i].count = Cardinality(A)
      BY <2>2, <2>3 DEF Total
    <3>7. l[d][i].shares - n = SumFunctionOnSet(SharesIn(q), A)
      BY <2>1, <3>3, <3>4, <3>6
    <3> HIDE DEF m
    <3> QED BY <1>5, <3>5, <3>6, <3>7 DEF Total, A
  <2>4. CASE ~(s = d /\ j = i)
    <3>1. r \notin A
      BY <2>4 DEF At
    <3>2. SumFunctionOnSet(SharesIn(q), A) = SumFunctionOnSet(SharesIn(o), A)
      BY <1>6, <2>1, <3>1, SumSame
    <3>3. m[s][j] = l[s][j]
      BY <1>2, <2>4 DEF Totals, LevelType, CutLevel
    <3> HIDE DEF m
    <3> QED BY <1>5, <2>2, <3>2, <3>3 DEF Total
  <2> QED BY <2>3, <2>4
<1>8. m \in LevelType
  BY <1>2 DEF Totals, LevelType, CutLevel
<1> QED BY <1>1, <1>4, <1>5, <1>7, <1>8 DEF Totals, q

-----------------------------------------------------------------------------
(* The occupancy bits, and the handlers' steps field by field.             *)

BitsType == [Side -> SUBSET Index]

\* The bits are exact; or exact but for one that is set and may have to go.
Bits(o, b, c) ==
    /\ c \in BitsType
    /\ \A s \in Side, i \in Index : i \in c[s] <=> At(o, b, s, i) # {}
BitsBut(o, b, c, d, k) ==
    /\ c \in BitsType /\ k \in c[d]
    /\ \A s \in Side, i \in Index : (s # d \/ i # k) => (i \in c[s] <=> At(o, b, s, i) # {})

BookOf(o, l, c, t) == [orders |-> o, levels |-> l, occupied |-> c, best |-> t]

\* The bits and the cached best prices after an insert, and the best prices
\* after a level was emptied.
WithBit(c, s, i) == [c EXCEPT ![s] = @ \cup {i}]
Raised(t, s, p) == [t EXCEPT ![s] = IF Better(s, p, @) THEN p ELSE @]
Lowered(t, s, w, p) == [t EXCEPT ![s] = IF p = @ THEN NextOccupied(s, w, p) ELSE @]

LEMMA InsertFields ==
    ASSUME NEW o, NEW l, NEW c, NEW t, NEW r, NEW e, NEW i
    PROVE  InsertOrder(BookOf(o, l, c, t), r, e, i) =
             BookOf(Put(o, r, e),
                    Grown(l, e.side, i, e.shares),
                    WithBit(c, e.side, i),
                    Raised(t, e.side, e.price))
BY DEF InsertOrder, BookOf, Grown, WithBit, Raised

LEMMA RemoveFields ==
    ASSUME NEW o, NEW l, NEW c, NEW t, NEW r, NEW n
    PROVE  RemoveOrder(BookOf(o, l, c, t), r, n) =
             BookOf(Without(o, r),
                    [l EXCEPT ![o[r].side][IndexIn(base, o[r].price)] =
                        [shares |-> @.shares - n, count |-> @.count - 1]],
                    c, t)
<1> DEFINE bk == BookOf(o, l, c, t)
           v == [shares |-> l[o[r].side][IndexOf(o[r].price)].shares - n,
                 count |-> l[o[r].side][IndexOf(o[r].price)].count - 1]
<1>1. bk.orders = o /\ bk.levels = l
  BY DEF BookOf
<1>2. [bk EXCEPT !.orders = Without(o, r)] = BookOf(Without(o, r), l, c, t)
  BY DEF BookOf
<1>3. [BookOf(Without(o, r), l, c, t) EXCEPT !.levels[o[r].side][IndexOf(o[r].price)] = v] =
        BookOf(Without(o, r), [l EXCEPT ![o[r].side][IndexOf(o[r].price)] = v], c, t)
  BY DEF BookOf
<1>4. RemoveOrder(bk, r, n) =
        [[bk EXCEPT !.orders = Without(o, r)]
            EXCEPT !.levels[o[r].side][IndexOf(o[r].price)] = v]
  BY <1>1 DEF RemoveOrder
<1> QED BY <1>2, <1>3, <1>4 DEF IndexOf

LEMMA CheckFields ==
    ASSUME NEW o, NEW l, NEW c, NEW t, NEW s, NEW p
    PROVE  EmptiedCheck(BookOf(o, l, c, t), s, p) =
             IF l[s][IndexIn(base, p)].count = 0
             THEN BookOf(o, l, [c EXCEPT ![s] = @ \ {IndexIn(base, p)}],
                         Lowered(t, s, c[s] \ {IndexIn(base, p)}, p))
             ELSE BookOf(o, l, c, t)
<1> DEFINE bk == BookOf(o, l, c, t)
           k == IndexOf(p)
           u == IF p = t[s] THEN NextOccupied(s, c[s] \ {k}, p) ELSE t[s]
<1>1. bk.levels = l /\ bk.occupied = c /\ bk.best = t
  BY DEF BookOf
<1>2. [bk EXCEPT !.occupied[s] = c[s] \ {k}] = BookOf(o, l, [c EXCEPT ![s] = c[s] \ {k}], t)
  BY DEF BookOf
<1>3. [BookOf(o, l, [c EXCEPT ![s] = c[s] \ {k}], t) EXCEPT !.best[s] = u] =
        BookOf(o, l, [c EXCEPT ![s] = c[s] \ {k}], [t EXCEPT ![s] = u])
  BY DEF BookOf
<1>4. LevelEmptied(bk, s, p) = [[bk EXCEPT !.occupied[s] = c[s] \ {k}] EXCEPT !.best[s] = u]
  BY <1>1 DEF LevelEmptied
<1> QED BY <1>1, <1>2, <1>3, <1>4 DEF EmptiedCheck, IndexOf, Lowered

LEMMA CutFields ==
    ASSUME NEW o, NEW l, NEW c, NEW t, NEW r, NEW n, n # o[r].shares
    PROVE  Reduce(BookOf(o, l, c, t), r, n) =
             BookOf(Cut(o, r, n), CutLevel(l, o[r].side, IndexIn(base, o[r].price), n), c, t)
<1> DEFINE bk == BookOf(o, l, c, t)
           k == IndexOf(o[r].price)
<1>1. bk.orders = o /\ bk.levels = l
  BY DEF BookOf
<1>2. [bk EXCEPT !.orders[r].shares = @ - n] = BookOf(Cut(o, r, n), l, c, t)
  BY DEF BookOf, Cut
<1>3. [BookOf(Cut(o, r, n), l, c, t) EXCEPT !.levels[o[r].side][k].shares = @ - n] =
        BookOf(Cut(o, r, n), CutLevel(l, o[r].side, k, n), c, t)
  BY DEF BookOf, CutLevel
<1>4. Reduce(bk, r, n) =
        [[bk EXCEPT !.orders[r].shares = @ - n]
            EXCEPT !.levels[o[r].side][k].shares = @ - n]
  BY <1>1 DEF Reduce
<1> QED BY <1>2, <1>3, <1>4 DEF IndexOf

LEMMA InsertBits ==
    ASSUME NEW o, NEW b, NEW c, NEW r, r \notin DOMAIN o, NEW e \in Entry,
           NEW i \in Index, IndexIn(b, e.price) = i
    PROVE  /\ Bits(o, b, c) => Bits(Put(o, r, e), b, WithBit(c, e.side, i))
           /\ \A d \in Side, k \in Index :
                 BitsBut(o, b, c, d, k) => BitsBut(Put(o, r, e), b, WithBit(c, e.side, i), d, k)
<1> DEFINE w == WithBit(c, e.side, i)
<1>1. e.side \in Side
  BY DEF Entry
<1>2. \A s, j : At(Put(o, r, e), b, s, j) =
                  IF s = e.side /\ j = i THEN At(o, b, s, j) \cup {r} ELSE At(o, b, s, j)
  BY DEF At, Put
<1>3. c \in BitsType => w \in BitsType
  BY <1>1 DEF BitsType, WithBit
<1>4. c \in BitsType => \A s \in Side : w[s] = IF s = e.side THEN c[s] \cup {i} ELSE c[s]
  BY <1>1 DEF BitsType, WithBit
<1> HIDE DEF w
<1>a. ASSUME c \in BitsType, NEW s \in Side, NEW j \in Index,
             (s # e.side \/ j # i) => (j \in c[s] <=> At(o, b, s, j) # {})
      PROVE  j \in w[s] <=> At(Put(o, r, e), b, s, j) # {}
  <2>1. CASE s = e.side /\ j = i
    <3>1. At(Put(o, r, e), b, s, j) = At(o, b, s, j) \cup {r}
      BY <1>2, <2>1
    <3>2. j \in w[s]
      BY <1>4, <1>a, <2>1
    <3> QED BY <3>1, <3>2
  <2>2. CASE ~(s = e.side /\ j = i)
    <3>1. At(Put(o, r, e), b, s, j) = At(o, b, s, j)
      BY <1>2, <2>2
    <3>2. j \in w[s] <=> j \in c[s]
      BY <1>4, <1>a, <2>2
    <3> QED BY <1>a, <2>2, <3>1, <3>2
  <2> QED BY <2>1, <2>2
<1>5. Bits(o, b, c) => Bits(Put(o, r, e), b, w)
  BY <1>3, <1>a DEF Bits
<1>6. ASSUME NEW d \in Side, NEW k \in Index, BitsBut(o, b, c, d, k)
      PROVE  BitsBut(Put(o, r, e), b, w, d, k)
  <2>1. c \in BitsType /\ k \in c[d]
    BY <1>6 DEF BitsBut
  <2>2. w \in BitsType /\ k \in w[d]
    BY <1>3, <1>4, <2>1
  <2>3. ASSUME NEW s \in Side, NEW j \in Index, s # d \/ j # k
        PROVE  j \in w[s] <=> At(Put(o, r, e), b, s, j) # {}
    BY <1>6, <1>a, <2>1, <2>3 DEF BitsBut
  <2> QED BY <2>2, <2>3 DEF BitsBut
<1> QED BY <1>5, <1>6 DEF w

LEMMA RemoveBits ==
    ASSUME NEW o, NEW b, Typed(o, b), NEW c, Bits(o, b, c), NEW r \in DOMAIN o
    PROVE  BitsBut(Without(o, r), b, c, o[r].side, IndexIn(b, o[r].price))
<1> DEFINE d == o[r].side
           k == IndexIn(b, o[r].price)
<1>1. d \in Side /\ k \in Index
  BY DEF Typed, Entry
<1>2. \A s, j : (s # d \/ j # k) => At(Without(o, r), b, s, j) = At(o, b, s, j)
  BY DEF At, Without
<1>3. r \in At(o, b, d, k)
  BY DEF At
<1> QED BY <1>1, <1>2, <1>3 DEF Bits, BitsBut

\* on_level_emptied clears the bit exactly when the level has no order left.
LEMMA CheckBits ==
    ASSUME NEW o, NEW b, Typed(o, b), NEW l, Totals(o, b, l), NEW d \in Side, NEW k \in Index,
           NEW c, BitsBut(o, b, c, d, k)
    PROVE  /\ l[d][k].count = 0 <=> At(o, b, d, k) = {}
           /\ l[d][k].count = 0 => Bits(o, b, [c EXCEPT ![d] = @ \ {k}])
           /\ l[d][k].count # 0 => Bits(o, b, c)
<1> DEFINE A == At(o, b, d, k)
           w == [c EXCEPT ![d] = @ \ {k}]
<1>1. IsFiniteSet(A)
  BY AtFinite
<1>2. l[d][k].count = Cardinality(A)
  <2>1. l[d][k] = Total(o, A)
    BY DEF Totals
  <2> QED BY <2>1 DEF Total
<1>3. l[d][k].count = 0 <=> A = {}
  <2> HIDE DEF A
  <2>1. Cardinality(A) = 0 <=> A = {}
    BY <1>1, FS_EmptySet
  <2> QED BY <1>2, <2>1
<1>4. /\ w \in BitsType
      /\ \A s \in Side : w[s] = IF s = d THEN c[s] \ {k} ELSE c[s]
  BY DEF BitsBut, BitsType
<1> HIDE DEF w
<1>5. l[d][k].count = 0 => Bits(o, b, w)
  BY <1>3, <1>4 DEF BitsBut, Bits
<1>6. l[d][k].count # 0 => Bits(o, b, c)
  BY <1>3 DEF BitsBut, Bits
<1> QED BY <1>3, <1>5, <1>6 DEF w

-----------------------------------------------------------------------------
(* The handlers' removals, as a whole.                                     *)

\* A book whose totals and bits are exact.
Exact(o, b, l, c) == Typed(o, b) /\ Totals(o, b, l) /\ Bits(o, b, c)

\* bk is a book with exact totals and bits, and just the orders o.
ExactBook(bk, o, b) ==
    /\ bk = BookOf(bk.orders, bk.levels, bk.occupied, bk.best)
    /\ bk.orders = o /\ Exact(o, b, bk.levels, bk.occupied)

LEMMA BookOfIs ==
    ASSUME NEW o, NEW l, NEW c, NEW t
    PROVE  /\ BookOf(o, l, c, t).orders = o /\ BookOf(o, l, c, t).levels = l
           /\ BookOf(o, l, c, t).occupied = c /\ BookOf(o, l, c, t).best = t
BY DEF BookOf

\* The check of a level after what may have been its last order has gone.
LEMMA CheckExact ==
    ASSUME NEW o, Typed(o, base), NEW l, Totals(o, base, l), NEW t,
           NEW d \in Side, NEW p, IndexIn(base, p) \in Index,
           NEW c, BitsBut(o, base, c, d, IndexIn(base, p))
    PROVE  ExactBook(EmptiedCheck(BookOf(o, l, c, t), d, p), o, base)
<1> DEFINE k == IndexIn(base, p)
           c1 == [c EXCEPT ![d] = @ \ {k}]
           t1 == Lowered(t, d, c[d] \ {k}, p)
<1>1. EmptiedCheck(BookOf(o, l, c, t), d, p) =
        IF l[d][k].count = 0 THEN BookOf(o, l, c1, t1) ELSE BookOf(o, l, c, t)
  BY CheckFields
<1>2. (l[d][k].count = 0 => Bits(o, base, c1)) /\ (l[d][k].count # 0 => Bits(o, base, c))
  BY CheckBits
<1> HIDE DEF c1, t1, k
<1>3. CASE l[d][k].count = 0
  BY <1>1, <1>2, <1>3, BookOfIs DEF ExactBook, Exact
<1>4. CASE l[d][k].count # 0
  BY <1>1, <1>2, <1>4, BookOfIs DEF ExactBook, Exact
<1> QED BY <1>3, <1>4

\* An order leaves the book with all its shares.
LEMMA DrainExact ==
    ASSUME NEW o, NEW l, NEW c, NEW t, Exact(o, base, l, c), NEW r \in DOMAIN o
    PROVE  ExactBook(Drain(BookOf(o, l, c, t), r, o[r].shares), Without(o, r), base)
<1> DEFINE l1 == [l EXCEPT ![o[r].side][IndexIn(base, o[r].price)] =
                     [shares |-> @.shares - o[r].shares, count |-> @.count - 1]]
<1>1. RemoveOrder(BookOf(o, l, c, t), r, o[r].shares) = BookOf(Without(o, r), l1, c, t)
  BY RemoveFields
<1>2. Typed(Without(o, r), base) /\ Totals(Without(o, r), base, l1)
  BY WithoutTotals DEF Exact
<1>3. BitsBut(Without(o, r), base, c, o[r].side, IndexIn(base, o[r].price))
  BY RemoveBits DEF Exact
<1>4. o[r].side \in Side /\ IndexIn(base, o[r].price) \in Index
  BY DEF Exact, Typed, Entry
<1> HIDE DEF l1
<1>5. Drain(BookOf(o, l, c, t), r, o[r].shares) =
        EmptiedCheck(BookOf(Without(o, r), l1, c, t), o[r].side, o[r].price)
  BY <1>1, BookOfIs DEF Drain
<1> QED BY <1>2, <1>3, <1>4, <1>5, CheckExact

\* on_execute and on_cancel.
LEMMA ReduceExact ==
    ASSUME NEW o, NEW l, NEW c, NEW t, Exact(o, base, l, c),
           NEW r \in DOMAIN o, NEW n \in Nat, n <= o[r].shares
    PROVE  ExactBook(Reduce(BookOf(o, l, c, t), r, n),
                     IF n = o[r].shares THEN Without(o, r)
                     ELSE Cut(o, r, n),
                     base)
<1>0. o[r].shares \in Nat
  BY DEF Exact, Typed, Entry
<1>1. CASE n = o[r].shares
  <2>1. Reduce(BookOf(o, l, c, t), r, n) = Drain(BookOf(o, l, c, t), r, o[r].shares)
    BY <1>1, BookOfIs DEF Reduce
  <2> QED BY <1>1, <2>1, DrainExact
<1>2. CASE n # o[r].shares
  <2> DEFINE q == Cut(o, r, n)
             m == CutLevel(l, o[r].side, IndexIn(base, o[r].price), n)
  <2>1. Reduce(BookOf(o, l, c, t), r, n) = BookOf(q, m, c, t)
    BY <1>2, CutFields
  <2>2. n < o[r].shares
    BY <1>0, <1>2
  <2>3. /\ Typed(q, base) /\ Totals(q, base, m)
        /\ \A s, i : At(q, base, s, i) = At(o, base, s, i)
    BY <2>2, CutTotals DEF Exact
  <2> HIDE DEF q, m
  <2>4. Bits(q, base, c)
    BY <2>3 DEF Exact, Bits
  <2>5. ExactBook(BookOf(q, m, c, t), q, base)
    BY <2>3, <2>4, BookOfIs DEF ExactBook, Exact
  <2> QED BY <1>2, <2>1, <2>5 DEF q
<1> QED BY <1>1, <1>2

\* on_add and the second half of on_replace.
LEMMA InsertExact ==
    ASSUME NEW o, NEW b, NEW l, NEW c, NEW t, Exact(o, b, l, c),
           NEW r \in Ref, r \notin DOMAIN o, NEW e \in Entry,
           NEW i \in Index, IndexIn(b, e.price) = i
    PROVE  ExactBook(InsertOrder(BookOf(o, l, c, t), r, e, i), Put(o, r, e), b)
<1> DEFINE l1 == Grown(l, e.side, i, e.shares)
           c1 == WithBit(c, e.side, i)
           t1 == Raised(t, e.side, e.price)
<1>1. InsertOrder(BookOf(o, l, c, t), r, e, i) = BookOf(Put(o, r, e), l1, c1, t1)
  BY InsertFields
<1>2. Typed(Put(o, r, e), b) /\ Totals(Put(o, r, e), b, l1)
  BY PutTotals DEF Exact
<1>3. Bits(Put(o, r, e), b, c1)
  BY InsertBits DEF Exact
<1> HIDE DEF l1, c1, t1
<1> QED BY <1>1, <1>2, <1>3, BookOfIs DEF ExactBook, Exact

LEMMA IndexType ==
    ASSUME NEW b \in Int, NEW p \in Price
    PROVE  IndexIn(b, p) \in Nat /\ (InRange(b, p) => IndexIn(b, p) \in Index)
<1>1. p \in Int /\ PriceMod \in Nat \ {0} /\ PRICE_TICK \in Nat \ {0} /\ MAX_LEVELS \in Nat
  BY BookAssumption
<1>2. (p - b) % PriceMod \in Nat
  BY <1>1
<1> QED BY <1>1, <1>2 DEF IndexIn, InRange, Index

\* on_replace: the old order goes, the new one comes, then the old level is
\* checked.
LEMMA ReplacedExact ==
    ASSUME base \in Int, Exact(orders, base, levels, occupied),
           NEW old \in DOMAIN orders, NEW new \in Ref, new \notin DOMAIN orders,
           NEW p \in Price, NEW n \in Shares
    PROVE  ExactBook(Replaced(old, new, p, n),
                     IF InRange(base, p)
                     THEN Put(Without(orders, old), new,
                              [price |-> p, shares |-> n, side |-> orders[old].side])
                     ELSE Without(orders, old),
                     base)
<1> DEFINE e == orders[old]
           k == IndexIn(base, e.price)
           o1 == Without(orders, old)
           l1 == [levels EXCEPT ![e.side][k] =
                     [shares |-> @.shares - e.shares, count |-> @.count - 1]]
           x == [price |-> p, shares |-> n, side |-> e.side]
           i == IndexIn(base, p)
<1>1. RemoveOrder(Book, old, e.shares) = BookOf(o1, l1, occupied, best)
  <2>1. Book = BookOf(orders, levels, occupied, best)
    BY DEF Book, BookOf
  <2> QED BY <2>1, RemoveFields
<1>2. Typed(o1, base) /\ Totals(o1, base, l1)
  BY WithoutTotals DEF Exact
<1>3. BitsBut(o1, base, occupied, e.side, k)
  BY RemoveBits DEF Exact
<1>4. e.side \in Side /\ k \in Index
  BY DEF Exact, Typed, Entry
<1>5. x \in Entry /\ x.side = e.side /\ x.price = p
  BY <1>4, BookAssumption DEF Entry
<1>6. new \notin DOMAIN o1
  BY WithoutIs
<1>7. Replaced(old, new, p, n) =
        EmptiedCheck(IF InRange(base, p) THEN InsertOrder(BookOf(o1, l1, occupied, best), new, x, i)
                     ELSE BookOf(o1, l1, occupied, best), e.side, e.price)
  BY <1>1 DEF Replaced, IndexOf
<1> HIDE DEF o1, l1, x, e, k, i
<1>8. CASE ~InRange(base, p)
  <2>1. ExactBook(EmptiedCheck(BookOf(o1, l1, occupied, best), e.side, e.price), o1, base)
    BY <1>2, <1>3, <1>4, CheckExact DEF k
  <2> QED BY <1>7, <1>8, <2>1 DEF o1
<1>9. CASE InRange(base, p)
  <2> DEFINE o2 == Put(o1, new, x)
             l2 == Grown(l1, x.side, i, x.shares)
             c2 == WithBit(occupied, x.side, i)
             t2 == Raised(best, x.side, x.price)
  <2>1. i \in Index /\ IndexIn(base, x.price) = i
    BY <1>5, <1>9, IndexType DEF i
  <2>2. InsertOrder(BookOf(o1, l1, occupied, best), new, x, i) = BookOf(o2, l2, c2, t2)
    BY InsertFields
  <2>3. Typed(o2, base) /\ Totals(o2, base, l2)
    BY <1>2, <1>5, <1>6, <2>1, PutTotals
  <2>4. BitsBut(o2, base, c2, e.side, k)
    BY <1>3, <1>4, <1>5, <1>6, <2>1, InsertBits
  <2> HIDE DEF o2, l2, c2, t2
  <2>5. ExactBook(EmptiedCheck(BookOf(o2, l2, c2, t2), e.side, e.price), o2, base)
    BY <1>4, <2>3, <2>4, CheckExact DEF k
  <2>6. ExactBook(Replaced(old, new, p, n), o2, base)
    BY <1>7, <1>9, <2>2, <2>5
  <2>7. o2 = Put(Without(orders, old), new,
                 [price |-> p, shares |-> n, side |-> orders[old].side])
    BY DEF o2, o1, x, e
  <2> QED BY <1>9, <2>6, <2>7
<1> QED BY <1>8, <1>9

-----------------------------------------------------------------------------
(* The invariant: the totals and the bits are exact, and the book is what  *)
(* the exchange has, less what was dropped for its price.                  *)

Reported == exchange \in [DOMAIN exchange -> Entry]

IInv ==
    /\ base \in Nat
    /\ Exact(orders, base, levels, occupied)
    /\ ~HasBook => DOMAIN orders = {}
    /\ Reported
    /\ BookTracksExchange

LEMMA InitInv == Init => IInv
<1> SUFFICES ASSUME Init PROVE IInv
  OBVIOUS
<1>1. DOMAIN orders = {} /\ DOMAIN exchange = {} /\ orders = exchange
  BY DEF Init
<1>2. base \in Nat
  BY BookAssumption DEF Init, NoBook
<1>3. \A s, i : At(orders, base, s, i) = {}
  BY <1>1 DEF At
<1>4. Typed(orders, base)
  <2>1. IsFiniteSet(DOMAIN orders)
    BY <1>1, FS_EmptySet
  <2> QED BY <1>1, <2>1 DEF Typed, Init
<1>5. Total(orders, {}) = [shares |-> 0, count |-> 0]
  BY SumEmpty, FS_EmptySet DEF Total
<1>6. Totals(orders, base, levels)
  <2>1. levels \in LevelType
    BY DEF LevelType, Init
  <2>2. \A s \in Side, i \in Index : levels[s][i] = [shares |-> 0, count |-> 0]
    BY DEF Init
  <2> QED BY <1>3, <1>5, <2>1, <2>2 DEF Totals
<1>7. Bits(orders, base, occupied)
  BY <1>3 DEF Bits, BitsType, Init
<1>8. Reported
  BY <1>1 DEF Reported, Init
<1> QED BY <1>1, <1>2, <1>4, <1>6, <1>7, <1>8 DEF IInv, Exact, BookTracksExchange

\* The window may still move as long as the book is empty.
LEMMA EmptyExact ==
    ASSUME NEW o, NEW b, NEW l, NEW c, Exact(o, b, l, c), DOMAIN o = {}, NEW x
    PROVE  Exact(o, x, l, c)
<1>1. \A s, i : At(o, x, s, i) = At(o, b, s, i)
  BY DEF At
<1>2. Typed(o, x)
  BY DEF Exact, Typed
<1>3. Totals(o, x, l)
  BY <1>1 DEF Exact, Totals
<1>4. Bits(o, x, c)
  BY <1>1 DEF Exact, Bits
<1> QED BY <1>2, <1>3, <1>4 DEF Exact

LEMMA EnsureBaseType ==
    ASSUME base \in Nat, NEW p \in Price
    PROVE  /\ EnsureBase(p) \in Nat /\ EnsureBase(p) # NoBook
           /\ HasBook => EnsureBase(p) = base
<1>1. p \in Nat /\ PRICE_TICK \in Nat \ {0} /\ MAX_LEVELS \in Nat
  BY BookAssumption
<1>2. HALF \in Nat
  BY <1>1 DEF HALF
<1>3. (IF p > HALF THEN p - HALF ELSE 0) \in Nat
  BY <1>1, <1>2
<1> HIDE DEF HALF
<1> DEFINE x == IF p > HALF THEN p - HALF ELSE 0
<1>4. x <= p
  BY <1>1, <1>2
<1> HIDE DEF x
<1>5. (x \div PRICE_TICK) * PRICE_TICK \in Nat /\ (x \div PRICE_TICK) * PRICE_TICK <= x
  BY <1>1, <1>3 DEF x
<1>6. p < NoBook
  BY BookAssumption DEF NoBook
<1>7. CASE HasBook
  BY <1>7 DEF EnsureBase, HasBook
<1>8. CASE ~HasBook
  <2>1. EnsureBase(p) = (x \div PRICE_TICK) * PRICE_TICK
    BY <1>8 DEF EnsureBase, x
  <2>2. x \in Nat /\ NoBook \in Nat
    BY <1>3, BookAssumption DEF x, NoBook
  <2> QED BY <1>1, <1>4, <1>5, <1>6, <1>8, <2>1, <2>2
<1> QED BY <1>7, <1>8

\* A SetBook of an exact book is an exact state.
LEMMA SetExact ==
    ASSUME NEW bk, NEW o, NEW b, ExactBook(bk, o, b), SetBook(bk)
    PROVE  orders' = o /\ Exact(orders', b, levels', occupied')
BY DEF ExactBook, SetBook

LEMMA KeepExact ==
    ASSUME NEW b, Exact(orders, b, levels, occupied), SetBook(Book)
    PROVE  orders' = orders /\ Exact(orders', b, levels', occupied')
BY DEF SetBook, Book

LEMMA BookIs == Book = BookOf(orders, levels, occupied, best)
BY DEF Book, BookOf

LEMMA AddInv ==
    ASSUME IInv, NEW r \in Ref, NEW s \in Side, NEW p \in Price, NEW n \in Shares,
           OnAdd(r, s, p, n)
    PROVE  IInv'
<1> DEFINE e == [price |-> p, shares |-> n, side |-> s]
           b == EnsureBase(p)
           i == IndexIn(b, p)
<1>1. /\ r \notin DOMAIN exchange /\ exchange' = Put(exchange, r, e) /\ base' = b
      /\ InRange(b, p) => SetBook(InsertOrder(Book, r, e, i)) /\ dropped' = dropped
      /\ ~InRange(b, p) => SetBook(Book) /\ dropped' = TRUE
  BY DEF OnAdd
<1>2. e \in Entry /\ e.price = p
  BY BookAssumption DEF Entry
<1> HIDE DEF e
<1>3. b \in Nat /\ (HasBook => b = base)
  BY EnsureBaseType DEF IInv
<1>4. b # NoBook
  BY EnsureBaseType DEF IInv
<1>5. Exact(orders, b, levels, occupied)
  BY <1>3, EmptyExact DEF IInv
<1> HIDE DEF b
<1>6. \A x \in DOMAIN orders : x \in DOMAIN exchange /\ orders[x] = exchange[x]
  BY DEF IInv, BookTracksExchange
<1>7. Reported'
  <2>1. \A x \in DOMAIN exchange : exchange[x] \in Entry
    BY DEF IInv, Reported
  <2> QED BY <1>1, <1>2, <2>1 DEF Reported, Put
<1>8. CASE InRange(b, p)
  <2>1. i \in Index
    BY <1>3, <1>8, IndexType
  <2>2. ExactBook(InsertOrder(Book, r, e, i), Put(orders, r, e), b)
    BY <1>1, <1>2, <1>5, <1>6, <2>1, BookIs, InsertExact
  <2>3. orders' = Put(orders, r, e) /\ Exact(orders', base', levels', occupied')
    BY <1>1, <1>8, <2>2, SetExact
  <2>4. BookTracksExchange'
    BY <1>1, <1>6, <1>8, <2>3 DEF IInv, BookTracksExchange, Put
  <2> QED BY <1>1, <1>3, <1>4, <1>7, <2>3, <2>4 DEF IInv, HasBook
<1>9. CASE ~InRange(b, p)
  <2>1. orders' = orders /\ Exact(orders', base', levels', occupied')
    BY <1>1, <1>5, <1>9, KeepExact
  <2>2. BookTracksExchange'
    BY <1>1, <1>6, <1>9, <2>1 DEF BookTracksExchange, Put
  <2> QED BY <1>1, <1>3, <1>4, <1>7, <2>1, <2>2 DEF IInv, HasBook
<1> QED BY <1>8, <1>9

LEMMA TakeInv ==
    ASSUME IInv, NEW r \in Ref, NEW n \in Shares, TakeShares(r, n)
    PROVE  IInv'
<1>1. /\ HasBook /\ r \in DOMAIN exchange /\ n <= exchange[r].shares
      /\ exchange' = IF n = exchange[r].shares THEN Without(exchange, r)
                     ELSE Cut(exchange, r, n)
      /\ SetBook(IF r \in DOMAIN orders THEN Reduce(Book, r, n) ELSE Book)
      /\ base' = base /\ dropped' = dropped
  BY DEF TakeShares, Cut
<1>2. \A x \in DOMAIN exchange : exchange[x] \in Entry
  BY DEF IInv, Reported
<1>3. n \in Nat \ {0} /\ exchange[r].shares \in Nat \ {0}
  BY <1>1, <1>2, BookAssumption DEF Entry
<1>4. \A x \in DOMAIN orders : x \in DOMAIN exchange /\ orders[x] = exchange[x]
  BY DEF IInv, BookTracksExchange
<1>5. Reported'
  <2>1. CASE n = exchange[r].shares
    BY <1>1, <1>2, <2>1 DEF Reported, Without
  <2>2. CASE n # exchange[r].shares
    <3>1. exchange' = Cut(exchange, r, n)
      BY <1>1, <2>2
    <3>2. [exchange[r] EXCEPT !.shares = @ - n] \in Entry
      BY <1>1, <1>2, <1>3, <2>2 DEF Entry
    <3> QED BY <1>2, <3>1, <3>2 DEF Reported, Cut
  <2> QED BY <2>1, <2>2
<1>6. CASE r \in DOMAIN orders
  <2>1. ExactBook(Reduce(Book, r, n),
                  IF n = orders[r].shares THEN Without(orders, r) ELSE Cut(orders, r, n), base)
    BY <1>1, <1>3, <1>4, <1>6, BookIs, ReduceExact DEF IInv
  <2>2. /\ orders' = IF n = orders[r].shares THEN Without(orders, r) ELSE Cut(orders, r, n)
        /\ Exact(orders', base', levels', occupied')
    BY <1>1, <1>6, <2>1, SetExact
  <2>3. BookTracksExchange'
    <3>1. CASE n = orders[r].shares
      BY <1>1, <1>4, <1>6, <2>2, <3>1 DEF IInv, BookTracksExchange, Without
    <3>2. CASE n # orders[r].shares
      BY <1>1, <1>4, <1>6, <2>2, <3>2 DEF IInv, BookTracksExchange, Cut
    <3> QED BY <3>1, <3>2
  <2> QED BY <1>1, <1>5, <2>2, <2>3 DEF IInv, HasBook
<1>7. CASE r \notin DOMAIN orders
  <2>1. orders' = orders /\ Exact(orders', base', levels', occupied')
    BY <1>1, <1>7, KeepExact DEF IInv
  <2>2. BookTracksExchange'
    <3>1. dropped
      BY <1>1, <1>7 DEF IInv, BookTracksExchange
    <3>2. \A x \in DOMAIN orders : x \in DOMAIN exchange' /\ exchange'[x] = exchange[x]
      BY <1>1, <1>4, <1>7 DEF Without, Cut
    <3> QED BY <1>1, <1>4, <2>1, <3>1, <3>2 DEF BookTracksExchange
  <2> QED BY <1>1, <1>5, <2>1, <2>2 DEF IInv, HasBook
<1> QED BY <1>6, <1>7

LEMMA DeleteInv ==
    ASSUME IInv, NEW r \in Ref, OnDelete(r)
    PROVE  IInv'
<1>1. /\ HasBook /\ r \in DOMAIN exchange /\ exchange' = Without(exchange, r)
      /\ SetBook(IF r \in DOMAIN orders THEN Drain(Book, r, orders[r].shares) ELSE Book)
      /\ base' = base /\ dropped' = dropped
  BY DEF OnDelete
<1>2. \A x \in DOMAIN orders : x \in DOMAIN exchange /\ orders[x] = exchange[x]
  BY DEF IInv, BookTracksExchange
<1>3. Reported'
  BY <1>1 DEF IInv, Reported, Without
<1>4. CASE r \in DOMAIN orders
  <2>1. ExactBook(Drain(Book, r, orders[r].shares), Without(orders, r), base)
    BY <1>4, BookIs, DrainExact DEF IInv
  <2>2. orders' = Without(orders, r) /\ Exact(orders', base', levels', occupied')
    BY <1>1, <1>4, <2>1, SetExact
  <2>3. BookTracksExchange'
    BY <1>1, <1>2, <1>4, <2>2 DEF IInv, BookTracksExchange, Without
  <2> QED BY <1>1, <1>3, <2>2, <2>3 DEF IInv, HasBook
<1>5. CASE r \notin DOMAIN orders
  <2>1. orders' = orders /\ Exact(orders', base', levels', occupied')
    BY <1>1, <1>5, KeepExact DEF IInv
  <2>2. BookTracksExchange'
    <3>1. dropped
      BY <1>1, <1>5 DEF IInv, BookTracksExchange
    <3> QED BY <1>1, <1>2, <1>5, <2>1, <3>1 DEF BookTracksExchange, Without
  <2> QED BY <1>1, <1>3, <2>1, <2>2 DEF IInv, HasBook
<1> QED BY <1>4, <1>5

LEMMA ReplaceInv ==
    ASSUME IInv, NEW old \in Ref, NEW new \in Ref, NEW p \in Price, NEW n \in Shares,
           OnReplace(old, new, p, n)
    PROVE  IInv'
<1> DEFINE x == [price |-> p, shares |-> n, side |-> exchange[old].side]
           E == Without(exchange, old)
<1>1. /\ HasBook /\ old \in DOMAIN exchange /\ new \notin DOMAIN exchange /\ base' = base
      /\ exchange' = Put(E, new, x)
      /\ old \in DOMAIN orders =>
            SetBook(Replaced(old, new, p, n)) /\ dropped' = (dropped \/ ~InRange(base, p))
      /\ old \notin DOMAIN orders => SetBook(Book) /\ dropped' = dropped
  BY DEF OnReplace
<1>2. \A y \in DOMAIN orders : y \in DOMAIN exchange /\ orders[y] = exchange[y]
  BY DEF IInv, BookTracksExchange
<1>3. x \in Entry
  BY <1>1, BookAssumption DEF IInv, Reported, Entry
<1> HIDE DEF x
<1>4. /\ DOMAIN exchange' = (DOMAIN exchange \ {old}) \cup {new} /\ exchange'[new] = x
      /\ \A y \in DOMAIN exchange \ {old} : exchange'[y] = exchange[y]
  BY <1>1 DEF Put, Without
<1>5. Reported'
  <2>1. exchange' = [y \in DOMAIN exchange' |-> exchange'[y]]
    BY <1>1 DEF Put
  <2> QED BY <1>3, <1>4, <2>1 DEF IInv, Reported
<1>6. CASE old \in DOMAIN orders
  <2> DEFINE O == Without(orders, old)
  <2>0. new \notin DOMAIN orders /\ orders[old].side = exchange[old].side
    BY <1>1, <1>2, <1>6
  <2>1. ExactBook(Replaced(old, new, p, n), IF InRange(base, p) THEN Put(O, new, x) ELSE O, base)
    BY <1>6, <2>0, ReplacedExact DEF IInv, x
  <2>2. /\ orders' = (IF InRange(base, p) THEN Put(O, new, x) ELSE O)
        /\ Exact(orders', base', levels', occupied')
    BY <1>1, <1>6, <2>1, SetExact
  <2>3. BookTracksExchange'
    <3>1. CASE InRange(base, p)
      <4>1. orders' = Put(O, new, x)
        BY <2>2, <3>1
      <4>2. ~dropped' => ~dropped
        BY <1>1, <1>6, <3>1
      <4>3. /\ DOMAIN orders' = (DOMAIN orders \ {old}) \cup {new} /\ orders'[new] = x
            /\ \A y \in DOMAIN orders \ {old} : orders'[y] = orders[y]
        BY <2>0, <4>1 DEF Put, Without
      <4>4. ~dropped => orders' = exchange'
        BY <1>1, <4>1 DEF IInv, BookTracksExchange
      <4> QED BY <1>2, <1>4, <2>0, <4>2, <4>3, <4>4 DEF BookTracksExchange
    <3>2. CASE ~InRange(base, p)
      <4>1. orders' = O
        BY <2>2, <3>2
      <4>2. dropped' = TRUE
        BY <1>1, <1>6, <3>2
      <4>3. /\ DOMAIN orders' = DOMAIN orders \ {old}
            /\ \A y \in DOMAIN orders' : orders'[y] = orders[y]
        BY <4>1 DEF Without
      <4> QED BY <1>2, <1>4, <4>2, <4>3 DEF BookTracksExchange
    <3> QED BY <3>1, <3>2
  <2> QED BY <1>1, <1>5, <2>2, <2>3 DEF IInv, HasBook
<1>7. CASE old \notin DOMAIN orders
  <2>1. orders' = orders /\ Exact(orders', base', levels', occupied')
    BY <1>1, <1>7, KeepExact DEF IInv
  <2>2. BookTracksExchange'
    <3>1. dropped
      BY <1>1, <1>7 DEF IInv, BookTracksExchange
    <3> QED BY <1>1, <1>2, <1>4, <1>7, <2>1, <3>1 DEF BookTracksExchange
  <2> QED BY <1>1, <1>5, <2>1, <2>2 DEF IInv, HasBook
<1> QED BY <1>6, <1>7

LEMMA NextInv ==
    ASSUME IInv, [Next]_vars
    PROVE  IInv'
<1>1. ASSUME NEW r \in Ref, NEW s \in Side, NEW p \in Price, NEW n \in Shares, OnAdd(r, s, p, n)
      PROVE  IInv'
  BY <1>1, AddInv
<1>2. ASSUME NEW r \in Ref, NEW n \in Shares, OnExecute(r, n) \/ OnCancel(r, n)
      PROVE  IInv'
  BY <1>2, TakeInv DEF OnExecute, OnCancel
<1>3. ASSUME NEW r \in Ref, OnDelete(r)
      PROVE  IInv'
  BY <1>3, DeleteInv
<1>4. ASSUME NEW r1 \in Ref, NEW r2 \in Ref, NEW p \in Price, NEW n \in Shares,
             OnReplace(r1, r2, p, n)
      PROVE  IInv'
  BY <1>4, ReplaceInv
<1>5. ASSUME (\E n \in Shares : OnTradeOnly(n)) \/ UNCHANGED vars
      PROVE  IInv'
  <2>1. UNCHANGED <<exchange, base, orders, levels, occupied, dropped>>
    BY <1>5 DEF OnTradeOnly, vars
  <2> QED BY <2>1 DEF IInv, HasBook, Reported, BookTracksExchange
<1> QED BY <1>1, <1>2, <1>3, <1>4, <1>5 DEF Next

\* The four shapes and the exchange's orders stay in step under every event.
THEOREM Invariance == Spec => []IInv
<1>1. Init => IInv
  BY InitInv
<1>2. IInv /\ [Next]_vars => IInv'
  BY NextInv
<1> QED BY <1>1, <1>2, PTL DEF Spec

\* After any sequence of events, each level's shares and order count are those
\* of the live orders in it, and its occupancy bit says whether there is one:
\* no add, execute, cancel, delete or replace leaks shares, whatever prices,
\* sizes and windows occur.
THEOREM LevelsExact == Spec => []LevelsMatchOrders
<1>1. IInv => LevelsMatchOrders
  <2> SUFFICES ASSUME IInv, NEW s \in Side, NEW i \in Index
               PROVE  /\ levels[s][i].shares = SharesOf(LiveAt(s, i))
                      /\ levels[s][i].count = Cardinality(LiveAt(s, i))
                      /\ i \in occupied[s] <=> LiveAt(s, i) # {}
    BY DEF LevelsMatchOrders
  <2>1. LiveAt(s, i) = At(orders, base, s, i)
    BY DEF LiveAt, Live, At, IndexOf
  <2>2. levels[s][i] = Total(orders, LiveAt(s, i))
    BY <2>1 DEF IInv, Exact, Totals
  <2>3. SharesOf(LiveAt(s, i)) = SumFunctionOnSet(SharesIn(orders), LiveAt(s, i))
    BY DEF SharesOf, SharesIn
  <2>4. i \in occupied[s] <=> LiveAt(s, i) # {}
    BY <2>1 DEF IInv, Exact, Bits
  <2>5. /\ levels[s][i].shares = SharesOf(LiveAt(s, i))
        /\ levels[s][i].count = Cardinality(LiveAt(s, i))
    BY <2>2, <2>3 DEF Total
  <2> QED BY <2>4, <2>5
<1> QED BY <1>1, Invariance, PTL

\* The book never shows an order the exchange does not have in that very state,
\* and until a price is dropped it has every one of them.
THEOREM TracksExchange == Spec => []BookTracksExchange
<1>1. IInv => BookTracksExchange
  BY DEF IInv
<1> QED BY <1>1, Invariance, PTL

-----------------------------------------------------------------------------
(* The cached top of book.  It is exact for prices that lie on the tick    *)
(* and far enough below 2^w for a window above them: Nasdaq's regular      *)
(* prices.  For prices between the ticks it is not (MCOrderBookSubpenny-   *)
(* Top.cfg).                                                               *)

PricesFit == \A p \in Price : p % PRICE_TICK = 0 /\ p + MAX_LEVELS * PRICE_TICK < PriceMod

BaseFits(b) == b \in Nat /\ b % PRICE_TICK = 0 /\ b + MAX_LEVELS * PRICE_TICK < PriceMod

\* A window that does not wrap gives every level one price.
LEMMA LevelPrice ==
    ASSUME PricesFit, NEW b, BaseFits(b), NEW p \in Price, IndexIn(b, p) \in Index
    PROVE  p = b + IndexIn(b, p) * PRICE_TICK
<1>1. /\ p \in Nat /\ p < PriceMod /\ PRICE_TICK \in Nat \ {0} /\ MAX_LEVELS \in Nat \ {0}
      /\ PriceMod \in Nat \ {0} /\ b \in Nat
  BY BookAssumption DEF BaseFits
<1> DEFINE W == MAX_LEVELS * PRICE_TICK
           y == (p - b) % PriceMod
<1>2. W \in Nat /\ b + W < PriceMod
  BY <1>1 DEF BaseFits
<1>3. y \in Nat /\ (p >= b => y = p - b) /\ (p < b => y = (p - b) + PriceMod)
  <2>1. CASE p >= b
    BY <1>1, <2>1
  <2>2. CASE p < b
    <3>1. p - b < 0 /\ p - b >= -PriceMod
      BY <1>1, <1>2, <2>2
    <3>2. y = (p - b) + PriceMod
      BY <1>1, <3>1
    <3> QED BY <1>1, <2>2, <3>1, <3>2
  <2> QED BY <1>1, <2>1, <2>2
<1> HIDE DEF W, y
<1>4. IndexIn(b, p) = y \div PRICE_TICK
  BY DEF IndexIn, y
<1>5. y < W
  <2>1. y \div PRICE_TICK < MAX_LEVELS
    BY <1>1, <1>4 DEF Index
  <2> QED BY <1>1, <1>3, <2>1 DEF W
<1>6. p >= b
  BY <1>1, <1>2, <1>3, <1>5
<1>7. y = p - b
  BY <1>3, <1>6
<1>8. p % PRICE_TICK = 0 /\ b % PRICE_TICK = 0
  BY DEF PricesFit, BaseFits
<1>9. (p - b) % PRICE_TICK = 0
  <2>1. p = PRICE_TICK * (p \div PRICE_TICK) /\ b = PRICE_TICK * (b \div PRICE_TICK)
    BY <1>1, <1>8
  <2>2. p - b = ((p \div PRICE_TICK) - (b \div PRICE_TICK)) * PRICE_TICK
    BY <1>1, <2>1
  <2>3. ASSUME NEW j \in Int PROVE (j * PRICE_TICK) % PRICE_TICK = 0
    BY <1>1
  <2>4. (p \div PRICE_TICK) - (b \div PRICE_TICK) \in Int
    BY <1>1
  <2> QED BY <2>2, <2>3, <2>4
<1>10. y = PRICE_TICK * (y \div PRICE_TICK)
  BY <1>1, <1>3, <1>7, <1>9
<1> QED BY <1>1, <1>3, <1>4, <1>7, <1>10

\* A new window starts on the tick, at or below its first price.
LEMMA BaseFit ==
    ASSUME PricesFit, base \in Nat, HasBook => BaseFits(base), NEW p \in Price
    PROVE  BaseFits(EnsureBase(p))
<1>1. CASE HasBook
  BY <1>1 DEF EnsureBase
<1>2. CASE ~HasBook
  <2>1. /\ p \in Nat /\ PRICE_TICK \in Nat \ {0} /\ MAX_LEVELS \in Nat \ {0}
        /\ PriceMod \in Nat /\ p + MAX_LEVELS * PRICE_TICK < PriceMod
    BY BookAssumption DEF PricesFit
  <2> DEFINE x == IF p > HALF THEN p - HALF ELSE 0
             q == x \div PRICE_TICK
  <2>2. HALF \in Nat
    BY <2>1 DEF HALF
  <2>3. x \in Nat /\ x <= p
    BY <2>1, <2>2
  <2>4. EnsureBase(p) = q * PRICE_TICK
    BY <1>2 DEF EnsureBase
  <2> HIDE DEF x
  <2>5. q \in Nat /\ q * PRICE_TICK <= x
    BY <2>1, <2>3
  <2> HIDE DEF q
  <2>6. q * PRICE_TICK \in Nat /\ (q * PRICE_TICK) % PRICE_TICK = 0
    BY <2>1, <2>5
  <2>7. MAX_LEVELS * PRICE_TICK \in Nat
    BY <2>1
  <2>8. q * PRICE_TICK <= p
    BY <2>1, <2>3, <2>5, <2>6
  <2>9. q * PRICE_TICK + MAX_LEVELS * PRICE_TICK < PriceMod
    BY <2>1, <2>6, <2>7, <2>8
  <2> QED BY <2>4, <2>6, <2>9 DEF BaseFits
<1> QED BY <1>1, <1>2

\* x is the best price of side s; or it is, unless it is p, which may have gone.
On(o, s) == {r \in DOMAIN o : o[r].side = s}
NoneBetter(o, s, x) == \A r \in On(o, s) : ~Better(s, o[r].price, x)
Attained(o, s, x) == \E r \in On(o, s) : o[r].price = x
TopAt(o, s, x) == (On(o, s) = {} /\ x = Empty(s)) \/ (Attained(o, s, x) /\ NoneBetter(o, s, x))
Top(o, t) == t \in [Side -> Int] /\ \A s \in Side : TopAt(o, s, t[s])
TopBut(o, t, d, p) ==
    /\ t \in [Side -> Int]
    /\ \A s \in Side : s # d => TopAt(o, s, t[s])
    /\ NoneBetter(o, d, t[d]) /\ (t[d] = p \/ Attained(o, d, t[d]))

LEMMA RemoveTop ==
    ASSUME NEW o, NEW b, Typed(o, b), NEW t, Top(o, t), NEW r \in DOMAIN o
    PROVE  TopBut(Without(o, r), t, o[r].side, o[r].price)
<1> DEFINE q == Without(o, r)
<1>1. DOMAIN q = DOMAIN o \ {r} /\ \A x \in DOMAIN q : q[x] = o[x]
  BY WithoutIs
<1>2. o[r].side \in Side
  BY DEF Typed, Entry
<1> HIDE DEF q
<1>3. ASSUME NEW s \in Side, s # o[r].side PROVE TopAt(q, s, t[s])
  <2>1. On(q, s) = On(o, s)
    BY <1>1, <1>3 DEF On
  <2>2. \A x \in On(q, s) : q[x] = o[x]
    BY <1>1 DEF On
  <2>3. TopAt(o, s, t[s])
    BY DEF Top
  <2> QED BY <2>1, <2>2, <2>3 DEF TopAt, Attained, NoneBetter
<1>4. TopAt(o, o[r].side, t[o[r].side]) /\ r \in On(o, o[r].side)
  BY <1>2 DEF Top, On
<1>5. /\ NoneBetter(q, o[r].side, t[o[r].side])
      /\ t[o[r].side] = o[r].price \/ Attained(q, o[r].side, t[o[r].side])
  BY <1>1, <1>4 DEF TopAt, NoneBetter, Attained, On
<1> QED BY <1>3, <1>5 DEF Top, TopBut, q

LEMMA PriceIs ==
    ASSUME NEW p \in Price
    PROVE  p \in Int /\ p > 0 /\ PriceMod \in Nat /\ p < PriceMod - 1
<1>1. p \in 1..(PriceMod - 2) /\ PriceMod \in Nat
  BY BookAssumption
<1> QED BY <1>1

\* An insert raises the best price when it beats it.
LEMMA InsertTop ==
    ASSUME NEW o, NEW b, Typed(o, b), NEW r, r \notin DOMAIN o, NEW e \in Entry, NEW t
    PROVE  /\ Top(o, t) => Top(Put(o, r, e), Raised(t, e.side, e.price))
           /\ \A p : TopBut(o, t, e.side, p) =>
                 TopBut(Put(o, r, e), Raised(t, e.side, e.price), e.side, p)
<1> DEFINE q == Put(o, r, e)
           d == e.side
           w == Raised(t, d, e.price)
<1>1. DOMAIN q = DOMAIN o \cup {r} /\ q[r] = e /\ \A x \in DOMAIN o : q[x] = o[x]
  BY DEF Put
<1>2. d \in Side /\ e.price \in Int /\ Better(d, e.price, Empty(d))
  <2>1. d \in Side /\ e.price \in Price
    BY DEF Entry
  <2> QED BY <2>1, PriceIs DEF Better, Empty
<1>3. \A x \in DOMAIN o : o[x].price \in Int
  <2>1. \A x \in DOMAIN o : o[x].price \in Price
    BY DEF Typed, Entry
  <2> QED BY <2>1, PriceIs
<1> HIDE DEF q
<1>4. ASSUME t \in [Side -> Int]
      PROVE  /\ w \in [Side -> Int] /\ \A s \in Side : s # d => w[s] = t[s]
             /\ w[d] = IF Better(d, e.price, t[d]) THEN e.price ELSE t[d]
  BY <1>2, <1>4 DEF Raised
<1> HIDE DEF w
<1>5. ASSUME NEW s \in Side, s # d
      PROVE  On(q, s) = On(o, s) /\ \A x \in On(o, s) : q[x] = o[x]
  BY <1>1, <1>5 DEF On
<1>6. On(q, d) = On(o, d) \cup {r} /\ q[r] = e /\ \A x \in On(o, d) : q[x] = o[x]
  BY <1>1 DEF On
<1>7. ASSUME NEW s \in Side, s # d, NEW y
      PROVE  /\ TopAt(o, s, y) <=> TopAt(q, s, y)
             /\ NoneBetter(o, s, y) <=> NoneBetter(q, s, y)
             /\ Attained(o, s, y) <=> Attained(q, s, y)
  BY <1>5, <1>7 DEF TopAt, NoneBetter, Attained
<1>8. ASSUME NEW y \in Int, NoneBetter(o, d, y)
      PROVE  NoneBetter(q, d, IF Better(d, e.price, y) THEN e.price ELSE y)
  <2>1. \A x \in On(o, d) : q[x].price = o[x].price /\ o[x].price \in Int
    BY <1>3, <1>6 DEF On
  <2>2. CASE Better(d, e.price, y)
    BY <1>2, <1>6, <1>8, <2>1, <2>2 DEF NoneBetter, Better
  <2>3. CASE ~Better(d, e.price, y)
    BY <1>2, <1>6, <1>8, <2>1, <2>3 DEF NoneBetter
  <2> QED BY <2>2, <2>3
<1>9. ASSUME NEW y
      PROVE  /\ Attained(o, d, y) => Attained(q, d, y)
             /\ Attained(q, d, e.price)
  BY <1>6 DEF Attained
<1>10. ASSUME Top(o, t) PROVE Top(q, w)
  <2>1. t \in [Side -> Int] /\ TopAt(o, d, t[d])
    BY <1>2, <1>10 DEF Top
  <2>2. TopAt(q, d, w[d])
    <3>1. CASE On(o, d) = {} /\ t[d] = Empty(d)
      <4>1. w[d] = e.price
        BY <1>2, <1>4, <2>1, <3>1
      <4>2. NoneBetter(q, d, e.price)
        BY <1>2, <1>6, <3>1 DEF NoneBetter, Better
      <4> QED BY <1>9, <4>1, <4>2 DEF TopAt
    <3>2. CASE Attained(o, d, t[d]) /\ NoneBetter(o, d, t[d])
      <4>1. NoneBetter(q, d, w[d])
        BY <1>2, <1>4, <1>8, <2>1, <3>2
      <4>2. Attained(q, d, w[d])
        BY <1>4, <1>9, <2>1, <3>2
      <4> QED BY <4>1, <4>2 DEF TopAt
    <3> QED BY <2>1, <3>1, <3>2 DEF TopAt
  <2>3. ASSUME NEW s \in Side, s # d PROVE TopAt(q, s, w[s])
    BY <1>4, <1>7, <1>10, <2>1, <2>3 DEF Top
  <2> QED BY <1>4, <2>1, <2>2, <2>3 DEF Top
<1>11. ASSUME NEW p, TopBut(o, t, d, p) PROVE TopBut(q, w, d, p)
  <2>1. /\ t \in [Side -> Int] /\ NoneBetter(o, d, t[d])
        /\ t[d] = p \/ Attained(o, d, t[d])
        /\ \A s \in Side : s # d => TopAt(o, s, t[s])
    BY <1>11 DEF TopBut
  <2>2. NoneBetter(q, d, w[d])
    BY <1>2, <1>4, <1>8, <2>1
  <2>3. w[d] = p \/ Attained(q, d, w[d])
    BY <1>4, <1>9, <2>1
  <2>4. \A s \in Side : s # d => TopAt(q, s, w[s])
    BY <1>4, <1>7, <2>1
  <2> QED BY <1>4, <2>1, <2>2, <2>3, <2>4 DEF TopBut
<1> QED BY <1>10, <1>11 DEF q, w

\* The nearest occupied level holds the best of the orders that are left.
LEMMA NextTop ==
    ASSUME PricesFit, BaseFits(base), NEW o, Typed(o, base), NEW d \in Side, NEW C \in SUBSET Index,
           \A i \in Index : i \in C <=> At(o, base, d, i) # {},
           NEW p \in Price, IndexIn(base, p) \in Index, IndexIn(base, p) \notin C,
           NoneBetter(o, d, p)
    PROVE  TopAt(o, d, NextOccupied(d, C, p))
<1> DEFINE k == IndexIn(base, p)
           beyond == {i \in C : Better(d, k, i)}
           idx(r) == IndexIn(base, o[r].price)
<1>1. MAX_LEVELS \in Nat \ {0} /\ PRICE_TICK \in Nat \ {0} /\ base \in Nat
  BY BookAssumption DEF BaseFits
<1>2. p = base + k * PRICE_TICK /\ k \in Int
  BY <1>1, LevelPrice DEF Index
<1>3. ASSUME NEW r \in On(o, d)
      PROVE  /\ o[r].price = base + idx(r) * PRICE_TICK /\ idx(r) \in Index /\ idx(r) \in Int
             /\ idx(r) \in C
  <2>1. o[r].price \in Price /\ idx(r) \in Index
    BY <1>3 DEF On, Typed, Entry
  <2>2. r \in At(o, base, d, idx(r))
    BY <1>3 DEF On, At
  <2> QED BY <1>1, <2>1, <2>2, LevelPrice DEF Index
<1>4. ASSUME NEW i \in C
      PROVE  \E r \in On(o, d) : o[r].price = base + i * PRICE_TICK
  <2>1. PICK r \in At(o, base, d, i) : TRUE
    BY <1>4
  <2>2. r \in On(o, d) /\ idx(r) = i
    BY <2>1 DEF At, On
  <2> QED BY <1>3, <2>2
<1> HIDE DEF k, idx
<1>5. \A i, j \in Int : base + i * PRICE_TICK < base + j * PRICE_TICK <=> i < j
  <2>1. ASSUME NEW i \in Int, NEW j \in Int
        PROVE  i * PRICE_TICK < j * PRICE_TICK <=> i < j
    BY <1>1
  <2>2. \A i \in Int : i * PRICE_TICK \in Int
    BY <1>1
  <2> QED BY <1>1, <2>1, <2>2
<1>6. \A r \in On(o, d) : idx(r) \in beyond
  <2> SUFFICES ASSUME NEW r \in On(o, d) PROVE Better(d, k, idx(r))
    BY <1>3
  <2>1. idx(r) # k
    BY <1>3 DEF k
  <2>2. ~Better(d, o[r].price, p)
    BY DEF NoneBetter
  <2> QED BY <1>2, <1>3, <1>5, <2>1, <2>2 DEF Better
<1>7. NextOccupied(d, C, p) =
        IF beyond = {} THEN Empty(d)
        ELSE base + (IF d = Buy THEN Max(beyond) ELSE Min(beyond)) * PRICE_TICK
  BY DEF NextOccupied, IndexOf, PriceAt, k
<1>8. CASE beyond = {}
  BY <1>6, <1>7, <1>8 DEF TopAt
<1>9. CASE beyond # {}
  <2> DEFINE m == IF d = Buy THEN Max(beyond) ELSE Min(beyond)
  <2>1. IsFiniteSet(beyond) /\ beyond \subseteq Int
    <3>1. IsFiniteSet(Index) /\ Index \subseteq Int
      BY <1>1, FS_Interval DEF Index
    <3>2. beyond \subseteq Index
      OBVIOUS
    <3> HIDE DEF beyond
    <3> QED BY <3>1, <3>2, FS_Subset
  <2>2. beyond \subseteq C
    OBVIOUS
  <2> HIDE DEF beyond
  <2>3. m \in beyond /\ \A i \in beyond : ~Better(d, i, m)
    <3>1. CASE d = Buy
      <4>1. m = Max(beyond) /\ m \in beyond /\ \A i \in beyond : i <= m
        BY <1>9, <2>1, <3>1, MaxIs
      <4> HIDE DEF m
      <4>2. ASSUME NEW i \in beyond PROVE ~(i > m)
        BY <2>1, <4>1
      <4> QED BY <3>1, <4>1, <4>2 DEF Better
    <3>2. CASE d # Buy
      <4>1. m = Min(beyond) /\ m \in beyond /\ \A i \in beyond : m <= i
        BY <1>9, <2>1, <3>2, MinIs
      <4> HIDE DEF m
      <4>2. ASSUME NEW i \in beyond PROVE ~(i < m)
        BY <2>1, <4>1
      <4> QED BY <3>2, <4>1, <4>2 DEF Better
    <3> QED BY <3>1, <3>2
  <2>4. NextOccupied(d, C, p) = base + m * PRICE_TICK
    BY <1>7, <1>9
  <2> HIDE DEF m
  <2>5. Attained(o, d, NextOccupied(d, C, p))
    BY <1>4, <2>2, <2>3, <2>4 DEF Attained
  <2>6. NoneBetter(o, d, NextOccupied(d, C, p))
    <3> SUFFICES ASSUME NEW r \in On(o, d)
                 PROVE  ~Better(d, o[r].price, base + m * PRICE_TICK)
      BY <2>4 DEF NoneBetter
    <3>1. ~Better(d, idx(r), m) /\ m \in Int
      BY <1>6, <2>1, <2>3
    <3> QED BY <1>3, <1>5, <3>1 DEF Better
  <2> QED BY <2>5, <2>6 DEF TopAt
<1> QED BY <1>8, <1>9

\* The best price after the check of a level that may have lost its last order.
LEMMA CheckTop ==
    ASSUME PricesFit, BaseFits(base), NEW o, Typed(o, base), NEW l, Totals(o, base, l),
           NEW t, NEW d \in Side, NEW p \in Price, IndexIn(base, p) \in Index,
           NEW c, BitsBut(o, base, c, d, IndexIn(base, p)), TopBut(o, t, d, p)
    PROVE  Top(o, EmptiedCheck(BookOf(o, l, c, t), d, p).best)
<1> DEFINE k == IndexIn(base, p)
           c1 == [c EXCEPT ![d] = @ \ {k}]
           C == c[d] \ {k}
           t1 == Lowered(t, d, C, p)
<1>1. EmptiedCheck(BookOf(o, l, c, t), d, p) =
        IF l[d][k].count = 0 THEN BookOf(o, l, c1, t1) ELSE BookOf(o, l, c, t)
  BY CheckFields
<1>2. /\ l[d][k].count = 0 <=> At(o, base, d, k) = {}
      /\ l[d][k].count = 0 => Bits(o, base, c1)
  BY CheckBits
<1>3. t \in [Side -> Int] /\ (t[d] = p \/ Attained(o, d, t[d])) /\ NoneBetter(o, d, t[d])
  BY DEF TopBut
<1>4. CASE l[d][k].count = 0
  <2>1. c \in BitsType /\ c1[d] = C
    BY DEF BitsBut, BitsType
  <2> HIDE DEF c1
  <2>2. C \in SUBSET Index /\ k \notin C
    BY <2>1 DEF BitsType
  <2>3. \A i \in Index : i \in C <=> At(o, base, d, i) # {}
    BY <1>2, <1>4, <2>1 DEF Bits
  <2> HIDE DEF C
  <2>4. t1[d] = IF p = t[d] THEN NextOccupied(d, C, p) ELSE t[d]
    BY <1>3 DEF Lowered
  <2>5. \A s \in Side : s # d => t1[s] = t[s]
    BY <1>3 DEF Lowered
  <2>6. TopAt(o, d, t1[d])
    <3>1. CASE p = t[d]
      BY <1>3, <2>2, <2>3, <2>4, <3>1, NextTop
    <3>2. CASE p # t[d]
      BY <1>3, <2>4, <3>2 DEF TopAt
    <3> QED BY <3>1, <3>2
  <2>7. t1[d] \in Int
    <3>1. \A x \in DOMAIN o : o[x].price \in Price
      BY DEF Typed, Entry
    <3>2. Empty(d) \in Int
      BY BookAssumption DEF Empty
    <3> QED BY <2>6, <3>1, <3>2, PriceIs DEF TopAt, Attained, On
  <2>8. t1 \in [Side -> Int]
    <3>1. t1 = [s \in Side |-> t1[s]]
      BY <1>3 DEF Lowered
    <3> HIDE DEF t1
    <3>2. \A s \in Side : t1[s] \in Int
      BY <1>3, <2>5, <2>7
    <3> QED BY <3>1, <3>2
  <2> HIDE DEF t1
  <2>9. \A s \in Side : TopAt(o, s, t1[s])
    BY <2>5, <2>6 DEF TopBut
  <2> QED BY <1>1, <1>4, <2>8, <2>9, BookOfIs DEF Top
<1>5. CASE l[d][k].count # 0
  <2>1. PICK r \in At(o, base, d, k) : TRUE
    BY <1>2, <1>5
  <2>2. o[r].price \in Price /\ r \in On(o, d) /\ IndexIn(base, o[r].price) = k
    BY <2>1 DEF At, On, Typed, Entry
  <2>3. o[r].price = p
    BY <2>2, LevelPrice
  <2>4. Attained(o, d, t[d])
    BY <1>3, <2>2, <2>3 DEF Attained
  <2>5. Top(o, t)
    BY <1>3, <2>4 DEF Top, TopBut, TopAt
  <2> QED BY <1>1, <1>5, <2>5, BookOfIs
<1> QED BY <1>4, <1>5

LEMMA DrainTop ==
    ASSUME PricesFit, BaseFits(base), NEW o, NEW l, NEW c, NEW t, Exact(o, base, l, c),
           Top(o, t), NEW r \in DOMAIN o
    PROVE  Top(Without(o, r), Drain(BookOf(o, l, c, t), r, o[r].shares).best)
<1> DEFINE l1 == [l EXCEPT ![o[r].side][IndexIn(base, o[r].price)] =
                     [shares |-> @.shares - o[r].shares, count |-> @.count - 1]]
<1>1. RemoveOrder(BookOf(o, l, c, t), r, o[r].shares) = BookOf(Without(o, r), l1, c, t)
  BY RemoveFields
<1>2. Typed(Without(o, r), base) /\ Totals(Without(o, r), base, l1)
  BY WithoutTotals DEF Exact
<1>3. BitsBut(Without(o, r), base, c, o[r].side, IndexIn(base, o[r].price))
  BY RemoveBits DEF Exact
<1>4. o[r].side \in Side /\ o[r].price \in Price /\ IndexIn(base, o[r].price) \in Index
  BY DEF Exact, Typed, Entry
<1>5. TopBut(Without(o, r), t, o[r].side, o[r].price)
  BY RemoveTop DEF Exact
<1> HIDE DEF l1
<1>6. Drain(BookOf(o, l, c, t), r, o[r].shares) =
        EmptiedCheck(BookOf(Without(o, r), l1, c, t), o[r].side, o[r].price)
  BY <1>1, BookOfIs DEF Drain
<1> QED BY <1>2, <1>3, <1>4, <1>5, <1>6, CheckTop

LEMMA ReduceTop ==
    ASSUME PricesFit, BaseFits(base), NEW o, NEW l, NEW c, NEW t, Exact(o, base, l, c),
           Top(o, t), NEW r \in DOMAIN o, NEW n \in Nat, n <= o[r].shares
    PROVE  Top(IF n = o[r].shares THEN Without(o, r) ELSE Cut(o, r, n),
               Reduce(BookOf(o, l, c, t), r, n).best)
<1>1. CASE n = o[r].shares
  <2>1. Reduce(BookOf(o, l, c, t), r, n) = Drain(BookOf(o, l, c, t), r, o[r].shares)
    BY <1>1, BookOfIs DEF Reduce
  <2> QED BY <1>1, <2>1, DrainTop
<1>2. CASE n # o[r].shares
  <2>1. Reduce(BookOf(o, l, c, t), r, n).best = t
    BY <1>2, CutFields, BookOfIs
  <2>2. /\ DOMAIN Cut(o, r, n) = DOMAIN o
        /\ \A x \in DOMAIN o : /\ Cut(o, r, n)[x].side = o[x].side
                               /\ Cut(o, r, n)[x].price = o[x].price
    BY DEF Exact, Typed, Entry, Cut
  <2>3. \A s : On(Cut(o, r, n), s) = On(o, s)
    BY <2>2 DEF On
  <2>4. Top(Cut(o, r, n), t)
    <3>1. ASSUME NEW s \in Side PROVE TopAt(Cut(o, r, n), s, t[s])
      <4>1. TopAt(o, s, t[s])
        BY DEF Top
      <4>2. \A x \in On(o, s) : Cut(o, r, n)[x].price = o[x].price
        BY <2>2 DEF On
      <4> QED BY <2>3, <4>1, <4>2 DEF TopAt, Attained, NoneBetter
    <3> QED BY <3>1 DEF Top
  <2> QED BY <1>2, <2>1, <2>4
<1> QED BY <1>1, <1>2

LEMMA ReplacedTop ==
    ASSUME PricesFit, BaseFits(base), Exact(orders, base, levels, occupied), Top(orders, best),
           NEW old \in DOMAIN orders, NEW new \in Ref, new \notin DOMAIN orders,
           NEW p \in Price, NEW n \in Shares
    PROVE  Top(Replaced(old, new, p, n).orders, Replaced(old, new, p, n).best)
<1> DEFINE e == orders[old]
           k == IndexIn(base, e.price)
           o1 == Without(orders, old)
           l1 == [levels EXCEPT ![e.side][k] =
                     [shares |-> @.shares - e.shares, count |-> @.count - 1]]
           x == [price |-> p, shares |-> n, side |-> e.side]
           i == IndexIn(base, p)
<1>0. base \in Int
  BY DEF BaseFits
<1>1. RemoveOrder(Book, old, e.shares) = BookOf(o1, l1, occupied, best)
  BY BookIs, RemoveFields
<1>2. Typed(o1, base) /\ Totals(o1, base, l1)
  BY WithoutTotals DEF Exact
<1>3. BitsBut(o1, base, occupied, e.side, k) /\ TopBut(o1, best, e.side, e.price)
  BY RemoveBits, RemoveTop DEF Exact
<1>4. e.side \in Side /\ k \in Index /\ e.price \in Price
  BY DEF Exact, Typed, Entry
<1>5. x \in Entry /\ x.side = e.side /\ x.price = p
  BY <1>4, BookAssumption DEF Entry
<1>6. new \notin DOMAIN o1
  BY WithoutIs
<1>7. Replaced(old, new, p, n) =
        EmptiedCheck(IF InRange(base, p) THEN InsertOrder(BookOf(o1, l1, occupied, best), new, x, i)
                     ELSE BookOf(o1, l1, occupied, best), e.side, e.price)
  BY <1>1 DEF Replaced, IndexOf
<1>o. Replaced(old, new, p, n).orders = IF InRange(base, p) THEN Put(o1, new, x) ELSE o1
  BY <1>0, ReplacedExact DEF ExactBook
<1> HIDE DEF o1, l1, x, e, k, i
<1>8. CASE ~InRange(base, p)
  <2>1. Top(o1, EmptiedCheck(BookOf(o1, l1, occupied, best), e.side, e.price).best)
    BY <1>2, <1>3, <1>4, CheckTop DEF k
  <2> QED BY <1>7, <1>8, <1>o, <2>1
<1>9. CASE InRange(base, p)
  <2> DEFINE o2 == Put(o1, new, x)
             l2 == Grown(l1, x.side, i, x.shares)
             c2 == WithBit(occupied, x.side, i)
             t2 == Raised(best, x.side, x.price)
  <2>1. i \in Index /\ IndexIn(base, x.price) = i
    BY <1>0, <1>5, <1>9, IndexType DEF i
  <2>2. InsertOrder(BookOf(o1, l1, occupied, best), new, x, i) = BookOf(o2, l2, c2, t2)
    BY InsertFields
  <2>3. Typed(o2, base) /\ Totals(o2, base, l2)
    BY <1>2, <1>5, <1>6, <2>1, PutTotals
  <2>4. BitsBut(o2, base, c2, e.side, k)
    BY <1>3, <1>4, <1>5, <1>6, <2>1, InsertBits
  <2>5. TopBut(o2, t2, e.side, e.price)
    BY <1>2, <1>3, <1>5, <1>6, InsertTop
  <2> HIDE DEF o2, l2, c2, t2
  <2>6. Top(o2, EmptiedCheck(BookOf(o2, l2, c2, t2), e.side, e.price).best)
    BY <1>4, <2>3, <2>4, <2>5, CheckTop DEF k
  <2>7. Replaced(old, new, p, n) = EmptiedCheck(BookOf(o2, l2, c2, t2), e.side, e.price)
    BY <1>7, <1>9, <2>2
  <2>8. Replaced(old, new, p, n).orders = o2
    BY <1>9, <1>o DEF o2
  <2> QED BY <2>6, <2>7, <2>8
<1> QED BY <1>8, <1>9

-----------------------------------------------------------------------------

TInv ==
    /\ Top(orders, best)
    /\ HasBook => BaseFits(base)
    /\ trade \in Nat /\ dropped \in BOOLEAN

LEMMA InitTop == ASSUME Init PROVE TInv
<1>1. DOMAIN orders = {} /\ best = [s \in Side |-> Empty(s)]
  BY DEF Init
<1>2. \A s : On(orders, s) = {}
  BY <1>1 DEF On
<1>3. \A s \in Side : Empty(s) \in Int
  BY BookAssumption DEF Empty
<1>4. Top(orders, best)
  BY <1>1, <1>2, <1>3 DEF Top, TopAt
<1>5. dropped \in BOOLEAN /\ trade \in Nat /\ ~HasBook
  BY DEF Init, HasBook
<1> QED BY <1>4, <1>5 DEF TInv

LEMMA NextTopInv ==
    ASSUME PricesFit, IInv, TInv, [Next]_vars
    PROVE  TInv'
<1>0. base \in Nat /\ Exact(orders, base, levels, occupied)
  BY DEF IInv
<1>t. \A n \in Shares : n \in Nat
  BY BookAssumption
<1>k. ASSUME SetBook(Book) PROVE Top(orders', best')
  BY <1>k DEF SetBook, Book, TInv
<1>1. ASSUME NEW r \in Ref, NEW s \in Side, NEW p \in Price, NEW n \in Shares, OnAdd(r, s, p, n)
      PROVE  TInv'
  <2> DEFINE e == [price |-> p, shares |-> n, side |-> s]
             b == EnsureBase(p)
             i == IndexIn(b, p)
  <2>1. /\ r \notin DOMAIN exchange /\ base' = b /\ trade' = 0
        /\ InRange(b, p) => SetBook(InsertOrder(Book, r, e, i)) /\ dropped' = dropped
        /\ ~InRange(b, p) => SetBook(Book) /\ dropped' = TRUE
    BY <1>1 DEF OnAdd
  <2>2. e \in Entry /\ e.price = p
    BY BookAssumption DEF Entry
  <2>3. BaseFits(b)
    BY <1>0, BaseFit DEF TInv
  <2>4. r \notin DOMAIN orders
    BY <2>1 DEF IInv, BookTracksExchange
  <2>5. dropped' \in BOOLEAN /\ trade' \in Nat
    BY <2>1 DEF TInv
  <2> HIDE DEF e, b, i
  <2>6. CASE InRange(b, p)
    <3> DEFINE l1 == Grown(levels, e.side, i, e.shares)
               c1 == WithBit(occupied, e.side, i)
               t1 == Raised(best, e.side, e.price)
    <3>1. InsertOrder(Book, r, e, i) = BookOf(Put(orders, r, e), l1, c1, t1)
      BY BookIs, InsertFields
    <3>2. Top(Put(orders, r, e), t1)
      BY <1>0, <2>2, <2>4, InsertTop DEF TInv, Exact
    <3> HIDE DEF l1, c1, t1
    <3>3. orders' = Put(orders, r, e) /\ best' = t1
      BY <2>1, <2>6, <3>1, BookOfIs DEF SetBook
    <3> QED BY <2>1, <2>3, <2>5, <3>2, <3>3 DEF TInv
  <2>7. CASE ~InRange(b, p)
    BY <1>k, <2>1, <2>3, <2>5, <2>7 DEF TInv
  <2> QED BY <2>6, <2>7
<1>2. ASSUME NEW r \in Ref, NEW n \in Shares, OnExecute(r, n) \/ OnCancel(r, n)
      PROVE  TInv'
  <2>1. /\ HasBook /\ n <= exchange[r].shares /\ base' = base /\ dropped' = dropped
        /\ SetBook(IF r \in DOMAIN orders THEN Reduce(Book, r, n) ELSE Book)
        /\ trade' = n \/ trade' = 0
    BY <1>2 DEF OnExecute, OnCancel, TakeShares
  <2>2. HasBook' => BaseFits(base')
    BY <2>1 DEF TInv
  <2>3. dropped' \in BOOLEAN /\ trade' \in Nat
    BY <1>t, <2>1 DEF TInv
  <2>4. CASE r \in DOMAIN orders
    <3>1. n \in Nat /\ n <= orders[r].shares
      BY <1>t, <2>1, <2>4 DEF IInv, BookTracksExchange
    <3>2. Top(IF n = orders[r].shares THEN Without(orders, r) ELSE Cut(orders, r, n),
              Reduce(Book, r, n).best)
      BY <1>0, <2>1, <2>4, <3>1, BookIs, ReduceTop DEF TInv
    <3>3. Reduce(Book, r, n).orders =
            IF n = orders[r].shares THEN Without(orders, r) ELSE Cut(orders, r, n)
      BY <1>0, <2>4, <3>1, BookIs, ReduceExact DEF ExactBook
    <3>4. Top(orders', best')
      BY <2>1, <2>4, <3>2, <3>3 DEF SetBook
    <3> QED BY <2>2, <2>3, <3>4 DEF TInv
  <2>5. CASE r \notin DOMAIN orders
    BY <1>k, <2>1, <2>2, <2>3, <2>5 DEF TInv
  <2> QED BY <2>4, <2>5
<1>3. ASSUME NEW r \in Ref, OnDelete(r)
      PROVE  TInv'
  <2>1. /\ HasBook /\ base' = base /\ dropped' = dropped /\ trade' = 0
        /\ SetBook(IF r \in DOMAIN orders THEN Drain(Book, r, orders[r].shares) ELSE Book)
    BY <1>3 DEF OnDelete
  <2>2. HasBook' => BaseFits(base')
    BY <2>1 DEF TInv
  <2>3. dropped' \in BOOLEAN /\ trade' \in Nat
    BY <2>1 DEF TInv
  <2>4. CASE r \in DOMAIN orders
    <3>1. Top(Without(orders, r), Drain(Book, r, orders[r].shares).best)
      BY <1>0, <2>1, <2>4, BookIs, DrainTop DEF TInv
    <3>2. Drain(Book, r, orders[r].shares).orders = Without(orders, r)
      BY <1>0, <2>4, BookIs, DrainExact DEF ExactBook
    <3>3. Top(orders', best')
      BY <2>1, <2>4, <3>1, <3>2 DEF SetBook
    <3> QED BY <2>2, <2>3, <3>3 DEF TInv
  <2>5. CASE r \notin DOMAIN orders
    BY <1>k, <2>1, <2>2, <2>3, <2>5 DEF TInv
  <2> QED BY <2>4, <2>5
<1>4. ASSUME NEW r1 \in Ref, NEW r2 \in Ref, NEW p \in Price, NEW n \in Shares,
             OnReplace(r1, r2, p, n)
      PROVE  TInv'
  <2>1. /\ HasBook /\ base' = base /\ trade' = 0 /\ r2 \notin DOMAIN exchange
        /\ r1 \in DOMAIN orders => SetBook(Replaced(r1, r2, p, n))
        /\ r1 \notin DOMAIN orders => SetBook(Book)
    BY <1>4 DEF OnReplace
  <2>2. HasBook' => BaseFits(base')
    BY <2>1 DEF TInv
  <2>3. dropped' \in BOOLEAN
    BY <1>4 DEF OnReplace, TInv
  <2>4. trade' \in Nat
    BY <2>1
  <2>5. CASE r1 \in DOMAIN orders
    <3>1. r2 \notin DOMAIN orders
      BY <2>1 DEF IInv, BookTracksExchange
    <3>2. Top(Replaced(r1, r2, p, n).orders, Replaced(r1, r2, p, n).best)
      BY <1>0, <2>1, <2>5, <3>1, ReplacedTop DEF TInv
    <3>3. Top(orders', best')
      BY <2>1, <2>5, <3>2 DEF SetBook
    <3> QED BY <2>2, <2>3, <2>4, <3>3 DEF TInv
  <2>6. CASE r1 \notin DOMAIN orders
    BY <1>k, <2>1, <2>2, <2>3, <2>4, <2>6 DEF TInv
  <2> QED BY <2>5, <2>6
<1>5. ASSUME NEW n \in Shares, OnTradeOnly(n) PROVE TInv'
  BY <1>5, <1>t DEF OnTradeOnly, TInv, HasBook
<1>6. ASSUME UNCHANGED vars PROVE TInv'
  BY <1>6 DEF vars, TInv, HasBook
<1> QED BY <1>1, <1>2, <1>3, <1>4, <1>5, <1>6 DEF Next

\* When the feed's prices lie on the tick and a window's width below 2^w, the
\* cached best prices are those of the best live orders after every event: no
\* order of events leaves best_bid or best_ask stale.
THEOREM TopExact == ASSUME PricesFit PROVE Spec => []TopOfBook
<1>1. Init => TInv
  BY InitTop
<1>2. IInv /\ TInv /\ [Next]_vars => TInv'
  BY NextTopInv
<1>3. TInv => TopOfBook
  <2>1. \A s : Live(s) = On(orders, s)
    BY DEF Live, On
  <2> QED BY <2>1 DEF TInv, Top, TopAt, Attained, NoneBetter, TopOfBook
<1> QED BY <1>1, <1>2, <1>3, Invariance, PTL DEF Spec

\* For such prices the walks of top_bids and top_asks may skip the order_count
\* test: the cached best price always points at an occupied level.
THEOREM BestOccupied == ASSUME PricesFit PROVE Spec => []BestIsOccupied
<1>1. IInv /\ TopOfBook => BestIsOccupied
  <2> SUFFICES ASSUME IInv, TopOfBook, NEW s \in Side, best[s] # Empty(s)
               PROVE  IndexOf(best[s]) \in occupied[s]
    BY DEF BestIsOccupied
  <2>1. PICK r \in Live(s) : orders[r].price = best[s]
    BY DEF TopOfBook
  <2>2. r \in At(orders, base, s, IndexOf(best[s])) /\ IndexOf(best[s]) \in Index
    BY <2>1 DEF Live, At, IndexOf, IInv, Exact, Typed
  <2> QED BY <2>2 DEF IInv, Exact, Bits
<1> QED BY <1>1, Invariance, TopExact, PTL

\* Every variable has its type; in particular every live order stays inside
\* the window and no level's totals go below zero.
THEOREM TypeCorrect == ASSUME PricesFit PROVE Spec => []TypeOK
<1>1. Init => TInv
  BY InitTop
<1>2. IInv /\ TInv /\ [Next]_vars => TInv'
  BY NextTopInv
<1>3. ASSUME IInv, TInv PROVE TypeOK
  <2>1. base \in 0..(PriceMod - 1) \cup {NoBook}
    <3>1. MAX_LEVELS * PRICE_TICK \in Nat /\ PriceMod \in Nat
      BY BookAssumption
    <3> QED BY <1>3, <3>1 DEF TInv, HasBook, BaseFits
  <2>2. /\ DOMAIN orders \subseteq Ref
        /\ \A r \in DOMAIN orders : orders[r] \in Entry /\ IndexIn(base, orders[r].price) \in Index
    BY <1>3 DEF IInv, Exact, Typed
  <2>3. \A r \in DOMAIN orders :
          /\ orders[r].side \in Side
          /\ orders[r].price \in Price /\ InRange(base, orders[r].price)
          /\ orders[r].shares \in Nat \ {0}
    BY <2>2, BookAssumption DEF Entry, InRange, Index
  <2>4. levels \in [Side -> [Index -> [shares : Nat, count : Nat]]]
    <3>1. levels \in [Side -> [Index -> [shares : Int, count : Int]]]
      BY <1>3 DEF IInv, Exact, Totals, LevelType
    <3>2. ASSUME NEW s \in Side, NEW i \in Index
          PROVE  levels[s][i] \in [shares : Nat, count : Nat]
      <4>1. levels[s][i] = Total(orders, At(orders, base, s, i))
        BY <1>3 DEF IInv, Exact, Totals
      <4>2. /\ Cardinality(At(orders, base, s, i)) \in Nat
            /\ Total(orders, At(orders, base, s, i)).shares \in Nat
        BY <1>3, AtFinite DEF IInv, Exact
      <4> QED BY <4>1, <4>2 DEF Total
    <3> QED BY <3>1, <3>2
  <2>5. occupied \in [Side -> SUBSET Index]
    BY <1>3 DEF IInv, Exact, Bits, BitsType
  <2>6. best \in [Side -> 0..(PriceMod - 1)]
    <3>1. best \in [Side -> Int] /\ \A s \in Side : TopAt(orders, s, best[s])
      BY <1>3 DEF TInv, Top
    <3>2. ASSUME NEW s \in Side PROVE best[s] \in 0..(PriceMod - 1)
      <4>1. CASE best[s] = Empty(s)
        <5>1. PriceMod \in Nat /\ PriceMod >= 1
          <6>1. MAX_LEVELS * PRICE_TICK \in Nat
            BY BookAssumption
          <6> QED BY <6>1, BookAssumption
        <5> QED BY <4>1, <5>1 DEF Empty
      <4>2. CASE Attained(orders, s, best[s])
        BY <2>3, <4>2, PriceIs DEF Attained, On
      <4> QED BY <3>1, <4>1, <4>2 DEF TopAt
    <3> QED BY <3>1, <3>2
  <2>7. trade \in Nat /\ dropped \in BOOLEAN
    BY <1>3 DEF TInv
  <2> QED BY <2>1, <2>2, <2>3, <2>4, <2>5, <2>6, <2>7 DEF TypeOK
<1> QED BY <1>1, <1>2, <1>3, Invariance, PTL DEF Spec

-----------------------------------------------------------------------------
(* The walks of top_bids and top_asks.                                     *)

\* The k-th price of a walk that has visited f before.
Visit(s, f, k) ==
    IF k = 1 THEN best[s]
    ELSE IF f[k - 1] = Empty(s) THEN Empty(s) ELSE NextOccupied(s, occupied[s], f[k - 1])
IsWalk(s, f, n) == f = [k \in 1..n |-> Visit(s, f, k)]

LEMMA WalkUnfold ==
    ASSUME NEW s
    PROVE  Walk(s) = CHOOSE f : IsWalk(s, f, Depth)
BY DEF Walk, IsWalk, Visit

\* The recursion has a solution, so that the walk is one.
LEMMA WalkIs ==
    ASSUME NEW s
    PROVE  \A k \in 1..Depth : Walk(s)[k] = Visit(s, Walk(s), k)
<1>0. Depth \in Nat /\ Depth >= 1
  BY BookAssumption
<1> DEFINE Good == {n \in 1..Depth : \E f : IsWalk(s, f, n)}
<1>1. 1 \in Good
  <2> DEFINE f == [k \in 1..1 |-> best[s]]
  <2>1. \A k \in 1..1 : Visit(s, f, k) = best[s]
    BY DEF Visit
  <2>2. IsWalk(s, f, 1)
    BY <2>1 DEF IsWalk
  <2> HIDE DEF f
  <2> QED BY <1>0, <2>2
<1>2. ASSUME NEW n \in 1..Depth, n \in Good, n < Depth PROVE n + 1 \in Good
  <2>1. PICK f : IsWalk(s, f, n)
    BY <1>2
  <2> DEFINE g == [k \in 1..(n + 1) |-> IF k = n + 1 THEN Visit(s, f, n + 1) ELSE f[k]]
  <2>2. \A k \in 1..n : g[k] = f[k]
    BY <1>0
  <2>3. \A k \in 1..n : f[k] = Visit(s, f, k)
    BY <2>1 DEF IsWalk
  <2>4. g[n + 1] = Visit(s, f, n + 1)
    BY <1>0
  <2>5. g = [k \in 1..(n + 1) |-> g[k]]
    OBVIOUS
  <2> HIDE DEF g
  <2>6. ASSUME NEW k \in 1..(n + 1) PROVE Visit(s, g, k) = Visit(s, f, k)
    <3>1. CASE k = 1
      BY <3>1 DEF Visit
    <3>2. CASE k # 1
      <4>1. k - 1 \in 1..n
        BY <1>0, <3>2
      <4>2. g[k - 1] = f[k - 1]
        BY <2>2, <4>1
      <4> QED BY <3>2, <4>2 DEF Visit
    <3> QED BY <3>1, <3>2
  <2>7. ASSUME NEW k \in 1..(n + 1) PROVE g[k] = Visit(s, g, k)
    <3>1. CASE k = n + 1
      BY <2>4, <2>6, <3>1
    <3>2. CASE k # n + 1
      <4>1. k \in 1..n
        BY <1>0, <3>2
      <4> QED BY <2>2, <2>3, <2>6, <4>1
    <3> QED BY <3>1, <3>2
  <2>8. IsWalk(s, g, n + 1)
    <3>1. [k \in 1..(n + 1) |-> g[k]] = [k \in 1..(n + 1) |-> Visit(s, g, k)]
      BY <2>7
    <3> QED BY <2>5, <3>1 DEF IsWalk
  <2>9. n + 1 \in 1..Depth
    BY <1>0, <1>2
  <2> QED BY <2>8, <2>9
<1> HIDE DEF Good
<1>3. Depth \in Good
  <2>1. \A k \in 1..Depth : k \in Good
    BY <1>0, <1>1, <1>2, IntervalInduction
  <2> QED BY <1>0, <2>1
<1>4. \E f : IsWalk(s, f, Depth)
  BY <1>3 DEF Good
<1>5. IsWalk(s, Walk(s), Depth)
  BY <1>4, WalkUnfold, Zenon
<1> QED BY <1>5 DEF IsWalk

\* The prices of the live orders of a side, and those ahead of p.
Prices(s) == {orders[r].price : r \in Live(s)}
Ahead(s, p) == {x \in Prices(s) : Better(s, x, p)}

LEMMA PricesAre ==
    ASSUME IInv, NEW s \in Side
    PROVE  /\ IsFiniteSet(Prices(s)) /\ Prices(s) \subseteq Price /\ Prices(s) \subseteq Int
           /\ Empty(s) \notin Prices(s)
           /\ \A p : IsFiniteSet(Ahead(s, p)) /\ Cardinality(Ahead(s, p)) \in Nat
<1>1. Prices(s) \subseteq Price
  BY DEF Prices, Live, IInv, Exact, Typed, Entry
<1>2. Prices(s) \subseteq 1..(PriceMod - 2) /\ PriceMod - 2 \in Int
  <2>1. Price \subseteq 1..(PriceMod - 2)
    BY BookAssumption
  <2>2. Prices(s) \subseteq 1..(PriceMod - 2)
    BY <1>1, <2>1, Zenon
  <2>3. PriceMod \in Nat
    BY BookAssumption
  <2> QED BY <2>2, <2>3
<1>3. IsFiniteSet(1..(PriceMod - 2))
  BY <1>2, FS_Interval
<1>4. IsFiniteSet(Prices(s))
  BY <1>2, <1>3, FS_Subset
<1>5. Empty(s) \notin Prices(s)
  <2>1. ASSUME NEW p \in Prices(s) PROVE p # Empty(s)
    BY <1>1, <2>1, PriceIs DEF Empty
  <2> QED BY <2>1
<1>6. ASSUME NEW p PROVE IsFiniteSet(Ahead(s, p)) /\ Cardinality(Ahead(s, p)) \in Nat
  <2>1. Ahead(s, p) \subseteq Prices(s)
    BY DEF Ahead
  <2>2. IsFiniteSet(Ahead(s, p))
    BY <1>4, <2>1, FS_Subset
  <2> QED BY <2>2, FS_CardinalityType
<1>7. Prices(s) \subseteq Int
  BY <1>1, PriceIs
<1> QED BY <1>1, <1>4, <1>5, <1>6, <1>7

\* From a price of the book the walk goes on to the next one, or it ends.
LEMMA WalkNext ==
    ASSUME PricesFit, BaseFits(base), IInv, NEW s \in Side, NEW p \in Prices(s)
    PROVE  LET q == NextOccupied(s, occupied[s], p)
           IN  \/ q = Empty(s) /\ \A x \in Prices(s) : ~Better(s, p, x)
               \/ /\ q \in Prices(s) /\ Better(s, p, q)
                  /\ \A x \in Prices(s) : Better(s, p, x) => ~Better(s, x, q)
<1> DEFINE k == IndexIn(base, p)
           C == occupied[s]
           beyond == {i \in C : Better(s, k, i)}
           idx(r) == IndexIn(base, orders[r].price)
           q == NextOccupied(s, C, p)
<1>1. MAX_LEVELS \in Nat \ {0} /\ PRICE_TICK \in Nat \ {0} /\ base \in Nat
  BY BookAssumption DEF BaseFits
<1>2. ASSUME NEW r \in Live(s)
      PROVE  /\ orders[r].price = base + idx(r) * PRICE_TICK /\ idx(r) \in Index /\ idx(r) \in Int
             /\ idx(r) \in C
  <2>1. orders[r].price \in Price /\ idx(r) \in Index
    BY DEF Live, IInv, Exact, Typed, Entry
  <2>2. r \in At(orders, base, s, idx(r))
    BY DEF Live, At
  <2>3. idx(r) \in C
    BY <2>1, <2>2 DEF IInv, Exact, Bits
  <2> QED BY <1>1, <2>1, <2>3, LevelPrice DEF Index
<1>3. ASSUME NEW i \in C
      PROVE  base + i * PRICE_TICK \in Prices(s)
  <2>1. i \in Index /\ At(orders, base, s, i) # {}
    BY DEF IInv, Exact, Bits, BitsType
  <2>2. PICK r \in At(orders, base, s, i) : TRUE
    BY <2>1
  <2>3. r \in Live(s) /\ idx(r) = i
    BY <2>2 DEF At, Live
  <2>4. orders[r].price = base + i * PRICE_TICK
    BY <1>2, <2>3
  <2> QED BY <2>3, <2>4 DEF Prices
<1>4. p = base + k * PRICE_TICK /\ k \in Int
  BY <1>2 DEF Prices
<1>5. C \subseteq Index
  BY DEF IInv, Exact, Bits, BitsType
<1> HIDE DEF k, idx, C
<1>6. \A i, j \in Int : base + i * PRICE_TICK < base + j * PRICE_TICK <=> i < j
  <2>1. ASSUME NEW i \in Int, NEW j \in Int
        PROVE  i * PRICE_TICK < j * PRICE_TICK <=> i < j
    BY <1>1
  <2>2. \A i \in Int : i * PRICE_TICK \in Int
    BY <1>1
  <2> QED BY <1>1, <2>1, <2>2
<1>7. ASSUME NEW x \in Prices(s), Better(s, p, x)
      PROVE  \E i \in beyond : x = base + i * PRICE_TICK /\ i \in Int
  <2>1. PICK r \in Live(s) : x = orders[r].price
    BY DEF Prices
  <2>2. Better(s, k, idx(r))
    BY <1>2, <1>4, <1>6, <1>7, <2>1 DEF Better
  <2> QED BY <1>2, <2>1, <2>2
<1>8. q = IF beyond = {} THEN Empty(s)
          ELSE base + (IF s = Buy THEN Max(beyond) ELSE Min(beyond)) * PRICE_TICK
  BY DEF NextOccupied, IndexOf, PriceAt, k
<1>9. CASE beyond = {}
  BY <1>7, <1>8, <1>9 DEF C
<1>10. CASE beyond # {}
  <2> DEFINE m == IF s = Buy THEN Max(beyond) ELSE Min(beyond)
  <2>1. IsFiniteSet(beyond) /\ beyond \subseteq Int
    <3>1. IsFiniteSet(Index) /\ Index \subseteq Int
      BY <1>1, FS_Interval DEF Index
    <3>2. beyond \subseteq Index
      BY <1>5
    <3> HIDE DEF beyond
    <3> QED BY <3>1, <3>2, FS_Subset
  <2>2. \A i \in beyond : i \in C /\ Better(s, k, i)
    OBVIOUS
  <2> HIDE DEF beyond
  <2>3. m \in beyond /\ \A i \in beyond : ~Better(s, i, m)
    <3>1. CASE s = Buy
      <4>1. m = Max(beyond) /\ m \in beyond /\ \A i \in beyond : i <= m
        BY <1>10, <2>1, <3>1, MaxIs
      <4> HIDE DEF m
      <4>2. ASSUME NEW i \in beyond PROVE ~(i > m)
        BY <2>1, <4>1
      <4> QED BY <3>1, <4>1, <4>2 DEF Better
    <3>2. CASE s # Buy
      <4>1. m = Min(beyond) /\ m \in beyond /\ \A i \in beyond : m <= i
        BY <1>10, <2>1, <3>2, MinIs
      <4> HIDE DEF m
      <4>2. ASSUME NEW i \in beyond PROVE ~(i < m)
        BY <2>1, <4>1
      <4> QED BY <3>2, <4>1, <4>2 DEF Better
    <3> QED BY <3>1, <3>2
  <2>4. q = base + m * PRICE_TICK
    BY <1>8, <1>10
  <2> HIDE DEF m, q
  <2>5. q \in Prices(s) /\ m \in Int
    BY <1>3, <2>1, <2>2, <2>3, <2>4
  <2>6. Better(s, p, q)
    BY <1>4, <1>6, <2>2, <2>3, <2>4, <2>5 DEF Better
  <2>7. ASSUME NEW x \in Prices(s), Better(s, p, x) PROVE ~Better(s, x, q)
    <3>1. PICK i \in beyond : x = base + i * PRICE_TICK /\ i \in Int
      BY <1>7, <2>7
    <3> QED BY <1>6, <2>3, <2>4, <2>5, <3>1 DEF Better
  <2> QED BY <2>5, <2>6, <2>7 DEF q, C
<1> QED BY <1>9, <1>10

\* The k-th visit is to the k-th best price, or there are fewer than k.
Ranked(s, v, k) ==
    \/ v = Empty(s) /\ Cardinality(Prices(s)) < k
    \/ v \in Prices(s) /\ 1 + Cardinality(Ahead(s, v)) = k

LEMMA WalkRanked ==
    ASSUME PricesFit, IInv, TInv, HasBook, NEW s \in Side
    PROVE  \A k \in 1..Depth : Ranked(s, Walk(s)[k], k)
<1>0. Depth \in Nat /\ Depth >= 1 /\ BaseFits(base)
  BY BookAssumption DEF TInv
<1> DEFINE v == Walk(s)
           Good == {k \in 1..Depth : Ranked(s, v[k], k)}
<1>p. /\ IsFiniteSet(Prices(s)) /\ Prices(s) \subseteq Int /\ Empty(s) \notin Prices(s)
      /\ \A p : IsFiniteSet(Ahead(s, p)) /\ Cardinality(Ahead(s, p)) \in Nat
  BY PricesAre
<1>c. Cardinality(Prices(s)) \in Nat
  BY <1>p, FS_CardinalityType
<1>w. \A k \in 1..Depth : v[k] = Visit(s, v, k)
  BY WalkIs
<1> HIDE DEF v
<1>1. 1 \in Good
  <2>1. v[1] = best[s]
    BY <1>0, <1>w DEF Visit
  <2>2. TopAt(orders, s, best[s]) /\ On(orders, s) = Live(s)
    BY DEF TInv, Top, On, Live
  <2>3. CASE Live(s) = {} /\ best[s] = Empty(s)
    <3>1. Prices(s) = {}
      BY <2>3 DEF Prices
    <3>2. Cardinality(Prices(s)) = 0
      BY <3>1, FS_EmptySet
    <3> QED BY <1>0, <2>1, <2>3, <3>2 DEF Ranked
  <2>4. CASE Attained(orders, s, best[s]) /\ NoneBetter(orders, s, best[s])
    <3>1. best[s] \in Prices(s)
      BY <2>2, <2>4 DEF Attained, Prices
    <3>2. Ahead(s, best[s]) = {}
      BY <2>2, <2>4 DEF NoneBetter, Ahead, Prices
    <3>3. Cardinality(Ahead(s, best[s])) = 0
      BY <3>2, FS_EmptySet
    <3> QED BY <1>0, <2>1, <3>1, <3>3 DEF Ranked
  <2> QED BY <2>2, <2>3, <2>4 DEF TopAt
<1>2. ASSUME NEW k \in 1..Depth, k \in Good, k < Depth PROVE k + 1 \in Good
  <2>1. k + 1 \in 1..Depth /\ k + 1 # 1 /\ (k + 1) - 1 = k /\ k \in Int
    BY <1>0, <1>2
  <2>2. v[k + 1] = IF v[k] = Empty(s) THEN Empty(s) ELSE NextOccupied(s, occupied[s], v[k])
    BY <1>w, <2>1 DEF Visit
  <2>3. Ranked(s, v[k], k)
    BY <1>2
  <2>4. CASE v[k] = Empty(s) /\ Cardinality(Prices(s)) < k
    <3>1. Cardinality(Prices(s)) < k + 1
      BY <1>c, <2>1, <2>4
    <3> QED BY <2>1, <2>2, <2>4, <3>1 DEF Ranked
  <2>5. CASE v[k] \in Prices(s) /\ 1 + Cardinality(Ahead(s, v[k])) = k
    <3> DEFINE p == v[k]
               q == NextOccupied(s, occupied[s], p)
               A == Ahead(s, p)
    <3>1. v[k + 1] = q /\ p \in Prices(s) /\ 1 + Cardinality(A) = k
      BY <1>p, <2>2, <2>5
    <3>2. \/ q = Empty(s) /\ \A x \in Prices(s) : ~Better(s, p, x)
          \/ /\ q \in Prices(s) /\ Better(s, p, q)
             /\ \A x \in Prices(s) : Better(s, p, x) => ~Better(s, x, q)
      BY <1>0, <2>5, WalkNext
    <3> HIDE DEF p, q
    <3>3. IsFiniteSet(A) /\ p \notin A /\ Cardinality(A) \in Nat /\ p \in Int
      <4>1. p \in Int /\ ~Better(s, p, p)
        BY <1>p, <3>1 DEF Better
      <4>2. p \notin A
        BY <4>1 DEF Ahead
      <4> HIDE DEF A
      <4>3. IsFiniteSet(A) /\ Cardinality(A) \in Nat
        BY <1>p DEF A
      <4> QED BY <4>1, <4>2, <4>3
    <3>4. Cardinality(A \cup {p}) = k
      <4> HIDE DEF A
      <4>1. Cardinality(A \cup {p}) = Cardinality(A) + 1
        BY <3>3, FS_AddElement
      <4> QED BY <2>1, <3>1, <3>3, <4>1
    <3>5. CASE q = Empty(s) /\ \A x \in Prices(s) : ~Better(s, p, x)
      <4>1. Prices(s) = A \cup {p}
        <5>1. ASSUME NEW x \in Prices(s) PROVE x = p \/ Better(s, x, p)
          BY <1>p, <3>3, <3>5 DEF Better
        <5> QED BY <3>1, <5>1 DEF Ahead
      <4>2. Cardinality(Prices(s)) < k + 1
        BY <2>1, <3>4, <4>1
      <4> QED BY <2>1, <3>1, <3>5, <4>2 DEF Ranked
    <3>6. CASE /\ q \in Prices(s) /\ Better(s, p, q)
               /\ \A x \in Prices(s) : Better(s, p, x) => ~Better(s, x, q)
      <4>1. Ahead(s, q) = A \cup {p}
        <5>1. q \in Int
          BY <1>p, <3>6
        <5>2. ASSUME NEW x \in Prices(s) PROVE Better(s, x, q) <=> x = p \/ Better(s, x, p)
          <6>1. x \in Int /\ Better(s, p, q) /\ (Better(s, p, x) => ~Better(s, x, q))
            BY <1>p, <3>6
          <6> QED BY <3>3, <5>1, <6>1 DEF Better
        <5> QED BY <3>1, <5>2 DEF Ahead
      <4>2. 1 + Cardinality(Ahead(s, q)) = k + 1
        BY <2>1, <3>4, <4>1
      <4> QED BY <2>1, <3>1, <3>6, <4>2 DEF Ranked
    <3> QED BY <3>2, <3>5, <3>6
  <2> QED BY <2>3, <2>4, <2>5 DEF Ranked
<1> HIDE DEF Good
<1>3. \A k \in 1..Depth : k \in Good
  BY <1>0, <1>1, <1>2, IntervalInduction
<1> QED BY <1>3 DEF Good, v

\* No two prices of a side have the same number of prices ahead of them.
LEMMA RankInjective ==
    ASSUME IInv, NEW s \in Side, NEW p \in Prices(s), NEW q \in Prices(s),
           Cardinality(Ahead(s, p)) = Cardinality(Ahead(s, q))
    PROVE  p = q
<1>1. p \in Int /\ q \in Int /\ Prices(s) \subseteq Int
  BY PricesAre
<1>2. ASSUME NEW x \in Prices(s), NEW y \in Prices(s), Better(s, x, y)
      PROVE  Cardinality(Ahead(s, x)) # Cardinality(Ahead(s, y))
  <2>1. Ahead(s, x) \subseteq Ahead(s, y) /\ x \in Ahead(s, y) /\ x \notin Ahead(s, x)
    BY <1>1, <1>2 DEF Ahead, Better
  <2>2. IsFiniteSet(Ahead(s, y))
    BY PricesAre
  <2> QED BY <2>1, <2>2, FS_Subset
<1>3. p = q \/ Better(s, p, q) \/ Better(s, q, p)
  BY <1>1 DEF Better
<1> QED BY <1>2, <1>3

\* The totals found at a price of the book are those of the orders at it.
LEMMA TotalsAt ==
    ASSUME PricesFit, BaseFits(base), IInv, NEW s \in Side, NEW p \in Prices(s)
    PROVE  LET at == {r \in Live(s) : orders[r].price = p}
           IN  /\ levels[s][IndexOf(p)].shares = SharesOf(at)
               /\ levels[s][IndexOf(p)].count = Cardinality(at)
<1> DEFINE at == {r \in Live(s) : orders[r].price = p}
           i == IndexIn(base, p)
<1>1. PICK x \in Live(s) : orders[x].price = p
  BY DEF Prices
<1>2. p \in Price /\ i \in Index
  BY <1>1 DEF Live, IInv, Exact, Typed, Entry
<1>3. p = base + i * PRICE_TICK
  BY <1>2, LevelPrice
<1>4. ASSUME NEW r \in Live(s) PROVE IndexIn(base, orders[r].price) = i <=> orders[r].price = p
  <2>1. orders[r].price \in Price /\ IndexIn(base, orders[r].price) \in Index
    BY DEF Live, IInv, Exact, Typed, Entry
  <2>2. orders[r].price = base + IndexIn(base, orders[r].price) * PRICE_TICK
    BY <2>1, LevelPrice
  <2> QED BY <1>3, <2>2
<1>5. At(orders, base, s, i) = at
  BY <1>4 DEF At, Live
<1> HIDE DEF at, i
<1>6. levels[s][i] = Total(orders, at)
  BY <1>2, <1>5 DEF IInv, Exact, Totals
<1>7. levels[s][i].shares = SharesOf(at) /\ levels[s][i].count = Cardinality(at)
  BY <1>6 DEF Total, SharesIn, SharesOf
<1> QED BY <1>7 DEF at, i, IndexOf

\* For prices on the tick, what top_bids and top_asks emit is the sorted book:
\* the walk over the occupancy bits misses no level, visits none twice and
\* stops only at the end or at the depth asked for.
THEOREM WalkSorted == ASSUME PricesFit PROVE Spec => []WalkIsSortedBook
<1>1. Init => TInv
  BY InitTop
<1>2. IInv /\ TInv /\ [Next]_vars => TInv'
  BY NextTopInv
<1>3. ASSUME IInv, TInv PROVE WalkIsSortedBook
  <2> SUFFICES ASSUME NEW s \in Side, HasBook
               PROVE  TopLevels(s) =
                        {[rank |-> 1 + Cardinality(Ahead(s, p)), price |-> p,
                          shares |-> SharesOf({r \in Live(s) : orders[r].price = p}),
                          count |-> Cardinality({r \in Live(s) : orders[r].price = p})] :
                            p \in {x \in Prices(s) : 1 + Cardinality(Ahead(s, x)) <= Depth}}
    BY DEF WalkIsSortedBook, Prices, Ahead
  <2> DEFINE v == Walk(s)
             rank(p) == 1 + Cardinality(Ahead(s, p))
             at(p) == {r \in Live(s) : orders[r].price = p}
             row(k) == [rank |-> k, price |-> v[k], shares |-> levels[s][IndexOf(v[k])].shares,
                        count |-> levels[s][IndexOf(v[k])].count]
             line(p) == [rank |-> rank(p), price |-> p, shares |-> SharesOf(at(p)),
                         count |-> Cardinality(at(p))]
             K == {j \in 1..Depth : v[j] # Empty(s)}
             P == {x \in Prices(s) : rank(x) <= Depth}
  <2>0. Depth \in Nat /\ BaseFits(base)
    BY <1>3, BookAssumption DEF TInv
  <2>1. \A k \in 1..Depth : Ranked(s, v[k], k)
    BY <1>3, WalkRanked
  <2>2. /\ Empty(s) \notin Prices(s) /\ IsFiniteSet(Prices(s))
        /\ \A p : Cardinality(Ahead(s, p)) \in Nat
    BY <1>3, PricesAre
  <2>3. ASSUME NEW p \in Prices(s)
        PROVE  /\ levels[s][IndexOf(p)].shares = SharesOf(at(p))
               /\ levels[s][IndexOf(p)].count = Cardinality(at(p))
    BY <1>3, <2>0, TotalsAt
  <2>4. TopLevels(s) = {row(k) : k \in K}
    BY DEF TopLevels
  <2> HIDE DEF v, rank, at
  <2>5. ASSUME NEW k \in K PROVE v[k] \in P /\ row(k) = line(v[k])
    <3>1. v[k] \in Prices(s) /\ rank(v[k]) = k
      BY <2>1 DEF Ranked, rank
    <3> QED BY <2>0, <2>3, <3>1
  <2>6. ASSUME NEW p \in P PROVE rank(p) \in K /\ v[rank(p)] = p
    <3>1. Cardinality(Ahead(s, p)) \in Nat /\ rank(p) = 1 + Cardinality(Ahead(s, p))
      BY <2>2 DEF rank
    <3>2. rank(p) \in 1..Depth
      BY <2>0, <3>1
    <3>3. ~(Cardinality(Prices(s)) < rank(p))
      <4>1. Ahead(s, p) \subseteq Prices(s) \ {p}
        <5>1. p \in Int
          BY <1>3, PricesAre
        <5> QED BY <5>1 DEF Ahead, Better
      <4>2. /\ IsFiniteSet(Prices(s) \ {p}) /\ Cardinality(Prices(s)) \in Nat
            /\ Cardinality(Prices(s) \ {p}) = Cardinality(Prices(s)) - 1
        BY <2>2, FS_RemoveElement, FS_CardinalityType
      <4>3. Cardinality(Ahead(s, p)) <= Cardinality(Prices(s) \ {p})
        BY <4>1, <4>2, FS_Subset
      <4> QED BY <3>1, <4>2, <4>3
    <3>4. v[rank(p)] \in Prices(s) /\ 1 + Cardinality(Ahead(s, v[rank(p)])) = rank(p)
      BY <2>1, <3>2, <3>3 DEF Ranked
    <3>5. Cardinality(Ahead(s, v[rank(p)])) = Cardinality(Ahead(s, p))
      BY <2>2, <3>1, <3>4
    <3>6. v[rank(p)] = p
      BY <1>3, <3>4, <3>5, RankInjective
    <3> QED BY <2>2, <3>2, <3>6
  <2>7. {row(k) : k \in K} = {line(p) : p \in P}
    <3>1. ASSUME NEW k \in K PROVE row(k) \in {line(p) : p \in P}
      BY <2>5, <3>1
    <3>2. ASSUME NEW p \in P PROVE line(p) \in {row(k) : k \in K}
      <4>1. rank(p) \in K /\ v[rank(p)] = p
        BY <2>6, <3>2
      <4>2. row(rank(p)) = line(p)
        BY <2>5, <4>1
      <4> QED BY <4>1, <4>2
    <3> HIDE DEF row, line, K, P
    <3> QED BY <3>1, <3>2
  <2> QED BY <2>4, <2>7 DEF rank, at
<1> QED BY <1>1, <1>2, <1>3, Invariance, PTL DEF Spec
=============================================================================
