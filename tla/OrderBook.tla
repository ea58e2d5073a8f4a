------------------------------ MODULE OrderBook ------------------------------
(***************************************************************************)
(* core::equity::OrderBook and the PrimaryFeed dispatch in front of it     *)
(* (core/core.cpp, core/primary_feed.hpp): one symbol's limit order book   *)
(* rebuilt from ITCH order events.  The book keeps the same orders in four *)
(* redundant shapes (the order map, the per-level totals, the occupancy    *)
(* bitmap, the cached best prices), and every event must leave them in     *)
(* agreement.  The order map is a partial function here and the bitmap a   *)
(* set: what the hash table and the radix tree promise the book.           *)
(*                                                                         *)
(* Both sides run the same code with the comparisons mirrored; an action   *)
(* here takes the side as data.                                            *)
(***************************************************************************)
EXTENDS Integers, FiniteSets, FiniteSetsExt

CONSTANTS
    Ref,        \* order reference numbers
    Price,      \* prices that occur in the feed
    Shares,     \* order sizes that occur in the feed
    PRICE_TICK, \* price units per level (100 in the code)
    MAX_LEVELS, \* levels per side
    PriceMod,   \* 2^w for prices of w bits
    Depth       \* levels a snapshot captures per side

ASSUME BookAssumption ==
    /\ PRICE_TICK \in Nat \ {0} /\ MAX_LEVELS \in Nat \ {0} /\ Depth \in Nat \ {0}
    /\ PriceMod \in Nat /\ PriceMod > MAX_LEVELS * PRICE_TICK
    /\ Price \subseteq 1..(PriceMod - 2)
    /\ Shares \subseteq Nat \ {0}

Buy == "B"
Sell == "S"
Side == {Buy, Sell}

VARIABLES
    base,      \* base_price_ of both level arrays; NoBook until the first add
    orders,    \* orders_: live order entries by reference
    levels,    \* per side and index: total_shares and order_count
    occupied,  \* per side: the indices whose bit is set
    best,      \* tob_: best_bid and best_ask
    trade,     \* the shares of the Trade the last event produced
    dropped,   \* g_drops > 0: some order was dropped because of its price
    exchange   \* history: the live orders at the exchange, which the feed reports

vars == <<base, orders, levels, occupied, best, trade, dropped, exchange>>

NoBook == PriceMod

Index == 0..(MAX_LEVELS - 1)

\* The empty-side sentinels: best_bid 0, best_ask UINT32_MAX.
Empty(side) == IF side = Buy THEN 0 ELSE PriceMod - 1

\* p is a strictly better price than x for orders of this side.
Better(side, p, x) == IF side = Buy THEN p > x ELSE p < x

\* index_of, in the prices' unsigned type.
IndexIn(b, p) == ((p - b) % PriceMod) \div PRICE_TICK
IndexOf(p) == IndexIn(base, p)

InRange(b, p) == IndexIn(b, p) < MAX_LEVELS

\* The price next_occupied_above and prev_occupied_below give a level back.
PriceAt(i) == base + i * PRICE_TICK

\* The nearest occupied level strictly beyond p, away from the top of the book,
\* or the side's sentinel.
NextOccupied(side, occ, p) ==
    LET beyond == {i \in occ : Better(side, IndexOf(p), i)}
    IN  IF beyond = {} THEN Empty(side)
        ELSE PriceAt(IF side = Buy THEN Max(beyond) ELSE Min(beyond))

-----------------------------------------------------------------------------
(* The four shapes as one record, so that a handler is a composition of    *)
(* the steps the code takes in order.                                      *)

Book == [orders |-> orders, levels |-> levels, occupied |-> occupied, best |-> best]

SetBook(bk) ==
    /\ orders' = bk.orders
    /\ levels' = bk.levels
    /\ occupied' = bk.occupied
    /\ best' = bk.best

\* An order map with one entry more, or one less.
Put(m, r, e) == [x \in DOMAIN m \cup {r} |-> IF x = r THEN e ELSE m[x]]
Without(m, r) == [x \in DOMAIN m \ {r} |-> m[x]]

\* orders_.insert, the level's totals, its occupancy bit and the top of book.
InsertOrder(bk, r, e, i) ==
    [orders   |-> Put(bk.orders, r, e),
     levels   |-> [bk.levels EXCEPT ![e.side][i] =
                     [shares |-> @.shares + e.shares, count |-> @.count + 1]],
     occupied |-> [bk.occupied EXCEPT ![e.side] = @ \cup {i}],
     best     |-> [bk.best EXCEPT ![e.side] =
                     IF Better(e.side, e.price, @) THEN e.price ELSE @]]

\* orders_.erase and the level's totals, for an order whose remaining n shares
\* leave the book with it.
RemoveOrder(bk, r, n) ==
    LET e == bk.orders[r]
    IN  [bk EXCEPT
           !.orders = Without(@, r),
           !.levels[e.side][IndexOf(e.price)] =
               [shares |-> @.shares - n, count |-> @.count - 1]]

\* Mutant: on_level_emptied leaves the cached best price alone.
LevelEmptiedStaleTop(bk, side, p) ==
    [bk EXCEPT !.occupied[side] = @ \ {IndexOf(p)}]

\* Mutant: on_level_emptied forgets to clear the occupancy bit.
LevelEmptiedStaleBit(bk, side, p) ==
    IF p = bk.best[side]
    THEN [bk EXCEPT !.best[side] = NextOccupied(side, bk.occupied[side], p)]
    ELSE bk

\* on_level_emptied: clear the bit; if p was the best price, drop to the
\* nearest surviving level.
LevelEmptied(bk, side, p) ==
    LET occ == bk.occupied[side] \ {IndexOf(p)}
    IN  [bk EXCEPT
           !.occupied[side] = occ,
           !.best[side] = IF p = @ THEN NextOccupied(side, occ, p) ELSE @]

\* "if (lvl.order_count == 0) on_level_emptied(side, price)".
EmptiedCheck(bk, side, p) ==
    IF bk.levels[side][IndexOf(p)].count = 0 THEN LevelEmptied(bk, side, p) ELSE bk

\* The tail every removal shares.
Drain(bk, r, n) ==
    LET e == bk.orders[r] IN EmptiedCheck(RemoveOrder(bk, r, n), e.side, e.price)

\* on_execute and on_cancel: n shares leave the order; an order left with none
\* is removed.
Reduce(bk, r, n) ==
    LET e == bk.orders[r]
    IN  IF n = e.shares THEN Drain(bk, r, n)
        ELSE [bk EXCEPT !.orders[r].shares = @ - n,
                        !.levels[e.side][IndexOf(e.price)].shares = @ - n]

-----------------------------------------------------------------------------
(* Events.                                                                 *)

Init ==
    /\ base = NoBook
    /\ orders = [r \in {} |-> {}]
    /\ levels = [s \in Side |-> [i \in Index |-> [shares |-> 0, count |-> 0]]]
    /\ occupied = [s \in Side |-> {}]
    /\ best = [s \in Side |-> Empty(s)]
    /\ trade = 0
    /\ dropped = FALSE
    /\ exchange = [r \in {} |-> {}]

HasBook == base # NoBook

\* Half of the window of prices the level arrays cover.
HALF == (MAX_LEVELS \div 2) * PRICE_TICK

\* BookArray::ensure and OrderBook::init: the first add of the symbol creates
\* the book, with the window around its price.
EnsureBase(p) ==
    IF HasBook THEN base
    ELSE ((IF p > HALF THEN p - HALF ELSE 0) \div PRICE_TICK) * PRICE_TICK

\* 'A', 'F': on_add.  The feed never reuses a live reference.
OnAdd(r, side, p, n) ==
    LET e == [price |-> p, shares |-> n, side |-> side]
        b == EnsureBase(p)
    IN  /\ r \notin DOMAIN exchange
        /\ exchange' = Put(exchange, r, e)
        /\ base' = b
        /\ IF InRange(b, p)
           THEN SetBook(InsertOrder(Book, r, e, IndexIn(b, p))) /\ UNCHANGED dropped
           ELSE SetBook(Book) /\ dropped' = TRUE
        /\ trade' = 0

\* Shares n leave order r at the exchange and, if the book has it, here.
TakeShares(r, n) ==
    /\ HasBook
    /\ r \in DOMAIN exchange
    /\ n <= exchange[r].shares
    /\ exchange' = IF n = exchange[r].shares THEN Without(exchange, r)
                   ELSE [exchange EXCEPT ![r].shares = @ - n]
    /\ SetBook(IF r \in DOMAIN orders THEN Reduce(Book, r, n) ELSE Book)
    /\ UNCHANGED <<base, dropped>>

\* 'E', 'C': on_execute and on_execute_with_price, which only reprices the
\* reported trade.  An order the book does not have produces no trade.
OnExecute(r, n) ==
    /\ TakeShares(r, n)
    /\ trade' = IF r \in DOMAIN orders THEN n ELSE 0

\* 'X': on_cancel.
OnCancel(r, n) ==
    /\ TakeShares(r, n)
    /\ trade' = 0

\* 'D': on_delete.
OnDelete(r) ==
    /\ HasBook
    /\ r \in DOMAIN exchange
    /\ exchange' = Without(exchange, r)
    /\ SetBook(IF r \in DOMAIN orders THEN Drain(Book, r, orders[r].shares) ELSE Book)
    /\ trade' = 0
    /\ UNCHANGED <<base, dropped>>

\* Mutant: the emptied level of the old order is not given up.
ReplaceLeaks(old, new, p, n) ==
    LET e == orders[old]
        moved == RemoveOrder(Book, old, e.shares)
    IN  IF InRange(base, p)
        THEN InsertOrder(moved, new, [price |-> p, shares |-> n, side |-> e.side], IndexOf(p))
        ELSE moved

\* Mutant: the old level is checked against the book before the removal.
ReplaceKeepsOld(old, new, p, n) ==
    LET e == orders[old]
    IN  IF InRange(base, p)
        THEN EmptiedCheck(
               InsertOrder(RemoveOrder(Book, old, e.shares), new,
                           [price |-> p, shares |-> n, side |-> e.side], IndexOf(p)),
               e.side, e.price)
        ELSE Book

\* The book on_replace leaves: the old order goes, the new one comes if its
\* price is in the window, and only then is the old level checked.
Replaced(old, new, p, n) ==
    LET e == orders[old]
        moved == RemoveOrder(Book, old, e.shares)
        placed == IF InRange(base, p)
                  THEN InsertOrder(moved, new, [price |-> p, shares |-> n, side |-> e.side],
                                   IndexOf(p))
                  ELSE moved
    IN  EmptiedCheck(placed, e.side, e.price)

\* 'U': on_replace.  The order keeps its side and gets a new reference.
OnReplace(old, new, p, n) ==
    /\ HasBook
    /\ old \in DOMAIN exchange
    /\ new \notin DOMAIN exchange
    /\ exchange' = Put(Without(exchange, old), new,
                       [price |-> p, shares |-> n, side |-> exchange[old].side])
    /\ IF old \in DOMAIN orders
       THEN /\ SetBook(Replaced(old, new, p, n))
            /\ dropped' = (dropped \/ ~InRange(base, p))
       ELSE SetBook(Book) /\ UNCHANGED dropped
    /\ trade' = 0
    /\ UNCHANGED base

\* 'P', 'Q': a hidden or cross trade; the book is left alone.
OnTradeOnly(n) ==
    /\ HasBook
    /\ trade' = n
    /\ UNCHANGED <<exchange, base, orders, levels, occupied, best, dropped>>

Next ==
    \/ \E r \in Ref, s \in Side, p \in Price, n \in Shares : OnAdd(r, s, p, n)
    \/ \E r \in Ref, n \in Shares : OnExecute(r, n)
    \/ \E r \in Ref, n \in Shares : OnCancel(r, n)
    \/ \E r \in Ref : OnDelete(r)
    \/ \E r1, r2 \in Ref, p \in Price, n \in Shares : OnReplace(r1, r2, p, n)
    \/ \E n \in Shares : OnTradeOnly(n)

Spec == Init /\ [][Next]_vars

-----------------------------------------------------------------------------
(* What a snapshot reads.                                                  *)

\* top_bids / top_asks: start at the cached best price and hop from occupied
\* level to occupied level; the k-th price visited, or the sentinel.
Walk(side) ==
    LET visit[k \in 1..Depth] ==
          IF k = 1 THEN best[side]
          ELSE IF visit[k - 1] = Empty(side) THEN Empty(side)
          ELSE NextOccupied(side, occupied[side], visit[k - 1])
    IN  visit

\* The levels written to out[]: the price visited and the totals found there.
TopLevels(side) ==
    LET visit == Walk(side)
    IN  {[rank |-> k, price |-> visit[k], shares |-> levels[side][IndexOf(visit[k])].shares,
          count |-> levels[side][IndexOf(visit[k])].count] :
            k \in {j \in 1..Depth : visit[j] # Empty(side)}}

-----------------------------------------------------------------------------
(* Properties.                                                             *)

Live(side) == {r \in DOMAIN orders : orders[r].side = side}
LiveAt(side, i) == {r \in Live(side) : IndexOf(orders[r].price) = i}
SharesOf(S) == SumFunctionOnSet([r \in DOMAIN orders |-> orders[r].shares], S)

\* Every variable has its type, and every live order is inside the window and
\* has shares left.
TypeOK ==
    /\ base \in 0..(PriceMod - 1) \cup {NoBook}
    /\ DOMAIN orders \subseteq Ref
    /\ \A r \in DOMAIN orders :
          /\ orders[r].side \in Side
          /\ orders[r].price \in Price /\ InRange(base, orders[r].price)
          /\ orders[r].shares \in Nat \ {0}
    /\ levels \in [Side -> [Index -> [shares : Nat, count : Nat]]]
    /\ occupied \in [Side -> SUBSET Index]
    /\ best \in [Side -> 0..(PriceMod - 1)]
    /\ trade \in Nat
    /\ dropped \in BOOLEAN

\* The level totals and the occupancy bits agree with the live orders: every
\* level holds exactly the shares and the number of the orders it contains,
\* and its bit is set exactly when it has one.
LevelsMatchOrders ==
    \A s \in Side, i \in Index :
        /\ levels[s][i].shares = SharesOf(LiveAt(s, i))
        /\ levels[s][i].count = Cardinality(LiveAt(s, i))
        /\ i \in occupied[s] <=> LiveAt(s, i) # {}

\* The cached best prices are those of the best live orders, or the sentinels
\* when the side is empty.
TopOfBook ==
    \A s \in Side :
        \/ Live(s) = {} /\ best[s] = Empty(s)
        \/ /\ \E r \in Live(s) : orders[r].price = best[s]
           /\ \A r \in Live(s) : ~Better(s, orders[r].price, best[s])

\* best_bid and best_ask point at an occupied level (or the empty sentinel):
\* what the walks of top_bids and top_asks rely on to skip the order_count test.
BestIsOccupied ==
    \A s \in Side : HasBook => (best[s] = Empty(s) \/ IndexOf(best[s]) \in occupied[s])

\* What top_bids and top_asks emit is the sorted book: the Depth best distinct
\* prices of the live orders, best first, each with the shares and the number
\* of all orders at that price.
WalkIsSortedBook ==
    \A s \in Side :
        LET prices == {orders[r].price : r \in Live(s)}
            rank(p) == 1 + Cardinality({x \in prices : Better(s, x, p)})
            at(p) == {r \in Live(s) : orders[r].price = p}
        IN  HasBook => TopLevels(s) =
              {[rank |-> rank(p), price |-> p, shares |-> SharesOf(at(p)),
                count |-> Cardinality(at(p))] : p \in {x \in prices : rank(x) <= Depth}}

\* The book against the exchange: it never shows an order the exchange does
\* not have in just that state, and as long as no order was dropped for its
\* price (g_drops = 0) it has every one of them.
BookTracksExchange ==
    /\ \A r \in DOMAIN orders : r \in DOMAIN exchange /\ orders[r] = exchange[r]
    /\ ~dropped => orders = exchange
=============================================================================
