------------------------------ MODULE Account ------------------------------
(***************************************************************************)
(* exec::Account (exec/account.hpp) for one instrument: how an execution   *)
(* moves the position, its average cost, the realized PnL, the fees and    *)
(* the balances, and how equity, its peak and its largest drawdown follow. *)
(* Reservations are ExecOrders.tla's.  px * qty is in tick-lots; a         *)
(* tick-lot is worth TLMul money units, a lot BasePerLot units of the base *)
(* asset (tl_exp >= 0, as for the ITCH instrument: nothing is rounded).    *)
(***************************************************************************)
EXTENDS Integers

CONSTANTS
    Px,          \* execution prices, in ticks
    Qty,         \* execution sizes, in lots
    Fee,         \* fees of one execution, in money units
    BaseFee,     \* fees charged in the base asset
    Mark2,       \* bid + ask of two-sided frames
    TLMul, BasePerLot,
    MaxFills,    \* bound: executions in one behaviour
    MaxMarks     \* bound: marks in one behaviour

ASSUME AccountAssumption ==
    /\ Px \subseteq Nat \ {0} /\ Qty \subseteq Nat \ {0}
    /\ Fee \subseteq Int /\ BaseFee \subseteq Int /\ Mark2 \subseteq Nat \ {0}
    /\ TLMul \in Nat \ {0} /\ BasePerLot \in Nat \ {0}
    /\ MaxFills \in Nat /\ MaxMarks \in Nat

VARIABLES
    qty,         \* lots, signed
    cost,        \* signed sum of px * qty of the open position, tick-lots
    realized,    \* tick-lots
    fees,        \* money
    quote, base, \* the balances' totals, as differences from the initial ones
    mark2,       \* twice the mid of the last mark, 0 if unmarked
    peak, maxDd, \* peak_, max_dd_
    baseFees,    \* history: fees taken in the base asset, base units
    quoteFees,   \* history: fees taken in the quote asset
    fills, marks \* executions and marks so far

accountVars == <<qty, cost, realized, fees, quote, base, mark2, peak, maxDd,
                 baseFees, quoteFees, fills, marks>>

AccountInit ==
    /\ qty = 0 /\ cost = 0 /\ realized = 0 /\ fees = 0
    /\ quote = 0 /\ base = 0
    /\ mark2 = 0 /\ peak = 0 /\ maxDd = 0
    /\ baseFees = 0 /\ quoteFees = 0 /\ fills = 0 /\ marks = 0

-----------------------------------------------------------------------------
Abs(x) == IF x < 0 THEN -x ELSE x
Lesser(a, b) == IF a < b THEN a ELSE b
Greater(a, b) == IF a > b THEN a ELSE b
Sign(x) == IF x < 0 THEN -1 ELSE 1

\* Integer division of the code: towards zero.
Quot(a, b) == Sign(a) * (Abs(a) \div b)

\* Mutant: the doubled mid is set against the cost as it is.
UnrealizedUndoubled(n, c, m) == IF m = 0 \/ n = 0 THEN 0 ELSE TLMul * Quot(n * m - c, 2)

\* unrealized(): qty * mid - cost at the last mark.
Unrealized(n, c, m) == IF m = 0 \/ n = 0 THEN 0 ELSE TLMul * Quot(n * m - 2 * c, 2)

\* equity(), for position n, cost c, realized r, fees f and mark m.
Equity(n, c, r, f, m) == TLMul * r + Unrealized(n, c, m) - f

\* track_equity(), on the equity e.
TrackEquity(e) ==
    /\ peak' = Greater(peak, e)
    /\ maxDd' = Greater(maxDd, peak' - e)

\* Mutant: an execution that flips the position opens all of it anew.
MovedWhole(px, s) ==
    LET opposite == qty # 0 /\ Sign(qty) # Sign(s)
        r == IF opposite THEN Lesser(Abs(s), Abs(qty)) ELSE 0
        removed == IF opposite THEN Quot(cost * r, Abs(qty)) ELSE 0
    IN  [qty |-> qty + s,
         cost |-> cost - removed + (IF r = Abs(s) THEN 0 ELSE px * s),
         realized |-> realized + Sign(qty) * px * r - removed]

\* Mutant: the average price is rounded before it is multiplied.
MovedDivideFirst(px, s) ==
    LET opposite == qty # 0 /\ Sign(qty) # Sign(s)
        r == IF opposite THEN Lesser(Abs(s), Abs(qty)) ELSE 0
        removed == IF opposite THEN Quot(cost, Abs(qty)) * r ELSE 0
    IN  [qty |-> qty + s,
         cost |-> cost - removed + px * (s - Sign(s) * r),
         realized |-> realized + Sign(qty) * px * r - removed]

\* The position after an execution of s lots (signed) at px: its opposite part
\* is closed first, at the average cost, then any remainder opened.
Moved(px, s) ==
    LET opposite == qty # 0 /\ Sign(qty) # Sign(s)
        r == IF opposite THEN Lesser(Abs(s), Abs(qty)) ELSE 0
        removed == IF opposite THEN Quot(cost * r, Abs(qty)) ELSE 0
        left == qty + Sign(s) * r
        rest == s - Sign(s) * r
    IN  [qty |-> left + rest,
         cost |-> (IF opposite /\ left = 0 THEN 0 ELSE cost - removed) + px * rest,
         realized |-> realized + Sign(qty) * px * r - removed]

\* on_fill: s lots (negative for a sell) at px, with a fee in quote or base.
OnFill(s, px, fee, inBase) ==
    LET n == Abs(s)
        value == TLMul * px * n
        p == Moved(px, s)
    IN  /\ fills < MaxFills /\ fills' = fills + 1
        /\ base' = base + s * BasePerLot - (IF inBase THEN fee ELSE 0)
        /\ quote' = quote - Sign(s) * value - (IF inBase THEN 0 ELSE fee)
        /\ fees' = fees + IF inBase THEN Quot(fee * value, n * BasePerLot) ELSE fee
        /\ baseFees' = baseFees + IF inBase THEN fee ELSE 0
        /\ quoteFees' = quoteFees + IF inBase THEN 0 ELSE fee
        /\ qty' = p.qty /\ cost' = p.cost /\ realized' = p.realized
        /\ TrackEquity(Equity(p.qty, p.cost, p.realized, fees', mark2))
        /\ UNCHANGED <<mark2, marks>>

\* Mutant: a mark does not update the peak and the drawdown.
MarkUntracked(m) ==
    /\ marks < MaxMarks /\ marks' = marks + 1
    /\ mark2' = m
    /\ UNCHANGED <<qty, cost, realized, fees, quote, base, peak, maxDd,
                   baseFees, quoteFees, fills>>

\* mark: a two-sided frame; a one-sided one is ignored.
Mark(m) ==
    /\ marks < MaxMarks /\ marks' = marks + 1
    /\ mark2' = m
    /\ TrackEquity(Equity(qty, cost, realized, fees, m))
    /\ UNCHANGED <<qty, cost, realized, fees, quote, base, baseFees, quoteFees, fills>>

AccountNext ==
    \/ \E n \in Qty, px \in Px :
          \/ \E f \in Fee : OnFill(n, px, f, FALSE) \/ OnFill(-n, px, f, FALSE)
          \/ \E f \in BaseFee : OnFill(n, px, f, TRUE) \/ OnFill(-n, px, f, TRUE)
    \/ \E m \in Mark2 : Mark(m)

AccountSpec == AccountInit /\ [][AccountNext]_accountVars

-----------------------------------------------------------------------------
(* Properties.                                                             *)

\* The average-cost bookkeeping creates and loses no money, however positions
\* are opened, cut, closed and flipped and whatever its divisions round away:
\* the quote balance has moved by the realized PnL, less the cost of the open
\* position, less the quote fees; the base balance by the position, less the
\* base fees.
MoneyConserved ==
    /\ quote = TLMul * (realized - cost) - quoteFees
    /\ base = BasePerLot * qty - baseFees

\* The cost of the open position is that of its lots at some price between the
\* lowest and the highest of the executions: it has the position's sign, it
\* vanishes with it, and rounding never pushes the average price out of range.
CostInRange ==
    \A lo, hi \in Px :
        (\A p \in Px : lo <= p /\ p <= hi) =>
            /\ lo * Abs(qty) <= Abs(cost) /\ Abs(cost) <= hi * Abs(qty)
            /\ qty # 0 => Sign(cost) = Sign(qty)

\* Equity is what the account would be worth at the last mid, to within the
\* half tick-lot unrealized() rounds off, but for the fees taken in the base
\* asset, which equity keeps at the prices of their executions.
EquityIsWealth ==
    LET inBase == fees - quoteFees
    IN  mark2 # 0 =>
            Abs(2 * (Equity(qty, cost, realized, fees, mark2) + inBase)
                  - (2 * quote + TLMul * qty * mark2)) <= TLMul

\* Peak and drawdown are never behind: equity is at most the peak, and no fall
\* from the peak exceeds max_drawdown.
DrawdownCovers ==
    LET e == Equity(qty, cost, realized, fees, mark2)
    IN  e <= peak /\ peak - e <= maxDd

\* The account is exact: MoneyConserved, at a cost that is CostInRange, with
\* equity and drawdown as EquityIsWealth and DrawdownCovers say.
AccountExact == MoneyConserved /\ CostInRange /\ EquityIsWealth /\ DrawdownCovers
=============================================================================
