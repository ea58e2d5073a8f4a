----------------------------- MODULE ExecOrders -----------------------------
(***************************************************************************)
(* Exec's order path on one instrument: the hot loop (runner.hpp), the     *)
(* requests a strategy may make (strategy.hpp), the risk gate that admits  *)
(* them (risk.hpp), the order table and account they are recorded in, the  *)
(* router that queues them (router.hpp) and the reports that come back     *)
(* (ExecContext::apply_report), up to the shutdown sequence of main        *)
(* (exec_main.cpp).                                                        *)
(*                                                                         *)
(* The hot thread is alone, so a request or a report is one step; what     *)
(* interleaves with it are the operator's control flags, SIGTERM, and the  *)
(* venue.  Live = FALSE is the NullRouter, which answers every request     *)
(* itself; Live = TRUE puts an (external) venue behind two FIFO rings.     *)
(* A strategy is any sequence of requests: on_tick is free to make any     *)
(* number of them.  Amounts are exact: a lot costs px quote units.         *)
(***************************************************************************)
EXTENDS Integers, Sequences, FiniteSets, FiniteSetsExt

CONSTANTS
    Live,          \* is there a venue behind the router?
    Px,            \* prices the static checks let through (0: market order)
    FillPx,        \* prices the venue trades at
    Qty,           \* order sizes the static checks let through
    Tif,           \* a subset of {"GTC", "IOC"} (FOK is treated as IOC)
    Mids,          \* mid2() / 2 of a frame (0: the book is one-sided)
    AllowReplace,  \* may the strategy amend orders?
    Callbacks,     \* the optional hooks the strategy has
    Quote0, Base0, \* initial balances
    MaxPosition,   \* risk.max_position, 0 disables
    MaxPositionNotional, \* risk.max_position_notional, 0 disables
    MaxOpen,       \* the smaller of max_open_orders and the venue's limit
    MaxRows,       \* OrderTable::MAX_ROWS
    QUEUE,         \* NullRouter::QUEUE, or the capacity of the order ring
    MaxSubmits,    \* bound: identifiers taken in one behaviour
    MaxOps         \* bound: operator interventions in one behaviour

ASSUME OrdersAssumption ==
    /\ Live \in BOOLEAN /\ AllowReplace \in BOOLEAN
    /\ Callbacks \subseteq {"on_start", "on_exec", "on_timer", "on_stop"}
    /\ Px \subseteq Nat /\ FillPx \subseteq Nat \ {0}
    /\ Qty \subseteq Nat \ {0} /\ Tif \subseteq {"GTC", "IOC"}
    /\ Mids \subseteq Nat
    /\ {Quote0, Base0, MaxPosition, MaxPositionNotional, MaxOpen,
        MaxRows, QUEUE, MaxSubmits, MaxOps} \subseteq Nat

Side == {"buy", "sell"}
Id == 1..MaxSubmits

VARIABLES
    pc,        \* the hot thread: "start", "top", "poll", "onExec", "tick", "timer",
               \* "drain", "drainExec", "drainTick", "stop", "cancelAll", "await", "done"
    swapping,  \* run_null returned RunExit::Swap
    rows,      \* OrderTable: the dense rows
    open,      \* OrderTable: open lots per side
    nextId,    \* OrderTable: counter_
    pos,       \* Account: position in lots
    total,     \* Account: base ("sell") and quote ("buy") balances
    reserved,  \* Account: what of them is reserved
    slip,      \* history: what market buys have cost beyond their reservation
    cached,    \* control_flags, as of the top of the loop
    ci,        \* cancel_all: rows visited
    flags,     \* Control.flags in shared memory
    term,      \* the shutdown flag SIGTERM sets
    ops,       \* operator interventions so far
    lag,       \* history: frames popped since KILL was set and not seen
    raced,     \* history: was an order or an amend accepted, or a fill booked,
               \* while an amend was in flight?
    requests,  \* the order ring (Live)
    reports,   \* NullRouter's queue, or the report ring
    book       \* the venue's resting orders (Live), by identifier

tableVars == <<rows, open, nextId>>
accountVars == <<pos, total, reserved, slip>>
routerVars == <<requests, reports, book>>
controlVars == <<flags, term, ops>>
loopVars == <<pc, swapping, cached, ci, lag>>
vars == <<tableVars, accountVars, routerVars, controlVars, loopVars, raced>>

Init ==
    /\ pc = (IF "on_start" \in Callbacks THEN "start" ELSE "top")
    /\ swapping = FALSE /\ cached = {} /\ ci = 0 /\ lag = 0 /\ raced = FALSE
    /\ rows = <<>> /\ open = [d \in Side |-> 0] /\ nextId = 1
    /\ pos = 0
    /\ total = [d \in Side |-> IF d = "buy" THEN Quote0 ELSE Base0]
    /\ reserved = [d \in Side |-> 0] /\ slip = 0
    /\ flags = {} /\ term = FALSE /\ ops = 0
    /\ requests = <<>> /\ reports = <<>> /\ book = <<>>

-----------------------------------------------------------------------------
(* OrderTable and Account.                                                 *)

LiveIds == {rows[i].id : i \in DOMAIN rows}
PosOf(id) == CHOOSE i \in DOMAIN rows : rows[i].id = id

\* An accepted request or a fill has met an amend in flight.
MeetsAmend == raced' = (raced \/ \E i \in DOMAIN rows : "replace" \in rows[i].pending)

\* erase: the last row takes the place of the erased one.
SwapRemove(rs, i) ==
    [k \in 1..(Len(rs) - 1) |-> IF k = i THEN rs[Len(rs)] ELSE rs[k]]

\* add_open: the open lots of a side follow insert, erase and set_leaves.
AddOpen(d, lots) == open' = [open EXCEPT ![d] = @ + lots]

\* reservation: quote for a buy, base for a sell.
Reservation(d, px, n) == IF d = "buy" THEN px * n ELSE n

Available(d) == total[d] - reserved[d]

\* What an order is checked and reserved at: its limit, or the mid of the last
\* frame, which is 0 if the book is one-sided or there has been no frame.
RefPx(px) == IF px > 0 THEN {px} ELSE IF pc = "start" THEN {0} ELSE Mids

-----------------------------------------------------------------------------
(* RiskGate.                                                               *)

Halted == cached \cap {"kill", "pause"} # {}

\* Mutant: position_check looks at the position only.
PositionOkNow(d, add, px) ==
    LET worst == IF d = "buy" THEN pos + add ELSE pos - add
        size == IF worst < 0 THEN -worst ELSE worst
    IN  /\ MaxPosition # 0 => size <= MaxPosition
        /\ MaxPositionNotional # 0 => px * size <= MaxPositionNotional

\* position_check: every open order of the side filled, plus add lots.
PositionOk(d, add, px) ==
    LET worst == IF d = "buy" THEN pos + open["buy"] + add
                              ELSE pos - open["sell"] - add
        size == IF worst < 0 THEN -worst ELSE worst
    IN  /\ MaxPosition # 0 => size <= MaxPosition
        /\ MaxPositionNotional # 0 => px * size <= MaxPositionNotional

\* Mutant: the spot-only funds test is missing.
CheckNewUnfunded(d, ref, n) ==
    /\ ~Halted
    /\ PositionOk(d, n, ref)
    /\ Len(rows) < MaxOpen

\* check_new, for a price and size the static checks let through.  The rate
\* model is left out: it may refuse what the strategy is free not to ask.
CheckNew(d, ref, n) ==
    /\ ~Halted
    /\ PositionOk(d, n, ref)
    /\ Len(rows) < MaxOpen
    /\ Reservation(d, ref, n) <= Available(d)

\* check_replace: px and the new total qty n of row r.
CheckReplace(r, px, n) ==
    LET leaves == n - r.cum
    IN  /\ ~Halted
        /\ leaves > 0 /\ px > 0
        /\ leaves > r.leaves => PositionOk(r.side, leaves - r.leaves, px)
        /\ Reservation(r.side, px, leaves) - Reservation(r.side, r.px, r.leaves)
              <= Available(r.side)

-----------------------------------------------------------------------------
(* The router.                                                             *)

Report(type, id) == [type |-> type, id |-> id, px |-> 0, qty |-> 0]

\* The reports NullRouter::submit queues for a request.
Answers(req) ==
    CASE req.type = "New" /\ req.tif = "GTC" -> <<Report("Ack", req.id)>>
      [] req.type = "New" /\ req.tif = "IOC" ->
            <<Report("Ack", req.id), Report("Expired", req.id)>>
      [] req.type = "Cancel"  -> <<Report("Canceled", req.id)>>
      [] req.type = "Replace" -> <<Report("Replaced", req.id)>>

\* submit's test for room: an IOC order needs two slots of NullRouter's queue.
HasRoom(req) ==
    IF Live THEN Len(requests) < QUEUE
            ELSE QUEUE - Len(reports) >= Len(Answers(req))

\* submit queues the request, or (NullRouter) its answers.
Route(req) ==
    /\ IF Live THEN requests' = Append(requests, req) /\ UNCHANGED reports
               ELSE reports' = reports \o Answers(req) /\ UNCHANGED requests
    /\ UNCHANGED book

Request(type, id, d, px, n, tif) ==
    [type |-> type, id |-> id, side |-> d, px |-> px, qty |-> n, tif |-> tif]

-----------------------------------------------------------------------------
(* StrategyContext: what the strategy's callbacks may ask for.  A request  *)
(* the gate refuses changes nothing but the reject counters.               *)

InStrategy == pc \in {"start", "tick", "drainTick", "onExec", "drainExec", "timer", "stop"}

NewRow(d, ref, n) ==
    [id |-> nextId, side |-> d, px |-> ref, qty |-> n, leaves |-> n,
     cum |-> 0, pending |-> {}, newPx |-> 0, newQty |-> 0]

\* submit: the order is recorded, routed and its funds reserved.
Submit(d, px, ref, n, tif) ==
    LET req == Request("New", nextId, d, px, n, tif)
    IN  /\ InStrategy /\ nextId \in Id
        /\ CheckNew(d, ref, n)
        /\ Len(rows) < MaxRows
        /\ HasRoom(req)
        /\ Route(req)
        /\ rows' = Append(rows, NewRow(d, ref, n))
        /\ AddOpen(d, n)
        /\ reserved' = [reserved EXCEPT ![d] = @ + Reservation(d, ref, n)]
        /\ nextId' = nextId + 1
        /\ MeetsAmend
        /\ UNCHANGED <<pos, total, slip, controlVars, loopVars>>

\* submit, router full: the row is erased again, its identifier is spent.
SubmitRingFull(d, px, ref, n, tif) ==
    /\ InStrategy /\ nextId \in Id
    /\ CheckNew(d, ref, n)
    /\ Len(rows) < MaxRows
    /\ ~HasRoom(Request("New", nextId, d, px, n, tif))
    /\ nextId' = nextId + 1
    /\ UNCHANGED <<rows, open, accountVars, routerVars, controlVars, loopVars, raced>>

\* replace: the amend is routed; the table keeps the old terms until Replaced.
Replace(i, px, n) ==
    LET r == rows[i]
        req == Request("Replace", r.id, r.side, px, n, "GTC")
    IN  /\ InStrategy /\ AllowReplace
        /\ r.pending = {}
        /\ CheckReplace(r, px, n)
        /\ HasRoom(req)
        /\ Route(req)
        /\ rows' = [rows EXCEPT ![i].pending = {"replace"},
                                ![i].newPx = px, ![i].newQty = n]
        /\ MeetsAmend
        /\ UNCHANGED <<open, nextId, accountVars, controlVars, loopVars>>

\* cancel: never refused by the gate; the row stays until the report.
CancelRow(i) ==
    LET r == rows[i]
        req == Request("Cancel", r.id, r.side, r.px, r.leaves, "GTC")
    IN  IF "cancel" \notin r.pending /\ HasRoom(req)
        THEN /\ Route(req)
             /\ rows' = [rows EXCEPT ![i].pending = @ \cup {"cancel"}]
        ELSE UNCHANGED <<rows, routerVars>>

Cancel(i) ==
    /\ InStrategy
    /\ CancelRow(i)
    /\ UNCHANGED <<open, nextId, accountVars, controlVars, loopVars, raced>>

-----------------------------------------------------------------------------
(* ExecContext::apply_report.                                              *)

\* finish: the rest of the reservation is given back and the row erased.
Finish(i) ==
    LET r == rows[i]
    IN  /\ rows' = SwapRemove(rows, i)
        /\ AddOpen(r.side, -r.leaves)
        /\ reserved' = [reserved EXCEPT
                           ![r.side] = @ - Reservation(r.side, r.px, r.leaves)]
        /\ UNCHANGED <<pos, total, slip>>

\* Account::on_fill: the fill releases the reservation at the order's price
\* and moves position and balances at its own (fees and PnL are left out).
AccountFill(d, px, q, orderPx) ==
    LET sign == IF d = "buy" THEN 1 ELSE -1
    IN  /\ pos' = pos + sign * q
        /\ total' = [total EXCEPT !["sell"] = @ + sign * q,
                                  !["buy"] = @ - sign * px * q]
        /\ reserved' = [reserved EXCEPT ![d] = @ - Reservation(d, orderPx, q)]
        /\ slip' = IF d = "buy" /\ px > orderPx THEN slip + (px - orderPx) * q ELSE slip

\* PartialFill, Fill: on_fill, set_leaves, and finish once nothing is left.
OnFill(i, rep) ==
    LET r == rows[i]
        left == IF r.leaves > rep.qty THEN r.leaves - rep.qty ELSE 0
    IN  /\ AccountFill(r.side, rep.px, rep.qty, r.px)
        /\ AddOpen(r.side, left - r.leaves)
        /\ rows' = IF left = 0 THEN SwapRemove(rows, i)
                   ELSE [rows EXCEPT ![i].cum = @ + rep.qty, ![i].leaves = left]

\* Mutant: the reservation is left at the old terms.
OnReplacedStale(i) ==
    LET r == rows[i]
        leaves == r.newQty - r.cum
    IN  /\ rows' = [rows EXCEPT ![i].px = r.newPx, ![i].qty = r.newQty,
                                ![i].leaves = leaves,
                                ![i].pending = @ \ {"replace"}]
        /\ AddOpen(r.side, leaves - r.leaves)
        /\ UNCHANGED accountVars

\* Replaced: the new terms take effect.
OnReplaced(i) ==
    LET r == rows[i]
        leaves == r.newQty - r.cum
    IN  /\ rows' = [rows EXCEPT ![i].px = r.newPx, ![i].qty = r.newQty,
                                ![i].leaves = leaves,
                                ![i].pending = @ \ {"replace"}]
        /\ AddOpen(r.side, leaves - r.leaves)
        /\ reserved' = [reserved EXCEPT
                           ![r.side] = @ - Reservation(r.side, r.px, r.leaves)
                                         + Reservation(r.side, r.newPx, leaves)]
        /\ UNCHANGED <<pos, total, slip>>

\* Mutant: a refused amend or cancel is taken for the end of the order.
OnCancelRejectTerminal(i) == Finish(i)

\* CancelReject: nothing is pending any more, whichever request was refused.
OnCancelReject(i) ==
    /\ rows' = [rows EXCEPT ![i].pending = {}]
    /\ UNCHANGED <<open, accountVars>>

\* apply_report(rep); a report for an unknown order is only counted.
ApplyReport(rep) ==
    LET i == PosOf(rep.id)
    IN  IF rep.id \notin LiveIds \/ rep.type = "Ack"
        THEN UNCHANGED <<rows, open, accountVars>>
        ELSE CASE rep.type = "Fill" -> OnFill(i, rep)
               [] rep.type = "Replaced" -> OnReplaced(i)
               [] rep.type = "CancelReject" -> OnCancelReject(i)
               [] OTHER -> Finish(i)

-----------------------------------------------------------------------------
(* run_strategy: the hot loop, and what main does after it.                *)

\* What run_strategy returns to: run_null's on_stop, or main's cancel_all.
Over == IF "on_stop" \in Callbacks THEN "stop" ELSE "cancelAll"

OrdersUnchanged == UNCHANGED <<tableVars, accountVars, routerVars, raced>>

\* Mutant: the flags are read once, when the loop is entered.
LoadControlOnce ==
    /\ pc = "top"
    /\ pc' = IF term THEN "drain" ELSE IF "swap" \in flags THEN Over ELSE "poll"
    /\ swapping' = (~term /\ "swap" \in flags)
    /\ UNCHANGED <<cached, ci, lag, controlVars>>
    /\ OrdersUnchanged

\* Mutant: SIGTERM is not looked at.
LoadControlDeaf ==
    /\ pc = "top"
    /\ cached' = flags
    /\ pc' = IF "swap" \in flags THEN Over ELSE "poll"
    /\ swapping' = ("swap" \in flags)
    /\ UNCHANGED <<ci, lag, controlVars>>
    /\ OrdersUnchanged

\* The top of an iteration: the flags are cached, then shutdown and SWAP tested.
LoadControl ==
    /\ pc = "top"
    /\ cached' = flags
    /\ pc' = IF term THEN "drain" ELSE IF "swap" \in flags THEN Over ELSE "poll"
    /\ swapping' = (~term /\ "swap" \in flags)
    /\ UNCHANGED <<ci, lag, controlVars>>
    /\ OrdersUnchanged

\* Mutant: reports wait until exec shuts down.
PollReportLate ==
    /\ pc \in {"drain", "await"}
    /\ reports # <<>>
    /\ ApplyReport(Head(reports))
    /\ reports' = Tail(reports)
    /\ IF Head(reports).type = "Fill" THEN MeetsAmend ELSE UNCHANGED raced
    /\ UNCHANGED <<nextId, requests, book, controlVars, loopVars>>

\* poll_reports hands over every pending report before a frame is handled, with
\* those that on_exec's requests add meanwhile.  The wait after cancel_all polls
\* too, without on_exec.
PollReport ==
    /\ pc \in {"poll", "drain", "await"}
    /\ reports # <<>>
    /\ ApplyReport(Head(reports))
    /\ reports' = Tail(reports)
    /\ IF Head(reports).type = "Fill" THEN MeetsAmend ELSE UNCHANGED raced
    /\ pc' = IF "on_exec" \notin Callbacks THEN pc
             ELSE CASE pc = "poll" -> "onExec" [] pc = "drain" -> "drainExec" [] OTHER -> pc
    /\ UNCHANGED <<nextId, requests, book, controlVars, swapping, cached, ci, lag>>

\* A frame is there: on_tick runs.
PopFrame ==
    /\ pc \in {"poll", "drain"}
    /\ reports = <<>>
    /\ pc' = IF pc = "poll" THEN "tick" ELSE "drainTick"
    /\ lag' = IF "kill" \in flags \ cached /\ lag < 2 THEN lag + 1 ELSE lag
    /\ UNCHANGED <<swapping, cached, ci, controlVars>>
    /\ OrdersUnchanged

\* An iteration ends, with on_timer if its period is over.
IterationEnd == {"top"} \union IF "on_timer" \in Callbacks THEN {"timer"} ELSE {}

\* The feed is empty: the iteration ends, or the drain is over.
NoFrame ==
    /\ pc \in {"poll", "drain"}
    /\ reports = <<>>
    /\ pc' \in IF pc = "poll" THEN IterationEnd ELSE {Over}
    /\ UNCHANGED <<swapping, cached, ci, lag, controlVars>>
    /\ OrdersUnchanged

\* A callback returns; draining goes on without another look at the flags.
StrategyDone ==
    /\ InStrategy
    /\ pc' \in CASE pc = "tick" -> IterationEnd [] pc = "timer" -> {"top"}
                [] pc = "start" -> {"top"} [] pc = "stop" -> {"cancelAll"}
                [] pc = "onExec" -> {"poll"} [] OTHER -> {"drain"}
    /\ UNCHANGED <<swapping, cached, ci, lag, controlVars>>
    /\ OrdersUnchanged

\* Mutant: cancel_all stops short of the last row.
CancelAllShort ==
    /\ pc = "cancelAll"
    /\ IF ci + 1 < Len(rows)
       THEN CancelRow(ci + 1) /\ ci' = ci + 1 /\ UNCHANGED pc
       ELSE pc' = "await" /\ UNCHANGED <<ci, rows, routerVars>>
    /\ UNCHANGED <<open, nextId, accountVars, controlVars, swapping, cached, lag, raced>>

\* cancel_all: one cancel per row, in the order of the dense array.
CancelAll ==
    /\ pc = "cancelAll"
    /\ IF ci < Len(rows)
       THEN CancelRow(ci + 1) /\ ci' = ci + 1 /\ UNCHANGED pc
       ELSE pc' = "await" /\ UNCHANGED <<ci, rows, routerVars>>
    /\ UNCHANGED <<open, nextId, accountVars, controlVars, swapping, cached, lag, raced>>

\* The wait ends with the table empty, or after 2 s with nothing to poll; a
\* swap is acknowledged by clearing its flag.
AwaitOver ==
    /\ pc = "await"
    /\ rows = <<>> \/ reports = <<>>
    /\ pc' = "done"
    /\ flags' = IF swapping THEN flags \ {"swap"} ELSE flags
    /\ UNCHANGED <<swapping, cached, ci, lag, term, ops>>
    /\ OrdersUnchanged

-----------------------------------------------------------------------------
(* The operator and the venue.                                             *)

\* The dashboard's buttons (and the manager's set_control).
SetFlag(f) ==
    /\ f \notin flags /\ ops < MaxOps
    /\ flags' = flags \cup {f} /\ ops' = ops + 1
    /\ lag' = IF f = "kill" THEN 0 ELSE lag
    /\ UNCHANGED <<pc, swapping, cached, ci, term>>
    /\ OrdersUnchanged

ClearFlag(f) ==
    /\ f \in flags /\ ops < MaxOps
    /\ flags' = flags \ {f} /\ ops' = ops + 1
    /\ UNCHANGED <<term, loopVars>>
    /\ OrdersUnchanged

\* SIGTERM from the manager.
Terminate ==
    /\ ~term /\ ops < MaxOps
    /\ term' = TRUE /\ ops' = ops + 1
    /\ UNCHANGED <<flags, loopVars>>
    /\ OrdersUnchanged

Without(id) == [k \in DOMAIN book \ {id} |-> book[k]]

\* The venue takes the next request: it rests, amends or takes off the order,
\* or refuses (a new order at will, an amend or cancel it has no order for).
VenueRequest ==
    /\ Live /\ requests # <<>>
    /\ LET r == Head(requests)
           able == r.id \in DOMAIN book
                     /\ (r.type = "Replace" => r.qty > book[r.id].cum)
           says(t) == reports' = Append(reports, Report(t, r.id))
       IN \/ /\ r.type = "New"
             /\ book' = [k \in DOMAIN book \cup {r.id} |->
                           IF k = r.id THEN [side |-> r.side, px |-> r.px,
                                             cum |-> 0, leaves |-> r.qty]
                           ELSE book[k]]
             /\ says("Ack")
          \/ r.type = "New" /\ says("Reject") /\ UNCHANGED book
          \/ r.type = "Cancel" /\ able /\ book' = Without(r.id) /\ says("Canceled")
          \/ /\ r.type = "Replace" /\ able
             /\ book' = [book EXCEPT ![r.id].px = r.px,
                                     ![r.id].leaves = r.qty - book[r.id].cum]
             /\ says("Replaced")
          \/ r.type # "New" /\ ~able /\ says("CancelReject") /\ UNCHANGED book
    /\ requests' = Tail(requests)
    /\ UNCHANGED <<tableVars, accountVars, controlVars, loopVars, raced>>

\* An order trades n lots at px: its limit or better, any price if it has none.
VenueFill(id, n, px) ==
    /\ Live /\ id \in DOMAIN book /\ n <= book[id].leaves
    /\ \/ book[id].px = 0
       \/ IF book[id].side = "buy" THEN px <= book[id].px ELSE px >= book[id].px
    /\ book' = IF n = book[id].leaves THEN Without(id)
               ELSE [book EXCEPT ![id].cum = @ + n, ![id].leaves = @ - n]
    /\ reports' = Append(reports, [type |-> "Fill", id |-> id, px |-> px, qty |-> n])
    /\ UNCHANGED <<requests, tableVars, accountVars, controlVars, loopVars, raced>>

\* The venue drops an order: the rest of an IOC, or any order of its own accord.
VenueExpire(id) ==
    /\ Live /\ id \in DOMAIN book
    /\ book' = Without(id)
    /\ reports' = Append(reports, Report("Expired", id))
    /\ UNCHANGED <<requests, tableVars, accountVars, controlVars, loopVars, raced>>

-----------------------------------------------------------------------------
Strategy ==
    \/ \E d \in Side, px \in Px, n \in Qty, tif \in Tif : \E ref \in RefPx(px) :
          Submit(d, px, ref, n, tif) \/ SubmitRingFull(d, px, ref, n, tif)
    \/ \E i \in DOMAIN rows : Cancel(i) \/ \E px \in Px, n \in Qty : Replace(i, px, n)

HotLoop ==
    \/ LoadControl \/ PollReport \/ PopFrame \/ NoFrame \/ StrategyDone
    \/ CancelAll \/ AwaitOver

Operator ==
    \/ \E f \in {"kill", "pause", "swap"} : SetFlag(f)
    \/ \E f \in {"kill", "pause"} : ClearFlag(f)
    \/ Terminate

Venue ==
    \/ VenueRequest
    \/ \E id \in Id : VenueExpire(id) \/ \E n \in Qty, px \in FillPx : VenueFill(id, n, px)

Next == Strategy \/ HotLoop \/ Operator \/ Venue

Spec == Init /\ [][Next]_vars

\* The hot thread is pinned and never blocks, so it keeps looping and an
\* on_tick returns; a draining exec sooner or later finds the feed empty (its
\* producer got the same SIGTERM, or, when exec alone is restarted, is slower
\* than exec); the venue keeps taking requests.
FairSpec ==
    /\ Spec
    /\ WF_vars(HotLoop)
    /\ SF_vars(pc = "drain" /\ NoFrame)
    /\ WF_vars(VenueRequest)

-----------------------------------------------------------------------------
(* Properties.                                                             *)

Row == [id : Id, side : Side, px : Nat, qty : Qty, leaves : Nat \ {0}, cum : Nat,
        pending : SUBSET {"cancel", "replace"}, newPx : Nat, newQty : Nat]

\* Every variable has its type: a live row has lots left, the table and the
\* router stay within their capacities, and identifiers are not shared.
TypeOK ==
    /\ pc \in {"start", "top", "poll", "onExec", "tick", "timer", "drain", "drainExec",
              "drainTick", "stop", "cancelAll", "await", "done"}
    /\ Len(rows) <= MaxRows
    /\ \A i \in DOMAIN rows : rows[i] \in Row
    /\ Cardinality(LiveIds) = Len(rows)
    /\ open \in [Side -> Nat] /\ reserved \in [Side -> Nat]
    /\ total \in [Side -> Int] /\ pos \in Int
    /\ nextId \in 1..(MaxSubmits + 1)
    /\ flags \subseteq {"kill", "pause", "swap"} /\ cached \subseteq {"kill", "pause", "swap"}
    /\ ci \in 0..MaxRows /\ lag \in 0..2 /\ ops \in 0..MaxOps
    /\ term \in BOOLEAN /\ swapping \in BOOLEAN /\ raced \in BOOLEAN
    /\ Len(requests) <= QUEUE
    /\ ~Live => Len(reports) <= QUEUE

\* What each row of a side has left, and what it locks at its current terms.
LeavesOf(d) == [i \in DOMAIN rows |-> IF rows[i].side = d THEN rows[i].leaves ELSE 0]
LockedBy(d) == [i \in DOMAIN rows |->
                  IF rows[i].side = d THEN Reservation(d, rows[i].px, rows[i].leaves) ELSE 0]

\* The incrementally kept figures never drift from the table: open lots are the
\* sum of the leaves, and what is reserved is what the live orders, at their
\* current terms, would lock (insert, erase, set_leaves, reserve, release, on_fill).
BooksBalance ==
    \A d \in Side :
        /\ open[d] = SumFunctionOnSet(LeavesOf(d), DOMAIN rows)
        /\ reserved[d] = SumFunctionOnSet(LockedBy(d), DOMAIN rows)

\* Exec and the venue agree once nothing is in flight: the same orders, at the
\* same price, with the same lots left, whatever raced (a fill against an amend
\* or a cancel, a reject that clears both pending bits).
AgreesWithVenue ==
    (Live /\ requests = <<>> /\ reports = <<>>) =>
        /\ LiveIds = DOMAIN book
        /\ \A i \in DOMAIN rows :
              /\ rows[i].leaves = book[rows[i].id].leaves
              /\ rows[i].cum = book[rows[i].id].cum
              /\ book[rows[i].id].px \in {0, rows[i].px}

\* Even if every open order of one side filled, the position stays within
\* risk.max_position, so long as nothing met an amend in flight: the position
\* test reads the table, which learns an amend's size only from its Replaced
\* (position_check).
WithinPositionLimit ==
    (~raced /\ MaxPosition # 0) => /\ pos + open["buy"] <= MaxPosition
                                   /\ pos - open["sell"] >= -MaxPosition

\* Spot only: no more is reserved than is owned, under the same condition (the
\* funds tests of check_new and check_replace), but for what market buys cost
\* beyond the mid they were reserved at (nothing, if there was none).
NeverOverReserved ==
    ~raced => Available("buy") >= -slip /\ Available("sell") >= 0

\* Once exec has shut down, or stopped for a swap, it has no order left resting.
NothingResting == pc = "done" => rows = <<>>

\* A KILL takes effect within one frame: outside the shutdown drain, exec pops
\* at most one frame with its cached flags older than the KILL.
KillHonoured ==
    lag > 1 => pc \in {"drain", "drainExec", "drainTick", "stop", "cancelAll", "await", "done"}

\* A cancelled order goes away.
CancelCompletes ==
    \A id \in Id :
        (\E i \in DOMAIN rows : rows[i].id = id /\ "cancel" \in rows[i].pending)
            ~> id \notin LiveIds

\* A request that on_exec makes, the reports of which join the ones being polled.
FromOnExec == pc \in {"onExec", "drainExec"} /\ Strategy

\* SIGTERM ends exec: the drain, cancel_all and the wait for reports terminate,
\* unless the strategy answers reports with requests for ever (poll returns only
\* once the queue is empty, and nobody looks at the shutdown flag before).
ShutdownCompletes == (term ~> pc = "done") \/ []<><<FromOnExec>>_vars
=============================================================================
