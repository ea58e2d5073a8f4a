----------------------------- MODULE EventSlots -----------------------------
(***************************************************************************)
(* The buffers a market event passes through, all of which are reused: the *)
(* Event in a slot of the parser's ring, of which ItchParser::next writes  *)
(* only the fields its message type has; the book snapshot core captures   *)
(* into, of which only the counted levels are written; and the             *)
(* MarketUpdate in a slot of the exec's ring.  Every field holds the       *)
(* number of the message whose data is in it.  The rings are those of      *)
(* SpscRing.tla, and the book is OrderBook.tla's: here an event leaves it  *)
(* with any number of levels.  The asks are written as the bids are.       *)
(***************************************************************************)
EXTENDS Integers, FiniteSets

CONSTANTS
    EventCap, FrameCap, \* slots of the two rings
    Depth,              \* levels of a snapshot and of a frame
    MaxMsgs             \* bound: messages parsed

ASSUME SlotsAssumption ==
    EventCap \in Nat \ {0} /\ FrameCap \in Nat \ {0} /\ Depth \in Nat /\ MaxMsgs \in Nat

\* The types ItchParser::next publishes; the others it skips.
MsgType == {"A", "F", "E", "C", "X", "D", "U", "P", "Q"}

\* The fields of common::Event.
EventField == {"message_type", "stock_locate", "tracking_number", "timestamp",
               "order_ref_number", "side", "shares", "stock", "price",
               "match_number", "new_order_ref_number", "tsc_in"}

\* The fields of MarketUpdate written for every frame.
FrameField == {"event_seq", "event_time", "tsc_in", "best_bid", "trade_price",
               "trade_qty", "trade_side", "nb", "flags", "instrument"}

VARIABLES
    events,         \* the ring's slots: type and contents of each
    evHead, evTail, \* messages published and popped
    frames,         \* the exec ring's slots
    frHead, frTail,
    scratch,        \* core_main's snapshot: the levels' contents
    parsed,         \* messages seen by the parser
    book,           \* the symbol's book exists
    coreUse,        \* the message core last applied, and what it read for it
    execUse         \* the same for the exec

slotVars == <<events, evHead, evTail, frames, frHead, frTail, scratch, parsed,
              book, coreUse, execUse>>

SlotsInit ==
    /\ events = [i \in 0..(EventCap - 1) |->
                    [type |-> "", has |-> [f \in EventField |-> 0]]]
    /\ frames = [i \in 0..(FrameCap - 1) |->
                    [msg |-> 0, nb |-> 0, trade |-> FALSE, cross |-> FALSE,
                     has |-> [f \in FrameField |-> 0], bids |-> [l \in 1..Depth |-> 0]]]
    /\ evHead = 0 /\ evTail = 0 /\ frHead = 0 /\ frTail = 0
    /\ scratch = [l \in 1..Depth |-> 0]
    /\ parsed = 0 /\ book = FALSE
    /\ coreUse = [msg |-> 0, read |-> {}] /\ execUse = [msg |-> 0, read |-> {}]

-----------------------------------------------------------------------------
Header == {"message_type", "stock_locate", "tracking_number", "timestamp", "tsc_in"}

\* Mutant: the new reference of a replace is left as the slot had it.
WritesNoNewRef(t) ==
    Header \union
    CASE t \in {"A", "F"} -> {"order_ref_number", "side", "shares", "stock", "price"}
      [] t = "E" -> {"order_ref_number", "shares", "match_number"}
      [] t = "C" -> {"order_ref_number", "shares", "match_number", "price"}
      [] t = "X" -> {"order_ref_number", "shares"}
      [] t = "D" -> {"order_ref_number"}
      [] t = "U" -> {"order_ref_number", "shares", "price"}
      [] t = "P" -> {"order_ref_number", "side", "shares", "stock", "price", "match_number"}
      [] t = "Q" -> {"shares", "stock", "price", "match_number"}

\* The fields the parser writes for a message of type t.
Writes(t) ==
    Header \union
    CASE t \in {"A", "F"} -> {"order_ref_number", "side", "shares", "stock", "price"}
      [] t = "E" -> {"order_ref_number", "shares", "match_number"}
      [] t = "C" -> {"order_ref_number", "shares", "match_number", "price"}
      [] t = "X" -> {"order_ref_number", "shares"}
      [] t = "D" -> {"order_ref_number"}
      [] t = "U" -> {"order_ref_number", "new_order_ref_number", "shares", "price"}
      [] t = "P" -> {"order_ref_number", "side", "shares", "stock", "price", "match_number"}
      [] t = "Q" -> {"shares", "stock", "price", "match_number"}

\* ItchParser::next, on a type it knows: the claimed slot is overwritten field
\* by field and published.
Parse(t) ==
    /\ parsed < MaxMsgs /\ parsed' = parsed + 1
    /\ evHead - evTail < EventCap
    /\ LET i == evHead % EventCap
       IN  events' = [events EXCEPT ![i] =
                        [type |-> t,
                         has |-> [f \in EventField |->
                                    IF f \in Writes(t) THEN parsed' ELSE events[i].has[f]]]]
    /\ evHead' = evHead + 1
    /\ UNCHANGED <<evTail, frames, frHead, frTail, scratch, book, coreUse, execUse>>

\* Any other type: the slot was claimed, is not written and is claimed again.
Skip ==
    /\ parsed < MaxMsgs /\ parsed' = parsed + 1
    /\ evHead - evTail < EventCap
    /\ UNCHANGED <<events, evHead, evTail, frames, frHead, frTail, scratch, book,
                   coreUse, execUse>>

-----------------------------------------------------------------------------
\* What PrimaryFeed::apply reads of an event it filters out.
ReadsFiltered(t) == {"message_type", "tsc_in"} \union
                    (IF t \in {"A", "F"} THEN {"stock"} ELSE {"stock_locate"})

\* What apply, the frame builder and the histograms read of one it applies.
Reads(t) ==
    {"message_type", "stock_locate", "timestamp", "tsc_in"} \union
    CASE t \in {"A", "F"} -> {"stock", "order_ref_number", "side", "price", "shares"}
      [] t = "E" -> {"order_ref_number", "shares"}
      [] t = "C" -> {"order_ref_number", "shares", "price"}
      [] t = "X" -> {"order_ref_number", "shares"}
      [] t = "D" -> {"order_ref_number"}
      [] t = "U" -> {"order_ref_number", "new_order_ref_number", "price", "shares"}
      [] t = "P" -> {"price", "shares", "side"}
      [] t = "Q" -> {"price", "shares"}

\* core_main pops an event that apply filters out: another symbol's, or anything
\* but an add while the symbol's book does not exist.
Filter ==
    /\ evTail < evHead
    /\ LET e == events[evTail % EventCap]
       IN  coreUse' = [msg |-> e.has["message_type"],
                       read |-> {e.has[f] : f \in ReadsFiltered(e.type)}]
    /\ evTail' = evTail + 1
    /\ UNCHANGED <<events, evHead, frames, frHead, frTail, scratch, parsed, book, execUse>>

\* Mutant: the frame counts the levels of the snapshot it had before.
FrameWithOldCount(old, m, nb, trade, cross, levels) ==
    [msg |-> m, nb |-> Depth, trade |-> trade, cross |-> cross,
     has |-> [f \in FrameField |-> m],
     bids |-> [l \in 1..Depth |-> IF l <= nb THEN levels[l] ELSE old.bids[l]]]

\* build_market_update into a slot that held old: all of the header, and as
\* many levels as the snapshot counted.
FrameOf(old, m, nb, trade, cross, levels) ==
    [msg |-> m, nb |-> nb, trade |-> trade, cross |-> cross,
     has |-> [f \in FrameField |-> m],
     bids |-> [l \in 1..Depth |-> IF l <= nb THEN levels[l] ELSE old.bids[l]]]

\* core_main pops an event of the symbol and applies it, which leaves nb levels
\* and may resolve to a trade (always of a P or Q, never of an A, X, D or U);
\* it captures the snapshot and builds the frame, unless the ring is full.
Apply(nb, trade) ==
    /\ evTail < evHead
    /\ LET e == events[evTail % EventCap]
           m == e.has["message_type"]
           i == frHead % FrameCap
       IN  /\ book \/ e.type \in {"A", "F"}
           /\ e.type \in {"P", "Q"} => trade
           /\ e.type \in {"A", "F", "X", "D", "U"} => ~trade
           /\ book' = TRUE
           /\ coreUse' = [msg |-> m, read |-> {e.has[f] : f \in Reads(e.type)}]
           /\ scratch' = [l \in 1..Depth |-> IF l <= nb THEN m ELSE scratch[l]]
           /\ IF frHead - frTail < FrameCap
              THEN /\ frames' = [frames EXCEPT ![i] =
                                   FrameOf(@, m, nb, trade, e.type = "Q", scratch')]
                   /\ frHead' = frHead + 1
              ELSE UNCHANGED <<frames, frHead>>
    /\ evTail' = evTail + 1
    /\ UNCHANGED <<events, evHead, frTail, parsed, execUse>>

\* The exec pops a frame: MarketView copies it, and the strategies read the
\* header, the counted levels, and of a trade the side unless it was a cross.
Handle ==
    /\ frTail < frHead
    /\ LET u == frames[frTail % FrameCap]
           header == FrameField \ {"trade_price", "trade_side"}
           tradeFields == IF ~u.trade THEN {}
                          ELSE IF u.cross THEN {"trade_price"}
                          ELSE {"trade_price", "trade_side"}
       IN  execUse' = [msg |-> u.msg,
                       read |-> {u.has[f] : f \in header \union tradeFields}
                                  \union {u.bids[l] : l \in 1..u.nb}]
    /\ frTail' = frTail + 1
    /\ UNCHANGED <<events, evHead, evTail, frames, frHead, scratch, parsed, book, coreUse>>

SlotsNext ==
    \/ \E t \in MsgType : Parse(t)
    \/ Skip
    \/ Filter
    \/ \E nb \in 0..Depth, trade \in BOOLEAN : Apply(nb, trade)
    \/ Handle

SlotsSpec == SlotsInit /\ [][SlotsNext]_slotVars

-----------------------------------------------------------------------------
(* Properties.                                                             *)

\* Nothing left over is read: whatever core reads of an event, and the exec of
\* a frame, is data of the message it handles, though the slots and the
\* snapshot still hold what earlier messages of other types left in them.
NoStaleField ==
    /\ coreUse.read \subseteq {coreUse.msg}
    /\ execUse.read \subseteq {execUse.msg}
=============================================================================
