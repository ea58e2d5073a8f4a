------------------------------ MODULE Pipeline ------------------------------
(***************************************************************************)
(* The feed path end to end: exchange_main parses events into a ring,      *)
(* core_main applies them to the book and publishes one frame per event of *)
(* its symbol into a second ring, exec handles the frames; and the way the *)
(* three stop when the feed ends, max_events is reached or SIGTERM comes.  *)
(* The rings are the bounded queues SpscRing implements.                   *)
(*                                                                         *)
(* The exchange blocks on a full ring; core never does: a frame that finds *)
(* the ring to exec full is dropped and the next one says so (FEED_RESET). *)
(***************************************************************************)
EXTENDS Integers, Sequences

CONSTANTS
    RingCapacity,  \* CORE_RING_CAPACITY
    FeedCapacity,  \* capacity of feed_to_exec
    Events,        \* events in the feed (the file the exchange replays)
    MaxEvents,     \* max_events of the config; more than Events if unlimited
    MaxCrashes     \* bound: exec deaths in one behaviour

ASSUME PipelineAssumption ==
    /\ RingCapacity \in Nat \ {0} /\ FeedCapacity \in Nat \ {0}
    /\ Events \in Nat /\ MaxEvents \in Nat /\ MaxCrashes \in Nat

VARIABLES
    xpc,       \* exchange: "run", "parse" (inside next()) or "done"
    produced,  \* exchange: messages parsed
    ring,      \* exchange_to_core: TRUE for an event of the traded symbol
    cpc,       \* core: "run", "drain" or "done"
    n,         \* core: events handled by the main loop
    count,     \* core: PrimaryFeed::count
    pendingReset, dropped, \* core: pending_reset, feed_stats.frames_dropped
    feed,      \* feed_to_exec
    epc,       \* exec: "forked", "started" (main, no handlers yet), "run", "drain",
               \* "done", or "killed" by SIGTERM
    view,      \* exec: MarketView's sequence state, whether it has a previous mid,
               \* and, history, gaps when it got that mid and the frames missed
               \* between the two mids the last update folded into the variance
    handled,   \* history: frames handled by this exec process
    popped,    \* history: sequence number of the last frame popped by any exec
    told,      \* has the manager broadcast its SIGTERM?
    term,      \* the workers whose shutdown flag it has set
    crashes    \* exec deaths so far

exchangeVars == <<xpc, produced>>
coreVars == <<cpc, n, count, pendingReset, dropped>>
execVars == <<epc, view, handled, popped, crashes>>
stopVars == <<told, term>>
vars == <<exchangeVars, ring, coreVars, feed, execVars, stopVars>>

NewView == [haveSeq |-> FALSE, first |-> 0, seq |-> 0, gaps |-> 0, reset |-> FALSE,
            haveMid |-> FALSE, midGaps |-> 0, folded |-> 0]

Init ==
    /\ xpc = "run" /\ produced = 0 /\ ring = <<>>
    /\ cpc = "run" /\ n = 0 /\ count = 0 /\ pendingReset = FALSE /\ dropped = 0
    /\ feed = <<>>
    /\ epc = "forked" /\ view = NewView /\ handled = 0 /\ popped = 0 /\ crashes = 0
    /\ told = FALSE /\ term = {}

-----------------------------------------------------------------------------
(* exchange_main and ItchParser::next.                                     *)

\* while (!parser.done() && !shutdown_flag)
ExchangeLoop ==
    /\ xpc = "run"
    /\ xpc' = IF produced < Events /\ "exchange" \notin term THEN "parse" ELSE "done"
    /\ UNCHANGED <<produced, ring, coreVars, feed, execVars, stopVars>>

\* next(): a slot is claimed, filled and published; it spins while there is none.
ParsePublish(mine) ==
    /\ xpc = "parse"
    /\ Len(ring) < RingCapacity
    /\ ring' = Append(ring, mine)
    /\ produced' = produced + 1
    /\ xpc' = "run"
    /\ UNCHANGED <<coreVars, feed, execVars, stopVars>>

\* next(): a message type that is not handled is skipped, the claim unused.
ParseSkip ==
    /\ xpc = "parse"
    /\ Len(ring) < RingCapacity
    /\ produced' = produced + 1
    /\ xpc' = "run"
    /\ UNCHANGED <<ring, coreVars, feed, execVars, stopVars>>

\* Mutant: the spin on a full ring does not look at the shutdown flag.
ParseNeverGivesUp ==
    /\ xpc = "parse" /\ Len(ring) = RingCapacity /\ UNCHANGED vars

\* next(): the spin on a full ring is given up at shutdown.
ParseGiveUp ==
    /\ xpc = "parse"
    /\ Len(ring) = RingCapacity
    /\ "exchange" \in term
    /\ xpc' = "run"
    /\ UNCHANGED <<produced, ring, coreVars, feed, execVars, stopVars>>

-----------------------------------------------------------------------------
(* core_main.                                                              *)

\* build_market_update, after which the book may or may not have both sides.
Frame(seq, reset, twoSided) == [seq |-> seq, reset |-> reset, twoSided |-> twoSided]

\* Mutant: the reset mark is forgotten by the next frame even if it is dropped too.
ProcessForgetful(mine, twoSided) ==
    IF ~mine THEN UNCHANGED <<count, feed, dropped, pendingReset>>
    ELSE /\ count' = count + 1
         /\ IF Len(feed) < FeedCapacity
            THEN /\ feed' = Append(feed, Frame(count', pendingReset, twoSided))
                 /\ pendingReset' = FALSE
                 /\ UNCHANGED dropped
            ELSE /\ dropped' = dropped + 1
                 /\ pendingReset' = ~pendingReset
                 /\ UNCHANGED feed

\* process(ev): an event of another symbol is filtered out; otherwise the frame
\* is published, or dropped and the next one marked.
Process(mine, twoSided) ==
    IF ~mine THEN UNCHANGED <<count, feed, dropped, pendingReset>>
    ELSE /\ count' = count + 1
         /\ IF Len(feed) < FeedCapacity
            THEN /\ feed' = Append(feed, Frame(count', pendingReset, twoSided))
                 /\ pendingReset' = FALSE
                 /\ UNCHANGED dropped
            ELSE /\ dropped' = dropped + 1
                 /\ pendingReset' = TRUE
                 /\ UNCHANGED feed

\* while (!shutdown_flag && n < max_events): one event off the ring.
CoreEvent ==
    /\ cpc = "run" /\ "core" \notin term /\ n < MaxEvents
    /\ ring # <<>>
    /\ \E twoSided \in BOOLEAN : Process(Head(ring), twoSided)
    /\ ring' = Tail(ring)
    /\ n' = n + 1
    /\ UNCHANGED <<exchangeVars, cpc, execVars, stopVars>>

\* The main loop is left.
CoreLeave ==
    /\ cpc = "run"
    /\ "core" \in term \/ n >= MaxEvents
    /\ cpc' = "drain"
    /\ UNCHANGED <<exchangeVars, ring, n, count, pendingReset, dropped, feed, execVars, stopVars>>

\* while (ring->try_pop(ev)): what is in flight is still processed.
CoreDrain ==
    /\ cpc = "drain"
    /\ IF ring # <<>>
       THEN /\ \E twoSided \in BOOLEAN : Process(Head(ring), twoSided)
            /\ ring' = Tail(ring)
            /\ UNCHANGED cpc
       ELSE /\ cpc' = "done"
            /\ UNCHANGED <<ring, count, feed, dropped, pendingReset>>
    /\ UNCHANGED <<exchangeVars, n, execVars, stopVars>>

-----------------------------------------------------------------------------
(* exec: run_strategy and MarketView::on_update.                           *)

\* Folds a frame's mid into the variance if there is one to compare it with.
FoldMid(v, haveMid, f) ==
    [v EXCEPT !.haveMid = haveMid \/ f.twoSided,
              !.midGaps = IF f.twoSided THEN v.gaps ELSE @,
              !.folded = IF f.twoSided /\ haveMid THEN v.gaps - v.midGaps ELSE 0]

\* Mutant: the previous mid survives a reset.
OnUpdateOldMid(f) ==
    LET expected == view.seq + 1
        jump == view.haveSeq /\ f.seq # expected
        v == [view EXCEPT !.haveSeq = TRUE, !.seq = f.seq, !.reset = f.reset \/ jump,
                          !.first = IF view.haveSeq THEN @ ELSE f.seq,
                          !.gaps = IF jump /\ f.seq > expected THEN @ + (f.seq - expected) ELSE @]
    IN  FoldMid(v, view.haveMid, f)

\* Mutant: a gap of one frame is not noticed.
OnUpdateBlind(f) ==
    LET expected == view.seq + 1
        jump == view.haveSeq /\ f.seq > expected + 1
        v == [view EXCEPT !.haveSeq = TRUE, !.seq = f.seq, !.reset = f.reset \/ jump,
                          !.first = IF view.haveSeq THEN @ ELSE f.seq,
                          !.gaps = IF jump THEN @ + (f.seq - expected) ELSE @]
    IN  FoldMid(v, view.haveMid /\ ~v.reset, f)

\* on_update: a jump in event_seq counts the frames missed and resets, and a
\* reset forgets the previous mid.
OnUpdate(f) ==
    LET expected == view.seq + 1
        jump == view.haveSeq /\ f.seq # expected
        v == [view EXCEPT !.haveSeq = TRUE, !.seq = f.seq, !.reset = f.reset \/ jump,
                          !.first = IF view.haveSeq THEN @ ELSE f.seq,
                          !.gaps = IF jump /\ f.seq > expected THEN @ + (f.seq - expected) ELSE @]
    IN  FoldMid(v, view.haveMid /\ ~v.reset, f)

\* One frame is handled, in the hot loop or in the shutdown drain.
HandleFrame ==
    /\ epc = "drain" \/ (epc = "run" /\ "exec" \notin term)
    /\ feed # <<>>
    /\ view' = OnUpdate(Head(feed))
    /\ popped' = Head(feed).seq
    /\ handled' = handled + 1
    /\ feed' = Tail(feed)
    /\ UNCHANGED <<exchangeVars, ring, coreVars, epc, crashes, stopVars>>

\* Mutant: SIGTERM ends the loop at once.
ExecStopNow ==
    /\ epc = "run" /\ "exec" \in term
    /\ epc' = "done"
    /\ UNCHANGED <<exchangeVars, ring, coreVars, feed, view, handled, popped, crashes, stopVars>>

\* The shutdown flag is seen at the top of the loop.
ExecStop ==
    /\ epc = "run" /\ "exec" \in term
    /\ epc' = "drain"
    /\ UNCHANGED <<exchangeVars, ring, coreVars, feed, view, handled, popped, crashes, stopVars>>

\* try_pop found the ring empty: run_strategy returns.
ExecDrained ==
    /\ epc = "drain" /\ feed = <<>>
    /\ epc' = "done"
    /\ UNCHANGED <<exchangeVars, ring, coreVars, feed, view, handled, popped, crashes, stopVars>>

\* spawn's child calls execv; later exec's main has called sigaction and goes on
\* to its loop.
ExecStart ==
    /\ \/ epc = "forked" /\ epc' = "started"
       \/ epc = "started" /\ epc' = "run"
    /\ UNCHANGED <<exchangeVars, ring, coreVars, feed, view, handled, popped, crashes, stopVars>>

\* exec dies and is forked again (auto_restart_exec, SIGUSR1 or a swap): its
\* successor starts with an empty view.
ExecRespawn ==
    /\ epc \in {"forked", "started", "run"} /\ ~told
    /\ crashes < MaxCrashes
    /\ crashes' = crashes + 1
    /\ epc' = "forked"
    /\ view' = NewView /\ handled' = 0
    /\ UNCHANGED <<exchangeVars, ring, coreVars, feed, popped, stopVars>>

-----------------------------------------------------------------------------
\* The manager reaps the exchange or core and broadcasts SIGTERM, once: an exec
\* not past execv misses it, one without handlers dies of it.
ManagerShutdown ==
    /\ ~told
    /\ xpc = "done" \/ cpc = "done"
    /\ told' = TRUE
    /\ term' = {"exchange", "core"} \cup (IF epc = "run" THEN {"exec"} ELSE {})
    /\ epc' = IF epc = "started" THEN "killed" ELSE epc
    /\ UNCHANGED <<exchangeVars, ring, coreVars, feed, view, handled, popped, crashes>>

Exchange == ExchangeLoop \/ (\E mine \in BOOLEAN : ParsePublish(mine)) \/ ParseSkip \/ ParseGiveUp
Core == CoreEvent \/ CoreLeave \/ CoreDrain
Exec == ExecStart \/ HandleFrame \/ ExecStop \/ ExecDrained

Next == Exchange \/ Core \/ Exec \/ ExecRespawn \/ ManagerShutdown

Spec == Init /\ [][Next]_vars

\* Every worker is a loop on a core of its own that only ever waits for the
\* others by spinning; the manager polls for exits.
FairSpec ==
    /\ Spec
    /\ WF_vars(Exchange) /\ WF_vars(Core) /\ WF_vars(Exec) /\ WF_vars(ManagerShutdown)

-----------------------------------------------------------------------------
(* Properties.                                                             *)

AllDone == xpc = "done" /\ cpc = "done" /\ epc = "done"

\* Every variable has its type and the rings keep to their capacity.
TypeOK ==
    /\ xpc \in {"run", "parse", "done"}
    /\ cpc \in {"run", "drain", "done"}
    /\ epc \in {"forked", "started", "run", "drain", "done", "killed"}
    /\ ring \in Seq(BOOLEAN) /\ Len(ring) <= RingCapacity
    /\ feed \in Seq([seq : Nat, reset : BOOLEAN, twoSided : BOOLEAN])
    /\ Len(feed) <= FeedCapacity
    /\ produced \in Nat /\ n \in Nat /\ count \in Nat /\ dropped \in Nat
    /\ handled \in Nat /\ popped \in Nat /\ crashes \in Nat
    /\ pendingReset \in BOOLEAN
    /\ view \in [haveSeq : BOOLEAN, first : Nat, seq : Nat, gaps : Nat, reset : BOOLEAN,
                  haveMid : BOOLEAN, midGaps : Nat, folded : Int]
    /\ told \in BOOLEAN /\ term \subseteq {"exchange", "core", "exec"}

\* FEED_RESET marks a frame exactly when the frames just before it were dropped:
\* a queued frame carries it if and only if its sequence number does not follow
\* the frame ahead of it, and a pending mark means the last frame was dropped.
ResetMarksGap ==
    LET ahead(i) == IF i = 1 THEN popped ELSE feed[i - 1].seq
    IN  /\ \A i \in DOMAIN feed : feed[i].reset <=> feed[i].seq # ahead(i) + 1
        /\ pendingReset <=> count # ahead(Len(feed) + 1)

\* Exec misses nothing silently: since its first frame, every sequence number
\* was either handled or counted in frame_gaps; and no move of the mid across
\* missed frames is folded into the volatility, however many one-sided frames
\* come between the gap and the next mid.
GapsAccounted ==
    /\ view.haveSeq => handled + view.gaps = view.seq - view.first + 1
    /\ view.folded = 0

\* A run that core ends at max_events, before the exchange has reached the end
\* of its file, handles every frame core published (the drain of run_strategy),
\* if exec had its handlers when it was told to stop and ended by itself.
MaxEventsRunComplete == (AllDone /\ produced < Events) => feed = <<>>

\* The broadcast met an exec not past execv.
MissedSigterm == told /\ "exec" \notin term /\ epc # "killed"

\* The end of the feed, or of max_events, stops everything: nobody waits for
\* a worker that has already left.  Only an exec that missed the broadcast stays.
EverythingStops ==
    (xpc = "done" \/ cpc = "done") ~>
        /\ xpc = "done" /\ cpc = "done"
        /\ epc \in {"done", "killed"} \/ MissedSigterm
=============================================================================
