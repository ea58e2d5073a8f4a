--------------------------- MODULE DashboardFeed ---------------------------
(***************************************************************************)
(* The way of the book to the screen: core_main's hot thread stores a      *)
(* snapshot after every event (book_seq); the snapshotter thread loads one *)
(* every period and hands it to DashboardPublisher, which pushes a frame   *)
(* to the shared ring or drops it; the dashboard drains the ring at each   *)
(* of its own frames.  The seqlock's words are Seqlock.tla's: here a load  *)
(* is refused if it meets a store, and a refused one leaves whatever it    *)
(* copied.  The ring is BoundedFifo's.                                     *)
(***************************************************************************)
EXTENDS Integers, Sequences

CONSTANTS
    DashCap,      \* slots of the core-to-dashboard ring
    Tries,        \* loads per period: 64 in the code
    BookEvery,    \* UI frames between two refreshes of the order book panel
    MaxEvents     \* bound: events of the symbol

ASSUME DashboardAssumption ==
    DashCap \in Nat \ {0} /\ Tries \in Nat \ {0} /\ BookEvery \in Nat \ {0} /\ MaxEvents \in Nat

VARIABLES
    stored,       \* event_seq of the last snapshot stored; 0 at the start
    storing,      \* a store is under way
    core,         \* "running", "joining" the snapshotter, "exited"
    snap,         \* where the snapshotter is
    tries,        \* refused loads of this period
    pre,          \* the snapshot a load under way began on
    local,        \* the snapshotter's copy: its event_seq, and whether it is whole
    prevSeq,      \* DashboardPublisher::prev_seq; 0 before the first frame
    ring,         \* frames pushed: event_seq, whole, and the tick-rate's difference
    ui,           \* "running" or "exited"
    latest,       \* the frame plotted; event_seq 0 before the first
    shownBook,    \* book_local
    sinceBook     \* UI frames since book_local was refreshed

vars == <<stored, storing, core, snap, tries, pre, local, prevSeq, ring, ui, latest,
          shownBook, sinceBook>>

Nothing == [seq |-> 0, whole |-> TRUE, ticks |-> 0]

Init ==
    /\ stored = 0 /\ storing = FALSE /\ core = "running"
    /\ snap = "check" /\ tries = 0 /\ pre = 0 /\ local = [seq |-> 0, whole |-> FALSE]
    /\ prevSeq = 0 /\ ring = <<>>
    /\ ui = "running" /\ latest = Nothing /\ shownBook = Nothing /\ sinceBook = BookEvery

coreVars == <<stored, storing, core>>
snapVars == <<snap, tries, pre, local, prevSeq>>
uiVars == <<ui, latest, shownBook, sinceBook>>

-----------------------------------------------------------------------------
(* core_main's hot thread.                                                 *)

\* process: an event of the symbol is applied and its snapshot stored.
StoreBegin ==
    /\ core = "running" /\ ~storing /\ stored < MaxEvents
    /\ storing' = TRUE
    /\ UNCHANGED <<stored, core, snapVars, ring, uiVars>>

StoreEnd ==
    /\ storing
    /\ storing' = FALSE /\ stored' = stored + 1
    /\ UNCHANGED <<core, snapVars, ring, uiVars>>

\* The hot loop has ended (SIGTERM or max_events) and drained its ring:
\* snap_shutdown is set and the snapshotter joined.
CoreStops ==
    /\ core = "running" /\ ~storing
    /\ core' = "joining"
    /\ UNCHANGED <<stored, storing, snapVars, ring, uiVars>>

CoreJoins ==
    /\ core = "joining" /\ snap = "exited"
    /\ core' = "exited"
    /\ UNCHANGED <<stored, storing, snapVars, ring, uiVars>>

-----------------------------------------------------------------------------
(* run_snapshotter.                                                        *)

\* Mutant: the flag is looked at only when there is nothing to load yet.
SnapCheckDeaf ==
    /\ snap = "check"
    /\ snap' = IF core = "running" \/ stored > 0 THEN "load" ELSE "exited"
    /\ tries' = 0
    /\ UNCHANGED <<coreVars, pre, local, prevSeq, ring, uiVars>>

\* The loop's condition, then the sleep until the next period.
SnapCheck ==
    /\ snap = "check"
    /\ snap' = IF core = "running" THEN "load" ELSE "exited"
    /\ tries' = 0
    /\ UNCHANGED <<coreVars, pre, local, prevSeq, ring, uiVars>>

\* Mutant: after the last refused load the copy is used as it is.
RefusedAnyway(copied) ==
    /\ tries' = tries + 1
    /\ local' = copied
    /\ snap' = IF tries + 1 < Tries THEN "load" ELSE "publish"

\* A refused load: the next one, or the next period after the last.
Refused(copied) ==
    /\ tries' = tries + 1
    /\ local' = copied
    /\ snap' = IF tries + 1 < Tries THEN "load" ELSE "check"

\* try_load up to the copy: seq is odd during a store.
LoadBegin ==
    /\ snap = "load"
    /\ IF storing THEN Refused(local) /\ UNCHANGED pre
       ELSE /\ snap' = "copying" /\ pre' = stored
            /\ UNCHANGED <<tries, local>>
    /\ UNCHANGED <<coreVars, prevSeq, ring, uiVars>>

\* The copy and the second look at seq; nothing has been stored yet at 0.
LoadEnd ==
    /\ snap = "copying"
    /\ IF storing \/ stored # pre
       THEN Refused([seq |-> stored, whole |-> FALSE])
       ELSE /\ local' = [seq |-> stored, whole |-> TRUE]
            /\ snap' = IF stored = 0 THEN "check" ELSE "publish"
            /\ UNCHANGED tries
    /\ UNCHANGED <<coreVars, pre, prevSeq, ring, uiVars>>

\* Mutant: a snapshot that was published before is not published again.
PublishChanged ==
    /\ snap = "publish"
    /\ ring' = IF Len(ring) < DashCap /\ local.seq # prevSeq
               THEN Append(ring, [seq |-> local.seq, whole |-> local.whole,
                                  ticks |-> IF prevSeq = 0 THEN 0 ELSE local.seq - prevSeq])
               ELSE ring
    /\ prevSeq' = local.seq
    /\ snap' = "check"
    /\ UNCHANGED <<coreVars, tries, pre, local, uiVars>>

\* DashboardPublisher: the frame, with the events since the previous one for
\* the tick rate; a full ring drops it.
Publish ==
    /\ snap = "publish"
    /\ ring' = IF Len(ring) < DashCap
               THEN Append(ring, [seq |-> local.seq, whole |-> local.whole,
                                  ticks |-> IF prevSeq = 0 THEN 0 ELSE local.seq - prevSeq])
               ELSE ring
    /\ prevSeq' = local.seq
    /\ snap' = "check"
    /\ UNCHANGED <<coreVars, tries, pre, local, uiVars>>

-----------------------------------------------------------------------------
(* The dashboard's run_ui.                                                 *)

\* One frame of the loop.  The ring is drained, to the most recent frame (a
\* frame pushed meanwhile counts as pushed before; the drain takes microseconds
\* and frames come a period apart, so that it ends).  The plots get that frame,
\* the book panel only if its own period is over.
UiFrame ==
    /\ ui = "running"
    /\ latest' = IF ring = <<>> THEN latest ELSE ring[Len(ring)]
    /\ ring' = <<>>
    /\ IF latest'.seq # 0 /\ sinceBook >= BookEvery
       THEN shownBook' = latest' /\ sinceBook' = 1
       ELSE /\ sinceBook' = IF sinceBook < BookEvery THEN sinceBook + 1 ELSE sinceBook
            /\ UNCHANGED shownBook
    /\ UNCHANGED <<coreVars, snapVars, ui>>

\* The window is closed or SIGTERM seen, between two frames.
UiExit ==
    /\ ui = "running"
    /\ ui' = "exited"
    /\ UNCHANGED <<coreVars, snapVars, ring, latest, shownBook, sinceBook>>

-----------------------------------------------------------------------------
Snapshotter == SnapCheck \/ LoadBegin \/ LoadEnd \/ Publish

Next == StoreBegin \/ StoreEnd \/ CoreStops \/ CoreJoins \/ Snapshotter \/ UiFrame \/ UiExit

\* A store that has begun ends; the snapshotter wakes every period and the UI
\* every frame; core, once it joins, waits for nothing else.
Fairness ==
    /\ WF_vars(StoreEnd) /\ WF_vars(CoreJoins)
    /\ WF_vars(Snapshotter) /\ WF_vars(UiFrame)

Spec == Init /\ [][Next]_vars /\ Fairness

-----------------------------------------------------------------------------
(* Properties.                                                             *)

\* What is shown, is waiting in the ring or was published last are whole
\* snapshots in the order of the feed, the panel's never newer than the
\* plots', and the tick rate's unsigned difference never wraps.
ShownInOrder ==
    LET line == <<shownBook, latest>> \o ring
    IN  /\ \A i \in 1..Len(line) : line[i].whole /\ line[i].ticks >= 0
        /\ \A i \in 1..(Len(line) - 1) : line[i].seq <= line[i + 1].seq
        /\ line[Len(line)].seq <= prevSeq /\ prevSeq <= stored

\* Whenever the feed pauses the dashboard catches up with it, in both panels,
\* whatever frames were dropped and loads refused before: the last snapshot is
\* loaded and published again every period.
DashboardCatchesUp ==
    \A k \in 1..MaxEvents :
        <>[](stored = k /\ ~storing) =>
            <>(core # "running" \/ ui = "exited" \/ (latest.seq = k /\ shownBook.seq = k))

\* Core always gets to exit once its loop has ended: the snapshotter notices,
\* however often its loads are refused.
SnapshotterJoined == core = "joining" ~> core = "exited"

\* The snapshotter makes progress: DashboardCatchesUp while core runs, and
\* SnapshotterJoined when it ends.
SnapshotsFlow == DashboardCatchesUp /\ SnapshotterJoined
=============================================================================
