--------------------------- MODULE PipelineProofs ---------------------------
(***************************************************************************)
(* The feed path's safety, for rings of any capacity, feeds of any length  *)
(* and any number of exec respawns.                                        *)
(***************************************************************************)
EXTENDS Pipeline, SequenceTheorems, TLAPS

Frames == [seq : Nat, reset : BOOLEAN, twoSided : BOOLEAN]
ViewType == [haveSeq : BOOLEAN, first : Nat, seq : Nat, gaps : Nat, reset : BOOLEAN,
             haveMid : BOOLEAN, midGaps : Nat, folded : Int]

\* The sequence number of the frame before the i-th in the ring to exec.
Ahead(i) == IF i = 1 THEN popped ELSE feed[i - 1].seq

\* Frames are numbered upwards to core's count, and marked as ResetMarksGap says.
FeedOrdered ==
    /\ \A i \in 1..Len(feed) :
          /\ Ahead(i) < feed[i].seq /\ feed[i].seq <= count
          /\ feed[i].reset <=> feed[i].seq # Ahead(i) + 1
    /\ popped <= count
    /\ pendingReset <=> count # Ahead(Len(feed) + 1)

\* What MarketView has seen: it is at the last frame popped, it has counted what
\* it did not handle, and a mid it still has dates from after the last gap.
ViewInv ==
    /\ ~view.haveSeq => handled = 0 /\ view.gaps = 0 /\ ~view.haveMid
    /\ view.haveSeq => /\ view.seq = popped /\ view.first <= view.seq
                       /\ handled + view.gaps = view.seq - view.first + 1
    /\ view.haveMid => view.midGaps = view.gaps
    /\ view.folded = 0

\* Who stops first: if the file is not at its end, the SIGTERM broadcast came
\* from core's exit, and exec found its ring empty only after that.
StopInv ==
    /\ epc \notin {"forked", "started", "run"} => told
    /\ term # {} => told
    /\ (xpc = "done" /\ produced < Events) => told
    /\ (told /\ produced < Events) => cpc = "done"
    /\ (epc = "done" /\ produced < Events) => feed = <<>>

IInv == TypeOK /\ FeedOrdered /\ ViewInv /\ StopInv

-----------------------------------------------------------------------------
LEMMA InitIInv == Init => IInv
<1> SUFFICES ASSUME Init PROVE IInv
    OBVIOUS
<1> USE PipelineAssumption DEF Init
<1>1. TypeOK
  <2>1. view \in ViewType
    <3>1. NewView \in ViewType
      BY DEF NewView, ViewType
    <3> QED BY <3>1
  <2>2. pendingReset \in BOOLEAN
    BY Zenon
  <2>3. ring \in Seq(BOOLEAN) /\ feed \in Seq(Frames) /\ Len(ring) = 0 /\ Len(feed) = 0
    BY EmptySeq
  <2>4. told \in BOOLEAN /\ term \subseteq {"exchange", "core", "exec"}
    BY Zenon
  <2> QED BY <2>1, <2>2, <2>3, <2>4 DEF TypeOK, ViewType, Frames
<1>2. FeedOrdered
  BY DEF FeedOrdered, Ahead
<1>3. ViewInv
  BY DEF ViewInv, NewView
<1>4. StopInv
  BY DEF StopInv
<1> QED BY <1>1, <1>2, <1>3, <1>4 DEF IInv

\* process(ev): the frame published or dropped.
LEMMA ProcessStep ==
    ASSUME IInv, NEW mine \in BOOLEAN, NEW two \in BOOLEAN, Process(mine, two),
           popped' = popped
    PROVE  /\ FeedOrdered'
           /\ count' \in Nat /\ dropped' \in Nat /\ pendingReset' \in BOOLEAN
           /\ feed' \in Seq(Frames) /\ Len(feed') <= FeedCapacity
<1> USE PipelineAssumption
<1>0. /\ feed \in Seq(Frames) /\ Len(feed) \in Nat /\ Len(feed) <= FeedCapacity
      /\ count \in Nat /\ popped \in Nat /\ dropped \in Nat
      /\ pendingReset \in BOOLEAN
      /\ \A i \in 1..Len(feed) : feed[i] \in Frames
  <2>1. feed \in Seq(Frames)
    BY DEF IInv, TypeOK, Frames
  <2>2. \A i \in 1..Len(feed) : feed[i] \in Frames
    BY <2>1, ElementOfSeq
  <2> QED BY <2>1, <2>2 DEF IInv, TypeOK
<1>1. CASE ~mine
  BY <1>0, <1>1 DEF Process, FeedOrdered, IInv, Ahead
<1>2. CASE mine /\ Len(feed) < FeedCapacity
  <2>1. /\ feed' = Append(feed, Frame(count + 1, pendingReset, two))
        /\ count' = count + 1 /\ pendingReset' = FALSE /\ dropped' = dropped
    BY <1>0, <1>2 DEF Process
  <2>2. Frame(count + 1, pendingReset, two) \in Frames
    BY <1>0 DEF Frame, Frames
  <2>3. /\ feed' \in Seq(Frames) /\ Len(feed') = Len(feed) + 1
        /\ \A i \in 1..Len(feed) : feed'[i] = feed[i]
        /\ feed'[Len(feed) + 1] = Frame(count + 1, pendingReset, two)
    BY <1>0, <2>1, <2>2, AppendProperties
  <2>4. \A i \in 1..(Len(feed) + 1) : Ahead(i)' = Ahead(i)
    BY <1>0, <2>3 DEF Ahead
  <2>5. Ahead(Len(feed) + 1) \in Nat /\ Ahead(Len(feed) + 1) <= count
    BY <1>0 DEF Ahead, FeedOrdered, IInv, Frames
  <2>6. Ahead(Len(feed) + 1)' = count + 1
    BY <1>0, <2>3 DEF Ahead, Frame
  <2>7. ASSUME NEW i \in 1..Len(feed')
        PROVE  /\ Ahead(i)' < feed'[i].seq /\ feed'[i].seq <= count'
               /\ feed'[i].reset <=> feed'[i].seq # Ahead(i)' + 1
    <3>1. CASE i = Len(feed) + 1
      <4>1. Ahead(i)' = Ahead(i)
        BY <1>0, <2>4, <3>1
      <4>2. pendingReset <=> count # Ahead(i)
        BY <3>1 DEF FeedOrdered, IInv
      <4> DEFINE f == [seq |-> count + 1, reset |-> pendingReset, twoSided |-> two]
      <4>a. feed'[i] = f
        BY <2>3, <3>1 DEF Frame
      <4>b. f.seq = count + 1 /\ (f.reset <=> pendingReset)
        BY Zenon
      <4> HIDE DEF f
      <4>3. feed'[i].seq = count + 1 /\ (feed'[i].reset <=> pendingReset)
        BY <4>a, <4>b, Zenon
      <4> QED BY <1>0, <2>1, <2>5, <3>1, <4>1, <4>2, <4>3
    <3>2. CASE i # Len(feed) + 1
      <4>1. i \in 1..Len(feed) /\ feed'[i] = feed[i] /\ Ahead(i)' = Ahead(i)
        BY <1>0, <2>3, <2>4, <2>7, <3>2
      <4>2. feed[i].seq \in Nat
        BY <1>0, <4>1 DEF Frames
      <4>3. /\ Ahead(i) < feed[i].seq /\ feed[i].seq <= count
            /\ feed[i].reset <=> feed[i].seq # Ahead(i) + 1
        BY <4>1 DEF FeedOrdered, IInv
      <4>4. feed'[i].reset <=> feed'[i].seq # Ahead(i)' + 1
        BY <4>1, <4>3, Zenon
      <4> QED BY <1>0, <2>1, <4>1, <4>2, <4>3, <4>4
    <3> QED BY <3>1, <3>2
  <2>8. popped' <= count' /\ (pendingReset' <=> count' # Ahead(Len(feed) + 1)')
    BY <1>0, <2>1, <2>6 DEF FeedOrdered, IInv
  <2>9. FeedOrdered'
    BY <2>7, <2>8, Zenon DEF FeedOrdered
  <2>10. pendingReset' \in BOOLEAN
    BY <2>1, Zenon
  <2>11. count' \in Nat /\ dropped' \in Nat /\ Len(feed') <= FeedCapacity
    BY <1>0, <1>2, <2>1, <2>3
  <2> QED BY <2>3, <2>9, <2>10, <2>11
<1>3. CASE mine /\ ~(Len(feed) < FeedCapacity)
  <2>1. feed' = feed /\ count' = count + 1 /\ pendingReset' = TRUE /\ dropped' = dropped + 1
    BY <1>3 DEF Process
  <2>2. \A i : Ahead(i)' = Ahead(i)
    BY <2>1 DEF Ahead
  <2>3. Ahead(Len(feed) + 1) \in Nat /\ Ahead(Len(feed) + 1) <= count
    BY <1>0 DEF Ahead, FeedOrdered, IInv, Frames
  <2>4. \A i \in 1..Len(feed) : feed[i].seq \in Nat
    BY <1>0 DEF Frames
  <2> QED BY <1>0, <2>1, <2>2, <2>3, <2>4 DEF FeedOrdered, IInv
<1> QED BY <1>1, <1>2, <1>3

\* The frames missed before f, and whether on_update resets at f.
Missed(f) == IF view.haveSeq /\ f.seq > view.seq + 1 THEN f.seq - (view.seq + 1) ELSE 0
Resets(f) == f.reset \/ (view.haveSeq /\ f.seq # view.seq + 1)

\* on_update, field by field.
LEMMA OnUpdateFields ==
    ASSUME view \in ViewType, NEW f \in Frames
    PROVE  /\ OnUpdate(f) \in ViewType
           /\ OnUpdate(f).haveSeq
           /\ OnUpdate(f).seq = f.seq
           /\ OnUpdate(f).first = IF view.haveSeq THEN view.first ELSE f.seq
           /\ OnUpdate(f).gaps = view.gaps + Missed(f)
           /\ OnUpdate(f).haveMid <=> (view.haveMid /\ ~Resets(f)) \/ f.twoSided
           /\ OnUpdate(f).midGaps = IF f.twoSided THEN view.gaps + Missed(f) ELSE view.midGaps
           /\ OnUpdate(f).folded = IF f.twoSided /\ view.haveMid /\ ~Resets(f)
                                   THEN (view.gaps + Missed(f)) - view.midGaps ELSE 0
<1> DEFINE jump == view.haveSeq /\ f.seq # view.seq + 1
           r == f.reset \/ jump
           g == IF jump /\ f.seq > view.seq + 1 THEN view.gaps + (f.seq - (view.seq + 1))
                ELSE view.gaps
           v == [view EXCEPT !.haveSeq = TRUE, !.seq = f.seq, !.reset = r,
                             !.first = IF view.haveSeq THEN @ ELSE f.seq, !.gaps = g]
<1>1. OnUpdate(f) = FoldMid(v, view.haveMid /\ ~v.reset, f)
  BY DEF OnUpdate
<1>2. /\ view.haveSeq \in BOOLEAN /\ view.haveMid \in BOOLEAN
      /\ view.first \in Nat /\ view.seq \in Nat /\ view.gaps \in Nat /\ view.midGaps \in Nat
      /\ f.seq \in Nat /\ f.reset \in BOOLEAN /\ f.twoSided \in BOOLEAN
  BY Zenon DEF ViewType, Frames
<1>3. g = view.gaps + Missed(f) /\ g \in Nat
  BY <1>2 DEF Missed
<1>4. r <=> Resets(f)
  BY Zenon DEF Resets
<1>5. v \in ViewType
  BY Zenon, <1>2, <1>3 DEF ViewType
<1>6. /\ v.haveSeq /\ v.seq = f.seq /\ v.gaps = g /\ (v.reset <=> r)
      /\ v.first = (IF view.haveSeq THEN view.first ELSE f.seq)
      /\ v.midGaps = view.midGaps
  BY Zenon DEF ViewType
<1> HIDE DEF v, g
<1> DEFINE w == FoldMid(v, view.haveMid /\ ~v.reset, f)
<1>8. w \in ViewType
  <2>2. (IF f.twoSided /\ (view.haveMid /\ ~v.reset) THEN v.gaps - v.midGaps ELSE 0) \in Int
    BY <1>2, <1>3, <1>6
  <2>3. (IF f.twoSided THEN v.gaps ELSE v.midGaps) \in Nat
    BY <1>2, <1>3, <1>6
  <2>4. ((view.haveMid /\ ~v.reset) \/ f.twoSided) \in BOOLEAN
    BY Zenon
  <2> QED BY Zenon, <1>5, <2>2, <2>3, <2>4 DEF FoldMid, ViewType
<1>9. /\ (w.haveSeq <=> v.haveSeq) /\ w.seq = v.seq /\ w.first = v.first /\ w.gaps = v.gaps
  BY Zenon, <1>5 DEF FoldMid, ViewType
<1>10. /\ w.haveMid <=> ((view.haveMid /\ ~v.reset) \/ f.twoSided)
       /\ w.midGaps = (IF f.twoSided THEN v.gaps ELSE v.midGaps)
       /\ w.folded = (IF f.twoSided /\ (view.haveMid /\ ~v.reset) THEN v.gaps - v.midGaps ELSE 0)
  BY Zenon, <1>5 DEF FoldMid, ViewType
<1> HIDE DEF w, r
<1>11. w.haveMid <=> (view.haveMid /\ ~Resets(f)) \/ f.twoSided
  BY Zenon, <1>4, <1>6, <1>10
<1>12. w.midGaps = IF f.twoSided THEN view.gaps + Missed(f) ELSE view.midGaps
  BY Zenon, <1>3, <1>6, <1>10
<1>13. w.folded = IF f.twoSided /\ view.haveMid /\ ~Resets(f)
                 THEN (view.gaps + Missed(f)) - view.midGaps ELSE 0
  BY Zenon, <1>3, <1>4, <1>6, <1>10
<1>14. w.haveSeq /\ w.seq = f.seq /\ w.gaps = view.gaps + Missed(f)
       /\ w.first = (IF view.haveSeq THEN view.first ELSE f.seq)
  BY Zenon, <1>3, <1>6, <1>9
<1>15. OnUpdate(f) = w
  BY <1>1 DEF w
<1> QED BY Zenon, <1>8, <1>11, <1>12, <1>13, <1>14, <1>15

\* One frame handled.
LEMMA HandleStep ==
    ASSUME IInv, HandleFrame
    PROVE  /\ FeedOrdered' /\ ViewInv'
           /\ view' \in ViewType /\ handled' \in Nat /\ popped' \in Nat
           /\ feed' \in Seq(Frames) /\ Len(feed') <= FeedCapacity
<1> USE PipelineAssumption
<1> DEFINE f == feed[1]
<1>0. /\ feed \in Seq(Frames) /\ feed # <<>> /\ Len(feed) \in Nat /\ Len(feed) >= 1
      /\ Len(feed) <= FeedCapacity
      /\ count \in Nat /\ popped \in Nat /\ handled \in Nat
      /\ \A i \in 1..Len(feed) : feed[i] \in Frames
  <2>1. feed \in Seq(Frames) /\ feed # <<>>
    BY DEF IInv, TypeOK, Frames, HandleFrame
  <2>2. \A i \in 1..Len(feed) : feed[i] \in Frames
    BY <2>1, ElementOfSeq
  <2>3. Len(feed) \in Nat /\ Len(feed) >= 1
    BY <2>1, EmptySeq, LenProperties
  <2> QED BY <2>1, <2>2, <2>3 DEF IInv, TypeOK
<1>1. /\ Head(feed) = f /\ f \in Frames /\ Tail(feed) \in Seq(Frames)
      /\ Len(Tail(feed)) = Len(feed) - 1
      /\ \A i \in 1..Len(feed) - 1 : Tail(feed)[i] = feed[i + 1]
  BY <1>0, HeadTailProperties
<1>2. /\ view' = OnUpdate(f) /\ popped' = f.seq /\ handled' = handled + 1
      /\ feed' = Tail(feed) /\ count' = count /\ pendingReset' = pendingReset
  BY <1>1 DEF HandleFrame, coreVars
<1>3. view \in ViewType
  BY DEF IInv, TypeOK, ViewType
<1>4. f.seq \in Nat /\ f.seq > popped /\ f.seq <= count /\ (f.reset <=> f.seq # popped + 1)
  <2>1. Ahead(1) = popped
    BY DEF Ahead
  <2>2. 1 \in 1..Len(feed)
    BY <1>0
  <2>3. Ahead(1) < f.seq /\ f.seq <= count /\ (f.reset <=> f.seq # Ahead(1) + 1)
    BY <2>2 DEF IInv, FeedOrdered
  <2>4. f.seq \in Nat
    BY <1>1 DEF Frames
  <2> QED BY <1>0, <2>1, <2>3, <2>4
<1>5. FeedOrdered'
  <2>1. \A i \in 1..Len(feed) : Ahead(i)' = Ahead(i + 1)
    BY <1>0, <1>1, <1>2 DEF Ahead
  <2>2. ASSUME NEW i \in 1..Len(feed')
        PROVE  /\ Ahead(i)' < feed'[i].seq /\ feed'[i].seq <= count'
               /\ feed'[i].reset <=> feed'[i].seq # Ahead(i)' + 1
    <3>1. i + 1 \in 1..Len(feed) /\ i \in 1..Len(feed) /\ feed'[i] = feed[i + 1]
      BY <1>0, <1>1, <1>2
    <3>2. Ahead(i)' = Ahead(i + 1)
      BY <2>1, <3>1
    <3>3. /\ Ahead(i + 1) < feed[i + 1].seq /\ feed[i + 1].seq <= count
          /\ feed[i + 1].reset <=> feed[i + 1].seq # Ahead(i + 1) + 1
      BY <3>1 DEF IInv, FeedOrdered
    <3> QED BY Zenon, <1>2, <3>1, <3>2, <3>3
  <2>3. Ahead(Len(feed) + 1)' = Ahead(Len(feed) + 1)
    BY <1>0, <1>1, <1>2 DEF Ahead
  <2>4. pendingReset <=> count # Ahead(Len(feed) + 1)
    BY DEF IInv, FeedOrdered
  <2>5. pendingReset' <=> count' # Ahead(Len(feed) + 1)'
    BY Zenon, <1>2, <2>3, <2>4
  <2>6. popped' <= count'
    BY <1>2, <1>4
  <2> QED BY Zenon, <2>2, <2>5, <2>6 DEF FeedOrdered
<1>6. ViewInv'
  <2> DEFINE w == OnUpdate(f)
  <2>1. /\ w.haveSeq /\ w.seq = f.seq
        /\ w.first = (IF view.haveSeq THEN view.first ELSE f.seq)
        /\ w.gaps = view.gaps + Missed(f)
        /\ w.midGaps = IF f.twoSided THEN view.gaps + Missed(f) ELSE view.midGaps
        /\ w.folded = IF f.twoSided /\ view.haveMid /\ ~Resets(f)
                      THEN (view.gaps + Missed(f)) - view.midGaps ELSE 0
    BY <1>1, <1>3, OnUpdateFields
  <2>2. w.haveMid => (view.haveMid /\ ~Resets(f)) \/ f.twoSided
    BY <1>1, <1>3, OnUpdateFields
  <2>3. view.first \in Nat /\ view.seq \in Nat /\ view.gaps \in Nat /\ view.midGaps \in Nat
    BY <1>3 DEF ViewType
  <2>4. Missed(f) \in Nat
    BY <1>4, <2>3 DEF Missed
  <2>5. view.haveMid => view.haveSeq /\ view.midGaps = view.gaps
    BY DEF IInv, ViewInv
  <2>6. (view.haveMid /\ ~Resets(f)) => Missed(f) = 0
    BY <1>0, <1>4, <2>3 DEF Resets, Missed
  <2>7. view.haveSeq => /\ Missed(f) = f.seq - (popped + 1) /\ view.first <= f.seq
                        /\ handled + view.gaps = popped - view.first + 1
    <3>1. view.haveSeq => /\ view.seq = popped /\ view.first <= view.seq
                          /\ handled + view.gaps = view.seq - view.first + 1
      BY DEF IInv, ViewInv
    <3>2. f.seq \in Nat /\ f.seq > popped
      BY <1>4
    <3> HIDE DEF f
    <3>3. ASSUME view.haveSeq PROVE Missed(f) = f.seq - (popped + 1) /\ view.first <= f.seq
      BY <1>0, <2>3, <3>1, <3>2, <3>3 DEF Missed
    <3> QED BY <3>1, <3>3
  <2>8. ~view.haveSeq => Missed(f) = 0 /\ handled = 0 /\ view.gaps = 0
    BY DEF Missed, IInv, ViewInv
  <2> HIDE DEF w
  <2>9. w.first <= w.seq /\ handled + 1 + w.gaps = w.seq - w.first + 1
    <3>1. w.seq = f.seq /\ w.gaps = view.gaps + Missed(f)
      BY <2>1
    <3>4. handled \in Nat /\ popped \in Nat /\ f.seq \in Nat
      BY <1>0, <1>4
    <3> HIDE DEF f
    <3>2. CASE view.haveSeq
      <4>1. w.first = view.first
        BY <2>1, <3>2 DEF f
      <4>2. /\ Missed(f) = f.seq - (popped + 1) /\ view.first <= f.seq
            /\ handled + view.gaps = popped - view.first + 1
        BY <2>7, <3>2
      <4> QED BY <2>3, <2>4, <3>1, <3>4, <4>1, <4>2
    <3>3. CASE ~view.haveSeq
      <4>1. w.first = f.seq
        BY <2>1, <3>3 DEF f
      <4> QED BY <2>3, <2>8, <3>1, <3>3, <3>4, <4>1
    <3> QED BY <3>2, <3>3
  <2>10. w.haveMid => w.midGaps = w.gaps
    BY <2>1, <2>2, <2>3, <2>4, <2>5, <2>6
  <2>11. w.folded = 0
    BY <2>1, <2>3, <2>4, <2>5, <2>6
  <2>12. view' = w
    BY <1>2 DEF w
  <2> QED BY <1>2, <2>1, <2>9, <2>10, <2>11, <2>12 DEF ViewInv
<1>7. view' \in ViewType
  BY <1>1, <1>2, <1>3, OnUpdateFields
<1> QED BY <1>0, <1>1, <1>2, <1>4, <1>5, <1>6, <1>7

-----------------------------------------------------------------------------
LEMMA NextIInv == IInv /\ [Next]_vars => IInv'
<1> SUFFICES ASSUME IInv, [Next]_vars PROVE IInv'
    OBVIOUS
<1> USE PipelineAssumption
<1>0. /\ TypeOK /\ FeedOrdered /\ ViewInv /\ StopInv
      /\ ring \in Seq(BOOLEAN) /\ Len(ring) \in Nat /\ produced \in Nat
  BY LenProperties DEF IInv, TypeOK
<1> DEFINE SameFeed == UNCHANGED <<feed, count, pendingReset, popped>>
           SameView == UNCHANGED <<view, handled, popped>>
<1>f. ASSUME SameFeed PROVE FeedOrdered'
  <2>1. \A i : Ahead(i)' = Ahead(i)
    BY <1>f DEF Ahead
  <2> QED BY <1>0, <1>f, <2>1 DEF FeedOrdered
<1>v. ASSUME SameView PROVE ViewInv'
  BY <1>0, <1>v DEF ViewInv
<1>1. CASE ExchangeLoop
  <2> USE <1>1 DEF ExchangeLoop, coreVars, execVars, stopVars
  <2>1. TypeOK'
    BY <1>0 DEF TypeOK
  <2>2. StopInv'
    BY <1>0 DEF StopInv
  <2> QED BY <1>f, <1>v, <2>1, <2>2 DEF IInv
<1>2. ASSUME NEW mine \in BOOLEAN, ParsePublish(mine) PROVE IInv'
  <2> USE <1>2 DEF ParsePublish, coreVars, execVars, stopVars
  <2>1. ring' \in Seq(BOOLEAN) /\ Len(ring') = Len(ring) + 1
    BY <1>0, AppendProperties
  <2>2. TypeOK'
    BY <1>0, <2>1 DEF TypeOK
  <2>3. StopInv'
    BY <1>0 DEF StopInv
  <2> QED BY <1>f, <1>v, <2>2, <2>3 DEF IInv
<1>3. CASE ParseSkip
  <2> USE <1>3 DEF ParseSkip, coreVars, execVars, stopVars
  <2>1. TypeOK'
    BY <1>0 DEF TypeOK
  <2>2. StopInv'
    BY <1>0 DEF StopInv
  <2> QED BY <1>f, <1>v, <2>1, <2>2 DEF IInv
<1>4. CASE ParseGiveUp
  <2> USE <1>4 DEF ParseGiveUp, coreVars, execVars, stopVars
  <2>1. TypeOK'
    BY <1>0 DEF TypeOK
  <2>2. StopInv'
    BY <1>0 DEF StopInv
  <2> QED BY <1>f, <1>v, <2>1, <2>2 DEF IInv
<1>r. ASSUME ring # <<>>, \E two \in BOOLEAN : Process(Head(ring), two), ring' = Tail(ring),
             UNCHANGED <<popped>>
      PROVE  /\ FeedOrdered'
             /\ count' \in Nat /\ dropped' \in Nat /\ pendingReset' \in BOOLEAN
             /\ feed' \in Seq(Frames) /\ Len(feed') <= FeedCapacity
             /\ ring' \in Seq(BOOLEAN) /\ Len(ring') <= RingCapacity
  <2>1. Head(ring) \in BOOLEAN /\ ring' \in Seq(BOOLEAN) /\ Len(ring') = Len(ring) - 1
    BY <1>0, <1>r, HeadTailProperties
  <2>2. Len(ring') <= RingCapacity
    BY <1>0, <2>1 DEF TypeOK
  <2>3. PICK two \in BOOLEAN : Process(Head(ring), two)
    BY <1>r
  <2> QED BY <1>r, <2>1, <2>2, <2>3, ProcessStep
<1>5. CASE CoreEvent
  <2> USE <1>5 DEF CoreEvent, exchangeVars, execVars, stopVars
  <2>1. /\ FeedOrdered'
        /\ count' \in Nat /\ dropped' \in Nat /\ pendingReset' \in BOOLEAN
        /\ feed' \in Seq(Frames) /\ Len(feed') <= FeedCapacity
        /\ ring' \in Seq(BOOLEAN) /\ Len(ring') <= RingCapacity
    BY <1>r
  <2>2. TypeOK'
    BY <1>0, <2>1 DEF TypeOK, Frames
  <2>3. StopInv'
    BY <1>0 DEF StopInv, TypeOK
  <2> QED BY <1>v, <2>1, <2>2, <2>3 DEF IInv
<1>6. CASE CoreLeave
  <2> USE <1>6 DEF CoreLeave, exchangeVars, execVars, stopVars
  <2>1. TypeOK'
    BY <1>0 DEF TypeOK
  <2>2. StopInv'
    BY <1>0 DEF StopInv
  <2> QED BY <1>f, <1>v, <2>1, <2>2 DEF IInv
<1>7. CASE CoreDrain
  <2> USE <1>7 DEF CoreDrain, exchangeVars, execVars, stopVars
  <2>1. CASE ring # <<>>
    <3>1. /\ FeedOrdered'
          /\ count' \in Nat /\ dropped' \in Nat /\ pendingReset' \in BOOLEAN
          /\ feed' \in Seq(Frames) /\ Len(feed') <= FeedCapacity
          /\ ring' \in Seq(BOOLEAN) /\ Len(ring') <= RingCapacity
      BY <1>r, <2>1
    <3>2. TypeOK'
      BY <1>0, <2>1, <3>1 DEF TypeOK, Frames
    <3>3. StopInv'
      BY <1>0, <2>1 DEF StopInv
    <3> QED BY <1>v, <3>1, <3>2, <3>3 DEF IInv
  <2>2. CASE ring = <<>>
    <3>1. TypeOK'
      BY <1>0, <2>2 DEF TypeOK
    <3>2. StopInv'
      BY <1>0, <2>2 DEF StopInv
    <3> QED BY <1>f, <1>v, <2>2, <3>1, <3>2 DEF IInv
  <2> QED BY <2>1, <2>2
<1>8. CASE HandleFrame
  <2>1. /\ FeedOrdered' /\ ViewInv'
        /\ view' \in ViewType /\ handled' \in Nat /\ popped' \in Nat
        /\ feed' \in Seq(Frames) /\ Len(feed') <= FeedCapacity
    BY <1>8, HandleStep
  <2> USE <1>8 DEF HandleFrame, exchangeVars, coreVars, stopVars
  <2>2. TypeOK'
    BY <1>0, <2>1 DEF TypeOK, Frames, ViewType
  <2>3. StopInv'
    BY <1>0 DEF StopInv
  <2> QED BY <2>1, <2>2, <2>3 DEF IInv
<1>9. CASE ExecStop
  <2> USE <1>9 DEF ExecStop, exchangeVars, coreVars, stopVars
  <2>1. TypeOK'
    BY <1>0 DEF TypeOK
  <2>2. StopInv'
    BY <1>0 DEF StopInv
  <2> QED BY <1>f, <1>v, <2>1, <2>2 DEF IInv
<1>10. CASE ExecDrained
  <2> USE <1>10 DEF ExecDrained, exchangeVars, coreVars, stopVars
  <2>1. TypeOK'
    BY <1>0 DEF TypeOK
  <2>2. StopInv'
    BY <1>0 DEF StopInv
  <2> QED BY <1>f, <1>v, <2>1, <2>2 DEF IInv
<1>11. CASE ExecRespawn
  <2> USE <1>11 DEF ExecRespawn, exchangeVars, coreVars, stopVars
  <2>1. NewView \in ViewType
    BY DEF NewView, ViewType
  <2>2. TypeOK'
    BY <1>0, <2>1 DEF TypeOK, ViewType
  <2>3. StopInv'
    BY <1>0 DEF StopInv
  <2>4. ViewInv'
    BY DEF ViewInv, NewView
  <2> QED BY <1>f, <2>2, <2>3, <2>4 DEF IInv
<1>12. CASE ManagerShutdown
  <2> USE <1>12 DEF ManagerShutdown, exchangeVars, coreVars, execVars, stopVars
  <2>1. TypeOK'
    BY <1>0 DEF TypeOK
  <2>2. StopInv'
    BY <1>0 DEF StopInv
  <2> QED BY <1>f, <1>v, <2>1, <2>2 DEF IInv
<1>13. CASE UNCHANGED vars
  <2> USE <1>13 DEF vars, exchangeVars, coreVars, execVars, stopVars
  <2>1. TypeOK'
    BY <1>0 DEF TypeOK
  <2>2. StopInv'
    BY <1>0 DEF StopInv
  <2> QED BY <1>f, <1>v, <2>1, <2>2 DEF IInv
<1>14. CASE ExecStart
  <2> USE <1>14 DEF ExecStart, exchangeVars, coreVars, stopVars
  <2>1. TypeOK'
    BY <1>0 DEF TypeOK
  <2>2. StopInv'
    BY <1>0 DEF StopInv
  <2> QED BY <1>f, <1>v, <2>1, <2>2 DEF IInv
<1> QED BY <1>1, <1>2, <1>3, <1>4, <1>5, <1>6, <1>7, <1>8, <1>9, <1>10, <1>11, <1>12, <1>13, <1>14
        DEF Next, Exchange, Core, Exec

\* The inductive invariant holds in every state of the feed path.
THEOREM Invariance == Spec => []IInv
BY InitIInv, NextIInv, PTL DEF Spec

\* Types hold and neither ring ever exceeds its capacity.
THEOREM TypeCorrect == Spec => []TypeOK
BY Invariance, PTL DEF IInv

\* FEED_RESET marks exactly the frames behind a gap, however long core's drops
\* go on and wherever exec dies in between.
THEOREM ResetExact == Spec => []ResetMarksGap
<1>1. IInv => ResetMarksGap
  <2> SUFFICES ASSUME IInv PROVE ResetMarksGap
    OBVIOUS
  <2>1. DOMAIN feed = 1..Len(feed)
    BY LenProperties DEF IInv, TypeOK
  <2> QED BY <2>1 DEF IInv, FeedOrdered, Ahead, ResetMarksGap
<1> QED BY <1>1, Invariance, PTL

\* Exec handles or counts every frame since its first one, and folds no move of
\* the mid across a gap into the volatility.
THEOREM NothingMissedSilently == Spec => []GapsAccounted
<1>1. IInv => GapsAccounted
  BY DEF IInv, ViewInv, GapsAccounted
<1> QED BY <1>1, Invariance, PTL

\* A run that max_events ends leaves no published frame unhandled.
THEOREM DrainComplete == Spec => []MaxEventsRunComplete
<1>1. IInv => MaxEventsRunComplete
  BY DEF IInv, StopInv, MaxEventsRunComplete, AllDone
<1> QED BY <1>1, Invariance, PTL
=============================================================================
