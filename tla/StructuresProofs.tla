-------------------------- MODULE StructuresProofs --------------------------
(***************************************************************************)
(* Proofs about the components that stand alone: DashboardFeed, RateModel, *)
(* EventSlots, Loader, ConfigFile, Account, LevelBitmap, HashTables and    *)
(* Histogram.                                                              *)
(***************************************************************************)
EXTENDS DashboardFeed, RateModel, EventSlots, Loader, ConfigFile, Account, LevelBitmap, HashTables, Histogram,
        FoldTheorems, SequenceTheorems, FiniteSetTheorems, TLAPS

-----------------------------------------------------------------------------
(* DashboardFeed: the way of the book to the screen.                       *)

Shown == [seq : Nat, whole : BOOLEAN, ticks : Int]

FeedTypeOK ==
    /\ stored \in Nat /\ prevSeq \in Nat
    /\ local \in [seq : Nat, whole : BOOLEAN]
    /\ ring \in Seq(Shown) /\ latest \in Shown /\ shownBook \in Shown

\* A frame that may be shown: whole, with a difference that did not wrap.
Sound(f) == f.whole /\ f.ticks >= 0

\* A snapshot about to be published is whole and not older than the last one
\* published; from the screen back to the publisher the frames get newer.
FeedInv ==
    /\ snap = "publish" => local.whole /\ prevSeq <= local.seq /\ local.seq <= stored
    /\ Sound(shownBook) /\ Sound(latest) /\ \A i \in 1..Len(ring) : Sound(ring[i])
    /\ shownBook.seq <= latest.seq /\ latest.seq <= prevSeq /\ prevSeq <= stored
    /\ \A i \in 1..Len(ring) : latest.seq <= ring[i].seq /\ ring[i].seq <= prevSeq
    /\ \A i, j \in 1..Len(ring) : i <= j => ring[i].seq <= ring[j].seq

FeedIInv == FeedTypeOK /\ FeedInv

LEMMA FeedInit == Init => FeedIInv
<1> SUFFICES ASSUME Init PROVE FeedIInv
  OBVIOUS
<1>1. Nothing \in Shown /\ Sound(Nothing) /\ Nothing.seq = 0
  BY DEF Nothing, Shown, Sound
<1>2. ring = <<>> /\ Len(ring) = 0 /\ ring \in Seq(Shown)
  BY EmptySeq DEF Init
<1>3. FeedTypeOK
  BY <1>1, <1>2 DEF Init, FeedTypeOK
<1>4. FeedInv
  BY <1>1, <1>2 DEF Init, FeedInv
<1> QED BY <1>3, <1>4 DEF FeedIInv

\* core's hot thread and the snapshotter's loads.
LEMMA LoadsStep ==
    ASSUME FeedIInv, StoreBegin \/ StoreEnd \/ CoreStops \/ CoreJoins \/ SnapCheck
                     \/ LoadBegin \/ LoadEnd \/ UiExit
    PROVE  FeedIInv'
<1> USE DEF FeedIInv
<1>1. UNCHANGED <<prevSeq, ring, latest, shownBook>>
  BY DEF StoreBegin, StoreEnd, CoreStops, CoreJoins, SnapCheck, LoadBegin, LoadEnd, UiExit,
         coreVars, snapVars, uiVars
<1>2. stored' \in Nat /\ stored <= stored'
  BY DEF StoreBegin, StoreEnd, CoreStops, CoreJoins, SnapCheck, LoadBegin, LoadEnd, UiExit,
         coreVars, FeedTypeOK
<1>3. /\ local' \in [seq : Nat, whole : BOOLEAN]
      /\ snap' = "publish" => local'.whole /\ prevSeq <= local'.seq /\ local'.seq <= stored'
  <2>1. CASE LoadEnd
    <3>1. [seq |-> stored, whole |-> FALSE] \in [seq : Nat, whole : BOOLEAN]
      BY DEF FeedTypeOK
    <3>2. [seq |-> stored, whole |-> TRUE] \in [seq : Nat, whole : BOOLEAN]
      BY DEF FeedTypeOK
    <3>3. CASE storing \/ stored # pre
      BY <2>1, <3>1, <3>3 DEF LoadEnd, Refused
    <3>4. CASE ~(storing \/ stored # pre)
      <4>1. local' = [seq |-> stored, whole |-> TRUE] /\ stored' = stored
        BY <2>1, <3>4 DEF LoadEnd, coreVars
      <4>2. local'.whole /\ local'.seq = stored
        BY <4>1
      <4>3. stored <= stored /\ prevSeq <= stored
        BY DEF FeedTypeOK, FeedInv
      <4> QED BY <3>2, <4>1, <4>2, <4>3
    <3> QED BY <3>3, <3>4
  <2>2. CASE LoadBegin
    BY <2>2 DEF LoadBegin, Refused, FeedTypeOK
  <2>3. CASE SnapCheck
    BY <2>3 DEF SnapCheck, FeedTypeOK
  <2>4. CASE StoreBegin \/ StoreEnd \/ CoreStops \/ CoreJoins \/ UiExit
    <3>1. UNCHANGED <<snap, local>>
      BY <2>4 DEF StoreBegin, StoreEnd, CoreStops, CoreJoins, UiExit, snapVars
    <3> QED BY <1>2, <3>1 DEF FeedTypeOK, FeedInv
  <2> QED BY <2>1, <2>2, <2>3, <2>4
<1>4. FeedTypeOK'
  BY <1>1, <1>2, <1>3 DEF FeedTypeOK
<1>5. prevSeq <= stored'
  BY <1>2 DEF FeedTypeOK, FeedInv
<1>6. FeedInv'
  BY <1>1, <1>3, <1>5 DEF FeedInv
<1> QED BY <1>4, <1>6

LEMMA PublishStep ==
    ASSUME FeedIInv, Publish
    PROVE  FeedIInv'
<1> USE DEF FeedIInv
<1> DEFINE f == [seq |-> local.seq, whole |-> local.whole,
                 ticks |-> IF prevSeq = 0 THEN 0 ELSE local.seq - prevSeq]
<1>1. /\ local.whole /\ local.seq \in Nat /\ prevSeq <= local.seq /\ local.seq <= stored
      /\ prevSeq \in Nat
  BY DEF Publish, FeedInv, FeedTypeOK
<1>2. f \in Shown /\ Sound(f) /\ f.seq = local.seq
  <2>1. (IF prevSeq = 0 THEN 0 ELSE local.seq - prevSeq) \in Nat
    BY <1>1
  <2>2. local.whole \in BOOLEAN
    BY DEF FeedTypeOK
  <2> QED BY <1>1, <2>1, <2>2 DEF Shown, Sound
<1>3. /\ prevSeq' = local.seq /\ snap' = "check"
      /\ UNCHANGED <<stored, local, latest, shownBook>>
      /\ ring' = ring \/ ring' = Append(ring, f)
  BY DEF Publish, coreVars, uiVars
<1> HIDE DEF f
<1>4. /\ Len(ring) \in Nat /\ \A i \in 1..Len(ring) : ring[i] \in Shown
      /\ latest \in Shown /\ shownBook \in Shown
  BY LenProperties, ElementOfSeq DEF FeedTypeOK
<1>5. /\ latest.seq \in Nat /\ shownBook.seq \in Nat
      /\ \A i \in 1..Len(ring) : ring[i].seq \in Nat
  BY <1>4 DEF Shown
<1>6. CASE ring' = ring
  <2>1. FeedTypeOK'
    BY <1>1, <1>3, <1>6 DEF FeedTypeOK
  <2>2. \A i \in 1..Len(ring) : latest.seq <= ring[i].seq /\ ring[i].seq <= local.seq
    BY <1>1, <1>5 DEF FeedInv
  <2>3. latest.seq <= local.seq
    BY <1>1, <1>5 DEF FeedInv
  <2>4. FeedInv'
    BY <1>1, <1>3, <1>6, <2>2, <2>3 DEF FeedInv
  <2> QED BY <2>1, <2>4
<1>7. CASE ring' = Append(ring, f)
  <2>1. /\ ring' \in Seq(Shown) /\ Len(ring') = Len(ring) + 1
        /\ \A i \in 1..Len(ring) : ring'[i] = ring[i]
        /\ ring'[Len(ring) + 1] = f
    BY <1>2, <1>7, AppendProperties DEF FeedTypeOK
  <2>2. FeedTypeOK'
    BY <1>1, <1>3, <2>1 DEF FeedTypeOK
  <2>3. ASSUME NEW i \in 1..(Len(ring) + 1)
        PROVE  /\ Sound(ring'[i]) /\ latest.seq <= ring'[i].seq /\ ring'[i].seq <= local.seq
               /\ i = Len(ring) + 1 => ring'[i].seq = local.seq
               /\ i # Len(ring) + 1 => i \in 1..Len(ring) /\ ring'[i] = ring[i]
    <3>1. CASE i = Len(ring) + 1
      BY <1>1, <1>2, <1>4, <1>5, <2>1, <3>1 DEF FeedInv
    <3>2. CASE i \in 1..Len(ring)
      BY <1>1, <1>4, <1>5, <2>1, <3>2 DEF FeedInv
    <3> QED BY <1>4, <3>1, <3>2
  <2>4. ASSUME NEW i \in 1..(Len(ring) + 1), NEW j \in 1..(Len(ring) + 1), i <= j
        PROVE  ring'[i].seq <= ring'[j].seq
    <3>1. CASE j = Len(ring) + 1
      BY <2>3, <3>1
    <3>2. CASE j # Len(ring) + 1
      <4>1. i # Len(ring) + 1 /\ i \in 1..Len(ring) /\ j \in 1..Len(ring)
        BY <1>4, <2>4, <3>2
      <4> QED BY <2>1, <2>4, <4>1 DEF FeedInv
    <3> QED BY <3>1, <3>2
  <2>5. latest.seq <= local.seq
    BY <1>1, <1>5 DEF FeedInv
  <2>6. FeedInv'
    BY <1>1, <1>3, <2>1, <2>3, <2>4, <2>5 DEF FeedInv
  <2> QED BY <2>2, <2>6
<1> QED BY <1>3, <1>6, <1>7

LEMMA UiFrameStep ==
    ASSUME FeedIInv, UiFrame
    PROVE  FeedIInv'
<1> USE DEF FeedIInv
<1>1. /\ Len(ring) \in Nat /\ \A i \in 1..Len(ring) : ring[i] \in Shown
      /\ latest \in Shown /\ shownBook \in Shown
  BY LenProperties, ElementOfSeq DEF FeedTypeOK
<1>2. /\ latest.seq \in Nat /\ shownBook.seq \in Nat
      /\ \A i \in 1..Len(ring) : ring[i].seq \in Nat
  BY <1>1 DEF Shown
<1>3. /\ ring' = <<>> /\ UNCHANGED <<stored, prevSeq, local, snap>>
      /\ latest' = IF ring = <<>> THEN latest ELSE ring[Len(ring)]
      /\ shownBook' = shownBook \/ shownBook' = latest'
  BY DEF UiFrame, coreVars, snapVars
<1>4. ring = <<>> \/ Len(ring) \in 1..Len(ring)
  BY <1>1, EmptySeq DEF FeedTypeOK
<1>5. /\ latest' \in Shown /\ Sound(latest') /\ latest.seq <= latest'.seq
      /\ latest'.seq <= prevSeq
  BY <1>1, <1>2, <1>3, <1>4 DEF FeedInv
<1>6. latest'.seq \in Nat
  BY <1>5 DEF Shown
<1>7. shownBook' \in Shown /\ Sound(shownBook') /\ shownBook'.seq <= latest'.seq
  BY <1>1, <1>2, <1>3, <1>5, <1>6 DEF FeedInv
<1>8. ring' \in Seq(Shown) /\ Len(ring') = 0
  BY <1>3, EmptySeq
<1>9. FeedTypeOK'
  BY <1>3, <1>5, <1>7, <1>8 DEF FeedTypeOK
<1>10. FeedInv'
  BY <1>3, <1>5, <1>7, <1>8 DEF FeedInv
<1> QED BY <1>9, <1>10

\* What reaches the screen are whole snapshots in the order of the feed, and no
\* tick rate wraps, whatever loads were refused and frames dropped
\* (run_snapshotter, DashboardPublisher, run_ui), for every ring size.
THEOREM FeedShownInOrder == Spec => []ShownInOrder
<1>1. FeedIInv /\ [Next]_vars => FeedIInv'
  <2> SUFFICES ASSUME FeedIInv, [Next]_vars PROVE FeedIInv'
    OBVIOUS
  <2>1. CASE Next
    BY <2>1, LoadsStep, PublishStep, UiFrameStep DEF Next, Snapshotter
  <2>2. CASE UNCHANGED vars
    BY <2>2 DEF vars, FeedIInv, FeedTypeOK, FeedInv
  <2> QED BY <2>1, <2>2
<1>2. FeedIInv => ShownInOrder
  <2> SUFFICES ASSUME FeedIInv PROVE ShownInOrder
    OBVIOUS
  <2> DEFINE two == <<shownBook, latest>>
             line == two \o ring
  <2>1. two \in Seq(Shown) /\ Len(two) = 2 /\ two[1] = shownBook /\ two[2] = latest
    <3>1. shownBook \in Shown /\ latest \in Shown
      BY DEF FeedIInv, FeedTypeOK
    <3> QED BY ONLY <3>1
  <2>2. /\ ring \in Seq(Shown) /\ Len(ring) \in Nat
        /\ \A i \in 1..Len(ring) : ring[i].seq \in Nat
        /\ shownBook.seq \in Nat /\ latest.seq \in Nat /\ prevSeq \in Nat
    <3>1. /\ Len(ring) \in Nat /\ \A i \in 1..Len(ring) : ring[i] \in Shown
      BY LenProperties, ElementOfSeq DEF FeedIInv, FeedTypeOK
    <3> QED BY <3>1 DEF FeedIInv, FeedTypeOK, Shown
  <2> HIDE DEF two
  <2>3. /\ line \in Seq(Shown) /\ Len(line) = 2 + Len(ring)
        /\ \A i \in 1..Len(line) :
              line[i] = IF i <= 2 THEN two[i] ELSE ring[i - 2]
    <3>1. /\ line \in Seq(Shown) /\ Len(line) = Len(two) + Len(ring)
          /\ \A i \in 1..(Len(two) + Len(ring)) :
                line[i] = IF i <= Len(two) THEN two[i] ELSE ring[i - Len(two)]
      BY ONLY <2>1, <2>2, ConcatProperties
    <3> HIDE DEF line
    <3> QED BY <2>1, <2>2, <3>1
  <2> HIDE DEF line
  <2>4. ASSUME NEW i \in 1..Len(line)
        PROVE  \/ i = 1 /\ line[i] = shownBook
               \/ i = 2 /\ line[i] = latest
               \/ i - 2 \in 1..Len(ring) /\ line[i] = ring[i - 2]
    BY <2>1, <2>2, <2>3
  <2>5. ASSUME NEW i \in 1..Len(line) PROVE line[i].whole /\ line[i].ticks >= 0
    BY <2>4 DEF FeedIInv, FeedInv, Sound
  <2>6. ASSUME NEW i \in 1..(Len(line) - 1) PROVE line[i].seq <= line[i + 1].seq
    <3>1. i \in 1..Len(line) /\ i + 1 \in 1..Len(line)
      BY <2>2, <2>3
    <3>2. CASE i = 1
      BY <2>4, <3>1, <3>2 DEF FeedIInv, FeedInv
    <3>3. CASE i = 2
      BY <2>4, <3>1, <3>3 DEF FeedIInv, FeedInv
    <3>4. CASE i - 2 \in 1..Len(ring)
      <4>1. line[i] = ring[i - 2]
        BY <2>4, <3>1, <3>4
      <4>2. (i + 1) - 2 = i - 1 /\ i - 1 \in 1..Len(ring) /\ line[i + 1] = ring[i - 1]
        BY <2>4, <3>1, <3>4
      <4> QED BY <3>4, <4>1, <4>2 DEF FeedIInv, FeedInv
    <3> QED BY <2>4, <3>1, <3>2, <3>3, <3>4
  <2>7. line[Len(line)].seq <= prevSeq /\ prevSeq <= stored
    <3>1. Len(line) \in 1..Len(line)
      BY <2>2, <2>3
    <3>2. shownBook.seq <= prevSeq
      BY <2>2 DEF FeedIInv, FeedInv
    <3>3. CASE line[Len(line)] = shownBook \/ line[Len(line)] = latest
      BY <3>2, <3>3 DEF FeedIInv, FeedInv
    <3>4. CASE Len(line) - 2 \in 1..Len(ring) /\ line[Len(line)] = ring[Len(line) - 2]
      BY <3>4 DEF FeedIInv, FeedInv
    <3> QED BY <2>4, <3>1, <3>3, <3>4 DEF FeedIInv, FeedInv
  <2> QED BY <2>5, <2>6, <2>7 DEF ShownInOrder, line, two
<1> QED BY FeedInit, <1>1, <1>2, PTL DEF Spec

-----------------------------------------------------------------------------
(* RateModel: the exec's counter against the venue's.                      *)

\* What decays while a request is under way: nothing in a replay.
Slack == IF replay THEN 0 ELSE Decay * MaxTransit

RateTypeOK ==
    /\ replay \in BOOLEAN /\ now \in Nat \ {0} /\ count \in Nat /\ last \in Nat
    /\ tack \in [RateOrder -> Nat] /\ vack \in [RateOrder -> Nat]
    /\ wire \in Seq([op : RateOp, order : RateOrder, sent : Nat])
    /\ acks \subseteq RateOrder /\ venue \in Nat /\ refused \in BOOLEAN

\* The exec dates an order no earlier than the venue does, an add on its way is
\* of an order nobody has dated, and nothing is under way for too long.
DatesInv ==
    /\ \A o \in RateOrder : tack[o] # 0 => vack[o] # 0 /\ vack[o] <= tack[o]
    /\ \A o \in acks : vack[o] # 0 /\ vack[o] <= now
    /\ \A k \in 1..Len(wire) : wire[k].op = "Add" =>
          /\ vack[wire[k].order] = 0
          /\ \A j \in 1..(k - 1) : wire[j].order # wire[k].order
    /\ ~replay => /\ last <= now
                  /\ \A k \in 1..Len(wire) : wire[k].sent <= now
                                             /\ now - wire[k].sent <= MaxTransit

\* What the venue would charge for a request under way.
VenueCost(r) == KrakenRateCost(r.op, Age(r.op, vack[r.order]))

\* S[k] is what the exec charged for the first k requests under way: no less
\* than the venue will.  With all of it the venue is not ahead by more than the
\* slack; what was charged since a request was sent has decayed only since then;
\* and what an add or an amend found, with its cost, was within the margin.
Charges(S) ==
    LET n == Len(wire)
    IN  /\ S \in [0..n -> Nat] /\ S[0] = 0
        /\ \A j, k \in 0..n : j <= k => S[j] <= S[k]
        /\ \A k \in 1..n : S[k - 1] + VenueCost(wire[k]) <= S[k]
        /\ venue + S[n] <= Count + Slack
        /\ ~replay => \A k \in 1..n : S[n] <= Count + Decay * (now - wire[k].sent) + S[k - 1]
        /\ \A k \in 1..n : wire[k].op # "Cancel" => Count + S[k] <= (RateMax - RateMargin) + S[n]

RateIInv ==
    /\ RateTypeOK /\ DatesInv
    /\ \E S : Charges(S)
    /\ MarginCoversTransit

LEMMA CostType ==
    ASSUME NEW op \in RateOp, NEW a \in Int
    PROVE  KrakenRateCost(op, a) \in Nat
BY DEF RateOp, KrakenRateCost

\* An order costs no more when it is older, nor more than one just entered.
LEMMA CostFalls ==
    ASSUME NEW op \in RateOp, NEW a \in Int, NEW b \in Int, a <= b
    PROVE  KrakenRateCost(op, b) <= KrakenRateCost(op, a)
BY DEF RateOp, KrakenRateCost

LEMMA CostOfNew ==
    ASSUME NEW op \in RateOp, NEW a \in Int
    PROVE  KrakenRateCost(op, a) <= KrakenRateCost(op, 0)
BY DEF RateOp, KrakenRateCost

LEMMA Scales ==
    ASSUME NEW c \in Nat, NEW a \in Int, NEW b \in Int, a <= b
    PROVE  c * a <= c * b
BY SMT

LEMMA CountType ==
    ASSUME RateTypeOK
    PROVE  Count \in Nat
<1>1. Decay * (now - last) \in Int
  BY RateAssumption DEF RateTypeOK
<1> QED BY <1>1 DEF RateTypeOK, Count, Floor0

LEMMA SlackType ==
    ASSUME RateTypeOK
    PROVE  Slack \in Nat
BY RateAssumption DEF Slack, RateTypeOK

LEMMA AgeType ==
    ASSUME RateTypeOK, NEW op \in RateOp, NEW t \in Nat
    PROVE  Age(op, t) \in Int
BY DEF RateTypeOK, Age

\* A charge adds its cost, whatever has or has not decayed.
LEMMA ChargeCount ==
    ASSUME RateTypeOK, NEW op \in RateOp, NEW age \in Int, Charge(op, age), now' = now
    PROVE  Count' = Count + KrakenRateCost(op, age) /\ count' \in Nat /\ last' \in Nat
<1>1. Count \in Nat /\ KrakenRateCost(op, age) \in Nat
  BY CountType, CostType
<1>2. now <= last'
  BY DEF Charge, RateTypeOK
<1> QED BY <1>1, <1>2 DEF Charge, Count, RateTypeOK

\* Time passes: the count falls by no more than what decays in it.
LEMMA AdvanceCount ==
    ASSUME RateTypeOK, NEW d \in Nat, now' = now + d, UNCHANGED <<count, last>>
    PROVE  Count' \in Nat /\ Count <= Count' + Decay * d /\ Count' <= Count
<1> DEFINE e == Decay * d
           f == Decay * (now - last)
           g == Decay * ((now + d) - last)
<1>1. e \in Nat /\ f \in Int /\ g \in Int /\ g = e + f
  BY RateAssumption DEF RateTypeOK
<1>2. now > last => f >= 0
  BY RateAssumption, Scales DEF RateTypeOK
<1>3. now <= last => g <= e
  <2>1. now <= last => (now + d) - last <= d
    BY DEF RateTypeOK
  <2> QED BY <2>1, RateAssumption, Scales DEF RateTypeOK
<1>4. now + d > last => g >= 0
  BY RateAssumption, Scales DEF RateTypeOK
<1>5. Count = IF now <= last THEN count ELSE Floor0(count - f)
  BY DEF Count
<1>6. Count' = IF now + d <= last THEN count ELSE Floor0(count - g)
  BY DEF Count
<1> HIDE DEF e, f, g
<1>7. Count' \in Nat /\ Count <= Count' + e /\ Count' <= Count
  BY <1>1, <1>2, <1>3, <1>4, <1>5, <1>6 DEF Floor0, RateTypeOK
<1> QED BY <1>7 DEF e

LEMMA RateInitIInv == RateInit => RateIInv
<1> SUFFICES ASSUME RateInit PROVE RateIInv
  OBVIOUS
<1>1. wire = <<>> /\ Len(wire) = 0 /\ wire \in Seq([op : RateOp, order : RateOrder, sent : Nat])
  BY EmptySeq DEF RateInit
<1>2. RateTypeOK
  <2>1. replay \in BOOLEAN /\ refused \in BOOLEAN
    BY DEF RateInit
  <2>2. tack \in [RateOrder -> Nat] /\ vack \in [RateOrder -> Nat]
    BY DEF RateInit
  <2>3. /\ now \in Nat \ {0} /\ count \in Nat /\ last \in Nat /\ venue \in Nat
        /\ acks \subseteq RateOrder
    BY DEF RateInit
  <2> QED BY ONLY <1>1, <2>1, <2>2, <2>3 DEF RateTypeOK
<1>3. DatesInv
  BY <1>1 DEF RateInit, DatesInv
<1>4. Charges([k \in 0..0 |-> 0])
  BY <1>1, <1>2, CountType, SlackType DEF RateInit, Charges
<1> QED BY <1>2, <1>3, <1>4 DEF RateInit, RateIInv, MarginCoversTransit

LEMMA WireFacts ==
    ASSUME RateTypeOK
    PROVE  /\ Len(wire) \in Nat
           /\ \A k \in 1..Len(wire) :
                 /\ wire[k] \in [op : RateOp, order : RateOrder, sent : Nat]
                 /\ wire[k].op \in RateOp /\ wire[k].order \in RateOrder /\ wire[k].sent \in Nat
                 /\ vack[wire[k].order] \in Nat
                 /\ VenueCost(wire[k]) \in Nat
<1>1. /\ Len(wire) \in Nat
      /\ \A k \in 1..Len(wire) : wire[k] \in [op : RateOp, order : RateOrder, sent : Nat]
  BY LenProperties, ElementOfSeq DEF RateTypeOK
<1>2. ASSUME NEW k \in 1..Len(wire)
      PROVE  /\ wire[k].op \in RateOp /\ wire[k].order \in RateOrder /\ wire[k].sent \in Nat
             /\ vack[wire[k].order] \in Nat
  BY <1>1 DEF RateTypeOK
<1>3. ASSUME NEW k \in 1..Len(wire) PROVE VenueCost(wire[k]) \in Nat
  BY <1>2, AgeType, CostType DEF VenueCost
<1> QED BY <1>1, <1>2, <1>3

\* submit, replace and cancel.
LEMMA RequestStep ==
    ASSUME RateIInv, NEW op \in RateOp, NEW o \in RateOrder, Request(op, o)
    PROVE  RateIInv'
<1> USE DEF RateIInv
<1> DEFINE age == Age(op, tack[o])
           c == KrakenRateCost(op, age)
           r == [op |-> op, order |-> o, sent |-> now]
           n == Len(wire)
           Msg == [op : RateOp, order : RateOrder, sent : Nat]
<1>0. /\ wire' = Append(wire, r) /\ Charge(op, age)
      /\ UNCHANGED <<replay, now, tack, acks, venue, vack, refused>>
      /\ op = "Add" => NewId(o)
      /\ op # "Cancel" => WouldAllow(op, age)
  BY DEF Request
<1>1. age \in Int /\ tack[o] \in Nat /\ vack[o] \in Nat
  BY AgeType DEF RateTypeOK
<1>2. c \in Nat /\ Count \in Nat /\ Count' = Count + c /\ count' \in Nat /\ last' \in Nat
  BY <1>0, <1>1, CostType, CountType, ChargeCount
<1>3. n \in Nat /\ wire \in Seq(Msg) /\ r \in Msg
  BY WireFacts DEF RateTypeOK
<1>4. /\ wire' \in Seq(Msg) /\ Len(wire') = n + 1
      /\ \A k \in 1..n : wire'[k] = wire[k]
      /\ wire'[n + 1] = r
  <2> HIDE DEF r, Msg
  <2> QED BY <1>0, <1>3, AppendProperties
<1>5. r.op = op /\ r.order = o /\ r.sent = now
  OBVIOUS
<1>6. RateTypeOK'
  BY <1>0, <1>2, <1>4 DEF RateTypeOK
<1>7. VenueCost(r) <= c /\ VenueCost(r) \in Nat
  <2>1. tack[o] = 0 \/ op = "Add" => c = KrakenRateCost(op, 0)
    BY DEF Age
  <2>2. Age(op, vack[o]) \in Int
    BY <1>1, AgeType
  <2>3. CASE tack[o] = 0 \/ op = "Add"
    BY <2>1, <2>2, <2>3, <1>5, CostOfNew, CostType DEF VenueCost
  <2>4. CASE tack[o] # 0 /\ op # "Add"
    <3>1. vack[o] # 0 /\ vack[o] <= tack[o]
      BY <2>4 DEF DatesInv
    <3>2. age <= Age(op, vack[o])
      BY <1>1, <2>4, <3>1 DEF Age, RateTypeOK
    <3> HIDE DEF age
    <3> QED BY <1>1, <1>5, <2>2, <3>2, CostFalls, CostType DEF VenueCost
  <2> QED BY <2>3, <2>4
<1> HIDE DEF r, c, age, n
<1>8. DatesInv'
  <2>1. ~replay => last' <= now
    BY <1>0 DEF Charge, RateTypeOK, DatesInv
  <2>2. ASSUME NEW k \in 1..(n + 1), wire'[k].op = "Add"
        PROVE  /\ vack[wire'[k].order] = 0
               /\ \A j \in 1..(k - 1) : wire'[j].order # wire'[k].order
    <3>1. \A j \in 1..(k - 1) : j \in 1..n
      BY <1>3
    <3>2. CASE k = n + 1
      BY <1>0, <1>4, <1>5, <2>2, <3>1, <3>2 DEF NewId, n
    <3>3. CASE k \in 1..n
      BY <1>4, <2>2, <3>1, <3>3 DEF DatesInv, n
    <3> QED BY <1>3, <3>2, <3>3
  <2>3. ASSUME ~replay, NEW k \in 1..(n + 1)
        PROVE  wire'[k].sent <= now /\ now - wire'[k].sent <= MaxTransit
    <3>1. CASE k = n + 1
      BY <1>4, <1>5, <3>1, RateAssumption DEF RateTypeOK
    <3>2. CASE k \in 1..n
      BY <1>4, <2>3, <3>2 DEF DatesInv, n
    <3> QED BY <1>3, <3>1, <3>2
  <2> QED BY <1>0, <1>4, <2>1, <2>2, <2>3 DEF DatesInv, n
<1>9. PICK S : Charges(S)
  OBVIOUS
<1> DEFINE U == [k \in 0..(n + 1) |-> IF k = n + 1 THEN S[n] + c ELSE S[k]]
<1>10. /\ S \in [0..n -> Nat] /\ S[0] = 0 /\ S[n] \in Nat
       /\ \A k \in 1..n : S[k - 1] \in Nat /\ S[k] \in Nat
  <2>1. S \in [0..n -> Nat] /\ S[0] = 0
    BY <1>9 DEF Charges, n
  <2>2. n \in 0..n /\ \A k \in 1..n : k - 1 \in 0..n /\ k \in 0..n
    BY <1>3
  <2> QED BY <2>1, <2>2
<1>11. PICK V : /\ V \in [0..(n + 1) -> Nat] /\ V[0] = 0 /\ V[n + 1] = S[n] + c /\ V[n] = S[n]
                /\ \A k \in 1..n : V[k] = S[k] /\ V[k - 1] = S[k - 1]
  <2>1. /\ U \in [0..(n + 1) -> Nat] /\ U[0] = 0 /\ U[n + 1] = S[n] + c /\ U[n] = S[n]
        /\ \A k \in 1..n : U[k] = S[k] /\ U[k - 1] = S[k - 1]
    BY <1>2, <1>3, <1>10
  <2> HIDE DEF U
  <2> QED BY <2>1
<1>12. \A x : VenueCost(x)' = KrakenRateCost(x.op, Age(x.op, vack[x.order]))
  BY <1>0 DEF VenueCost, Age
<1>13. ASSUME NEW k \in 1..(n + 1) PROVE V[k - 1] + VenueCost(wire[k])' <= V[k]
  <2>1. CASE k = n + 1
    <3>1. VenueCost(wire[k])' = VenueCost(r)
      BY <1>0, <1>4, <2>1 DEF VenueCost, Age
    <3>2. k - 1 = n
      BY <1>3, <2>1
    <3> QED BY <1>2, <1>7, <1>10, <1>11, <2>1, <3>1, <3>2
  <2>2. CASE k \in 1..n
    <3>1. VenueCost(wire[k])' = VenueCost(wire[k])
      BY <1>0, <1>4, <2>2 DEF VenueCost, Age
    <3> QED BY <1>9, <1>11, <2>2, <3>1 DEF Charges, n
  <2> QED BY <1>3, <2>1, <2>2
<1>14. venue' + V[n + 1] <= Count' + Slack'
  <2>1. venue + S[n] <= Count + Slack /\ Slack' = Slack /\ venue' = venue
    BY <1>0, <1>9 DEF Charges, n, Slack
  <2>2. Slack \in Nat /\ venue \in Nat
    BY SlackType DEF RateTypeOK
  <2> QED BY <1>2, <1>10, <1>11, <2>1, <2>2
<1>15. ASSUME ~replay, NEW k \in 1..(n + 1)
       PROVE  V[n + 1] <= Count' + Decay * (now - wire'[k].sent) + V[k - 1]
  <2>1. CASE k = n + 1
    <3>1. venue + S[n] <= Count + Slack
      BY <1>9 DEF Charges, n
    <3>2. Decay * (now - wire'[k].sent) = 0
      BY <1>4, <1>5, <2>1, RateAssumption DEF RateTypeOK
    <3>3. k - 1 = n
      BY <1>3, <2>1
    <3> QED BY <1>2, <1>10, <1>11, <3>2, <3>3
  <2>2. CASE k \in 1..n
    <3> DEFINE e == Decay * (now - wire[k].sent)
    <3>1. e \in Int
      <4>1. wire[k].sent \in Nat /\ now \in Nat /\ Decay \in Nat
        BY <2>2, WireFacts, RateAssumption DEF RateTypeOK, n
      <4> QED BY ONLY <4>1
    <3>2. S[n] <= Count + e + S[k - 1]
      BY <1>9, <1>15, <2>2 DEF Charges, n
    <3>3. Decay * (now - wire'[k].sent) = e
      BY <1>4, <2>2
    <3> HIDE DEF e
    <3>4. S[k - 1] \in Nat /\ V[k - 1] = S[k - 1]
      BY <1>10, <1>11, <2>2
    <3>5. V[n + 1] <= Count' + e + V[k - 1]
      BY <1>2, <1>10, <1>11, <3>1, <3>2, <3>4
    <3> QED BY <3>3, <3>5
  <2> QED BY <1>3, <2>1, <2>2
<1>16. ASSUME NEW k \in 1..(n + 1), wire'[k].op # "Cancel"
       PROVE  Count' + V[k] <= (RateMax - RateMargin) + V[n + 1]
  <2>0. RateMax - RateMargin \in Int
    BY RateAssumption
  <2>1. CASE k = n + 1
    <3>1. Count + c <= RateMax - RateMargin
      BY <1>0, <1>4, <1>5, <1>16, <2>1 DEF WouldAllow, c
    <3> QED BY <1>2, <1>10, <1>11, <2>0, <2>1, <3>1
  <2>2. CASE k \in 1..n
    <3>1. Count + S[k] <= (RateMax - RateMargin) + S[n]
      BY <1>4, <1>9, <1>16, <2>2 DEF Charges, n
    <3> QED BY <1>2, <1>10, <1>11, <2>0, <2>2, <3>1
  <2> QED BY <1>3, <2>1, <2>2
<1>b. ASSUME NEW j \in 0..(n + 1), NEW k \in 0..(n + 1), j <= k PROVE V[j] <= V[k]
  <2>1. \A i \in 0..(n + 1) : i = n + 1 \/ (i \in 0..n /\ i <= n)
    BY <1>3
  <2>2. \A i \in 0..n : V[i] = S[i] /\ S[i] \in Nat
    <3>1. \A i \in 0..n : i = 0 \/ i \in 1..n
      BY <1>3
    <3> QED BY <1>10, <1>11, <3>1
  <2>3. \A a, b \in 0..n : a <= b => S[a] <= S[b]
    BY <1>9 DEF Charges, n
  <2>4. n \in 0..n
    BY <1>3
  <2>5. CASE k = n + 1 /\ j \in 0..n
    <3>1. S[j] <= S[n]
      BY <1>3, <2>3, <2>4, <2>5
    <3> QED BY <1>2, <1>10, <1>11, <2>2, <2>5, <3>1
  <2>6. CASE k \in 0..n
    <3>1. j \in 0..n
      BY <1>3, <1>b, <2>6
    <3> QED BY <1>b, <2>2, <2>3, <2>6, <3>1
  <2>7. CASE k = n + 1 /\ j = n + 1
    BY <1>2, <1>10, <1>11, <2>7
  <2> QED BY <2>1, <2>5, <2>6, <2>7
<1>17. Charges(V)'
  <2>1. Len(wire') = n + 1 /\ replay' = replay /\ now' = now
    BY <1>0, <1>4
  <2>2. ~replay' => \A k \in 1..Len(wire') :
           V[Len(wire')] <= Count' + Decay * (now' - wire'[k].sent) + V[k - 1]
    BY <1>15, <2>1
  <2>3. \A k \in 1..Len(wire') : wire'[k].op # "Cancel" =>
           Count' + V[k] <= (RateMax - RateMargin) + V[Len(wire')]
    BY <1>16, <2>1
  <2>4. /\ V \in [0..Len(wire') -> Nat] /\ V[0] = 0
        /\ \A j, k \in 0..Len(wire') : j <= k => V[j] <= V[k]
        /\ \A k \in 1..Len(wire') : V[k - 1] + VenueCost(wire[k])' <= V[k]
        /\ venue' + V[Len(wire')] <= Count' + Slack'
    BY <1>11, <1>13, <1>14, <1>b, <2>1
  <2> QED BY ONLY <2>2, <2>3, <2>4 DEF Charges
<1> QED BY <1>0, <1>6, <1>8, <1>17 DEF MarginCoversTransit

\* A step that leaves the requests under way, the clock and the counters alone.
LEMMA ChargesStutter ==
    ASSUME NEW S, Charges(S), UNCHANGED <<wire, now, count, last, venue, vack, replay>>
    PROVE  Charges(S)'
BY DEF Charges, Count, Slack, VenueCost, Age

\* apply_report of an Ack.
LEMMA AckStep ==
    ASSUME RateIInv, NEW o \in RateOrder, Ack(o)
    PROVE  RateIInv'
<1> USE DEF RateIInv
<1>1. /\ o \in acks /\ acks' = acks \ {o} /\ tack' = [tack EXCEPT ![o] = now]
      /\ UNCHANGED <<wire, now, count, last, venue, vack, replay, refused>>
  BY DEF Ack
<1>2. RateTypeOK'
  BY <1>1 DEF RateTypeOK
<1>3. vack[o] # 0 /\ vack[o] <= now
  BY <1>1 DEF DatesInv
<1>4. \A x \in RateOrder : tack'[x] = IF x = o THEN now ELSE tack[x]
  BY <1>1 DEF RateTypeOK
<1>5. DatesInv'
  BY <1>1, <1>3, <1>4 DEF DatesInv
<1>6. \E S : Charges(S)'
  BY <1>1, ChargesStutter
<1> QED BY <1>1, <1>2, <1>5, <1>6 DEF MarginCoversTransit

\* The oldest request reaches the venue.
LEMMA ArriveStep ==
    ASSUME RateIInv, Arrive
    PROVE  RateIInv'
<1> USE DEF RateIInv
<1> DEFINE n == Len(wire)
           r == wire[1]
           o == r.order
           c == VenueCost(r)
           Msg == [op : RateOp, order : RateOrder, sent : Nat]
           Refuses == r.op # "Cancel" /\ venue + c > RateMax
<1>0. wire \in Seq(Msg) /\ wire # <<>> /\ Head(wire) = wire[1] /\ wire' = Tail(wire)
  BY HeadTailProperties DEF RateTypeOK, Arrive
<1>1. /\ n \in Nat \ {0} /\ wire' \in Seq(Msg) /\ Len(wire') = n - 1
      /\ \A k \in 1..(n - 1) : wire'[k] = wire[k + 1]
  <2> HIDE DEF Msg
  <2> QED BY <1>0, HeadTailProperties, LenProperties, EmptySeq
<1>2. /\ UNCHANGED <<replay, now, count, last, tack>>
      /\ Refuses => refused' = TRUE /\ UNCHANGED <<venue, vack, acks>>
      /\ ~Refuses => /\ venue' = venue + c /\ refused' = refused
                     /\ vack' = IF r.op = "Add" THEN [vack EXCEPT ![o] = now] ELSE vack
                     /\ acks' = IF r.op = "Add" THEN acks \union {o} ELSE acks
  BY <1>0 DEF Arrive, VenueCost
<1>3. r.op \in RateOp /\ o \in RateOrder /\ c \in Nat /\ vack[o] \in Nat
  BY <1>1, WireFacts
<1>4. /\ venue' \in Nat /\ venue' <= venue + c /\ vack' \in [RateOrder -> Nat]
      /\ acks' \subseteq RateOrder
  <2> HIDE DEF c, o
  <2>1. CASE Refuses
    BY <1>2, <1>3, <2>1 DEF RateTypeOK
  <2>2. CASE ~Refuses
    <3>1. venue' = venue + c
      BY <1>2, <2>2
    <3>2. vack' = vack \/ vack' = [vack EXCEPT ![o] = now]
      BY <1>2, <2>2
    <3>3. acks' = acks \/ acks' = acks \union {o}
      BY <1>2, <2>2
    <3>4. venue \in Nat /\ now \in Nat /\ vack \in [RateOrder -> Nat] /\ acks \subseteq RateOrder
      BY DEF RateTypeOK
    <3>5. venue' \in Nat /\ venue' <= venue + c
      BY <1>3, <3>1, <3>4
    <3>6. vack' \in [RateOrder -> Nat]
      BY <3>2, <3>4
    <3>7. acks' \subseteq RateOrder
      BY <1>3, <3>3, <3>4
    <3> QED BY <3>5, <3>6, <3>7
  <2> QED BY <2>1, <2>2
<1>5. refused' \in BOOLEAN
  BY <1>2 DEF RateTypeOK
<1>6. RateTypeOK'
  BY <1>1, <1>2, <1>4, <1>5 DEF RateTypeOK
<1>7. /\ \A x \in RateOrder : vack'[x] = vack[x] \/ (x = o /\ vack'[x] = now /\ vack[x] = 0
                                                     /\ r.op = "Add")
      /\ r.op = "Add" => vack[o] = 0
  <2>1. r.op = "Add" => vack[o] = 0
    BY <1>1 DEF DatesInv
  <2> QED BY <1>2, <1>3, <2>1 DEF RateTypeOK
<1> HIDE DEF Refuses, n
<1>8. DatesInv'
  <2>1. ASSUME NEW x \in RateOrder, tack'[x] # 0 PROVE vack'[x] # 0 /\ vack'[x] <= tack'[x]
    <3>1. vack[x] # 0 /\ vack[x] <= tack[x]
      BY <1>2, <2>1 DEF DatesInv
    <3> QED BY <1>2, <1>7, <3>1
  <2>2. ASSUME NEW x \in acks' PROVE vack'[x] # 0 /\ vack'[x] <= now
    <3>1. CASE x \in acks
      <4>1. x \in RateOrder /\ vack[x] # 0 /\ vack[x] <= now
        BY <3>1 DEF DatesInv, RateTypeOK
      <4> QED BY <1>7, <4>1
    <3>2. CASE x \notin acks
      <4>1. x = o /\ vack' = [vack EXCEPT ![o] = now]
        BY <1>2, <2>2, <3>2
      <4> QED BY <1>3, <4>1 DEF RateTypeOK
    <3> QED BY <3>1, <3>2
  <2>3. ASSUME NEW k \in 1..(n - 1), wire'[k].op = "Add"
        PROVE  /\ vack'[wire'[k].order] = 0
               /\ \A j \in 1..(k - 1) : wire'[j].order # wire'[k].order
    <3>1. wire'[k] = wire[k + 1] /\ k + 1 \in 1..n
      BY <1>1
    <3>2. /\ vack[wire[k + 1].order] = 0
          /\ \A j \in 1..k : wire[j].order # wire[k + 1].order
      BY <1>1, <2>3, <3>1 DEF DatesInv, n
    <3>3. wire[k + 1].order # o /\ wire[k + 1].order \in RateOrder
      BY <1>1, <3>1, <3>2, WireFacts DEF n
    <3>4. vack'[wire[k + 1].order] = 0
      BY <1>7, <3>2, <3>3
    <3>5. \A j \in 1..(k - 1) : wire'[j] = wire[j + 1] /\ j + 1 \in 1..k
      BY <1>1
    <3> QED BY <3>1, <3>2, <3>4, <3>5
  <2>4. ASSUME ~replay, NEW k \in 1..(n - 1)
        PROVE  wire'[k].sent <= now /\ now - wire'[k].sent <= MaxTransit
    <3>1. wire'[k] = wire[k + 1] /\ k + 1 \in 1..n
      BY <1>1
    <3> QED BY <2>4, <3>1 DEF DatesInv, n
  <2> QED BY <1>1, <1>2, <2>1, <2>2, <2>3, <2>4 DEF DatesInv
<1>9. PICK S : Charges(S)
  OBVIOUS
<1>10. /\ S \in [0..n -> Nat] /\ S[0] = 0 /\ S[n] \in Nat /\ S[1] \in Nat
       /\ \A k \in 1..n : S[k - 1] \in Nat /\ S[k] \in Nat
  <2>1. S \in [0..n -> Nat] /\ S[0] = 0
    BY <1>9 DEF Charges, n
  <2>2. n \in 0..n /\ 1 \in 0..n /\ \A k \in 1..n : k - 1 \in 0..n /\ k \in 0..n
    BY <1>1
  <2> QED BY <2>1, <2>2
<1>11. /\ c <= S[1] /\ S[1] <= S[n]
       /\ \A k \in 1..n : S[1] <= S[k]
  <2>1. \A k \in 1..n : S[k - 1] + VenueCost(wire[k]) <= S[k]
    BY <1>9 DEF Charges, n
  <2>2. 1 \in 1..n /\ n \in 1..n /\ 1 - 1 = 0
    BY <1>1
  <2>3. \A k \in 1..n : S[1] <= S[k]
    <3>1. \A k \in 1..n : 1 <= k /\ 1 \in 0..n /\ k \in 0..n
      BY <1>1
    <3> QED BY <1>9, <3>1 DEF Charges, n
  <2> QED BY <1>3, <1>10, <2>1, <2>2, <2>3
<1> DEFINE U == [k \in 0..(n - 1) |-> S[k + 1] - S[1]]
<1>12. PICK V : /\ V \in [0..(n - 1) -> Nat] /\ V[0] = 0 /\ V[n - 1] = S[n] - S[1]
                /\ \A k \in 0..(n - 1) : V[k] = S[k + 1] - S[1] /\ k + 1 \in 1..n
                /\ \A k \in 1..(n - 1) : V[k] = S[k + 1] - S[1] /\ V[k - 1] = S[k] - S[1]
                                         /\ k \in 1..n /\ k + 1 \in 1..n
  <2>1. \A k \in 0..(n - 1) : k + 1 \in 1..n /\ S[k + 1] - S[1] \in Nat
    <3>1. \A k \in 0..(n - 1) : k + 1 \in 1..n
      BY <1>1
    <3> QED BY <1>10, <1>11, <3>1
  <2>2. U \in [0..(n - 1) -> Nat]
    BY <2>1
  <2>3. 0 \in 0..(n - 1) /\ n - 1 \in 0..(n - 1) /\ (n - 1) + 1 = n /\ 0 + 1 = 1
    BY <1>1
  <2>4. \A k \in 1..(n - 1) : k \in 0..(n - 1) /\ k - 1 \in 0..(n - 1) /\ (k - 1) + 1 = k
                              /\ k \in 1..n
    BY <1>1
  <2>5. U[0] = 0 /\ U[n - 1] = S[n] - S[1]
    BY <1>10, <2>3
  <2>6. \A k \in 1..(n - 1) : U[k] = S[k + 1] - S[1] /\ U[k - 1] = S[k] - S[1]
    BY <2>4
  <2>7. \A k \in 0..(n - 1) : U[k] = S[k + 1] - S[1]
    OBVIOUS
  <2> HIDE DEF U
  <2> QED BY <2>1, <2>2, <2>4, <2>5, <2>6, <2>7
<1>13. Count' = Count /\ Slack' = Slack /\ Count \in Nat /\ Slack \in Nat
  BY <1>2, CountType, SlackType DEF Count, Slack
<1>14. ASSUME NEW k \in 1..(n - 1) PROVE V[k - 1] + VenueCost(wire[k])' <= V[k]
  <2>1. wire'[k] = wire[k + 1] /\ k + 1 \in 1..n
    BY <1>1
  <2>2. /\ wire[k + 1].order \in RateOrder /\ vack[wire[k + 1].order] \in Nat
        /\ VenueCost(wire[k + 1]) \in Nat
    BY <2>1, WireFacts DEF n
  <2>3. VenueCost(wire[k])' = KrakenRateCost(wire[k + 1].op,
                                 Age(wire[k + 1].op, vack'[wire[k + 1].order]))
    BY <1>2, <2>1 DEF VenueCost, Age
  <2>4. Age(wire[k + 1].op, vack'[wire[k + 1].order]) = Age(wire[k + 1].op, vack[wire[k + 1].order])
    <3>1. \/ vack'[wire[k + 1].order] = vack[wire[k + 1].order]
          \/ vack'[wire[k + 1].order] = now /\ vack[wire[k + 1].order] = 0
      BY <1>7, <2>2
    <3>2. now - now = 0
      BY DEF RateTypeOK
    <3> QED BY <3>1, <3>2 DEF Age
  <2>5. VenueCost(wire[k])' = VenueCost(wire[k + 1])
    BY <2>3, <2>4 DEF VenueCost
  <2>6. S[(k + 1) - 1] + VenueCost(wire[k + 1]) <= S[k + 1] /\ (k + 1) - 1 = k
    BY <1>9, <2>1 DEF Charges, n
  <2>7. V[k] = S[k + 1] - S[1] /\ V[k - 1] = S[k] - S[1] /\ S[k] \in Nat /\ S[k + 1] \in Nat
    BY <1>10, <1>12
  <2> QED BY <1>10, <2>2, <2>5, <2>6, <2>7
<1>15. venue' + V[n - 1] <= Count + Slack
  <2>1. venue + S[n] <= Count + Slack
    BY <1>9 DEF Charges, n
  <2> QED BY <1>3, <1>4, <1>10, <1>11, <1>12, <1>13, <2>1 DEF RateTypeOK
<1>16. ASSUME ~replay, NEW k \in 1..(n - 1)
       PROVE  V[n - 1] <= Count + Decay * (now - wire'[k].sent) + V[k - 1]
  <2> DEFINE e == Decay * (now - wire[k + 1].sent)
  <2>1. wire'[k] = wire[k + 1] /\ k + 1 \in 1..n /\ (k + 1) - 1 = k
    BY <1>1
  <2>2. e \in Int
    <3>1. wire[k + 1].sent \in Nat /\ now \in Nat /\ Decay \in Nat
      BY <2>1, WireFacts, RateAssumption DEF RateTypeOK, n
    <3> QED BY ONLY <3>1
  <2>3. S[n] <= Count + e + S[k]
    BY <1>9, <1>16, <2>1 DEF Charges, n
  <2>4. V[k - 1] = S[k] - S[1] /\ S[k] \in Nat
    BY <1>10, <1>12
  <2>5. Decay * (now - wire'[k].sent) = e
    BY <2>1
  <2> HIDE DEF e
  <2>6. V[n - 1] <= Count + e + V[k - 1]
    BY <1>10, <1>12, <1>13, <2>2, <2>3, <2>4
  <2> QED BY <2>5, <2>6
<1>17. ASSUME NEW k \in 1..(n - 1), wire'[k].op # "Cancel"
       PROVE  Count + V[k] <= (RateMax - RateMargin) + V[n - 1]
  <2>1. wire'[k] = wire[k + 1] /\ k + 1 \in 1..n
    BY <1>1
  <2>2. Count + S[k + 1] <= (RateMax - RateMargin) + S[n]
    BY <1>9, <1>17, <2>1 DEF Charges, n
  <2>3. RateMax - RateMargin \in Int /\ V[k] = S[k + 1] - S[1] /\ S[k + 1] \in Nat
    BY <1>10, <1>12, RateAssumption
  <2> QED BY <1>10, <1>12, <1>13, <2>2, <2>3
<1>18. ASSUME NEW j \in 0..(n - 1), NEW k \in 0..(n - 1), j <= k PROVE V[j] <= V[k]
  <2>1. j + 1 \in 0..n /\ k + 1 \in 0..n /\ j + 1 <= k + 1 /\ j + 1 \in 1..n /\ k + 1 \in 1..n
    BY <1>1, <1>18
  <2>2. S[j + 1] <= S[k + 1] /\ S[j + 1] \in Nat /\ S[k + 1] \in Nat
    BY <1>9, <1>10, <2>1 DEF Charges, n
  <2>3. V[j] = S[j + 1] - S[1] /\ V[k] = S[k + 1] - S[1]
    BY <1>12
  <2> QED BY <1>10, <2>2, <2>3
<1>19. Charges(V)'
  <2>1. Len(wire') = n - 1 /\ replay' = replay /\ now' = now
    BY <1>1, <1>2
  <2>2. ~replay' => \A k \in 1..Len(wire') :
           V[Len(wire')] <= Count' + Decay * (now' - wire'[k].sent) + V[k - 1]
    BY <1>13, <1>16, <2>1
  <2>3. \A k \in 1..Len(wire') : wire'[k].op # "Cancel" =>
           Count' + V[k] <= (RateMax - RateMargin) + V[Len(wire')]
    BY <1>13, <1>17, <2>1
  <2>4. /\ V \in [0..Len(wire') -> Nat] /\ V[0] = 0
        /\ \A j, k \in 0..Len(wire') : j <= k => V[j] <= V[k]
        /\ \A k \in 1..Len(wire') : V[k - 1] + VenueCost(wire[k])' <= V[k]
        /\ venue' + V[Len(wire')] <= Count' + Slack'
    BY <1>12, <1>13, <1>14, <1>15, <1>18, <2>1
  <2> QED BY ONLY <2>2, <2>3, <2>4 DEF Charges
<1>20. MarginCoversTransit'
  <2> SUFFICES ASSUME RateMargin >= Decay * MaxTransit PROVE ~refused'
    BY DEF MarginCoversTransit
  <2>1. ~refused
    BY DEF MarginCoversTransit
  <2>2. ~Refuses
    <3> SUFFICES ASSUME r.op # "Cancel", venue + c > RateMax PROVE FALSE
      BY DEF Refuses
    <3>1. Count + S[1] <= (RateMax - RateMargin) + S[n]
      BY <1>1, <1>9 DEF Charges, n
    <3>2. venue + S[n] <= Count + Slack
      BY <1>9 DEF Charges, n
    <3>3. Slack <= RateMargin
      BY RateAssumption DEF Slack, RateTypeOK
    <3>4. RateMax \in Nat /\ RateMargin \in Nat /\ venue \in Nat
      BY RateAssumption DEF RateTypeOK
    <3> HIDE DEF c, r
    <3> QED BY <1>3, <1>10, <1>11, <1>13, <3>1, <3>2, <3>3, <3>4
  <2> QED BY <1>2, <2>1, <2>2
<1> QED BY <1>6, <1>8, <1>19, <1>20

\* The clock advances, for both counters.
LEMMA AdvanceStep ==
    ASSUME RateIInv, NEW d \in ClockSteps, Advance(d)
    PROVE  RateIInv'
<1> USE DEF RateIInv
<1> DEFINE n == Len(wire)
           e == Decay * d
<1>0. d \in Nat /\ e \in Nat /\ MaxTransit \in Nat /\ Decay \in Nat
  BY RateAssumption
<1>1. /\ now' = now + d /\ venue' = Floor0(venue - e)
      /\ UNCHANGED <<replay, count, last, tack, wire, acks, vack, refused>>
      /\ replay => wire = <<>> /\ acks = {}
      /\ ~replay => \A k \in 1..n : now + d - wire[k].sent <= MaxTransit
  <2>1. now' = now + d /\ UNCHANGED <<replay, count, last, tack, wire, acks, vack, refused>>
    BY DEF Advance
  <2>2. venue' = Floor0(venue - e)
    BY DEF Advance
  <2>3. IF replay THEN wire = <<>> /\ acks = {}
        ELSE \A k \in 1..n : now + d - wire[k].sent <= MaxTransit
    BY Zenon DEF Advance
  <2> QED BY ONLY <2>1, <2>2, <2>3
<1> HIDE DEF e
<1>2. venue' \in Nat /\ venue' <= venue /\ (venue' = 0 \/ venue' = venue - e)
  BY <1>0, <1>1 DEF RateTypeOK, Floor0
<1>3. RateTypeOK'
  <2>1. now' \in Nat \ {0}
    BY <1>0, <1>1 DEF RateTypeOK
  <2>2. UNCHANGED <<replay, count, last, tack, wire, acks, vack, refused>> /\ RateTypeOK
    BY <1>1
  <2> QED BY ONLY <1>2, <2>1, <2>2 DEF RateTypeOK
<1>4. Count \in Nat /\ Count' \in Nat /\ Count <= Count' + e /\ Count' <= Count
  <2>1. RateTypeOK /\ d \in Nat /\ now' = now + d /\ UNCHANGED <<count, last>>
    BY <1>0, <1>1
  <2> QED BY ONLY <2>1, CountType, AdvanceCount DEF e
<1>5. replay => n = 0
  BY <1>1, EmptySeq
<1>6. /\ n \in Nat
      /\ \A k \in 1..n : /\ wire[k].op \in RateOp /\ wire[k].order \in RateOrder
                         /\ wire[k].sent \in Nat /\ vack[wire[k].order] \in Nat
  BY WireFacts
<1> HIDE DEF n
<1>7. DatesInv'
  <2>1. ASSUME NEW x \in acks PROVE vack[x] # 0 /\ vack[x] <= now + d
    <3>1. vack[x] # 0 /\ vack[x] <= now /\ vack[x] \in Nat
      BY DEF DatesInv, RateTypeOK
    <3> QED BY <1>0, <3>1 DEF RateTypeOK
  <2>2. ASSUME ~replay
        PROVE  /\ last <= now + d
               /\ \A k \in 1..n : wire[k].sent <= now + d /\ (now + d) - wire[k].sent <= MaxTransit
    <3>1. now \in Nat /\ last \in Nat /\ last <= now
      BY <2>2 DEF DatesInv, RateTypeOK
    <3>2. ASSUME NEW k \in 1..n
          PROVE  wire[k].sent <= now + d /\ (now + d) - wire[k].sent <= MaxTransit
      <4>1. now + d - wire[k].sent <= MaxTransit /\ wire[k].sent \in Nat
        BY <1>1, <1>6, <2>2
      <4>2. wire[k].sent <= now
        BY <2>2 DEF DatesInv, n
      <4> QED BY ONLY <1>0, <3>1, <4>1, <4>2
    <3> QED BY <1>0, <3>1, <3>2
  <2> QED BY <1>1, <2>1, <2>2 DEF DatesInv, n
<1>8. PICK S : Charges(S)
  OBVIOUS
<1>9. /\ S \in [0..n -> Nat] /\ S[0] = 0 /\ S[n] \in Nat
      /\ \A k \in 1..n : S[k - 1] \in Nat /\ S[k] \in Nat
      /\ \A j, k \in 0..n : j <= k => S[j] <= S[k]
  <2>1. S \in [0..n -> Nat] /\ S[0] = 0 /\ \A j, k \in 0..n : j <= k => S[j] <= S[k]
    BY <1>8 DEF Charges, n
  <2>2. n \in 0..n /\ \A k \in 1..n : k - 1 \in 0..n /\ k \in 0..n
    BY <1>6
  <2> QED BY <2>1, <2>2
<1>10. ASSUME NEW k \in 1..n PROVE S[k - 1] + VenueCost(wire[k])' <= S[k]
  <2> DEFINE r == wire[k]
             a == Age(r.op, vack[r.order])
             b == Age(r.op, vack[r.order])'
  <2>1. S[k - 1] + VenueCost(r) <= S[k]
    BY <1>8 DEF Charges, n
  <2>2. a \in Int /\ b \in Int /\ a <= b
    <3> DEFINE v == vack[r.order]
    <3>1. v \in Nat /\ now \in Nat /\ d \in Nat
      BY <1>0, <1>6 DEF RateTypeOK
    <3>2. a = (IF r.op = "Add" \/ v = 0 THEN 0 ELSE now - v)
      BY DEF Age
    <3>3. b = (IF r.op = "Add" \/ v = 0 THEN 0 ELSE (now + d) - v)
      BY <1>1 DEF Age
    <3> HIDE DEF a, b, v
    <3> QED BY ONLY <3>1, <3>2, <3>3
  <2>3. VenueCost(r)' = KrakenRateCost(r.op, b) /\ VenueCost(r) = KrakenRateCost(r.op, a)
    BY <1>1 DEF VenueCost
  <2>4. r.op \in RateOp
    BY <1>6
  <2> HIDE DEF a, b, r
  <2>5. VenueCost(r)' <= VenueCost(r) /\ VenueCost(r)' \in Nat /\ VenueCost(r) \in Nat
    BY <2>2, <2>3, <2>4, CostFalls, CostType
  <2>6. S[k - 1] + VenueCost(r)' <= S[k]
    BY <1>9, <2>1, <2>5
  <2> QED BY <2>6 DEF r
<1>11. ASSUME ~replay, NEW k \in 1..n
       PROVE  /\ S[n] <= Count' + Decay * (now' - wire[k].sent) + S[k - 1]
              /\ Decay * (now' - wire[k].sent) <= Decay * MaxTransit
  <2> DEFINE f == Decay * (now - wire[k].sent)
             g == Decay * (now' - wire[k].sent)
  <2>1. f \in Int /\ g \in Int /\ g = f + e
    <3>1. wire[k].sent \in Nat /\ now \in Nat /\ Decay \in Nat
      BY <1>0, <1>6 DEF RateTypeOK
    <3> QED BY ONLY <3>1, <1>0, <1>1 DEF e
  <2>2. S[n] <= Count + f + S[k - 1]
    BY <1>8, <1>11 DEF Charges, n
  <2>3. g <= Decay * MaxTransit
    <3>1. now' - wire[k].sent \in Int /\ now' - wire[k].sent <= MaxTransit
      <4>1. now + d - wire[k].sent <= MaxTransit /\ wire[k].sent \in Nat
        BY <1>1, <1>6, <1>11
      <4>2. now \in Nat /\ now' = now + d
        BY <1>1 DEF RateTypeOK
      <4> QED BY ONLY <1>0, <4>1, <4>2
    <3> QED BY <1>0, <3>1, Scales
  <2> HIDE DEF f, g
  <2>4. S[n] <= Count' + g + S[k - 1]
    <3>1. S[n] \in Nat /\ S[k - 1] \in Nat
      BY <1>9
    <3>2. PICK a \in Nat, b \in Nat : a = Count /\ b = Count' /\ a <= b + e
      BY <1>4
    <3>3. S[n] <= a + f + S[k - 1] /\ e \in Nat /\ a <= b + e
      BY <1>0, <2>2, <3>2
    <3>4. S[n] <= b + g + S[k - 1]
      BY ONLY <2>1, <3>1, <3>3
    <3> QED BY <3>2, <3>4
  <2> QED BY <2>3, <2>4 DEF g
<1>12. Slack' = Slack /\ Slack \in Nat
  BY <1>1, SlackType DEF Slack
<1>13. venue' + S[n] <= Count' + Slack
  <2>1. venue + S[n] <= Count + Slack
    BY <1>8 DEF Charges, n
  <2>2. CASE venue' = venue - e
    <3>1. venue \in Nat /\ S[n] \in Nat /\ Slack \in Nat /\ e \in Nat
      BY <1>0, <1>9, <1>12 DEF RateTypeOK
    <3>2. PICK a \in Nat, b \in Nat : a = Count /\ b = Count' /\ a <= b + e
      BY <1>4
    <3>3. venue + S[n] <= a + Slack /\ a <= b + e
      BY <2>1, <3>2
    <3>4. venue' + S[n] <= b + Slack
      BY ONLY <2>2, <3>1, <3>3
    <3> QED BY <3>2, <3>4
  <2>3. CASE venue' = 0 /\ n = 0
    BY <1>4, <1>9, <1>12, <2>3
  <2>4. CASE venue' = 0 /\ n # 0
    <3>1. ~replay /\ 1 \in 1..n /\ 1 - 1 = 0
      BY <1>5, <1>6, <2>4
    <3> DEFINE g == Decay * (now' - wire[1].sent)
    <3>2. S[n] <= Count' + g + S[1 - 1] /\ g <= Decay * MaxTransit
      BY <1>11, <3>1
    <3>3. Slack = Decay * MaxTransit
      BY <3>1 DEF Slack
    <3>4. g \in Int
      <4>1. now' \in Nat /\ wire[1].sent \in Nat
        BY <1>3, <1>6, <3>1 DEF RateTypeOK
      <4> QED BY ONLY <4>1, <1>0
    <3> HIDE DEF g
    <3> QED BY <1>4, <1>9, <1>12, <2>4, <3>1, <3>2, <3>3, <3>4
  <2> QED BY <1>2, <2>2, <2>3, <2>4
<1>14. ASSUME NEW k \in 1..n, wire[k].op # "Cancel"
       PROVE  Count' + S[k] <= (RateMax - RateMargin) + S[n]
  <2>1. Count + S[k] <= (RateMax - RateMargin) + S[n] /\ RateMax - RateMargin \in Int
    BY <1>8, <1>14, RateAssumption DEF Charges, n
  <2> QED BY <1>4, <1>9, <2>1
<1>15. Charges(S)'
  <2>1. wire' = wire /\ Len(wire') = n /\ replay' = replay
    BY <1>1 DEF n
  <2>2. ~replay' => \A k \in 1..Len(wire') :
           S[Len(wire')] <= Count' + Decay * (now' - wire'[k].sent) + S[k - 1]
    BY <1>11, <2>1
  <2>3. \A k \in 1..Len(wire') : wire'[k].op # "Cancel" =>
           Count' + S[k] <= (RateMax - RateMargin) + S[Len(wire')]
    BY <1>14, <2>1
  <2>4. \A k \in 1..Len(wire') : S[k - 1] + VenueCost(wire[k])' <= S[k]
    BY <1>10, <2>1
  <2>5. /\ S \in [0..Len(wire') -> Nat] /\ S[0] = 0
        /\ \A j, k \in 0..Len(wire') : j <= k => S[j] <= S[k]
        /\ venue' + S[Len(wire')] <= Count' + Slack'
    BY <1>9, <1>12, <1>13, <2>1
  <2> QED BY ONLY <2>2, <2>3, <2>4, <2>5 DEF Charges
<1> QED BY <1>1, <1>3, <1>7, <1>15 DEF MarginCoversTransit

\* The event clock of a replay steps back.
LEMMA StepBackStep ==
    ASSUME RateIInv, NEW d \in ClockSteps, StepBack(d)
    PROVE  RateIInv'
<1> USE DEF RateIInv
<1>0. d \in Nat
  BY RateAssumption
<1>1. /\ replay /\ wire = <<>> /\ acks = {} /\ now > d /\ now' = now - d
      /\ UNCHANGED <<replay, count, last, tack, wire, acks, venue, vack, refused>>
  BY DEF StepBack
<1>2. Len(wire) = 0
  BY <1>1, EmptySeq
<1>3. RateTypeOK'
  BY <1>0, <1>1 DEF RateTypeOK
<1>4. DatesInv'
  BY <1>1, <1>2 DEF DatesInv
<1>5. PICK S : Charges(S)
  OBVIOUS
<1>6. Count <= Count' /\ Count \in Nat /\ Count' \in Nat
  <2> DEFINE f == Decay * (now - last)
             g == Decay * ((now - d) - last)
  <2>1. f \in Int /\ g \in Int /\ g <= f
    <3>1. now - last \in Int /\ (now - d) - last \in Int /\ (now - d) - last <= now - last
      BY <1>0 DEF RateTypeOK
    <3> QED BY <3>1, RateAssumption, Scales
  <2>2. now > last => f >= 0
    BY RateAssumption, Scales DEF RateTypeOK
  <2>3. Count = IF now <= last THEN count ELSE Floor0(count - f)
    BY DEF Count
  <2>4. Count' = IF now - d <= last THEN count ELSE Floor0(count - g)
    BY <1>1 DEF Count
  <2> HIDE DEF f, g
  <2>5. Count <= Count' /\ Count' \in Nat
    BY <1>0, <2>1, <2>2, <2>3, <2>4 DEF Floor0, RateTypeOK
  <2> QED BY <2>5, CountType
<1>7. Slack' = Slack /\ Slack \in Nat
  BY <1>1, SlackType DEF Slack
<1>8. S \in [0..0 -> Nat] /\ S[0] = 0 /\ venue + S[0] <= Count + Slack
  BY <1>2, <1>5 DEF Charges
<1>9. venue' + S[0] <= Count' + Slack'
  <2>1. venue' = venue /\ venue \in Nat
    BY <1>1 DEF RateTypeOK
  <2>2. PICK a \in Nat, b \in Nat : a = Count /\ b = Count' /\ a <= b
    BY <1>6
  <2>3. venue + S[0] <= a + Slack /\ S[0] = 0 /\ a <= b /\ Slack \in Nat
    BY <1>7, <1>8, <2>2
  <2>4. venue + S[0] <= b + Slack
    BY ONLY <2>1, <2>3
  <2> QED BY <1>7, <2>1, <2>2, <2>4
<1>10. \A j, k \in 0..0 : j <= k => S[j] <= S[k]
  BY <1>8
<1>11. Charges(S)'
  <2>1. Len(wire') = 0
    BY <1>1, <1>2
  <2> QED BY ONLY <1>8, <1>9, <1>10, <2>1 DEF Charges
<1> QED BY <1>1, <1>3, <1>4, <1>11 DEF MarginCoversTransit

\* The venue never refuses, for its rate, what the risk gate lets through, and
\* the lazy counter is never behind the venue's by more than what decays in
\* transit, for every limit, decay and clock (RateModel::charge, would_allow).
THEOREM RateSound == RateSpec => []RateHeadroom
<1>1. RateIInv /\ [RateNext]_rateVars => RateIInv'
  <2> SUFFICES ASSUME RateIInv, [RateNext]_rateVars PROVE RateIInv'
    OBVIOUS
  <2>1. CASE RateNext
    BY <2>1, RequestStep, AckStep, ArriveStep, AdvanceStep, StepBackStep DEF RateNext
  <2>2. CASE UNCHANGED rateVars
    <3>1. \E S : Charges(S)'
      BY <2>2, ChargesStutter DEF RateIInv, rateVars
    <3>2. RateTypeOK' /\ DatesInv' /\ MarginCoversTransit'
      BY <2>2 DEF rateVars, RateIInv, RateTypeOK, DatesInv, MarginCoversTransit
    <3> QED BY <3>1, <3>2 DEF RateIInv
  <2> QED BY <2>1, <2>2
<1>2. RateIInv => RateHeadroom
  <2> SUFFICES ASSUME RateIInv PROVE venue <= Count + Slack
    BY DEF RateIInv, RateHeadroom, NeverUndercounts, Slack
  <2>1. PICK S : Charges(S)
    BY DEF RateIInv
  <2>2. S[Len(wire)] \in Nat /\ venue + S[Len(wire)] <= Count + Slack
    <3>1. Len(wire) \in 0..Len(wire)
      BY WireFacts DEF RateIInv
    <3> QED BY <2>1, <3>1 DEF Charges
  <2>3. Count \in Nat /\ Slack \in Nat /\ venue \in Nat
    BY CountType, SlackType DEF RateIInv, RateTypeOK
  <2> QED BY <2>2, <2>3
<1> QED BY RateInitIInv, <1>1, <1>2, PTL DEF RateSpec

-----------------------------------------------------------------------------
(* EventSlots: the reused buffers.                                         *)

\* Two numbers less than n apart fall into different slots of a ring of n.
LEMMA SlotsApart ==
    ASSUME NEW n \in Nat \ {0}, NEW x \in Nat, NEW y \in Nat, x < y, y - x < n
    PROVE  x % n # y % n
<1> DEFINE p == n * (x \div n)
           q == n * (y \div n)
<1>1. x = p + (x % n) /\ y = q + (y % n)
  BY SMT
<1>2. x \div n \in Int /\ y \div n \in Int
  BY SMT
<1>3. SUFFICES ASSUME x % n = y % n PROVE FALSE
  OBVIOUS
<1>4. x % n \in Int
  BY SMT
<1>5. p \in Int /\ q \in Int
  BY <1>2
<1>6. q - p = y - x
  <2> HIDE DEF p, q
  <2> QED BY <1>1, <1>3, <1>4, <1>5
<1>7. q - p = n * ((y \div n) - (x \div n))
  <2> DEFINE a == x \div n
             b == y \div n
  <2>1. a \in Int /\ b \in Int
    BY <1>2
  <2> HIDE DEF a, b
  <2>2. n * b - n * a = n * (b - a)
    BY <2>1, SMT
  <2> QED BY <2>2 DEF a, b
<1> DEFINE z == (y \div n) - (x \div n)
<1>8. z \in Int
  BY <1>2
<1> HIDE DEF p, q, z
<1>9. 0 < n * z /\ n * z < n
  BY <1>6, <1>7 DEF z
<1> QED BY ONLY <1>8, <1>9, n \in Nat \ {0}, SMT

EventSlot == [type : MsgType \union {""}, has : [EventField -> Nat]]
FrameSlot == [msg : Nat, nb : 0..Depth, trade : BOOLEAN, cross : BOOLEAN,
              has : [FrameField -> Nat], bids : [1..Depth -> Nat]]

\* The fields that a message of the slot's type has are all of one message; so
\* are those of a frame and as many of its levels as it counts.
FreshEvent(e) ==
    e.type \in MsgType /\ \A f \in Writes(e.type) : e.has[f] = e.has["message_type"]
FreshFrame(u) ==
    (\A f \in FrameField : u.has[f] = u.msg) /\ (\A l \in 1..u.nb : u.bids[l] = u.msg)

\* The slots between tail and head are fresh; the others hold anything.
SlotsTypeOK ==
    /\ evHead \in Nat /\ evTail \in Nat /\ evTail <= evHead /\ evHead - evTail <= EventCap
    /\ frHead \in Nat /\ frTail \in Nat /\ frTail <= frHead /\ frHead - frTail <= FrameCap
    /\ events \in [0..(EventCap - 1) -> EventSlot]
    /\ frames \in [0..(FrameCap - 1) -> FrameSlot]
    /\ scratch \in [1..Depth -> Nat] /\ parsed \in Nat

SlotsFresh ==
    /\ \A j \in evTail..(evHead - 1) : FreshEvent(events[j % EventCap])
    /\ \A j \in frTail..(frHead - 1) : FreshFrame(frames[j % FrameCap])

SlotsIInv == SlotsTypeOK /\ SlotsFresh /\ NoStaleField

\* Whatever is read of a message of a type the parser writes for that type.
LEMMA ReadsAreWritten ==
    ASSUME NEW t \in MsgType
    PROVE  /\ Writes(t) \subseteq EventField /\ "message_type" \in Writes(t)
           /\ Reads(t) \subseteq Writes(t) /\ ReadsFiltered(t) \subseteq Writes(t)
<1>1. CASE t = "A"
  BY <1>1 DEF Writes, Reads, ReadsFiltered, Header, EventField
<1>2. CASE t = "F"
  BY <1>2 DEF Writes, Reads, ReadsFiltered, Header, EventField
<1>3. CASE t = "E"
  BY <1>3 DEF Writes, Reads, ReadsFiltered, Header, EventField
<1>4. CASE t = "C"
  BY <1>4 DEF Writes, Reads, ReadsFiltered, Header, EventField
<1>5. CASE t = "X"
  BY <1>5 DEF Writes, Reads, ReadsFiltered, Header, EventField
<1>6. CASE t = "D"
  BY <1>6 DEF Writes, Reads, ReadsFiltered, Header, EventField
<1>7. CASE t = "U"
  BY <1>7 DEF Writes, Reads, ReadsFiltered, Header, EventField
<1>8. CASE t = "P"
  BY <1>8 DEF Writes, Reads, ReadsFiltered, Header, EventField
<1>9. CASE t = "Q"
  BY <1>9 DEF Writes, Reads, ReadsFiltered, Header, EventField
<1> QED BY <1>1, <1>2, <1>3, <1>4, <1>5, <1>6, <1>7, <1>8, <1>9 DEF MsgType

LEMMA SlotIndex ==
    ASSUME NEW n \in Nat \ {0}, NEW j \in Nat
    PROVE  j % n \in 0..(n - 1)
BY SMT

LEMMA SlotsInitIInv == SlotsInit => SlotsIInv
<1> SUFFICES ASSUME SlotsInit PROVE SlotsIInv
  OBVIOUS
<1>1. events \in [0..(EventCap - 1) -> EventSlot]
  <2>1. [type |-> "", has |-> [f \in EventField |-> 0]] \in EventSlot
    BY DEF EventSlot
  <2> QED BY <2>1 DEF SlotsInit
<1>2. frames \in [0..(FrameCap - 1) -> FrameSlot]
  <2> DEFINE u == [msg |-> 0, nb |-> 0, trade |-> FALSE, cross |-> FALSE,
                   has |-> [f \in FrameField |-> 0], bids |-> [l \in 1..Depth |-> 0]]
  <2>1. [f \in FrameField |-> 0] \in [FrameField -> Nat] /\ [l \in 1..Depth |-> 0] \in [1..Depth -> Nat]
    OBVIOUS
  <2>2. 0 \in Nat /\ 0 \in 0..Depth /\ FALSE \in BOOLEAN
    BY SlotsAssumption
  <2>3. u \in FrameSlot
    BY <2>1, <2>2, Zenon DEF FrameSlot
  <2>4. frames = [i \in 0..(FrameCap - 1) |-> u]
    BY DEF SlotsInit
  <2> HIDE DEF u
  <2> QED BY <2>3, <2>4
<1>3. scratch \in [1..Depth -> Nat]
  <2>1. scratch = [l \in 1..Depth |-> 0]
    BY DEF SlotsInit
  <2> QED BY <2>1
<1>4. SlotsTypeOK
  <2>1. evHead = 0 /\ evTail = 0 /\ frHead = 0 /\ frTail = 0 /\ parsed = 0
    BY DEF SlotsInit
  <2> QED BY <1>1, <1>2, <1>3, <2>1, SlotsAssumption DEF SlotsTypeOK
<1>5. SlotsFresh
  <2>1. evTail..(evHead - 1) = {} /\ frTail..(frHead - 1) = {}
    <3>1. evHead = 0 /\ evTail = 0 /\ frHead = 0 /\ frTail = 0
      BY DEF SlotsInit
    <3> QED BY ONLY <3>1
  <2> QED BY ONLY <2>1 DEF SlotsFresh
<1>6. NoStaleField
  BY DEF SlotsInit, NoStaleField
<1> QED BY <1>4, <1>5, <1>6 DEF SlotsIInv

\* ItchParser::next, on a type it knows.
LEMMA ParseStep ==
    ASSUME SlotsIInv, NEW t \in MsgType, Parse(t)
    PROVE  SlotsIInv'
<1> USE DEF SlotsIInv
<1> DEFINE i == evHead % EventCap
           e == [type |-> t,
                 has |-> [f \in EventField |->
                            IF f \in Writes(t) THEN parsed + 1 ELSE events[i].has[f]]]
<1>1. /\ events' = [events EXCEPT ![i] = e] /\ evHead' = evHead + 1
      /\ parsed' = parsed + 1 /\ evHead - evTail < EventCap
      /\ UNCHANGED <<evTail, frames, frHead, frTail, scratch, coreUse, execUse>>
  BY DEF Parse
<1>2. i \in 0..(EventCap - 1)
  BY SlotsAssumption, SlotIndex DEF SlotsTypeOK
<1>3. e \in EventSlot
  <2>1. events[i].has \in [EventField -> Nat] /\ parsed + 1 \in Nat
    <3>1. events[i] \in EventSlot
      BY <1>2 DEF SlotsTypeOK
    <3>2. events[i].has \in [EventField -> Nat]
      BY <3>1 DEF EventSlot
    <3> QED BY <3>2 DEF SlotsTypeOK
  <2> QED BY <2>1 DEF EventSlot
<1>4. FreshEvent(e)
  <2>1. Writes(t) \subseteq EventField /\ "message_type" \in Writes(t)
    BY ReadsAreWritten
  <2>2. \A f \in Writes(t) : e.has[f] = parsed + 1
    BY <2>1
  <2>3. e.type = t
    OBVIOUS
  <2> HIDE DEF e
  <2> QED BY <2>1, <2>2, <2>3 DEF FreshEvent
<1> HIDE DEF e, i
<1>5. events' \in [0..(EventCap - 1) -> EventSlot] /\ events'[i] = e
      /\ \A x \in 0..(EventCap - 1) : x # i => events'[x] = events[x]
  BY <1>1, <1>2, <1>3 DEF SlotsTypeOK
<1>6. SlotsTypeOK'
  <2>1. evHead' \in Nat /\ evTail' <= evHead' /\ evHead' - evTail' <= EventCap /\ parsed' \in Nat
    BY <1>1, SlotsAssumption DEF SlotsTypeOK
  <2> QED BY <1>1, <1>5, <2>1 DEF SlotsTypeOK
<1>7. ASSUME NEW j \in evTail..evHead PROVE FreshEvent(events'[j % EventCap])
  <2>1. CASE j = evHead
    BY <1>4, <1>5, <2>1 DEF i
  <2>2. CASE j < evHead
    <3>1. j \in Nat /\ j \in evTail..(evHead - 1) /\ evHead - j < EventCap /\ evHead \in Nat
      BY <1>1, <2>2, SlotsAssumption DEF SlotsTypeOK
    <3>2. j % EventCap # i /\ j % EventCap \in 0..(EventCap - 1)
      BY <2>2, <3>1, SlotsApart, SlotIndex, SlotsAssumption DEF i
    <3>3. FreshEvent(events[j % EventCap])
      BY <3>1 DEF SlotsFresh
    <3> QED BY <1>5, <3>2, <3>3
  <2> QED BY <2>1, <2>2 DEF SlotsTypeOK
<1>8. SlotsFresh'
  <2>1. evHead' - 1 = evHead /\ evTail' = evTail
    BY <1>1 DEF SlotsTypeOK
  <2>2. \A j \in evTail'..(evHead' - 1) : FreshEvent(events'[j % EventCap])
    BY <1>7, <2>1
  <2>3. \A j \in frTail'..(frHead' - 1) : FreshFrame(frames'[j % FrameCap])
    BY <1>1 DEF SlotsFresh
  <2> QED BY ONLY <2>2, <2>3 DEF SlotsFresh, FreshEvent, FreshFrame
<1>9. NoStaleField'
  BY <1>1 DEF NoStaleField
<1> QED BY <1>6, <1>8, <1>9

\* What is read of the oldest event is that event's.
LEMMA OldestEvent ==
    ASSUME SlotsIInv, evTail < evHead
    PROVE  LET e == events[evTail % EventCap]
           IN  /\ e \in EventSlot /\ e.type \in MsgType /\ e.has["message_type"] \in Nat
               /\ \A f \in Reads(e.type) \union ReadsFiltered(e.type) :
                     e.has[f] = e.has["message_type"]
<1> DEFINE e == events[evTail % EventCap]
<1>1. evTail \in evTail..(evHead - 1) /\ evTail % EventCap \in 0..(EventCap - 1)
  BY SlotIndex, SlotsAssumption DEF SlotsIInv, SlotsTypeOK
<1>2. e \in EventSlot /\ FreshEvent(e)
  BY <1>1 DEF SlotsIInv, SlotsTypeOK, SlotsFresh
<1> HIDE DEF e
<1>3. e.type \in MsgType /\ "message_type" \in EventField
  BY <1>2 DEF FreshEvent, EventField
<1>4. e.has["message_type"] \in Nat
  BY <1>2, <1>3 DEF EventSlot
<1>5. Reads(e.type) \subseteq Writes(e.type) /\ ReadsFiltered(e.type) \subseteq Writes(e.type)
  BY <1>3, ReadsAreWritten
<1>6. \A f \in Reads(e.type) \union ReadsFiltered(e.type) : e.has[f] = e.has["message_type"]
  BY <1>2, <1>5 DEF FreshEvent
<1> QED BY <1>2, <1>3, <1>4, <1>6 DEF e

\* core_main pops an event that is filtered out.
LEMMA FilterStep ==
    ASSUME SlotsIInv, Filter
    PROVE  SlotsIInv'
<1> DEFINE e == events[evTail % EventCap]
<1>1. /\ evTail < evHead /\ evTail' = evTail + 1
      /\ coreUse' = [msg |-> e.has["message_type"],
                     read |-> {e.has[f] : f \in ReadsFiltered(e.type)}]
      /\ UNCHANGED <<events, evHead, frames, frHead, frTail, scratch, parsed, execUse>>
  BY DEF Filter
<1>2. \A f \in ReadsFiltered(e.type) : e.has[f] = e.has["message_type"]
  BY <1>1, OldestEvent
<1> HIDE DEF e
<1>3. SlotsTypeOK'
  BY <1>1, SlotsAssumption DEF SlotsIInv, SlotsTypeOK
<1>4. SlotsFresh'
  <2>1. \A j \in (evTail + 1)..(evHead - 1) : j \in evTail..(evHead - 1)
    BY DEF SlotsIInv, SlotsTypeOK
  <2> QED BY <1>1, <2>1 DEF SlotsIInv, SlotsFresh, FreshEvent, FreshFrame
<1>5. NoStaleField'
  <2>1. coreUse'.read \subseteq {coreUse'.msg}
    BY <1>1, <1>2
  <2> QED BY <1>1, <2>1 DEF SlotsIInv, NoStaleField
<1> QED BY <1>3, <1>4, <1>5 DEF SlotsIInv

\* core_main pops an event of the symbol, captures the book and fills a frame.
LEMMA ApplyStep ==
    ASSUME SlotsIInv, NEW nb \in 0..Depth, NEW trade \in BOOLEAN, Apply(nb, trade)
    PROVE  SlotsIInv'
<1> DEFINE e == events[evTail % EventCap]
           m == e.has["message_type"]
           i == frHead % FrameCap
           u == FrameOf(frames[i], m, nb, trade, e.type = "Q", scratch')
<1>1. /\ evTail < evHead /\ evTail' = evTail + 1
      /\ coreUse' = [msg |-> m, read |-> {e.has[f] : f \in Reads(e.type)}]
      /\ scratch' = [l \in 1..Depth |-> IF l <= nb THEN m ELSE scratch[l]]
      /\ UNCHANGED <<events, evHead, frTail, parsed, execUse>>
  BY DEF Apply
<1>2. \/ /\ frHead - frTail < FrameCap
         /\ frames' = [frames EXCEPT ![i] = u] /\ frHead' = frHead + 1
      \/ UNCHANGED <<frames, frHead>>
  BY Zenon DEF Apply
<1>3. m \in Nat /\ \A f \in Reads(e.type) : e.has[f] = m
  BY <1>1, OldestEvent
<1>4. /\ evHead \in Nat /\ evTail \in Nat /\ evTail <= evHead /\ evHead - evTail <= EventCap
      /\ frHead \in Nat /\ frTail \in Nat /\ frTail <= frHead /\ frHead - frTail <= FrameCap
      /\ EventCap \in Nat /\ FrameCap \in Nat \ {0} /\ Depth \in Nat
      /\ events \in [0..(EventCap - 1) -> EventSlot]
      /\ frames \in [0..(FrameCap - 1) -> FrameSlot]
      /\ scratch \in [1..Depth -> Nat] /\ parsed \in Nat
  BY SlotsAssumption DEF SlotsIInv, SlotsTypeOK
<1>5. i \in 0..(FrameCap - 1)
  BY <1>4, SlotIndex
<1>6. frames[i].bids \in [1..Depth -> Nat]
  <2>1. frames[i] \in FrameSlot
    BY <1>4, <1>5
  <2> QED BY <2>1 DEF FrameSlot
<1>7. scratch' \in [1..Depth -> Nat] /\ \A l \in 1..nb : l \in 1..Depth /\ scratch'[l] = m
  <2> HIDE DEF m
  <2>1. scratch' \in [1..Depth -> Nat]
    BY <1>1, <1>3, <1>4
  <2>2. \A l \in 1..nb : l \in 1..Depth /\ l <= nb
    BY <1>4
  <2> QED BY <1>1, <2>1, <2>2
<1>8. /\ u.msg = m /\ u.nb = nb /\ u.has = [f \in FrameField |-> m]
      /\ u.bids = [l \in 1..Depth |-> IF l <= nb THEN scratch'[l] ELSE frames[i].bids[l]]
      /\ u = [msg |-> m, nb |-> nb, trade |-> trade, cross |-> (e.type = "Q"),
              has |-> u.has, bids |-> u.bids]
  BY Zenon DEF FrameOf
<1> HIDE DEF e, m, i, u
<1>9. u \in FrameSlot
  <2>1. u.has \in [FrameField -> Nat]
    BY <1>3, <1>8
  <2>2. u.bids \in [1..Depth -> Nat]
    BY <1>4, <1>6, <1>7, <1>8
  <2>3. (e.type = "Q") \in BOOLEAN
    OBVIOUS
  <2> DEFINE q == (e.type = "Q")
  <2>4. u = [msg |-> m, nb |-> nb, trade |-> trade, cross |-> q, has |-> u.has, bids |-> u.bids]
    BY <1>8
  <2>5. q \in BOOLEAN
    BY <2>3
  <2> DEFINE h == u.has
             b == u.bids
  <2>6. h \in [FrameField -> Nat] /\ b \in [1..Depth -> Nat] /\ m \in Nat
    BY <1>3, <2>1, <2>2
  <2> HIDE DEF q, h, b
  <2>7. [msg |-> m, nb |-> nb, trade |-> trade, cross |-> q, has |-> h, bids |-> b] \in FrameSlot
    BY <2>5, <2>6, Zenon DEF FrameSlot
  <2> QED BY <2>4, <2>7 DEF h, b
<1>10. FreshFrame(u)
  <2>1. \A f \in FrameField : u.has[f] = u.msg
    BY <1>8
  <2>2. \A l \in 1..nb : u.bids[l] = m
    <3>1. \A l \in 1..nb : l <= nb
      BY <1>4
    <3> QED BY <1>7, <1>8, <3>1
  <2> QED BY <1>8, <2>1, <2>2 DEF FreshFrame
<1>11. /\ frHead' \in Nat /\ frTail <= frHead' /\ frHead' - frTail <= FrameCap
       /\ frames' \in [0..(FrameCap - 1) -> FrameSlot]
       /\ \A j \in frTail..(frHead' - 1) : FreshFrame(frames'[j % FrameCap])
  <2>0. \A j \in frTail..(frHead - 1) : FreshFrame(frames[j % FrameCap])
    BY DEF SlotsIInv, SlotsFresh
  <2>1. CASE UNCHANGED <<frames, frHead>>
    BY <1>4, <2>0, <2>1
  <2>2. CASE /\ frHead - frTail < FrameCap
             /\ frames' = [frames EXCEPT ![i] = u] /\ frHead' = frHead + 1
    <3>1. /\ frames' \in [0..(FrameCap - 1) -> FrameSlot] /\ frames'[i] = u
          /\ \A x \in 0..(FrameCap - 1) : x # i => frames'[x] = frames[x]
      BY <1>4, <1>5, <1>9, <2>2
    <3>2. frHead' \in Nat /\ frTail <= frHead' /\ frHead' - frTail <= FrameCap /\ frHead' - 1 = frHead
      BY <1>4, <2>2
    <3>3. ASSUME NEW j \in frTail..frHead PROVE FreshFrame(frames'[j % FrameCap])
      <4>1. CASE j = frHead
        BY <1>10, <3>1, <4>1 DEF i
      <4>2. CASE j < frHead
        <5>1. j \in Nat /\ j \in frTail..(frHead - 1) /\ frHead - j < FrameCap
          BY <1>4, <2>2, <4>2
        <5>2. j % FrameCap # i /\ j % FrameCap \in 0..(FrameCap - 1)
          BY <1>4, <4>2, <5>1, SlotsApart, SlotIndex DEF i
        <5> QED BY <2>0, <3>1, <5>1, <5>2
      <4> QED BY <1>4, <4>1, <4>2
    <3> QED BY <3>1, <3>2, <3>3
  <2> QED BY <1>2, <2>1, <2>2
<1>12. SlotsTypeOK'
  <2>1. evTail' \in Nat /\ evTail' <= evHead /\ evHead - evTail' <= EventCap
    BY <1>1, <1>4
  <2>2. UNCHANGED <<events, evHead, frTail, parsed>> /\ scratch' \in [1..Depth -> Nat]
    BY <1>1, <1>7
  <2> QED BY ONLY <1>4, <1>11, <2>1, <2>2 DEF SlotsTypeOK
<1>13. SlotsFresh'
  <2>1. \A j \in (evTail + 1)..(evHead - 1) : j \in evTail..(evHead - 1)
    BY <1>4
  <2>2. \A j \in evTail'..(evHead' - 1) : FreshEvent(events'[j % EventCap])
    BY <1>1, <2>1 DEF SlotsIInv, SlotsFresh
  <2>3. \A j \in frTail'..(frHead' - 1) : FreshFrame(frames'[j % FrameCap])
    BY <1>1, <1>11
  <2> QED BY ONLY <2>2, <2>3 DEF SlotsFresh, FreshEvent, FreshFrame
<1>14. NoStaleField'
  <2>1. coreUse'.read \subseteq {coreUse'.msg}
    BY <1>1, <1>3
  <2> QED BY <1>1, <2>1 DEF SlotsIInv, NoStaleField
<1> QED BY <1>12, <1>13, <1>14 DEF SlotsIInv

\* The exec pops a frame.
LEMMA HandleStep ==
    ASSUME SlotsIInv, Handle
    PROVE  SlotsIInv'
<1> DEFINE u == frames[frTail % FrameCap]
           header == FrameField \ {"trade_price", "trade_side"}
           tradeFields == IF ~u.trade THEN {}
                          ELSE IF u.cross THEN {"trade_price"}
                          ELSE {"trade_price", "trade_side"}
           F == header \union tradeFields
<1>1. /\ frTail < frHead /\ frTail' = frTail + 1
      /\ execUse' = [msg |-> u.msg,
                     read |-> {u.has[f] : f \in F} \union {u.bids[l] : l \in 1..u.nb}]
      /\ UNCHANGED <<events, evHead, evTail, frames, frHead, scratch, parsed, coreUse>>
  BY DEF Handle
<1>2. F \subseteq FrameField
  BY DEF FrameField
<1>3. FreshFrame(u)
  <2>1. frTail \in frTail..(frHead - 1)
    BY <1>1 DEF SlotsIInv, SlotsTypeOK
  <2> QED BY <2>1 DEF SlotsIInv, SlotsFresh
<1> HIDE DEF u, F
<1>4. SlotsTypeOK'
  BY <1>1, SlotsAssumption DEF SlotsIInv, SlotsTypeOK
<1>5. SlotsFresh'
  <2>1. \A j \in (frTail + 1)..(frHead - 1) : j \in frTail..(frHead - 1)
    BY DEF SlotsIInv, SlotsTypeOK
  <2> QED BY <1>1, <2>1 DEF SlotsIInv, SlotsFresh, FreshEvent, FreshFrame
<1>6. NoStaleField'
  <2>1. execUse'.read \subseteq {execUse'.msg}
    BY <1>1, <1>2, <1>3 DEF FreshFrame
  <2> QED BY <1>1, <2>1 DEF SlotsIInv, NoStaleField
<1> QED BY <1>4, <1>5, <1>6 DEF SlotsIInv

\* Whatever core reads of an event and the exec of a frame is data of the
\* message it handles, for every size of the rings and every depth, though the
\* slots and the snapshot are reused (ItchParser::next, build_market_update).
THEOREM NothingStale == SlotsSpec => []NoStaleField
<1>1. SlotsIInv /\ [SlotsNext]_slotVars => SlotsIInv'
  <2> SUFFICES ASSUME SlotsIInv, [SlotsNext]_slotVars PROVE SlotsIInv'
    OBVIOUS
  <2>1. CASE \E t \in MsgType : Parse(t)
    BY <2>1, ParseStep
  <2>2. CASE Skip
    BY <2>2 DEF Skip, SlotsIInv, SlotsTypeOK, SlotsFresh, FreshEvent, FreshFrame, NoStaleField
  <2>3. CASE Filter
    BY <2>3, FilterStep
  <2>4. CASE \E nb \in 0..Depth, trade \in BOOLEAN : Apply(nb, trade)
    BY <2>4, ApplyStep
  <2>5. CASE Handle
    BY <2>5, HandleStep
  <2>6. CASE UNCHANGED slotVars
    BY <2>6 DEF slotVars, SlotsIInv, SlotsTypeOK, SlotsFresh, FreshEvent, FreshFrame, NoStaleField
  <2> QED BY <2>1, <2>2, <2>3, <2>4, <2>5, <2>6 DEF SlotsNext
<1>2. SlotsIInv => NoStaleField
  BY DEF SlotsIInv
<1> QED BY SlotsInitIInv, <1>1, <1>2, PTL DEF SlotsSpec

-----------------------------------------------------------------------------
(* Loader: load_strategy.                                                  *)

LoadedFds == {m.memfd : m \in loaded}
LinkPaths == {l.path : l \in links}

\* The descriptor that a call has open, and the linker's module of a call.
OwnFd == IF step = "opened" THEN {fd}
         ELSE IF step \in {"copied", "linked"} THEN {memfd} ELSE {}
OwnLink == IF step = "linked" THEN {memfd} ELSE {}

\* A call's own descriptor and module are never those of a module loaded, and
\* there is nothing else.
LoaderHolds ==
    /\ step \in {"idle", "opened", "mapped", "checked", "copied", "linked"}
    /\ DOMAIN fds = LoadedFds \union OwnFd /\ OwnFd \intersect LoadedFds = {}
    /\ LinkPaths = LoadedFds \union OwnLink
    /\ \A l \in links : l.users = 1
    /\ img => step \in {"mapped", "checked"}
    /\ IsFiniteSet(loaded) /\ IsFiniteSet(LoadedFds)
    /\ Cardinality(loaded) = Cardinality(LoadedFds)

\* What a call has found out about the file and its copy so far.
LoaderKnows ==
    /\ step = "checked" => (touched \/ file \notin HasTls)
    /\ step \in {"copied", "linked"} => (touched \/ fds[memfd] \notin HasTls)
    /\ step = "linked" => /\ fds[memfd] \notin NotElf
                          /\ \A l \in links : l.path = memfd => l.image = fds[memfd]

LoaderIInv == LoaderHolds /\ LoaderKnows /\ RunsWhatItChecked

LEMMA LoaderInitIInv == LoaderInit => LoaderIInv
<1> SUFFICES ASSUME LoaderInit PROVE LoaderIInv
  OBVIOUS
<1>1. /\ step = "idle" /\ img = FALSE /\ links = {} /\ loaded = {} /\ DOMAIN fds = {}
  BY DEF LoaderInit
<1>2. LoadedFds = {} /\ LinkPaths = {} /\ OwnFd = {} /\ OwnLink = {}
  BY <1>1 DEF LoadedFds, LinkPaths, OwnFd, OwnLink
<1>3. LoaderHolds
  BY <1>1, <1>2, FS_EmptySet DEF LoaderHolds
<1>4. LoaderKnows /\ RunsWhatItChecked
  BY <1>1 DEF LoaderKnows, RunsWhatItChecked
<1> QED BY <1>3, <1>4 DEF LoaderIInv

LEMMA LowestIsFree ==
    ASSUME FreeFds # {}
    PROVE  LowestFd \notin DOMAIN fds
<1>1. IsFiniteSet(0..MaxFd) /\ FreeFds \subseteq 0..MaxFd /\ 0..MaxFd \subseteq Int
  BY LoaderAssumption, FS_Interval DEF FreeFds
<1>2. IsFiniteSet(FreeFds) /\ FreeFds \subseteq Int
  BY <1>1, FS_Subset
<1>3. LowestFd \in FreeFds
  BY <1>2, MinIs DEF LowestFd
<1> QED BY <1>3 DEF FreeFds

LEMMA FdTable ==
    ASSUME NEW d, NEW c
    PROVE  /\ DOMAIN WithFd(d, c) = DOMAIN fds \union {d} /\ WithFd(d, c)[d] = c
           /\ DOMAIN WithoutFd(d) = DOMAIN fds \ {d}
BY DEF WithFd, WithoutFd

\* A step that loads nothing and leaves the linker alone.
LEMMA QuietStep ==
    ASSUME LoaderIInv, UNCHANGED <<links, loaded>>,
           step' \in {"idle", "opened", "mapped", "checked", "copied"}, step # "linked",
           DOMAIN fds' = LoadedFds \union OwnFd', OwnFd' \intersect LoadedFds = {},
           img' => step' \in {"mapped", "checked"},
           LoaderKnows'
    PROVE  LoaderIInv'
<1>1. LoadedFds' = LoadedFds /\ LinkPaths' = LinkPaths /\ OwnLink = {} /\ OwnLink' = {}
  BY DEF LoadedFds, LinkPaths, OwnLink
<1>2. LoaderHolds'
  <2>1. LoaderHolds
    BY DEF LoaderIInv
  <2>2. /\ step' \in {"idle", "opened", "mapped", "checked", "copied", "linked"}
        /\ DOMAIN fds' = LoadedFds' \union OwnFd' /\ OwnFd' \intersect LoadedFds' = {}
        /\ LinkPaths' = LoadedFds' \union OwnLink'
    BY <1>1, <2>1 DEF LoaderHolds
  <2>3. /\ \A l \in links' : l.users = 1
        /\ IsFiniteSet(loaded') /\ IsFiniteSet(LoadedFds')
        /\ Cardinality(loaded') = Cardinality(LoadedFds')
    BY <1>1, <2>1 DEF LoaderHolds
  <2> QED BY <2>2, <2>3 DEF LoaderHolds
<1>3. RunsWhatItChecked'
  BY DEF LoaderIInv, RunsWhatItChecked
<1> QED BY <1>2, <1>3 DEF LoaderIInv

\* open, mmap and check_elf.
LEMMA OpenStep ==
    ASSUME LoaderIInv, Open
    PROVE  LoaderIInv'
<1>1. /\ step = "idle" /\ FreeFds # {} /\ step' = "opened" /\ fd' = LowestFd
      /\ fds' = WithFd(LowestFd, "file") /\ UNCHANGED <<img, links, loaded>>
  BY DEF Open
<1>2. DOMAIN fds = LoadedFds /\ ~img
  BY <1>1 DEF LoaderIInv, LoaderHolds, OwnFd
<1>3. OwnFd' = {LowestFd} /\ LowestFd \notin LoadedFds
  BY <1>1, <1>2, LowestIsFree DEF OwnFd
<1>4. DOMAIN fds' = LoadedFds \union OwnFd'
  BY <1>1, <1>2, <1>3, FdTable
<1>5. LoaderKnows'
  BY <1>1 DEF LoaderKnows
<1> QED BY <1>1, <1>2, <1>3, <1>4, <1>5, QuietStep

LEMMA MapFileStep ==
    ASSUME LoaderIInv, NEW ok \in BOOLEAN, MapFile(ok)
    PROVE  LoaderIInv'
<1>1. /\ step = "opened" /\ step' \in {"mapped", "idle"} /\ (img' => step' = "mapped")
      /\ fds' = WithoutFd(fd) /\ UNCHANGED <<links, loaded>>
  BY DEF MapFile
<1>2. DOMAIN fds = LoadedFds \union {fd} /\ fd \notin LoadedFds
  BY <1>1 DEF LoaderIInv, LoaderHolds, OwnFd
<1>3. OwnFd' = {} /\ DOMAIN fds' = LoadedFds
  BY <1>1, <1>2, FdTable DEF OwnFd
<1>4. LoaderKnows'
  BY <1>1 DEF LoaderKnows
<1> QED BY <1>1, <1>3, <1>4, QuietStep

LEMMA CheckElfStep ==
    ASSUME LoaderIInv, CheckElf
    PROVE  LoaderIInv'
<1>1. /\ step = "mapped" /\ UNCHANGED <<file, touched, fds, links, loaded>>
  BY DEF CheckElf
<1>2. PICK i \in Image : /\ Seen(i)
                         /\ IF i \in NotElf \union HasTls THEN img' = FALSE /\ step' = "idle"
                            ELSE img' = TRUE /\ step' = "checked"
  BY DEF CheckElf
<1>3. step' \in {"idle", "checked"} /\ (img' => step' = "checked")
  BY <1>2
<1>4. OwnFd' = {} /\ DOMAIN fds' = LoadedFds
  BY <1>1, <1>3 DEF OwnFd, LoaderIInv, LoaderHolds
<1>5. LoaderKnows'
  <2>1. ASSUME step' = "checked" PROVE touched' \/ file' \notin HasTls
    <3>1. i \notin HasTls
      BY <1>2, <2>1
    <3> QED BY <1>1, <1>2, <3>1 DEF Seen
  <2> QED BY <1>3, <2>1 DEF LoaderKnows
<1> QED BY <1>1, <1>3, <1>4, <1>5, QuietStep

\* memfd_create, the writes and munmap.
LEMMA CopyStep ==
    ASSUME LoaderIInv, NEW ok \in BOOLEAN, Copy(ok)
    PROVE  LoaderIInv'
<1>1. /\ step = "checked" /\ img' = FALSE /\ UNCHANGED <<file, touched, links, loaded>>
      /\ ok => FreeFds # {}
  BY DEF Copy
<1>2. DOMAIN fds = LoadedFds /\ (touched \/ file \notin HasTls)
  BY <1>1 DEF LoaderIInv, LoaderHolds, LoaderKnows, OwnFd
<1>3. CASE ~ok
  <2>1. step' = "idle" /\ fds' = fds
    BY <1>3 DEF Copy
  <2>2. OwnFd' = {} /\ LoaderKnows'
    BY <2>1 DEF OwnFd, LoaderKnows
  <2> QED BY <1>1, <1>2, <2>1, <2>2, QuietStep
<1>4. CASE ok
  <2>1. PICK i \in Image : Seen(i) /\ fds' = WithFd(LowestFd, i)
    BY <1>4 DEF Copy
  <2>2. step' = "copied" /\ memfd' = LowestFd
    BY <1>4 DEF Copy
  <2>3. DOMAIN fds' = LoadedFds \union {LowestFd} /\ fds'[LowestFd] = i
    BY <1>2, <2>1, FdTable
  <2>4. OwnFd' = {LowestFd} /\ LowestFd \notin LoadedFds
    BY <1>1, <1>2, <1>4, <2>2, LowestIsFree DEF OwnFd
  <2>5. touched \/ i \notin HasTls
    BY <1>2, <2>1 DEF Seen
  <2>6. LoaderKnows'
    BY <1>1, <2>2, <2>3, <2>5 DEF LoaderKnows
  <2> QED BY <1>1, <2>2, <2>3, <2>4, <2>6, QuietStep
<1> QED BY <1>3, <1>4

\* dlopen: the path of the memfd is not one the linker knows.
LEMMA DlopenStep ==
    ASSUME LoaderIInv, NEW ok \in BOOLEAN, Dlopen(ok)
    PROVE  LoaderIInv'
<1>1. step = "copied" /\ UNCHANGED <<file, touched, memfd, img, loaded>>
  BY DEF Dlopen
<1>2. /\ DOMAIN fds = LoadedFds \union {memfd} /\ memfd \notin LoadedFds
      /\ LinkPaths = LoadedFds /\ ~img /\ (touched \/ fds[memfd] \notin HasTls)
      /\ \A l \in links : l.users = 1
  BY <1>1 DEF LoaderIInv, LoaderHolds, LoaderKnows, OwnFd, OwnLink
<1>3. LinkAt(memfd) = {} /\ \A l \in links : l.path # memfd
  BY <1>2 DEF LinkAt, LinkPaths
<1>4. CASE ~ok
  <2>1. fds' = WithoutFd(memfd) /\ step' = "idle" /\ links' = links
    BY <1>4 DEF Dlopen
  <2>2. OwnFd' = {} /\ LoaderKnows' /\ DOMAIN fds' = LoadedFds
    BY <1>2, <2>1, FdTable DEF OwnFd, LoaderKnows
  <2> QED BY <1>1, <1>2, <2>1, <2>2, QuietStep
<1>5. CASE ok
  <2> DEFINE k == [path |-> memfd, image |-> fds[memfd], users |-> 1]
  <2>1. /\ fds[memfd] \notin NotElf /\ step' = "linked" /\ fds' = fds
        /\ links' = {l \in links : l.path # memfd} \union {k}
    BY <1>3, <1>5 DEF Dlopen
  <2>2. links' = links \union {k}
    BY <1>3, <2>1
  <2>3. k.path = memfd /\ k.image = fds[memfd] /\ k.users = 1
    OBVIOUS
  <2> HIDE DEF k
  <2>4. /\ LoadedFds' = LoadedFds /\ OwnFd' = {memfd} /\ OwnLink' = {memfd}
        /\ LinkPaths' = LinkPaths \union {memfd}
    <3>1. LinkPaths' = LinkPaths \union {memfd}
      BY <2>2, <2>3 DEF LinkPaths
    <3>2. OwnFd' = {memfd} /\ OwnLink' = {memfd} /\ LoadedFds' = LoadedFds
      BY <1>1, <2>1 DEF LoadedFds, OwnFd, OwnLink
    <3> QED BY <3>1, <3>2
  <2>5. LoaderHolds'
    <3>1. /\ DOMAIN fds' = LoadedFds' \union OwnFd' /\ OwnFd' \intersect LoadedFds' = {}
          /\ LinkPaths' = LoadedFds' \union OwnLink'
      BY <1>2, <2>1, <2>4
    <3>2. (\A l \in links' : l.users = 1) /\ ~img'
      BY <1>1, <1>2, <2>2, <2>3
    <3>3. /\ IsFiniteSet(loaded') /\ IsFiniteSet(LoadedFds')
          /\ Cardinality(loaded') = Cardinality(LoadedFds')
      BY <1>1, <2>4 DEF LoaderIInv, LoaderHolds
    <3> QED BY <2>1, <3>1, <3>2, <3>3 DEF LoaderHolds
  <2>6. LoaderKnows'
    BY <1>1, <1>2, <1>3, <2>1, <2>2, <2>3 DEF LoaderKnows
  <2>7. RunsWhatItChecked'
    BY <1>1 DEF LoaderIInv, RunsWhatItChecked
  <2> QED BY <2>5, <2>6, <2>7 DEF LoaderIInv
<1> QED BY <1>4, <1>5

\* dlsym and check_module, which keep the module or let go of all of it.
LEMMA CheckModuleStep ==
    ASSUME LoaderIInv, CheckModule
    PROVE  LoaderIInv'
<1> DEFINE i == fds[memfd]
<1>1. step = "linked" /\ step' = "idle" /\ UNCHANGED <<touched, img>>
  BY DEF CheckModule
<1>2. /\ DOMAIN fds = LoadedFds \union {memfd} /\ memfd \notin LoadedFds
      /\ LinkPaths = LoadedFds \union {memfd} /\ ~img
      /\ \A l \in links : l.users = 1
      /\ IsFiniteSet(loaded) /\ IsFiniteSet(LoadedFds)
      /\ Cardinality(loaded) = Cardinality(LoadedFds)
  BY <1>1 DEF LoaderIInv, LoaderHolds, OwnFd, OwnLink
<1>3. /\ i \notin NotElf /\ (touched \/ i \notin HasTls)
      /\ \A l \in links : l.path = memfd => l.image = i
  BY <1>1 DEF LoaderIInv, LoaderKnows
<1>4. PICK k \in links : k.path = memfd
  <2>1. memfd \in LinkPaths
    BY <1>2
  <2> QED BY <2>1 DEF LinkPaths
<1>5. k \in LinkAt(memfd) /\ \A l \in LinkAt(memfd) : l.image = i
  BY <1>3, <1>4 DEF LinkAt
<1>6. OwnFd' = {} /\ OwnLink' = {} /\ LoaderKnows' /\ ~img'
  BY <1>1, <1>2 DEF OwnFd, OwnLink, LoaderKnows
<1> HIDE DEF i
<1>7. CASE Refuse
  <2>1. fds' = WithoutFd(memfd) /\ links' = Unlinked(memfd) /\ loaded' = loaded
    BY <1>7 DEF Refuse
  <2>2. links' = {l \in links : l.path # memfd}
    <3>1. {l \in LinkAt(memfd) : l.users > 1} = {}
      <4>1. \A l \in LinkAt(memfd) : l.users = 1
        BY <1>2 DEF LinkAt
      <4>2. ~(1 > 1)
        OBVIOUS
      <4> QED BY <4>1, <4>2
    <3> QED BY <2>1, <3>1 DEF Unlinked
  <2>3. LoadedFds' = LoadedFds
    BY <2>1 DEF LoadedFds
  <2>4. LinkPaths' = LinkPaths \ {memfd}
    BY <2>2 DEF LinkPaths
  <2>5. DOMAIN fds' = LoadedFds /\ LinkPaths' = LoadedFds
    BY <1>2, <2>1, <2>4, FdTable
  <2>6. LoaderHolds'
    <3>1. \A l \in links' : l.users = 1
      BY <1>2, <2>2
    <3> QED BY <1>1, <1>2, <1>6, <2>1, <2>3, <2>5, <3>1 DEF LoaderHolds
  <2>7. RunsWhatItChecked'
    BY <2>1 DEF LoaderIInv, RunsWhatItChecked
  <2> QED BY <1>6, <2>6, <2>7 DEF LoaderIInv
<1>8. CASE Accept /\ ~\E l \in LinkAt(memfd) : l.image \in NoTable \union OtherAbi
  <2> DEFINE m == [call |-> loads, memfd |-> memfd, copied |-> fds[memfd],
                   runs |-> (CHOOSE l \in LinkAt(memfd) : TRUE).image, touched |-> touched]
  <2>1. loaded' = loaded \union {m} /\ UNCHANGED <<fds, links>>
    BY <1>8 DEF Accept
  <2>2. (CHOOSE l \in LinkAt(memfd) : TRUE).image = i
    BY <1>5
  <2>3. i \notin NoTable \union OtherAbi
    BY <1>5, <1>8
  <2>4. m.memfd = memfd /\ m.copied = i /\ m.runs = i /\ m.touched = touched
    BY <2>2 DEF i
  <2> HIDE DEF m
  <2>5. LoadedFds' = LoadedFds \union {memfd} /\ LinkPaths' = LinkPaths
    <3>1. LoadedFds' = LoadedFds \union {memfd}
      BY <2>1, <2>4 DEF LoadedFds
    <3> QED BY <2>1, <3>1 DEF LinkPaths
  <2>6. m \notin loaded
    BY <1>2, <2>4 DEF LoadedFds
  <2>7. /\ IsFiniteSet(loaded') /\ IsFiniteSet(LoadedFds')
        /\ Cardinality(loaded') = Cardinality(LoadedFds')
    <3>1. IsFiniteSet(loaded \union {m}) /\ Cardinality(loaded \union {m}) = Cardinality(loaded) + 1
      BY <1>2, <2>6, FS_AddElement
    <3>2. /\ IsFiniteSet(LoadedFds \union {memfd})
          /\ Cardinality(LoadedFds \union {memfd}) = Cardinality(LoadedFds) + 1
      BY <1>2, FS_AddElement
    <3> QED BY <1>2, <2>1, <2>5, <3>1, <3>2
  <2>8. LoaderHolds'
    <3>1. /\ DOMAIN fds' = LoadedFds' \union OwnFd' /\ OwnFd' \intersect LoadedFds' = {}
          /\ LinkPaths' = LoadedFds' \union OwnLink'
      BY <1>2, <1>6, <2>1, <2>5
    <3>2. \A l \in links' : l.users = 1
      BY <1>2, <2>1
    <3> QED BY <1>1, <1>6, <2>7, <3>1, <3>2 DEF LoaderHolds
  <2>9. RunsWhatItChecked'
    BY <1>3, <2>1, <2>3, <2>4 DEF LoaderIInv, RunsWhatItChecked
  <2> QED BY <1>6, <2>8, <2>9 DEF LoaderIInv
<1> QED BY <1>7, <1>8 DEF CheckModule

\* A build rewrites the file.
LEMMA RewriteStep ==
    ASSUME LoaderIInv, NEW i \in Image, Rewrite(i)
    PROVE  LoaderIInv'
<1>1. touched' = TRUE /\ UNCHANGED <<step, fd, memfd, img, fds, links, loaded>>
  BY DEF Rewrite
<1>2. UNCHANGED <<LoadedFds, LinkPaths, OwnFd, OwnLink>>
  BY <1>1 DEF LoadedFds, LinkPaths, OwnFd, OwnLink
<1>3. LoaderHolds'
  BY <1>1, <1>2 DEF LoaderIInv, LoaderHolds
<1>4. LoaderKnows'
  BY <1>1 DEF LoaderIInv, LoaderKnows
<1>5. RunsWhatItChecked'
  BY <1>1 DEF LoaderIInv, RunsWhatItChecked
<1> QED BY <1>3, <1>4, <1>5 DEF LoaderIInv

\* A loaded module runs what its own load copied and checked, and no failure
\* leaves a descriptor or a linked module behind, for every set of images,
\* however often and whenever the file is rewritten (load_strategy).
THEOREM LoadsSound == LoaderSpec => []LoaderSound
<1>1. LoaderIInv /\ [LoaderNext]_loaderVars => LoaderIInv'
  <2> SUFFICES ASSUME LoaderIInv, [LoaderNext]_loaderVars PROVE LoaderIInv'
    OBVIOUS
  <2>1. CASE LoaderNext
    BY <2>1, OpenStep, CheckElfStep, CheckModuleStep, MapFileStep, CopyStep, DlopenStep,
       RewriteStep DEF LoaderNext
  <2>2. CASE UNCHANGED loaderVars
    <3>1. UNCHANGED <<file, touched, step, fd, memfd, img, fds, links, loaded>>
      BY <2>2 DEF loaderVars
    <3>2. UNCHANGED <<LoadedFds, LinkPaths, OwnFd, OwnLink>>
      BY <3>1 DEF LoadedFds, LinkPaths, OwnFd, OwnLink
    <3> QED BY <3>1, <3>2 DEF LoaderIInv, LoaderHolds, LoaderKnows, RunsWhatItChecked
  <2> QED BY <2>1, <2>2
<1>2. LoaderIInv => LoaderSound
  <2> SUFFICES ASSUME LoaderIInv PROVE LoaderSound
    OBVIOUS
  <2>1. NothingLeaks
    <3> SUFFICES ASSUME step = "idle"
                 PROVE  /\ ~img /\ DOMAIN fds = LoadedFds
                        /\ LinkPaths = DOMAIN fds /\ \A l \in links : l.users = 1
                        /\ Cardinality(loaded) = Cardinality(DOMAIN fds)
      BY DEF NothingLeaks, LoadedFds, LinkPaths
    <3>1. OwnFd = {} /\ OwnLink = {}
      BY DEF OwnFd, OwnLink
    <3> QED BY <3>1 DEF LoaderIInv, LoaderHolds
  <2> QED BY <2>1 DEF LoaderIInv, LoaderSound
<1> QED BY LoaderInitIInv, <1>1, <1>2, PTL DEF LoaderSpec

-----------------------------------------------------------------------------
(* ConfigFile: Config::load.                                               *)

CfgLine == [kind : {"assign", "blank", "noEquals", "emptyKey", "tooLong"},
            key : CfgKey \union {NoVal}, val : CfgVal \union {NoVal}]
CfgEntry == [key : CfgKey, val : CfgVal]

CfgTypeOK ==
    /\ cfgLines \in Seq(CfgLine) /\ entries \in Seq(CfgEntry) /\ cfgOk \in BOOLEAN
    /\ Len(entries) <= MAX_ENTRIES
    /\ \A i \in 1..Len(cfgLines) : cfgLines[i].kind = "assign" => cfgLines[i].key \in CfgKey

\* F and L are the first and the last line that assign a key, 0 if none does.
LinesOf(F, L) ==
    LET n == Len(cfgLines)
        AssignsTo(i, k) == i \in 1..n /\ cfgLines[i].kind = "assign" /\ cfgLines[i].key = k
    IN  /\ F \in [CfgKey -> Nat] /\ L \in [CfgKey -> Nat]
        /\ \A k \in CfgKey : F[k] # 0 => AssignsTo(F[k], k) /\ AssignsTo(L[k], k)
        /\ \A i \in 1..n : cfgLines[i].kind = "assign" =>
              LET k == cfgLines[i].key IN F[k] # 0 /\ F[k] <= i /\ i <= L[k]

KeysSeen(F) == {k \in CfgKey : F[k] # 0}
BadLine == \E i \in 1..Len(cfgLines) : cfgLines[i].kind \notin {"assign", "blank"}

\* While load will succeed, the table has the keys of the file in its order
\* with their last values; load fails for a line or for the number of keys.
TableOf(F, L) ==
    LET m == Len(entries)
    IN  /\ IsFiniteSet(KeysSeen(F))
        /\ ~cfgOk => (BadLine \/ Cardinality(KeysSeen(F)) > MAX_ENTRIES)
        /\ cfgOk => ~BadLine /\ Cardinality(KeysSeen(F)) = m
        /\ cfgOk => \A i \in 1..m : /\ F[entries[i].key] # 0
                                    /\ entries[i].val = cfgLines[L[entries[i].key]].val
        /\ cfgOk => \A i, j \in 1..m : i < j => F[entries[i].key] < F[entries[j].key]
        /\ cfgOk => \A k \in CfgKey : F[k] # 0 => \E i \in 1..m : entries[i].key = k

CfgIInv == CfgTypeOK /\ \E F, L : LinesOf(F, L) /\ TableOf(F, L)

LEMMA CfgInitIInv == CfgInit => CfgIInv
<1> SUFFICES ASSUME CfgInit PROVE CfgIInv
  OBVIOUS
<1>1. cfgLines = <<>> /\ entries = <<>> /\ cfgOk = TRUE /\ Len(cfgLines) = 0 /\ Len(entries) = 0
  BY EmptySeq DEF CfgInit
<1>2. CfgTypeOK
  <2>1. cfgLines \in Seq(CfgLine) /\ entries \in Seq(CfgEntry) /\ cfgOk \in BOOLEAN
    BY <1>1, EmptySeq
  <2> QED BY <1>1, <2>1, ConfigAssumption DEF CfgTypeOK
<1> DEFINE F == [k \in CfgKey |-> 0]
<1>3. LinesOf(F, F)
  BY <1>1 DEF LinesOf
<1>4. KeysSeen(F) = {} /\ ~BadLine
  BY <1>1 DEF KeysSeen, BadLine
<1>5. TableOf(F, F)
  BY <1>1, <1>4, FS_EmptySet DEF TableOf
<1> QED BY <1>2, <1>3, <1>5 DEF CfgIInv

LEMMA CfgFacts ==
    ASSUME CfgTypeOK
    PROVE  /\ Len(cfgLines) \in Nat /\ Len(entries) \in Nat /\ MAX_ENTRIES \in Nat
           /\ DOMAIN cfgLines = 1..Len(cfgLines) /\ DOMAIN entries = 1..Len(entries)
           /\ \A i \in 1..Len(cfgLines) : cfgLines[i] \in CfgLine
           /\ \A i \in 1..Len(entries) :
                 entries[i] \in CfgEntry /\ entries[i].key \in CfgKey /\ entries[i].val \in CfgVal
<1>1. /\ Len(cfgLines) \in Nat /\ Len(entries) \in Nat /\ MAX_ENTRIES \in Nat
      /\ DOMAIN cfgLines = 1..Len(cfgLines) /\ DOMAIN entries = 1..Len(entries)
  BY LenProperties, ConfigAssumption DEF CfgTypeOK
<1>2. \A i \in 1..Len(cfgLines) : cfgLines[i] \in CfgLine
  BY ElementOfSeq DEF CfgTypeOK
<1>3. \A i \in 1..Len(entries) : entries[i] \in CfgEntry
  BY ElementOfSeq DEF CfgTypeOK
<1>4. \A i \in 1..Len(entries) : entries[i].key \in CfgKey /\ entries[i].val \in CfgVal
  BY <1>3 DEF CfgEntry
<1> QED BY <1>1, <1>2, <1>3, <1>4

\* find returns an entry of the key, and 0 only if there is none.
LEMMA FindIs ==
    ASSUME CfgTypeOK, NEW k
    PROVE  \/ FindEntry(k) = 0 /\ \A i \in 1..Len(entries) : entries[i].key # k
           \/ /\ FindEntry(k) # 0 /\ FindEntry(k) \in 1..Len(entries)
              /\ entries[FindEntry(k)].key = k
<1> DEFINE H == {i \in DOMAIN entries : entries[i].key = k}
<1>1. FindEntry(k) = IF H = {} THEN 0 ELSE Min(H)
  BY DEF FindEntry, Min
<1>2. Len(entries) \in Nat /\ DOMAIN entries = 1..Len(entries)
  BY CfgFacts
<1>3. H \subseteq 1..Len(entries) /\ IsFiniteSet(1..Len(entries))
  BY <1>2, FS_Interval
<1>4. IsFiniteSet(H) /\ H \subseteq Int
  BY <1>3, FS_Subset
<1>5. CASE H = {}
  BY <1>1, <1>2, <1>5
<1>6. CASE H # {}
  <2>1. Min(H) \in H
    <3> HIDE DEF H
    <3> QED BY <1>4, <1>6, MinIs
  <2>2. FindEntry(k) = Min(H)
    BY <1>1, <1>6
  <2>3. FindEntry(k) \in 1..Len(entries) /\ entries[FindEntry(k)].key = k
    BY <1>2, <2>1, <2>2
  <2> QED BY <1>2, <2>3
<1> QED BY <1>5, <1>6

\* A line that is skipped or rejected.
LEMMA ParseOtherStep ==
    ASSUME CfgIInv, NEW kind \in {"blank", "noEquals", "emptyKey", "tooLong"}, ParseOther(kind)
    PROVE  CfgIInv'
<1> DEFINE n == Len(cfgLines)
           r == OtherLine(kind)
<1>0. CfgTypeOK
  BY DEF CfgIInv
<1>1. cfgLines' = Append(cfgLines, r) /\ cfgOk' = (cfgOk /\ kind = "blank") /\ entries' = entries
  BY DEF ParseOther
<1>2. r \in CfgLine /\ r.kind = kind
  BY DEF OtherLine, CfgLine
<1>3. n \in Nat /\ cfgLines \in Seq(CfgLine)
  BY <1>0, CfgFacts DEF CfgTypeOK
<1> HIDE DEF r
<1>4. /\ cfgLines' \in Seq(CfgLine) /\ Len(cfgLines') = n + 1
      /\ \A i \in 1..n : cfgLines'[i] = cfgLines[i]
      /\ cfgLines'[n + 1] = r
  BY <1>1, <1>2, <1>3, AppendProperties
<1>5. \A i \in 1..(n + 1) : cfgLines'[i].kind = "assign" => i \in 1..n
  <2>1. \A i \in 1..(n + 1) : i = n + 1 \/ i \in 1..n
    BY <1>3
  <2> QED BY <1>2, <1>4, <2>1
<1> HIDE DEF n
<1>6. CfgTypeOK'
  <2>1. \A i \in 1..Len(cfgLines') : cfgLines'[i].kind = "assign" => cfgLines'[i].key \in CfgKey
    BY <1>0, <1>4, <1>5 DEF CfgTypeOK, n
  <2>2. entries' \in Seq(CfgEntry) /\ Len(entries') <= MAX_ENTRIES
    BY <1>0, <1>1 DEF CfgTypeOK
  <2>3. cfgOk' \in BOOLEAN
    BY <1>1
  <2> QED BY <1>4, <2>1, <2>2, <2>3 DEF CfgTypeOK
<1>7. PICK F, L : LinesOf(F, L) /\ TableOf(F, L)
  BY DEF CfgIInv
<1>8. \A i \in 1..n : i \in 1..(n + 1)
  BY <1>3
<1>9. LinesOf(F, L)'
  <2>1. \A k \in CfgKey : F[k] # 0 =>
           /\ F[k] \in 1..Len(cfgLines') /\ cfgLines'[F[k]].kind = "assign" /\ cfgLines'[F[k]].key = k
           /\ L[k] \in 1..Len(cfgLines') /\ cfgLines'[L[k]].kind = "assign" /\ cfgLines'[L[k]].key = k
    BY <1>4, <1>7, <1>8 DEF LinesOf, n
  <2>2. \A i \in 1..Len(cfgLines') : cfgLines'[i].kind = "assign" =>
           /\ F[cfgLines'[i].key] # 0
           /\ F[cfgLines'[i].key] <= i /\ i <= L[cfgLines'[i].key]
    BY <1>4, <1>5, <1>7 DEF LinesOf, n
  <2>3. F \in [CfgKey -> Nat] /\ L \in [CfgKey -> Nat]
    BY <1>7 DEF LinesOf
  <2> QED BY ONLY <2>1, <2>2, <2>3 DEF LinesOf
<1>10. BadLine' <=> (BadLine \/ kind # "blank")
  <2>1. n + 1 \in 1..(n + 1) /\ \A i \in 1..(n + 1) : i = n + 1 \/ i \in 1..n
    BY <1>3
  <2> QED BY <1>2, <1>4, <1>8, <2>1 DEF BadLine, n
<1>11. TableOf(F, L)'
  <2>1. KeysSeen(F)' = KeysSeen(F)
    BY DEF KeysSeen
  <2>2. cfgOk' => cfgOk /\ kind = "blank"
    BY <1>1
  <2>3. ~cfgOk' => ~cfgOk \/ kind # "blank"
    BY <1>1
  <2>4. \A i \in 1..Len(entries) : entries[i].key \in CfgKey
    BY <1>0, CfgFacts
  <2>5. cfgOk' => \A i \in 1..Len(entries) :
           /\ F[entries[i].key] # 0
           /\ entries[i].val = cfgLines'[L[entries[i].key]].val
    <3> SUFFICES ASSUME cfgOk, NEW i \in 1..Len(entries)
                 PROVE  F[entries[i].key] # 0 /\ entries[i].val = cfgLines'[L[entries[i].key]].val
      BY <2>2
    <3>1. F[entries[i].key] # 0 /\ entries[i].val = cfgLines[L[entries[i].key]].val
      BY <1>7 DEF TableOf
    <3>2. L[entries[i].key] \in 1..n
      BY <1>7, <2>4, <3>1 DEF LinesOf, n
    <3> QED BY <1>4, <3>1, <3>2
  <2>6. ~cfgOk' => (BadLine' \/ Cardinality(KeysSeen(F)) > MAX_ENTRIES)
    BY <1>7, <1>10, <2>3 DEF TableOf
  <2>7. cfgOk' => ~BadLine' /\ Cardinality(KeysSeen(F)) = Len(entries)
    BY <1>7, <1>10, <2>2 DEF TableOf
  <2>8. IsFiniteSet(KeysSeen(F))
    BY <1>7 DEF TableOf
  <2>9. cfgOk' => /\ \A i, j \in 1..Len(entries) : i < j => F[entries[i].key] < F[entries[j].key]
                  /\ \A k \in CfgKey : F[k] # 0 => \E i \in 1..Len(entries) : entries[i].key = k
    BY <1>7, <2>2 DEF TableOf
  <2> QED BY ONLY <1>1, <2>1, <2>5, <2>6, <2>7, <2>8, <2>9 DEF TableOf
<1> QED BY <1>6, <1>9, <1>11 DEF CfgIInv

\* parse_line, of an assignment.  G and M are F and L with the new line.
LEMMA ParseAssignmentStep ==
    ASSUME CfgIInv, NEW k \in CfgKey, NEW v \in CfgVal, ParseAssignment(k, v)
    PROVE  CfgIInv'
<1>0. CfgTypeOK
  BY DEF CfgIInv
<1>1. PICK F, L : LinesOf(F, L) /\ TableOf(F, L)
  BY DEF CfgIInv
<1>2. PICK n, m, f : n = Len(cfgLines) /\ m = Len(entries) /\ f = FindEntry(k)
  OBVIOUS
<1>3. PICK G, M : /\ G = [F EXCEPT ![k] = IF F[k] = 0 THEN n + 1 ELSE F[k]]
                  /\ M = [L EXCEPT ![k] = n + 1]
  OBVIOUS
<1>4. cfgLines' = Append(cfgLines, Assignment(k, v))
  BY DEF ParseAssignment
<1>5. \/ f # 0 /\ entries' = [entries EXCEPT ![f].val = v] /\ cfgOk' = cfgOk
      \/ f = 0 /\ m < MAX_ENTRIES /\ entries' = Append(entries, [key |-> k, val |-> v]) /\ cfgOk' = cfgOk
      \/ f = 0 /\ ~(m < MAX_ENTRIES) /\ cfgOk' = FALSE /\ entries' = entries
  BY <1>2, Zenon DEF ParseAssignment
<1>6. /\ LinesOf(G, M)' /\ (BadLine' <=> BadLine)
      /\ cfgLines' \in Seq(CfgLine) /\ Len(cfgLines') = n + 1
      /\ \A i \in 1..n : cfgLines'[i] = cfgLines[i]
      /\ cfgLines'[n + 1].val = v
      /\ \A i \in 1..(n + 1) : cfgLines'[i].kind = "assign" => cfgLines'[i].key \in CfgKey
  <2> USE <1>0, <1>1, <1>2, <1>3, <1>4
  <2> DEFINE r == Assignment(k, v)
  <2>1. r \in CfgLine /\ r.kind = "assign" /\ r.key = k /\ r.val = v
    BY DEF Assignment, CfgLine
  <2>2. n \in Nat /\ cfgLines \in Seq(CfgLine)
    BY CfgFacts DEF CfgTypeOK
  <2> HIDE DEF r
  <2>3. /\ cfgLines' \in Seq(CfgLine) /\ Len(cfgLines') = n + 1
        /\ \A i \in 1..n : cfgLines'[i] = cfgLines[i]
        /\ cfgLines'[n + 1] = r
    <3>1. cfgLines' = Append(cfgLines, r)
      BY DEF r
    <3> QED BY <2>1, <2>2, <3>1, AppendProperties
  <2>4. /\ n + 1 \in 1..(n + 1) /\ n + 1 # 0 /\ n + 1 \in Nat
        /\ \A i \in 1..n : i \in 1..(n + 1) /\ i <= n + 1
        /\ \A i \in 1..(n + 1) : i = n + 1 \/ i \in 1..n
    BY <2>2
  <2>5. F \in [CfgKey -> Nat] /\ L \in [CfgKey -> Nat]
    BY DEF LinesOf
  <2>6. /\ \A x \in CfgKey : F[x] # 0 =>
              /\ F[x] \in 1..n /\ cfgLines[F[x]].kind = "assign" /\ cfgLines[F[x]].key = x
              /\ L[x] \in 1..n /\ cfgLines[L[x]].kind = "assign" /\ cfgLines[L[x]].key = x
        /\ \A i \in 1..n : cfgLines[i].kind = "assign" =>
              /\ F[cfgLines[i].key] # 0
              /\ F[cfgLines[i].key] <= i /\ i <= L[cfgLines[i].key]
    BY DEF LinesOf
  <2>7. /\ G \in [CfgKey -> Nat] /\ M \in [CfgKey -> Nat]
        /\ G[k] = (IF F[k] = 0 THEN n + 1 ELSE F[k]) /\ M[k] = n + 1
        /\ \A x \in CfgKey : x # k => G[x] = F[x] /\ M[x] = L[x]
    <3>1. (IF F[k] = 0 THEN n + 1 ELSE F[k]) \in Nat
      BY <2>4, <2>5
    <3> QED BY <2>4, <2>5, <3>1
  <2>8. \A i \in 1..n : cfgLines[i].kind = "assign" => cfgLines[i].key \in CfgKey
    BY DEF CfgTypeOK
  <2>9. ASSUME NEW x \in CfgKey, G[x] # 0
        PROVE  /\ G[x] \in 1..(n + 1) /\ cfgLines'[G[x]].kind = "assign" /\ cfgLines'[G[x]].key = x
               /\ M[x] \in 1..(n + 1) /\ cfgLines'[M[x]].kind = "assign" /\ cfgLines'[M[x]].key = x
    <3>1. CASE x = k
      <4>1. M[x] \in 1..(n + 1) /\ cfgLines'[M[x]].kind = "assign" /\ cfgLines'[M[x]].key = x
        BY <2>1, <2>3, <2>4, <2>7, <3>1
      <4>2. CASE F[k] = 0
        BY <2>1, <2>3, <2>4, <2>7, <3>1, <4>1, <4>2
      <4>3. CASE F[k] # 0
        BY <2>3, <2>4, <2>6, <2>7, <3>1, <4>1, <4>3
      <4> QED BY <4>2, <4>3
    <3>2. CASE x # k
      BY <2>3, <2>4, <2>6, <2>7, <2>9, <3>2
    <3> QED BY <3>1, <3>2
  <2>10. ASSUME NEW i \in 1..(n + 1), cfgLines'[i].kind = "assign"
         PROVE  /\ cfgLines'[i].key \in CfgKey /\ G[cfgLines'[i].key] # 0
                /\ G[cfgLines'[i].key] <= i /\ i <= M[cfgLines'[i].key]
    <3>1. CASE i = n + 1
      <4>1. cfgLines'[i].key = k
        BY <2>1, <2>3, <3>1
      <4>2. G[k] # 0 /\ G[k] <= n + 1 /\ n + 1 <= M[k]
        <5>1. CASE F[k] = 0
          BY <2>4, <2>7, <5>1
        <5>2. CASE F[k] # 0
          <6>1. F[k] \in 1..n
            BY <2>6, <5>2
          <6> QED BY <2>4, <2>7, <5>2, <6>1
        <5> QED BY <5>1, <5>2
      <4> QED BY <3>1, <4>1, <4>2
    <3>2. CASE i \in 1..n
      <4> DEFINE x == cfgLines[i].key
      <4>1. cfgLines'[i] = cfgLines[i] /\ x \in CfgKey
        BY <2>3, <2>8, <2>10, <3>2
      <4>2. F[x] # 0 /\ F[x] <= i /\ i <= L[x]
        BY <2>6, <2>10, <3>2, <4>1
      <4>3. cfgLines'[i].key = x
        BY <4>1
      <4> HIDE DEF x
      <4>4. G[x] # 0 /\ G[x] <= i /\ i <= M[x]
        <5>1. CASE x = k
          <6>1. i <= n + 1
            BY <2>4, <3>2
          <6> QED BY <2>7, <4>2, <5>1, <6>1
        <5>2. CASE x # k
          BY <2>7, <4>1, <4>2, <5>2
        <5> QED BY <5>1, <5>2
      <4> QED BY <4>1, <4>3, <4>4
    <3> QED BY <2>4, <3>1, <3>2
  <2>11. LinesOf(G, M)'
    <3>1. \A x \in CfgKey : G[x] # 0 =>
             /\ G[x] \in 1..Len(cfgLines') /\ cfgLines'[G[x]].kind = "assign" /\ cfgLines'[G[x]].key = x
             /\ M[x] \in 1..Len(cfgLines') /\ cfgLines'[M[x]].kind = "assign" /\ cfgLines'[M[x]].key = x
      BY <2>3, <2>9
    <3>2. \A i \in 1..Len(cfgLines') : cfgLines'[i].kind = "assign" =>
             /\ G[cfgLines'[i].key] # 0
             /\ G[cfgLines'[i].key] <= i /\ i <= M[cfgLines'[i].key]
      BY <2>3, <2>10
    <3> QED BY ONLY <2>7, <3>1, <3>2 DEF LinesOf
  <2>12. BadLine' <=> BadLine
    BY <2>1, <2>3, <2>4 DEF BadLine
  <2> QED BY <2>1, <2>3, <2>10, <2>11, <2>12
<1>7. /\ n \in Nat /\ m \in Nat /\ MAX_ENTRIES \in Nat /\ m <= MAX_ENTRIES
      /\ entries \in Seq(CfgEntry) /\ cfgOk \in BOOLEAN
      /\ \A i \in 1..m : entries[i] \in CfgEntry /\ entries[i].key \in CfgKey
  BY <1>0, <1>2, CfgFacts DEF CfgTypeOK
<1>8. /\ F \in [CfgKey -> Nat] /\ L \in [CfgKey -> Nat]
      /\ \A x \in CfgKey : F[x] # 0 => F[x] \in 1..n /\ L[x] \in 1..n
  BY <1>1, <1>2 DEF LinesOf
<1>9. /\ G[k] = (IF F[k] = 0 THEN n + 1 ELSE F[k]) /\ M[k] = n + 1 /\ G[k] # 0
      /\ \A x \in CfgKey : x # k => G[x] = F[x] /\ M[x] = L[x]
  <2>1. n + 1 # 0
    BY <1>7
  <2> QED BY <1>3, <1>8, <2>1
<1>10. /\ IsFiniteSet(KeysSeen(F))
       /\ ~cfgOk => (BadLine \/ Cardinality(KeysSeen(F)) > MAX_ENTRIES)
       /\ cfgOk => ~BadLine /\ Cardinality(KeysSeen(F)) = m
       /\ cfgOk => \A i \in 1..m : /\ F[entries[i].key] # 0
                                   /\ entries[i].val = cfgLines[L[entries[i].key]].val
       /\ cfgOk => \A i, j \in 1..m : i < j => F[entries[i].key] < F[entries[j].key]
       /\ cfgOk => \A x \in CfgKey : F[x] # 0 => \E i \in 1..m : entries[i].key = x
  BY <1>1, <1>2 DEF TableOf
<1>11. PICK c, d : c = Cardinality(KeysSeen(F)) /\ d = Cardinality(KeysSeen(G))
  OBVIOUS
<1>12. /\ KeysSeen(G)' = KeysSeen(G) /\ IsFiniteSet(KeysSeen(G))
       /\ c \in Nat /\ d \in Nat /\ (F[k] # 0 => d = c) /\ (F[k] = 0 => d = c + 1)
  <2>1. KeysSeen(G) = KeysSeen(F) \union {k} /\ (k \in KeysSeen(F) <=> F[k] # 0)
    BY <1>9 DEF KeysSeen
  <2>2. c \in Nat
    BY <1>10, <1>11, FS_CardinalityType
  <2>3. IsFiniteSet(KeysSeen(G)) /\ d = IF k \in KeysSeen(F) THEN c ELSE c + 1
    BY <1>10, <1>11, <2>1, FS_AddElement
  <2>4. KeysSeen(G)' = KeysSeen(G)
    BY DEF KeysSeen
  <2> QED BY <2>1, <2>2, <2>3, <2>4
<1>13. ~cfgOk => (BadLine' \/ d > MAX_ENTRIES)
  <2>1. c > MAX_ENTRIES => d > MAX_ENTRIES
    BY <1>7, <1>12
  <2> QED BY <1>6, <1>10, <1>11, <2>1
<1>14. \/ f = 0 /\ \A i \in 1..m : entries[i].key # k
       \/ f # 0 /\ f \in 1..m /\ entries[f].key = k
  BY <1>0, <1>2, FindIs
<1>15. cfgOk => (f = 0 <=> F[k] = 0)
  BY <1>10, <1>14
<1>16. SUFFICES ASSUME NEW w, w = Len(entries')
                PROVE  /\ entries' \in Seq(CfgEntry) /\ w <= MAX_ENTRIES
                       /\ cfgOk' \in BOOLEAN
                       /\ ~cfgOk' => (BadLine' \/ d > MAX_ENTRIES)
                       /\ cfgOk' => ~BadLine' /\ d = w
                       /\ cfgOk' => \A i \in 1..w : /\ G[entries'[i].key] # 0
                                       /\ entries'[i].val = cfgLines'[M[entries'[i].key]].val
                       /\ cfgOk' => \A i, j \in 1..w : i < j => G[entries'[i].key] < G[entries'[j].key]
                       /\ cfgOk' => \A x \in CfgKey : G[x] # 0 => \E i \in 1..w : entries'[i].key = x
  <2>1. CfgTypeOK'
    BY <1>6, <1>16 DEF CfgTypeOK
  <2>2. TableOf(G, M)'
    <3>1. IsFiniteSet(KeysSeen(G)') /\ Cardinality(KeysSeen(G)') = d
      BY <1>11, <1>12
    <3> HIDE DEF KeysSeen, BadLine
    <3>2. /\ ~cfgOk' => (BadLine' \/ Cardinality(KeysSeen(G)') > MAX_ENTRIES)
          /\ cfgOk' => ~BadLine' /\ Cardinality(KeysSeen(G)') = Len(entries')
          /\ cfgOk' => \A i \in 1..Len(entries') :
                /\ G[entries'[i].key] # 0
                /\ entries'[i].val = cfgLines'[M[entries'[i].key]].val
          /\ cfgOk' => \A i, j \in 1..Len(entries') : i < j => G[entries'[i].key] < G[entries'[j].key]
          /\ cfgOk' => \A x \in CfgKey : G[x] # 0 => \E i \in 1..Len(entries') : entries'[i].key = x
      BY <1>16, <3>1
    <3> QED BY ONLY <3>1, <3>2 DEF TableOf
  <2> QED BY <1>6, <2>1, <2>2 DEF CfgIInv
<1>17. CASE f # 0 /\ entries' = [entries EXCEPT ![f].val = v] /\ cfgOk' = cfgOk
  <2> DEFINE e == [entries[f] EXCEPT !.val = v]
  <2>1. f \in 1..m /\ entries[f].key = k
    BY <1>14, <1>17
  <2>2. e \in CfgEntry /\ e.key = k /\ e.val = v
    <3>1. entries[f] \in CfgEntry
      BY <1>7, <2>1
    <3> QED BY <2>1, <3>1 DEF CfgEntry
  <2>3. entries' = [entries EXCEPT ![f] = e]
    BY <1>17
  <2> HIDE DEF e
  <2>4. /\ entries' \in Seq(CfgEntry) /\ w = m /\ entries'[f] = e
        /\ \A i \in 1..m : i # f => entries'[i] = entries[i]
    BY <1>2, <1>7, <1>16, <2>1, <2>2, <2>3, ExceptSeq
  <2>5. \A i \in 1..m : entries'[i].key = entries[i].key
    BY <2>1, <2>2, <2>4
  <2>6. ASSUME cfgOk
        PROVE  /\ ~BadLine' /\ d = w
               /\ \A x \in CfgKey : G[x] = F[x]
    <3>1. F[k] # 0
      BY <1>15, <1>17, <2>6
    <3> QED BY <1>6, <1>9, <1>10, <1>11, <1>12, <2>4, <2>6, <3>1
  <2>7. ASSUME cfgOk, NEW i \in 1..m
        PROVE  /\ G[entries'[i].key] # 0
               /\ entries'[i].val = cfgLines'[M[entries'[i].key]].val
    <3>1. CASE i = f
      BY <1>6, <1>9, <2>2, <2>4, <3>1
    <3>2. CASE i # f
      <4> DEFINE x == entries[i].key
      <4>1. x \in CfgKey /\ F[x] # 0 /\ entries[i].val = cfgLines[L[x]].val
        BY <1>7, <1>10, <2>7
      <4>2. x # k
        <5>1. i < f \/ f < i
          BY <1>7, <2>1, <3>2
        <5>2. F[x] < F[k] \/ F[k] < F[x]
          BY <1>10, <2>1, <2>7, <5>1
        <5> QED BY <1>8, <5>2
      <4>3. L[x] \in 1..n /\ M[x] = L[x] /\ G[x] = F[x]
        BY <1>8, <1>9, <4>1, <4>2
      <4>4. entries'[i] = entries[i]
        BY <2>4, <3>2
      <4> QED BY <1>6, <4>1, <4>3, <4>4
    <3> QED BY <3>1, <3>2
  <2>8. cfgOk => \A i, j \in 1..w : i < j => G[entries'[i].key] < G[entries'[j].key]
    <3>1. cfgOk => \A i \in 1..m : G[entries'[i].key] = F[entries[i].key]
      BY <1>7, <2>5, <2>6
    <3> QED BY <1>10, <2>4, <3>1
  <2>9. cfgOk => \A x \in CfgKey : G[x] # 0 => \E i \in 1..w : entries'[i].key = x
    BY <1>10, <2>4, <2>5, <2>6
  <2> QED BY <1>7, <1>13, <1>17, <2>4, <2>6, <2>7, <2>8, <2>9
<1>18. CASE f = 0 /\ m < MAX_ENTRIES /\ entries' = Append(entries, [key |-> k, val |-> v]) /\ cfgOk' = cfgOk
  <2> DEFINE e == [key |-> k, val |-> v]
  <2>1. e \in CfgEntry /\ e.key = k /\ e.val = v
    BY DEF CfgEntry
  <2>2. entries' = Append(entries, e)
    BY <1>18
  <2> HIDE DEF e
  <2>3. /\ entries' \in Seq(CfgEntry) /\ w = m + 1 /\ entries'[m + 1] = e
        /\ \A i \in 1..m : entries'[i] = entries[i]
    BY <1>2, <1>7, <1>16, <2>1, <2>2, AppendProperties
  <2>4. /\ m + 1 \in 1..w /\ w <= MAX_ENTRIES /\ \A i \in 1..m : i \in 1..w
        /\ \A i \in 1..w : i = m + 1 \/ i \in 1..m
    BY <1>7, <1>18, <2>3
  <2>5. ASSUME cfgOk
        PROVE  /\ ~BadLine' /\ d = w /\ G[k] = n + 1
               /\ \A i \in 1..m : LET x == entries[i].key
                                  IN  /\ x \in CfgKey /\ x # k /\ F[x] # 0 /\ F[x] \in 1..n /\ L[x] \in 1..n
                                      /\ G[x] = F[x] /\ M[x] = L[x]
    <3>1. F[k] = 0
      BY <1>15, <1>18, <2>5
    <3>2. ~BadLine' /\ d = w /\ G[k] = n + 1
      BY <1>6, <1>9, <1>10, <1>11, <1>12, <2>3, <2>5, <3>1
    <3>3. \A i \in 1..m : entries[i].key \in CfgKey /\ entries[i].key # k /\ F[entries[i].key] # 0
      BY <1>7, <1>10, <2>5, <3>1
    <3> QED BY <1>8, <1>9, <3>2, <3>3
  <2>6. ASSUME cfgOk, NEW i \in 1..w
        PROVE  /\ G[entries'[i].key] # 0
               /\ entries'[i].val = cfgLines'[M[entries'[i].key]].val
    <3>1. CASE i = m + 1
      BY <1>6, <1>9, <2>1, <2>3, <3>1
    <3>2. CASE i \in 1..m
      BY <1>6, <1>10, <2>3, <2>5, <2>6, <3>2
    <3> QED BY <2>4, <3>1, <3>2
  <2>7. ASSUME cfgOk, NEW i \in 1..w, NEW j \in 1..w, i < j
        PROVE  G[entries'[i].key] < G[entries'[j].key]
    <3>1. i \in 1..m
      BY <1>7, <2>3, <2>7
    <3>2. CASE j = m + 1
      <4>1. G[entries'[j].key] = n + 1
        BY <2>1, <2>3, <2>5, <2>7, <3>2
      <4>2. G[entries'[i].key] \in 1..n
        BY <2>3, <2>5, <2>7, <3>1
      <4> QED BY <1>7, <4>1, <4>2
    <3>3. CASE j \in 1..m
      BY <1>10, <2>3, <2>5, <2>7, <3>1, <3>3
    <3> QED BY <2>4, <3>2, <3>3
  <2>8. ASSUME cfgOk, NEW x \in CfgKey, G[x] # 0
        PROVE  \E i \in 1..w : entries'[i].key = x
    <3>1. CASE x = k
      BY <2>1, <2>3, <2>4, <3>1
    <3>2. CASE x # k
      <4>1. PICK i \in 1..m : entries[i].key = x
        BY <1>9, <1>10, <2>8, <3>2
      <4> QED BY <2>3, <2>4, <4>1
    <3> QED BY <3>1, <3>2
  <2> QED BY <1>7, <1>13, <1>18, <2>3, <2>4, <2>5, <2>6, <2>7, <2>8
<1>19. CASE f = 0 /\ ~(m < MAX_ENTRIES) /\ cfgOk' = FALSE /\ entries' = entries
  <2>1. cfgOk => d > MAX_ENTRIES
    <3> SUFFICES ASSUME cfgOk PROVE d > MAX_ENTRIES
      OBVIOUS
    <3>1. F[k] = 0 /\ c = m
      BY <1>10, <1>11, <1>15, <1>19
    <3> QED BY <1>7, <1>12, <1>19, <3>1
  <2>2. w = m
    BY <1>2, <1>16, <1>19
  <2> QED BY <1>7, <1>13, <1>19, <2>1, <2>2
<1> QED BY <1>5, <1>17, <1>18, <1>19

\* A config that loads is the file it was read from, and one is refused exactly
\* if a line means nothing or the keys do not fit, for every file and size of
\* the table (Config::load, parse_line, find, get_str).
THEOREM ConfigExact == CfgSpec => []ConfigIsTheFile
<1>1. CfgIInv /\ [CfgNext]_cfgVars => CfgIInv'
  <2> SUFFICES ASSUME CfgIInv, [CfgNext]_cfgVars PROVE CfgIInv'
    OBVIOUS
  <2>1. CASE CfgNext
    BY <2>1, ParseOtherStep, ParseAssignmentStep DEF CfgNext
  <2>2. CASE UNCHANGED cfgVars
    <3>1. cfgLines' = cfgLines /\ entries' = entries /\ cfgOk' = cfgOk
      BY <2>2 DEF cfgVars
    <3>2. PICK F, L : LinesOf(F, L) /\ TableOf(F, L)
      BY DEF CfgIInv
    <3>3. LinesOf(F, L)'
      BY <3>1, <3>2 DEF LinesOf
    <3>4. TableOf(F, L)'
      <4>1. KeysSeen(F)' = KeysSeen(F) /\ (BadLine' <=> BadLine)
        BY <3>1 DEF KeysSeen, BadLine
      <4> QED BY <3>1, <3>2, <4>1 DEF TableOf
    <3>5. CfgTypeOK'
      BY <3>1 DEF CfgIInv, CfgTypeOK
    <3> QED BY <3>3, <3>4, <3>5 DEF CfgIInv
  <2> QED BY <2>1, <2>2
<1>2. CfgIInv => ConfigIsTheFile
  <2> SUFFICES ASSUME CfgIInv PROVE ConfigIsTheFile
    OBVIOUS
  <2>0. CfgTypeOK
    BY DEF CfgIInv
  <2>1. PICK F, L : LinesOf(F, L) /\ TableOf(F, L)
    BY DEF CfgIInv
  <2>2. PICK n, m : n = Len(cfgLines) /\ m = Len(entries)
    OBVIOUS
  <2>3. /\ n \in Nat /\ m \in Nat /\ m <= MAX_ENTRIES /\ MAX_ENTRIES \in Nat
        /\ DOMAIN cfgLines = 1..n /\ DOMAIN entries = 1..m
        /\ \A i \in 1..m : entries[i].key \in CfgKey
    BY <2>0, <2>2, CfgFacts DEF CfgTypeOK
  <2>4. /\ F \in [CfgKey -> Nat] /\ L \in [CfgKey -> Nat]
        /\ \A x \in CfgKey : F[x] # 0 =>
              /\ F[x] \in 1..n /\ cfgLines[F[x]].kind = "assign" /\ cfgLines[F[x]].key = x
              /\ L[x] \in 1..n /\ cfgLines[L[x]].kind = "assign" /\ cfgLines[L[x]].key = x
        /\ \A i \in 1..n : cfgLines[i].kind = "assign" =>
              /\ F[cfgLines[i].key] # 0
              /\ F[cfgLines[i].key] <= i /\ i <= L[cfgLines[i].key]
    BY <2>1, <2>2 DEF LinesOf
  <2>5. ASSUME NEW x \in CfgKey
        PROVE  /\ Assigned(x) = {} <=> F[x] = 0
               /\ F[x] # 0 => FirstLine(x) = F[x] /\ LastLine(x) = L[x]
    <3>1. \A i : i \in Assigned(x) <=> i \in 1..n /\ cfgLines[i].kind = "assign" /\ cfgLines[i].key = x
      BY <2>3 DEF Assigned
    <3>2. Assigned(x) \subseteq Int
      BY <2>3, <3>1
    <3>3. F[x] # 0 => F[x] \in Assigned(x) /\ L[x] \in Assigned(x)
      BY <2>4, <3>1
    <3>4. \A i \in Assigned(x) : F[x] # 0 /\ F[x] <= i /\ i <= L[x]
      BY <2>4, <3>1
    <3>5. Assigned(x) = {} <=> F[x] = 0
      BY <3>3, <3>4
    <3>6. ASSUME F[x] # 0 PROVE FirstLine(x) = F[x] /\ LastLine(x) = L[x]
      <4>1. F[x] \in Assigned(x) /\ L[x] \in Assigned(x)
        BY <3>3, <3>6
      <4>2. FirstLine(x) \in Assigned(x) /\ \A j \in Assigned(x) : FirstLine(x) <= j
        BY <3>4, <4>1 DEF FirstLine
      <4>3. LastLine(x) \in Assigned(x) /\ \A j \in Assigned(x) : j <= LastLine(x)
        BY <3>4, <4>1 DEF LastLine
      <4>4. FirstLine(x) <= F[x] /\ F[x] <= FirstLine(x) /\ L[x] <= LastLine(x) /\ LastLine(x) <= L[x]
        BY <3>4, <4>1, <4>2, <4>3
      <4>5. FirstLine(x) \in Int /\ LastLine(x) \in Int /\ F[x] \in Int /\ L[x] \in Int
        BY <3>2, <4>1, <4>2, <4>3
      <4> QED BY ONLY <4>4, <4>5
    <3> QED BY <3>5, <3>6
  <2>6. /\ ~cfgOk => (BadLine \/ Cardinality(KeysSeen(F)) > MAX_ENTRIES)
        /\ cfgOk => ~BadLine /\ Cardinality(KeysSeen(F)) = m
        /\ cfgOk => \A i \in 1..m : /\ F[entries[i].key] # 0
                                    /\ entries[i].val = cfgLines[L[entries[i].key]].val
        /\ cfgOk => \A i, j \in 1..m : i < j => F[entries[i].key] < F[entries[j].key]
        /\ cfgOk => \A k \in CfgKey : F[k] # 0 => \E i \in 1..m : entries[i].key = k
        /\ IsFiniteSet(KeysSeen(F))
    BY <2>1, <2>2 DEF TableOf
  <2>7. ASSUME cfgOk, NEW k \in CfgKey, NEW v,
               v = IF Assigned(k) = {} THEN NoVal ELSE cfgLines[LastLine(k)].val
        PROVE  /\ GetStr(k, NoVal) = v
               /\ GetConverted(k, NoVal) = IF v \in Convertible THEN v ELSE NoVal
    <3>1. GetStr(k, NoVal) = v /\ (FindEntry(k) = 0 => v = NoVal)
      <4>1. CASE FindEntry(k) = 0
        <5>1. \A i \in 1..m : entries[i].key # k
          BY <2>0, <2>2, <4>1, FindIs
        <5>2. F[k] = 0
          BY <2>6, <2>7, <5>1
        <5> QED BY <2>5, <2>7, <4>1, <5>2 DEF GetStr
      <4>2. CASE FindEntry(k) # 0
        <5>1. FindEntry(k) \in 1..m /\ entries[FindEntry(k)].key = k
          BY <2>0, <2>2, <4>2, FindIs
        <5>2. F[k] # 0 /\ entries[FindEntry(k)].val = cfgLines[L[k]].val
          BY <2>6, <2>7, <5>1
        <5> QED BY <2>5, <2>7, <4>2, <5>2 DEF GetStr
      <4> QED BY <4>1, <4>2
    <3> QED BY <3>1 DEF GetConverted
  <2>8. ASSUME cfgOk, NEW i \in 1..m, NEW j \in 1..m, i < j
        PROVE  FirstLine(entries[i].key) < FirstLine(entries[j].key)
    <3>1. FirstLine(entries[i].key) = F[entries[i].key] /\ FirstLine(entries[j].key) = F[entries[j].key]
      BY <2>3, <2>5, <2>6, <2>8
    <3> QED BY <2>6, <2>8, <3>1
  <2>9. {k \in CfgKey : Assigned(k) # {}} = KeysSeen(F)
    BY <2>5 DEF KeysSeen
  <2>10. BadLine <=> ~(\A i \in DOMAIN cfgLines : cfgLines[i].kind \in {"assign", "blank"})
    BY <2>2, <2>3 DEF BadLine
  <2>11. cfgOk <=> ~BadLine /\ Cardinality(KeysSeen(F)) <= MAX_ENTRIES
    <3>1. Cardinality(KeysSeen(F)) \in Nat
      BY <2>6, FS_CardinalityType
    <3>2. Cardinality(KeysSeen(F)) > MAX_ENTRIES <=> ~(Cardinality(KeysSeen(F)) <= MAX_ENTRIES)
      BY <2>3, <3>1
    <3>3. Cardinality(KeysSeen(F)) = m => Cardinality(KeysSeen(F)) <= MAX_ENTRIES
      BY <2>3
    <3>4. cfgOk \in BOOLEAN
      BY <2>0 DEF CfgTypeOK
    <3> QED BY <2>6, <3>2, <3>3, <3>4
  <2>12. Len(entries) <= MAX_ENTRIES
    BY <2>2, <2>3
  <2>13. cfgOk <=> /\ \A i \in DOMAIN cfgLines : cfgLines[i].kind \in {"assign", "blank"}
                   /\ Cardinality({k \in CfgKey : Assigned(k) # {}}) <= MAX_ENTRIES
    BY <2>9, <2>10, <2>11
  <2>14. cfgOk =>
           /\ \A k \in CfgKey :
                 LET v == IF Assigned(k) = {} THEN NoVal ELSE cfgLines[LastLine(k)].val
                 IN  /\ GetStr(k, NoVal) = v
                     /\ GetConverted(k, NoVal) = IF v \in Convertible THEN v ELSE NoVal
           /\ \A i, j \in DOMAIN entries :
                 i < j => FirstLine(entries[i].key) < FirstLine(entries[j].key)
    BY <2>3, <2>7, <2>8
  <2> QED BY ONLY <2>12, <2>13, <2>14 DEF ConfigIsTheFile
<1> QED BY CfgInitIInv, <1>1, <1>2, PTL DEF CfgSpec

-----------------------------------------------------------------------------
(* Account: on_fill and mark.                                              *)

LEMMA Cancels ==
    ASSUME NEW c \in Nat \ {0}, NEW a \in Int, NEW b \in Int, c * a <= c * b
    PROVE  a <= b
BY SMT

LEMMA Distributes ==
    ASSUME NEW c \in Int, NEW a \in Int, NEW b \in Int
    PROVE  /\ c * (a - b) = c * a - c * b /\ c * (a + b) = c * a + c * b
           /\ c * (-a) = -(c * a) /\ c * a = a * c /\ c * a \in Int
BY SMT

LEMMA Associates ==
    ASSUME NEW c \in Int, NEW a \in Int, NEW b \in Int
    PROVE  c * (a * b) = (c * a) * b
BY SMT

LEMMA DivIs ==
    ASSUME NEW a \in Nat, NEW b \in Nat \ {0}
    PROVE  a \div b \in Nat /\ b * (a \div b) <= a /\ a < b * (a \div b) + b
BY SMT

LEMMA AbsSign ==
    ASSUME NEW x \in Int
    PROVE  /\ Abs(x) \in Nat /\ Sign(x) \in {-1, 1} /\ Sign(x) * Abs(x) = x
           /\ x # 0 => Abs(x) # 0
BY DEF Abs, Sign

LEMMA QuotType ==
    ASSUME NEW a \in Int, NEW b \in Nat \ {0}
    PROVE  Quot(a, b) \in Int
<1>1. Abs(a) \in Nat /\ Sign(a) \in {-1, 1}
  BY AbsSign
<1>2. Abs(a) \div b \in Nat
  BY <1>1, DivIs
<1> QED BY <1>1, <1>2 DEF Quot

\* Halving rounds off at most a half.
LEMMA QuotHalf ==
    ASSUME NEW x \in Int
    PROVE  2 * Quot(x, 2) - x \in {-1, 0, 1}
BY DEF Quot, Abs, Sign

\* The share of a cost c in r of q lots, sign by sign.
LEMMA QuotShare ==
    ASSUME NEW c \in Int, NEW r \in Nat \ {0}, NEW q \in Nat \ {0}
    PROVE  Quot(c * r, q) = Sign(c) * ((Abs(c) * r) \div q)
<1>1. CASE c < 0
  <2>1. c * r < 0 /\ c * r \in Int
    BY <1>1
  <2>2. -(c * r) = (-c) * r
    OBVIOUS
  <2> QED BY <1>1, <2>1, <2>2 DEF Quot, Abs, Sign
<1>2. CASE ~(c < 0)
  <2>1. ~(c * r < 0) /\ c * r \in Int
    BY <1>2
  <2> QED BY <1>2, <2>1 DEF Quot, Abs, Sign
<1> QED BY <1>1, <1>2

\* Closing all of a position removes all of its cost.
LEMMA QuotAll ==
    ASSUME NEW c \in Int, NEW q \in Nat \ {0}
    PROVE  Quot(c * q, q) = c
<1>1. Abs(c) \in Nat /\ Sign(c) * Abs(c) = c
  BY AbsSign
<1>2. (Abs(c) * q) \div q = Abs(c)
  <2> DEFINE a == Abs(c)
  <2>1. a \in Nat
    BY <1>1
  <2> HIDE DEF a
  <2>2. (a * q) \div q = a
    BY <2>1, SMT
  <2> QED BY <2>2 DEF a
<1> QED BY <1>1, <1>2, QuotShare

\* What is left of a cost C of q lots after r of them stays between lo and hi
\* a lot, though the share that is removed is rounded.
LEMMA CutInRange ==
    ASSUME NEW C \in Nat, NEW q \in Nat \ {0}, NEW r \in Nat, r <= q,
           NEW lo \in Nat, NEW hi \in Nat, lo * q <= C, C <= hi * q,
           NEW d, d = (C * r) \div q
    PROVE  /\ d \in Nat /\ lo * (q - r) <= C - d /\ C - d <= hi * (q - r)
<1> DEFINE cr == C * r
           t == q - r
           ct == C * t
<1>1. cr \in Nat /\ t \in Nat /\ ct \in Nat
  OBVIOUS
<1>2. ct = q * C - cr
  BY Distributes
<1>3. d \in Nat /\ q * d <= cr /\ cr < q * d + q
  BY <1>1, DivIs
<1>4. q * (C - d) >= ct /\ q * (C - d) < ct + q
  <2>1. q * (C - d) = q * C - q * d /\ q * C \in Int /\ q * d \in Int
    BY <1>3, Distributes
  <2> HIDE DEF cr, ct, t
  <2> QED BY <1>1, <1>2, <1>3, <2>1
<1>6. q * (lo * t) <= ct
  <2>1. t * (lo * q) <= t * C
    BY <1>1, Scales
  <2>2. t * C = ct /\ t * (lo * q) = q * (lo * t)
    <3> HIDE DEF t
    <3>1. t * (lo * q) = q * (lo * t)
      BY <1>1, SMT
    <3>2. t * C = C * t
      BY <1>1, SMT
    <3> QED BY <3>1, <3>2 DEF ct
  <2> QED BY <2>1, <2>2
<1>7. ct <= q * (hi * t)
  <2>1. t * C <= t * (hi * q)
    BY <1>1, Scales
  <2>2. t * C = ct /\ t * (hi * q) = q * (hi * t)
    <3> HIDE DEF t
    <3>1. t * (hi * q) = q * (hi * t)
      BY <1>1, SMT
    <3>2. t * C = C * t
      BY <1>1, SMT
    <3> QED BY <3>1, <3>2 DEF ct
  <2> QED BY <2>1, <2>2
<1> DEFINE x == lo * t
           y == hi * t
           z == C - d
<1>8. x \in Int /\ y \in Int /\ z \in Int
  BY <1>1, <1>3
<1>9. q * x <= q * z
  BY <1>1, <1>4, <1>6, <1>8
<1>11. x <= z
  <2> HIDE DEF x, z
  <2> QED BY <1>8, <1>9, Cancels
<1>12. z <= y
  <2>1. ~(z - 1 >= y)
    <3> SUFFICES ASSUME z - 1 >= y PROVE FALSE
      OBVIOUS
    <3> DEFINE w == z - 1
    <3>1. q * y <= q * w
      <4> HIDE DEF y, z
      <4> QED BY <1>8, Scales
    <3>2. q * w < q * y
      <4>1. q * w = q * z - q /\ q * z \in Int /\ q * y \in Int /\ q * w \in Int
        BY <1>8, Distributes
      <4>2. q * z < ct + q /\ ct <= q * y
        BY <1>4, <1>7
      <4> HIDE DEF y, z, w, ct
      <4> QED BY <1>1, <4>1, <4>2
    <3>3. q * w \in Int /\ q * y \in Int
      <4> HIDE DEF y, z
      <4> QED BY <1>8
    <3> HIDE DEF w, y
    <3> QED BY <3>1, <3>2, <3>3
  <2> HIDE DEF y, z
  <2> QED BY <1>8, <2>1
<1> QED BY <1>3, <1>11, <1>12

AccountTypeOK ==
    /\ qty \in Int /\ cost \in Int /\ realized \in Int /\ fees \in Int
    /\ quote \in Int /\ base \in Int /\ mark2 \in Int /\ peak \in Int /\ maxDd \in Int
    /\ baseFees \in Int /\ quoteFees \in Int

\* A flat position has no cost, whatever the prices were.
FlatIsFree == qty = 0 => cost = 0

AccountIInv == AccountTypeOK /\ FlatIsFree /\ AccountExact

\* An execution opens more of the position, cuts it, or closes it and opens the
\* rest on the other side.
Opens(px, s, c, r) ==
    (qty = 0 \/ Sign(qty) = Sign(s)) /\ c = cost + px * s /\ r = realized
Cuts(px, s, c, r) ==
    LET removed == Quot(cost * Abs(s), Abs(qty))
    IN  /\ qty # 0 /\ Sign(qty) # Sign(s) /\ Abs(s) < Abs(qty)
        /\ c = cost - removed /\ r = (realized - px * s) - removed
Flips(px, s, c, r) ==
    /\ qty # 0 /\ Sign(qty) # Sign(s) /\ Abs(qty) <= Abs(s)
    /\ c = px * (qty + s) /\ r = (realized + px * qty) - cost

LEMMA MovedIs ==
    ASSUME AccountTypeOK, NEW px \in Nat, NEW s \in Int, s # 0,
           NEW c, c = Moved(px, s).cost, NEW z, z = Moved(px, s).realized
    PROVE  /\ Moved(px, s).qty = qty + s
           /\ Opens(px, s, c, z) \/ Cuts(px, s, c, z) \/ Flips(px, s, c, z)
<1> DEFINE opposite == qty # 0 /\ Sign(qty) # Sign(s)
           r == IF opposite THEN Lesser(Abs(s), Abs(qty)) ELSE 0
           removed == IF opposite THEN Quot(cost * r, Abs(qty)) ELSE 0
           left == qty + Sign(s) * r
           rest == s - Sign(s) * r
<1>1. /\ Moved(px, s).qty = left + rest
      /\ c = (IF opposite /\ left = 0 THEN 0 ELSE cost - removed) + px * rest
      /\ z = realized + Sign(qty) * px * r - removed
  BY Zenon DEF Moved
<1>2. /\ qty \in Int /\ cost \in Int /\ realized \in Int
      /\ Abs(s) \in Nat /\ Abs(qty) \in Nat /\ Sign(s) * Abs(s) = s /\ Sign(qty) * Abs(qty) = qty
      /\ Sign(s) \in {-1, 1} /\ Sign(qty) \in {-1, 1}
      /\ Abs(s) # 0 /\ (qty # 0 => Abs(qty) # 0)
  BY AbsSign DEF AccountTypeOK
<1> HIDE DEF opposite
<1>3. CASE ~opposite
  <2>1. r = 0 /\ removed = 0
    BY <1>3
  <2>2. left = qty /\ rest = s /\ Sign(qty) * px * r = 0
    BY <1>2, <2>1
  <2> HIDE DEF r, removed, left, rest
  <2>3. c = cost + px * s /\ z = realized /\ Moved(px, s).qty = qty + s
    <3>1. px * s \in Int
      BY <1>2
    <3> QED BY <1>1, <1>2, <1>3, <2>1, <2>2, <3>1
  <2>4. qty = 0 \/ Sign(qty) = Sign(s)
    BY <1>3 DEF opposite
  <2> QED BY <2>3, <2>4 DEF Opens
<1>4. CASE opposite /\ Abs(s) < Abs(qty)
  <2>0. qty # 0 /\ Sign(qty) # Sign(s)
    BY <1>4 DEF opposite
  <2>1. r = Abs(s) /\ removed = Quot(cost * Abs(s), Abs(qty))
    BY <1>4 DEF Lesser
  <2>2. left = qty + s /\ rest = 0
    BY <1>2, <2>1
  <2>3. left # 0
    BY <1>2, <1>4, <2>0, <2>2 DEF Abs, Sign
  <2>4. Sign(qty) * px * r = -(px * s)
    <3>1. Sign(qty) = -Sign(s)
      BY <1>2, <2>0
    <3>2. Sign(qty) * px * r = px * (Sign(qty) * Abs(s))
      BY <1>2, <2>1
    <3>3. Sign(qty) * Abs(s) = -s
      BY <1>2, <3>1
    <3> QED BY <3>2, <3>3
  <2>5. removed \in Int
    BY <1>2, <2>0, <2>1, QuotType
  <2> HIDE DEF r, removed, left, rest
  <2>6. c = cost - removed /\ z = (realized - px * s) - removed /\ Moved(px, s).qty = qty + s
    <3>1. px * s \in Int /\ px * rest = 0
      BY <1>2, <2>2
    <3>2. Moved(px, s).qty = qty + s
      BY <1>1, <1>2, <2>2
    <3>3. c = cost - removed
      BY <1>1, <1>2, <2>3, <2>5, <3>1
    <3>4. z = (realized - px * s) - removed
      BY <1>1, <1>2, <2>4, <2>5, <3>1
    <3> QED BY <3>2, <3>3, <3>4
  <2> QED BY <1>4, <2>0, <2>1, <2>6 DEF Cuts
<1>5. CASE opposite /\ ~(Abs(s) < Abs(qty))
  <2>0. qty # 0 /\ Sign(qty) # Sign(s) /\ Abs(qty) <= Abs(s)
    BY <1>2, <1>5 DEF opposite
  <2>1. r = Abs(qty) /\ removed = cost
    <3>1. r = Abs(qty)
      BY <1>5 DEF Lesser
    <3>2. removed = Quot(cost * Abs(qty), Abs(qty))
      BY <1>5, <3>1
    <3> QED BY <1>2, <2>0, <3>1, <3>2, QuotAll
  <2>2. left = 0 /\ rest = s + qty
    <3>1. Sign(s) = -Sign(qty)
      BY <1>2, <2>0
    <3>2. Sign(s) * Abs(qty) = -qty
      BY <1>2, <3>1
    <3> DEFINE u == Sign(s) * r
    <3>3. u = -qty /\ left = qty + u /\ rest = s - u
      BY <2>1, <3>2
    <3> HIDE DEF u, left, rest
    <3> QED BY ONLY <3>3, <1>2, s \in Int
  <2>3. Sign(qty) * px * r = px * qty
    <3>1. Sign(qty) * px * r = px * (Sign(qty) * Abs(qty))
      BY <1>2, <2>1
    <3> QED BY <1>2, <3>1
  <2> HIDE DEF r, removed, left, rest
  <2>4. Moved(px, s).qty = qty + s /\ c = px * (qty + s) /\ z = (realized + px * qty) - cost
    <3>1. px * (qty + s) \in Int /\ px * qty \in Int /\ rest = qty + s
      BY <1>2, <2>2
    <3>2. Moved(px, s).qty = qty + s
      BY <1>1, <1>2, <2>2
    <3>3. c = px * (qty + s)
      BY <1>1, <1>5, <2>2, <3>1
    <3>4. z = (realized + px * qty) - cost
      BY <1>1, <1>2, <2>1, <2>3, <3>1
    <3> QED BY <3>2, <3>3, <3>4
  <2> QED BY <2>0, <2>4 DEF Flips
<1> QED BY <1>3, <1>4, <1>5

\* Whichever it is, what the execution pays or earns shows in realized PnL and
\* cost, and a flat position keeps no cost.
LEMMA MovedConserves ==
    ASSUME AccountTypeOK, FlatIsFree, NEW px \in Nat, NEW s \in Int, s # 0,
           NEW c, c = Moved(px, s).cost, NEW z, z = Moved(px, s).realized
    PROVE  /\ Moved(px, s).qty = qty + s /\ c \in Int /\ z \in Int
           /\ z - c = (realized - cost) - px * s
           /\ qty + s = 0 => c = 0
<1>1. /\ qty \in Int /\ cost \in Int /\ realized \in Int
      /\ Abs(s) \in Nat /\ Abs(qty) \in Nat /\ (qty # 0 => Abs(qty) # 0)
  BY AbsSign DEF AccountTypeOK
<1>2. px * s \in Int /\ px * qty \in Int /\ px * (qty + s) = px * qty + px * s
  BY <1>1, Distributes
<1>3. Moved(px, s).qty = qty + s
  BY MovedIs
<1>4. CASE Opens(px, s, c, z)
  <2>1. (qty = 0 \/ Sign(qty) = Sign(s)) /\ c = cost + px * s /\ z = realized
    BY <1>4 DEF Opens
  <2>2. qty + s # 0
    BY <1>1, <2>1 DEF Sign
  <2> QED BY <1>1, <1>2, <1>3, <2>1, <2>2
<1>5. CASE Cuts(px, s, c, z)
  <2> DEFINE removed == Quot(cost * Abs(s), Abs(qty))
  <2>1. /\ qty # 0 /\ Sign(qty) # Sign(s) /\ Abs(s) < Abs(qty)
        /\ c = cost - removed /\ z = (realized - px * s) - removed
    BY <1>5 DEF Cuts
  <2>2. removed \in Int
    BY <1>1, <2>1, QuotType
  <2>3. qty + s # 0
    BY <1>1, <2>1 DEF Abs, Sign
  <2> HIDE DEF removed
  <2> QED BY <1>1, <1>2, <1>3, <2>1, <2>2, <2>3
<1>6. CASE Flips(px, s, c, z)
  <2>1. c = px * (qty + s) /\ z = (realized + px * qty) - cost
    BY <1>6 DEF Flips
  <2>2. qty + s = 0 => c = 0
    BY <2>1
  <2> QED BY <1>1, <1>2, <1>3, <2>1, <2>2
<1>7. Opens(px, s, c, z) \/ Cuts(px, s, c, z) \/ Flips(px, s, c, z)
  BY MovedIs
<1> QED BY <1>4, <1>5, <1>6, <1>7

\* A cost in the range of the prices stays there.
InRange(lo, hi, q, c) ==
    lo * Abs(q) <= Abs(c) /\ Abs(c) <= hi * Abs(q) /\ (q # 0 => Sign(c) = Sign(q))

LEMMA MovedInRange ==
    ASSUME AccountTypeOK, NEW px \in Nat, NEW s \in Int, s # 0,
           NEW lo \in Nat \ {0}, NEW hi \in Nat \ {0}, lo <= px, px <= hi,
           InRange(lo, hi, qty, cost),
           NEW c, c = Moved(px, s).cost, NEW z, z = Moved(px, s).realized
    PROVE  InRange(lo, hi, qty + s, c)
<1>0. qty \in Int /\ cost \in Int
  BY DEF AccountTypeOK
<1>1. PICK n, q, C : n = Abs(s) /\ q = Abs(qty) /\ C = Abs(cost)
  OBVIOUS
<1>2. /\ n \in Nat \ {0} /\ q \in Nat /\ C \in Nat /\ (qty # 0 => q # 0)
      /\ s = Sign(s) * n /\ qty = Sign(qty) * q /\ cost = Sign(cost) * C
      /\ Sign(s) \in {-1, 1} /\ Sign(qty) \in {-1, 1} /\ Sign(cost) \in {-1, 1}
  BY <1>0, <1>1, AbsSign
<1>3. lo * q <= C /\ C <= hi * q /\ (qty # 0 => Sign(cost) = Sign(qty))
  BY <1>1 DEF InRange
<1>4. lo * n <= px * n /\ px * n <= hi * n /\ px * n \in Nat /\ px * n # 0
  <2>1. n * lo <= n * px /\ n * px <= n * hi
    BY <1>2, Scales
  <2>2. n * lo = lo * n /\ n * px = px * n /\ n * hi = hi * n
    BY <1>2, SMT
  <2>3. px * n \in Nat /\ px * n # 0
    BY <1>2, SMT
  <2> QED BY <2>1, <2>2, <2>3
<1>5. CASE Opens(px, s, c, z)
  <2>1. (qty = 0 \/ Sign(qty) = Sign(s)) /\ c = cost + px * s
    BY <1>5 DEF Opens
  <2>2. CASE qty = 0
    <3>1. q = 0 /\ C = 0 /\ cost = 0
      <4>1. q = 0
        BY <1>1, <2>2 DEF Abs
      <4>2. C = 0
        BY <1>2, <1>3, <4>1
      <4> QED BY <1>2, <4>1, <4>2
    <3>2. c = px * s /\ qty + s = s
      BY <2>1, <2>2, <3>1
    <3>3. Abs(c) = px * n /\ Sign(c) = Sign(s)
      <4>1. CASE s < 0
        <5>1. n = -s /\ px * s = -(px * n)
          BY <1>1, <4>1 DEF Abs
        <5> QED BY <1>4, <3>2, <4>1, <5>1 DEF Abs, Sign
      <4>2. CASE ~(s < 0)
        <5>1. n = s
          BY <1>1, <4>2 DEF Abs
        <5> QED BY <1>4, <3>2, <4>2, <5>1 DEF Abs, Sign
      <4> QED BY <4>1, <4>2
    <3> QED BY <1>1, <1>4, <3>2, <3>3 DEF InRange
  <2>3. CASE qty # 0
    <3>0. Sign(qty) = Sign(s) /\ Sign(cost) = Sign(s)
      BY <1>3, <2>1, <2>3
    <3>1. Abs(qty + s) = q + n /\ Sign(qty + s) = Sign(s)
      BY <1>0, <1>1, <2>3, <3>0 DEF Abs, Sign
    <3>2. Abs(c) = C + px * n /\ Sign(c) = Sign(s)
      <4>1. CASE s < 0
        <5>1. n = -s /\ px * s = -(px * n) /\ cost < 0 /\ C = -cost
          BY <1>1, <3>0, <4>1 DEF Abs, Sign
        <5> DEFINE t == px * n
        <5>2. t \in Nat /\ c = cost - t
          BY <1>0, <1>4, <2>1, <5>1
        <5> HIDE DEF t
        <5>3. Abs(c) = C + t /\ Sign(c) = Sign(s)
          BY <1>0, <4>1, <5>1, <5>2 DEF Abs, Sign
        <5> QED BY <5>3 DEF t
      <4>2. CASE ~(s < 0)
        <5>1. n = s /\ ~(cost < 0) /\ C = cost
          BY <1>1, <3>0, <4>2 DEF Abs, Sign
        <5> DEFINE t == px * n
        <5>2. t \in Nat /\ c = cost + t
          BY <1>0, <1>4, <2>1, <5>1
        <5> HIDE DEF t
        <5>3. Abs(c) = C + t /\ Sign(c) = Sign(s)
          BY <1>0, <4>2, <5>1, <5>2 DEF Abs, Sign
        <5> QED BY <5>3 DEF t
      <4> QED BY <4>1, <4>2
    <3>3. lo * (q + n) <= C + px * n /\ C + px * n <= hi * (q + n)
      <4>1. lo * (q + n) = lo * q + lo * n /\ hi * (q + n) = hi * q + hi * n
        BY <1>2, Distributes
      <4>2. lo * q \in Int /\ lo * n \in Int /\ hi * q \in Int /\ hi * n \in Int
        BY <1>2, Distributes
      <4> QED BY <1>2, <1>3, <1>4, <4>1, <4>2
    <3> QED BY <3>1, <3>2, <3>3 DEF InRange
  <2> QED BY <2>2, <2>3
<1>6. CASE Cuts(px, s, c, z)
  <2> DEFINE d == (C * n) \div q
  <2>1. /\ qty # 0 /\ Sign(qty) # Sign(s) /\ n < q /\ q \in Nat \ {0}
        /\ c = cost - Quot(cost * n, q)
    BY <1>1, <1>2, <1>6 DEF Cuts
  <2>2. Quot(cost * n, q) = Sign(cost) * d
    BY <1>0, <1>1, <1>2, <2>1, QuotShare
  <2>3. d \in Nat /\ lo * (q - n) <= C - d /\ C - d <= hi * (q - n)
    BY <1>2, <1>3, <2>1, CutInRange
  <2> HIDE DEF d
  <2>4. C - d >= 1
    <3> DEFINE t == q - n
    <3>1. t \in Nat /\ t >= 1
      BY <1>2, <2>1
    <3> HIDE DEF t
    <3>2. lo * t >= 1 /\ lo * t \in Nat
      BY <3>1, SMT
    <3>3. lo * t <= C - d
      BY <2>3 DEF t
    <3> QED BY <1>2, <2>3, <3>2, <3>3
  <2>5. c = Sign(cost) * (C - d) /\ Sign(cost) = Sign(qty)
    <3>1. Sign(cost) = Sign(qty)
      BY <1>3, <2>1
    <3>2. CASE Sign(cost) = 1
      BY <1>2, <2>1, <2>2, <2>3, <3>1, <3>2
    <3>3. CASE Sign(cost) = -1
      BY <1>2, <2>1, <2>2, <2>3, <3>1, <3>3
    <3> QED BY <1>2, <3>1, <3>2, <3>3
  <2>6. Abs(c) = C - d /\ Sign(c) = Sign(qty)
    <3>1. CASE Sign(cost) = 1
      BY <1>2, <2>3, <2>4, <2>5, <3>1 DEF Abs, Sign
    <3>2. CASE Sign(cost) = -1
      <4>1. c = -(C - d)
        BY <1>2, <2>3, <2>5, <3>2
      <4>2. Abs(c) = C - d /\ Sign(c) = -1
        BY <1>2, <2>3, <2>4, <4>1 DEF Abs, Sign
      <4> QED BY <2>5, <3>2, <4>2
    <3> QED BY <1>2, <3>1, <3>2
  <2>7. Abs(qty + s) = q - n /\ Sign(qty + s) = Sign(qty)
    BY <1>0, <1>1, <2>1 DEF Abs, Sign
  <2> QED BY <2>3, <2>6, <2>7 DEF InRange
<1>7. CASE Flips(px, s, c, z)
  <2> DEFINE t == qty + s
  <2>1. c = px * t /\ t \in Int
    BY <1>0, <1>7 DEF Flips
  <2> HIDE DEF t
  <2>2. PICK w : w = Abs(t)
    OBVIOUS
  <2>3. w \in Nat /\ (t # 0 => w # 0)
    BY <2>1, <2>2, AbsSign
  <2>4. lo * w <= px * w /\ px * w <= hi * w /\ px * w \in Nat
    <3>1. w * lo <= w * px /\ w * px <= w * hi
      BY <2>3, Scales
    <3>2. w * lo = lo * w /\ w * px = px * w /\ w * hi = hi * w /\ px * w \in Nat
      BY <2>3, SMT
    <3> QED BY <3>1, <3>2
  <2>5. Abs(c) = px * w /\ Sign(c) = Sign(t)
    <3>1. CASE t < 0
      <4>1. w = -t /\ px * t = -(px * w) /\ px * w # 0
        BY <2>1, <2>2, <3>1 DEF Abs
      <4> QED BY <2>1, <2>4, <3>1, <4>1 DEF Abs, Sign
    <3>2. CASE ~(t < 0)
      <4>1. w = t
        BY <2>2, <3>2 DEF Abs
      <4> QED BY <2>1, <2>4, <3>2, <4>1 DEF Abs, Sign
    <3> QED BY <3>1, <3>2
  <2>6. InRange(lo, hi, t, c)
    BY <2>2, <2>4, <2>5 DEF InRange
  <2> QED BY <2>6 DEF t
<1>8. Opens(px, s, c, z) \/ Cuts(px, s, c, z) \/ Flips(px, s, c, z)
  BY MovedIs
<1> QED BY <1>5, <1>6, <1>7, <1>8

-----------------------------------------------------------------------------
LEMMA EquityType ==
    ASSUME NEW q \in Int, NEW c \in Int, NEW z \in Int, NEW f \in Int, NEW m \in Int
    PROVE  Equity(q, c, z, f, m) \in Int
<1>1. q * m - 2 * c \in Int
  OBVIOUS
<1>2. Quot(q * m - 2 * c, 2) \in Int
  BY <1>1, QuotType
<1>3. TLMul \in Int
  BY AccountAssumption
<1>4. Unrealized(q, c, m) \in Int
  BY <1>2, <1>3 DEF Unrealized
<1>5. TLMul * z \in Int
  BY <1>3
<1> QED BY <1>4, <1>5 DEF Equity

\* If money is conserved, equity is wealth (see EquityIsWealth).
LEMMA Wealth ==
    ASSUME NEW q \in Int, NEW c \in Int, NEW z \in Int, NEW f \in Int, NEW g \in Int,
           NEW m \in Int, m # 0, q = 0 => c = 0, NEW b, b = TLMul * (z - c) - g
    PROVE  Abs(2 * (Equity(q, c, z, f, m) + (f - g)) - (2 * b + TLMul * q * m)) <= TLMul
<1> DEFINE x == q * m - 2 * c
           u == Quot(x, 2)
           T == TLMul
           tz == T * z
           tc == T * c
           tu == T * u
           tx == T * x
           tqm == T * q * m
<1>0. T \in Nat \ {0}
  BY AccountAssumption
<1>1. x \in Int /\ u \in Int
  BY QuotType
<1>2. b = (tz - tc) - g /\ tz \in Int /\ tc \in Int
  <2> HIDE DEF T
  <2> QED BY <1>0, Distributes DEF T
<1>3. tqm \in Int /\ tu \in Int
  <2> HIDE DEF T, u
  <2> QED BY <1>0, <1>1
<1>4. CASE q = 0
  <2>1. Equity(q, c, z, f, m) = tz - f
    <3>1. Unrealized(q, c, m) = 0
      BY <1>4 DEF Unrealized
    <3> QED BY <1>2, <3>1 DEF Equity
  <2>2. tc = 0 /\ tqm = 0
    <3>1. c = 0
      BY <1>4
    <3> HIDE DEF T
    <3> QED BY <1>0, <1>4, <3>1
  <2> HIDE DEF tz, tc, tqm, T
  <2>3. 2 * ((tz - f) + (f - g)) - (2 * b + tqm) = 0
    BY <1>2, <2>2
  <2>4. Abs(0) <= T
    BY <1>0 DEF Abs
  <2> QED BY <2>1, <2>3, <2>4 DEF T, tqm
<1>5. CASE q # 0
  <2>1. Equity(q, c, z, f, m) = (tz + tu) - f
    <3>1. Unrealized(q, c, m) = tu
      BY <1>5 DEF Unrealized
    <3> QED BY <1>2, <1>3, <3>1 DEF Equity
  <2>2. tqm = tx + 2 * tc /\ tx \in Int
    <3> DEFINE qm == q * m
    <3>1. T * qm = tqm /\ qm \in Int
      <4> HIDE DEF T
      <4> QED BY <1>0, Associates
    <3>2. x = qm - 2 * c
      OBVIOUS
    <3> HIDE DEF qm, T
    <3>3. T * (qm - 2 * c) = T * qm - T * (2 * c) /\ T * (2 * c) = 2 * (T * c)
      BY <1>0, <3>1, Distributes
    <3>4. T * x = T * qm - 2 * (T * c) /\ T * x \in Int /\ T * qm \in Int
      <4>1. T * x = T * qm - 2 * (T * c)
        BY <3>2, <3>3
      <4> HIDE DEF x
      <4> QED BY <1>0, <1>1, <3>1, <4>1
    <3>5. tx = T * x /\ tc = T * c
      OBVIOUS
    <3> HIDE DEF tx, tc, x, tqm
    <3> QED BY <1>2, <1>3, <3>1, <3>4, <3>5
  <2>3. 2 * tu - tx \in {-T, 0, T}
    <3>1. 2 * u - x \in {-1, 0, 1}
      BY <1>1, QuotHalf
    <3>2. 2 * tu - tx = T * (2 * u - x)
      <4> HIDE DEF T, u, x
      <4>1. T * (2 * u - x) = T * (2 * u) - T * x /\ T * (2 * u) = 2 * (T * u)
        BY <1>0, <1>1, Distributes
      <4> QED BY <4>1
    <3> DEFINE e == 2 * u - x
    <3>3. T * e \in {-T, 0, T}
      <4>1. e \in {-1, 0, 1}
        BY <3>1
      <4> HIDE DEF e, T
      <4> QED BY <1>0, <4>1
    <3> QED BY <3>2, <3>3
  <2> HIDE DEF tz, tc, tu, tx, tqm, T
  <2>4. 2 * (((tz + tu) - f) + (f - g)) - (2 * b + tqm) = 2 * tu - tx
    BY ONLY <1>2, <1>3, <2>2, f \in Int, g \in Int
  <2>5. Abs(2 * tu - tx) <= T
    BY <1>0, <2>3 DEF Abs
  <2> QED BY <2>1, <2>4, <2>5 DEF T, tqm
<1> QED BY <1>4, <1>5

LEMMA Tracked ==
    ASSUME peak \in Int, maxDd \in Int, NEW e \in Int, TrackEquity(e)
    PROVE  peak' \in Int /\ maxDd' \in Int /\ e <= peak' /\ peak' - e <= maxDd'
<1>1. peak' = Greater(peak, e) /\ maxDd' = Greater(maxDd, peak' - e)
  BY DEF TrackEquity
<1>2. peak' \in Int /\ e <= peak'
  BY <1>1 DEF Greater
<1> QED BY <1>1, <1>2 DEF Greater

\* What AccountExact says, of the values after a step.
LEMMA AccountFrom ==
    ASSUME AccountTypeOK', FlatIsFree', MoneyConserved', CostInRange',
           LET e == Equity(qty', cost', realized', fees', mark2')
           IN  e <= peak' /\ peak' - e <= maxDd'
    PROVE  AccountIInv'
<1>1. DrawdownCovers'
  BY DEF DrawdownCovers
<1>2. EquityIsWealth'
  <2> SUFFICES ASSUME mark2' # 0
               PROVE  Abs(2 * (Equity(qty', cost', realized', fees', mark2') + (fees' - quoteFees'))
                            - (2 * quote' + TLMul * qty' * mark2')) <= TLMul
    BY DEF EquityIsWealth
  <2>1. /\ qty' \in Int /\ cost' \in Int /\ realized' \in Int /\ fees' \in Int
        /\ quoteFees' \in Int /\ mark2' \in Int /\ (qty' = 0 => cost' = 0)
        /\ quote' = TLMul * (realized' - cost') - quoteFees'
    BY DEF AccountTypeOK, FlatIsFree, MoneyConserved
  <2> QED BY ONLY <2>1, mark2' # 0, Wealth
<1> QED BY <1>1, <1>2 DEF AccountIInv, AccountExact

LEMMA AccountInitIInv == AccountInit => AccountIInv
<1> SUFFICES ASSUME AccountInit PROVE AccountIInv
  OBVIOUS
<1>1. /\ qty = 0 /\ cost = 0 /\ realized = 0 /\ fees = 0 /\ quote = 0 /\ base = 0
      /\ mark2 = 0 /\ peak = 0 /\ maxDd = 0 /\ baseFees = 0 /\ quoteFees = 0
  BY DEF AccountInit
<1>2. AccountTypeOK /\ FlatIsFree
  BY <1>1 DEF AccountTypeOK, FlatIsFree
<1>3. MoneyConserved
  BY <1>1, AccountAssumption DEF MoneyConserved
<1>4. CostInRange
  BY <1>1, AccountAssumption DEF CostInRange, Abs
<1>5. EquityIsWealth
  BY <1>1 DEF EquityIsWealth
<1>6. Equity(qty, cost, realized, fees, mark2) = 0
  BY <1>1, AccountAssumption DEF Equity, Unrealized
<1>7. DrawdownCovers
  BY <1>1, <1>6 DEF DrawdownCovers
<1> QED BY <1>2, <1>3, <1>4, <1>5, <1>7 DEF AccountIInv, AccountExact

LEMMA AccountMarkStep ==
    ASSUME AccountIInv, NEW m \in Mark2, Mark(m)
    PROVE  AccountIInv'
<1>1. /\ mark2' = m /\ TrackEquity(Equity(qty, cost, realized, fees, m))
      /\ UNCHANGED <<qty, cost, realized, fees, quote, base, baseFees, quoteFees>>
  BY DEF Mark
<1>2. m \in Int
  BY AccountAssumption
<1>3. Equity(qty, cost, realized, fees, m) \in Int /\ peak \in Int /\ maxDd \in Int
  BY <1>2, EquityType DEF AccountIInv, AccountTypeOK
<1>4. LET e == Equity(qty, cost, realized, fees, m)
      IN  peak' \in Int /\ maxDd' \in Int /\ e <= peak' /\ peak' - e <= maxDd'
  BY <1>1, <1>3, Tracked
<1>5. AccountTypeOK'
  BY <1>1, <1>2, <1>4 DEF AccountIInv, AccountTypeOK
<1>6. FlatIsFree' /\ MoneyConserved' /\ CostInRange'
  BY <1>1 DEF AccountIInv, AccountExact, FlatIsFree, MoneyConserved, CostInRange
<1>7. LET e == Equity(qty', cost', realized', fees', mark2')
      IN  e <= peak' /\ peak' - e <= maxDd'
  BY <1>1, <1>4
<1> QED BY <1>5, <1>6, <1>7, AccountFrom

\* on_fill.
LEMMA AccountFillStep ==
    ASSUME AccountIInv, NEW s \in Int, s # 0, NEW px \in Px, NEW fee \in Int,
           NEW inBase \in BOOLEAN, OnFill(s, px, fee, inBase)
    PROVE  AccountIInv'
<1> USE DEF AccountIInv, AccountExact
<1> DEFINE n == Abs(s)
           value == TLMul * px * n
           q == qty + s
           paid == IF inBase THEN Quot(fee * value, n * BasePerLot) ELSE fee
           bfee == IF inBase THEN fee ELSE 0
           qfee == IF inBase THEN 0 ELSE fee
<1>1. PICK c, z : c = Moved(px, s).cost /\ z = Moved(px, s).realized
  OBVIOUS
<1>2. px \in Nat \ {0} /\ TLMul \in Nat \ {0} /\ BasePerLot \in Nat \ {0}
  BY AccountAssumption
<1>3. Moved(px, s).qty = q /\ c \in Int /\ z \in Int /\ z - c = (realized - cost) - px * s
      /\ (q = 0 => c = 0)
  BY <1>1, <1>2, MovedConserves
<1>4. /\ base' = base + s * BasePerLot - bfee
      /\ quote' = quote - Sign(s) * value - qfee
      /\ fees' = fees + paid
      /\ baseFees' = baseFees + bfee /\ quoteFees' = quoteFees + qfee
      /\ mark2' = mark2
  BY Zenon DEF OnFill
<1>5. qty' = q /\ cost' = c /\ realized' = z
  <2>1. qty' = Moved(px, s).qty /\ cost' = Moved(px, s).cost /\ realized' = Moved(px, s).realized
    BY Zenon DEF OnFill
  <2> QED BY <1>1, <1>3, <2>1
<1>6. n \in Nat \ {0} /\ Sign(s) * n = s /\ Sign(s) \in {-1, 1}
  BY AbsSign
<1>7. /\ value \in Nat /\ paid \in Int /\ bfee \in Int /\ qfee \in Int
  <2>1. value \in Nat
    <3> HIDE DEF n
    <3> QED BY <1>2, <1>6
  <2>2. fee * value \in Int /\ n * BasePerLot \in Nat \ {0}
    <3> HIDE DEF value, n
    <3> QED BY <1>2, <1>6, <2>1
  <2>3. Quot(fee * value, n * BasePerLot) \in Int
    <3> HIDE DEF value, n
    <3> QED BY <2>2, QuotType
  <2>4. paid \in Int
    BY <2>3
  <2> QED BY <2>1, <2>4
<1>8. Sign(s) * value = TLMul * (px * s) /\ px * s \in Int
  <2>1. CASE s < 0
    <3>1. n = -s /\ Sign(s) = -1
      BY <2>1 DEF Abs, Sign
    <3>2. value = TLMul * px * (-s)
      BY <3>1
    <3> HIDE DEF value
    <3> QED BY <1>2, <3>1, <3>2
  <2>2. CASE ~(s < 0)
    <3>1. n = s /\ Sign(s) = 1
      BY <2>2 DEF Abs, Sign
    <3>2. value = TLMul * px * s
      BY <3>1
    <3> HIDE DEF value
    <3> QED BY <1>2, <3>1, <3>2
  <2> QED BY <2>1, <2>2
<1>9. /\ qty \in Int /\ cost \in Int /\ realized \in Int /\ fees \in Int
      /\ quote \in Int /\ base \in Int /\ mark2 \in Int /\ peak \in Int /\ maxDd \in Int
      /\ baseFees \in Int /\ quoteFees \in Int
  BY DEF AccountTypeOK
<1> HIDE DEF n, value, paid, bfee, qfee
<1>10. LET e == Equity(qty', cost', realized', fees', mark2')
       IN  peak' \in Int /\ maxDd' \in Int /\ e <= peak' /\ peak' - e <= maxDd'
  <2>1. fees' \in Int /\ q \in Int
    BY <1>4, <1>7, <1>9
  <2>2. PICK e : e = Equity(q, c, z, fees', mark2)
    OBVIOUS
  <2>3. e \in Int
    <3> HIDE DEF q
    <3> QED BY <1>3, <1>9, <2>1, <2>2, EquityType
  <2>4. TrackEquity(e)
    <3>1. TrackEquity(Equity(Moved(px, s).qty, Moved(px, s).cost, Moved(px, s).realized, fees', mark2))
      BY Zenon DEF OnFill
    <3> QED BY <1>1, <1>3, <2>2, <3>1
  <2>5. peak' \in Int /\ maxDd' \in Int /\ e <= peak' /\ peak' - e <= maxDd'
    BY ONLY <1>9, <2>3, <2>4, Tracked
  <2>6. e = Equity(qty', cost', realized', fees', mark2')
    BY <1>4, <1>5, <2>2
  <2> QED BY <2>5, <2>6
<1>11. AccountTypeOK'
  <2>1. base' \in Int
    <3>1. s * BasePerLot \in Int
      BY <1>2
    <3> QED BY ONLY <1>4, <1>7, <1>9, <3>1
  <2>2. quote' \in Int
    <3>1. TLMul * (px * s) \in Int
      BY <1>2, <1>8
    <3>2. Sign(s) * value \in Int
      BY <1>8, <3>1
    <3> QED BY ONLY <1>4, <1>7, <1>9, <3>2
  <2>3. fees' \in Int /\ baseFees' \in Int /\ quoteFees' \in Int
    BY ONLY <1>4, <1>7, <1>9
  <2>4. qty' \in Int /\ cost' \in Int /\ realized' \in Int /\ mark2' \in Int
    BY <1>3, <1>4, <1>5, <1>9
  <2> QED BY <1>10, <2>1, <2>2, <2>3, <2>4 DEF AccountTypeOK
<1>12. FlatIsFree'
  BY <1>3, <1>5 DEF FlatIsFree
<1>13. MoneyConserved'
  <2> DEFINE ps == px * s
             a == realized - cost
             T == TLMul
  <2>1. quote = T * a - quoteFees /\ base = BasePerLot * qty - baseFees
    BY DEF MoneyConserved
  <2>2. quote' = quote - T * ps - qfee /\ quoteFees' = quoteFees + qfee
    BY <1>4, <1>8
  <2>3. ps \in Int /\ a \in Int /\ T \in Int /\ z - c = a - ps
    BY <1>2, <1>3, <1>8, <1>9
  <2> HIDE DEF ps, a, T
  <2>4. T * (a - ps) = T * a - T * ps /\ T * a \in Int /\ T * ps \in Int
    BY <2>3, Distributes
  <2>5. quote' = T * (a - ps) - quoteFees'
    BY ONLY <1>7, <1>9, <2>1, <2>2, <2>4
  <2>6. quote' = TLMul * (realized' - cost') - quoteFees'
    BY <1>5, <2>3, <2>5 DEF T
  <2>7. base' = BasePerLot * qty' - baseFees'
    <3>1. BasePerLot * (qty + s) = BasePerLot * qty + s * BasePerLot
          /\ BasePerLot * qty \in Int /\ s * BasePerLot \in Int
      BY <1>2, <1>9, Distributes
    <3>2. BasePerLot * qty' = BasePerLot * qty + s * BasePerLot
      BY <1>5, <3>1
    <3> QED BY ONLY <1>4, <1>7, <1>9, <2>1, <3>1, <3>2
  <2> QED BY ONLY <2>6, <2>7 DEF MoneyConserved
<1>14. CostInRange'
  <2> SUFFICES ASSUME NEW lo \in Px, NEW hi \in Px, \A p \in Px : lo <= p /\ p <= hi
               PROVE  /\ lo * Abs(qty') <= Abs(cost') /\ Abs(cost') <= hi * Abs(qty')
                      /\ qty' # 0 => Sign(cost') = Sign(qty')
    BY Zenon DEF CostInRange
  <2>1. InRange(lo, hi, qty, cost)
    BY DEF CostInRange, InRange
  <2>2. lo \in Nat \ {0} /\ hi \in Nat \ {0} /\ lo <= px /\ px <= hi
    BY AccountAssumption
  <2>3. InRange(lo, hi, qty + s, c)
    BY <1>1, <1>2, <2>1, <2>2, MovedInRange
  <2>4. InRange(lo, hi, qty', cost')
    BY <1>5, <2>3
  <2> QED BY <2>4, Zenon DEF InRange
<1> QED BY <1>10, <1>11, <1>12, <1>13, <1>14, AccountFrom

\* However positions are opened, cut, closed and flipped, at any prices, sizes
\* and fees: money is conserved, the average cost stays within the prices paid,
\* equity is wealth, and peak and drawdown keep up (Account::on_fill, mark).
THEOREM AccountIsExact == AccountSpec => []AccountExact
<1>1. AccountIInv /\ [AccountNext]_accountVars => AccountIInv'
  <2> SUFFICES ASSUME AccountIInv, [AccountNext]_accountVars PROVE AccountIInv'
    OBVIOUS
  <2>1. CASE \E m \in Mark2 : Mark(m)
    BY <2>1, AccountMarkStep
  <2>2. ASSUME NEW n \in Qty, NEW px \in Px, NEW f \in Int, NEW inBase \in BOOLEAN,
               OnFill(n, px, f, inBase) \/ OnFill(-n, px, f, inBase)
        PROVE  AccountIInv'
    <3>1. n \in Int /\ n # 0 /\ -n \in Int /\ -n # 0
      BY AccountAssumption
    <3> QED BY <2>2, <3>1, AccountFillStep
  <2>3. CASE \E n \in Qty, px \in Px :
                \/ \E f \in Fee : OnFill(n, px, f, FALSE) \/ OnFill(-n, px, f, FALSE)
                \/ \E f \in BaseFee : OnFill(n, px, f, TRUE) \/ OnFill(-n, px, f, TRUE)
    <3>1. Fee \subseteq Int /\ BaseFee \subseteq Int /\ TRUE \in BOOLEAN /\ FALSE \in BOOLEAN
      BY AccountAssumption
    <3> QED BY <2>2, <2>3, <3>1
  <2>4. CASE UNCHANGED accountVars
    BY <2>4 DEF accountVars, AccountIInv, AccountTypeOK, FlatIsFree, AccountExact,
       MoneyConserved, CostInRange, EquityIsWealth, DrawdownCovers
  <2> QED BY <2>1, <2>3, <2>4 DEF AccountNext
<1>2. AccountIInv => AccountExact
  BY DEF AccountIInv
<1> QED BY AccountInitIInv, <1>1, <1>2, PTL DEF AccountSpec

-----------------------------------------------------------------------------
(* LevelBitmap: the occupancy bitmap, for any number of levels and tiers.  *)

\* The arithmetic of words: order is kept, the words of a tier are the bits of
\* the next, and the word after an index is still an index.
LEMMA WordIs ==
    /\ \A x \in Nat : WordOf(x) \in Nat
    /\ \A x, y \in Nat : x <= y => WordOf(x) <= WordOf(y)
    /\ \A x, n \in Nat : x < n => WordOf(x) < (n + Radix - 1) \div Radix
    /\ \A x \in Nat : x < Radix => WordOf(x) = 0
    /\ \A x \in 0..NBits : WordOf(x) + 1 \in 0..NBits
<1>0. Radix \in Nat \ {0} /\ Radix >= 2 /\ NBits \in Nat \ {0}
  BY BitmapAssumption
<1>1. ASSUME NEW x \in Nat
      PROVE  /\ WordOf(x) \in Nat /\ Radix * WordOf(x) \in Nat
             /\ Radix * WordOf(x) <= x /\ x < Radix * WordOf(x) + Radix
  <2>1. WordOf(x) \in Nat /\ Radix * WordOf(x) <= x /\ x < Radix * WordOf(x) + Radix
    BY <1>0, DivIs DEF WordOf
  <2> HIDE DEF WordOf
  <2> QED BY <1>0, <2>1
<1>2. ASSUME NEW x \in Nat, NEW v \in Int, Radix * v <= x PROVE v <= WordOf(x)
  <2>1. ~(WordOf(x) + 1 <= v)
    <3> SUFFICES ASSUME WordOf(x) + 1 <= v PROVE FALSE
      OBVIOUS
    <3>1. PICK w \in Nat : w = WordOf(x)
      BY <1>1
    <3>2. w + 1 \in Int /\ w + 1 <= v
      BY <3>1
    <3>3. Radix * (w + 1) <= Radix * v
      BY <1>0, <3>2, Scales
    <3>4. Radix * v \in Int /\ Radix * w \in Int
      BY <1>0, Distributes
    <3>5. Radix * (w + 1) = Radix * w + Radix * 1
      BY <1>0, Distributes
    <3>6. x < Radix * w + Radix
      BY <1>1, <3>1
    <3> QED BY <1>0, <1>2, <3>3, <3>4, <3>5, <3>6
  <2> QED BY <1>1, <2>1
<1>3. ASSUME NEW x \in Nat, NEW y \in Nat, x <= y PROVE WordOf(x) <= WordOf(y)
  <2>1. Radix * WordOf(x) <= y
    BY <1>1, <1>3
  <2> QED BY <1>1, <1>2, <2>1
<1>4. ASSUME NEW x \in Nat, NEW n \in Nat, x < n
      PROVE  WordOf(x) < (n + Radix - 1) \div Radix
  <2>1. n + Radix - 1 \in Nat /\ (n + Radix - 1) \div Radix = WordOf(n + Radix - 1)
    BY <1>0 DEF WordOf
  <2>2. Radix * (WordOf(x) + 1) = Radix * WordOf(x) + Radix
    BY <1>0, <1>1, Distributes
  <2>3. Radix * (WordOf(x) + 1) <= n + Radix - 1
    BY <1>0, <1>1, <1>4, <2>2
  <2>4. WordOf(x) + 1 <= WordOf(n + Radix - 1)
    BY <1>1, <1>2, <2>1, <2>3
  <2>5. WordOf(n + Radix - 1) \in Nat /\ WordOf(x) \in Nat
    BY <1>1, <2>1
  <2> HIDE DEF WordOf
  <2> QED BY <2>1, <2>4, <2>5
<1>5. ASSUME NEW x \in Nat, x < Radix PROVE WordOf(x) = 0
  <2>1. ~(1 <= WordOf(x))
    <3> SUFFICES ASSUME 1 <= WordOf(x) PROVE FALSE
      OBVIOUS
    <3>1. WordOf(x) \in Int /\ Radix \in Nat /\ 1 \in Int
      BY <1>0, <1>1
    <3>2. Radix * 1 <= Radix * WordOf(x)
      BY <3>1, Scales
    <3> QED BY <1>0, <1>1, <1>5, <3>2
  <2> QED BY <1>1, <2>1
<1>6. ASSUME NEW x \in 0..NBits PROVE WordOf(x) + 1 \in 0..NBits
  <2>1. x \in Nat /\ x <= NBits
    BY <1>0
  <2>2. PICK w \in Nat : w = WordOf(x) /\ Radix * w <= x
    BY <1>1, <2>1
  <2>3. w * 2 <= w * Radix
    BY <1>0, Scales
  <2>4. w * Radix = Radix * w /\ Radix * w \in Int
    BY <1>0, Distributes
  <2>5. w * 2 <= NBits
    BY <1>0, <2>1, <2>2, <2>3, <2>4
  <2> QED BY <1>0, <2>2, <2>5
<1> QED BY <1>1, <1>3, <1>4, <1>5, <1>6

\* The three recursions up the tiers: the sizes, the bits that stand for a
\* level, and what clear leaves.
Rung(c, i, f, t) ==
    IF c = "size" THEN IF t = 1 THEN NBits ELSE (f[t - 1] + Radix - 1) \div Radix
    ELSE IF c = "bit" THEN IF t = 1 THEN i ELSE WordOf(f[t - 1])
    ELSE IF t = 1 \/ BitsOf(f[t - 1], BitOf(i)[t]) = {}
         THEN bits[t] \ {BitOf(i)[t]} ELSE bits[t]
IsLadder(c, i, f, n) == f = [t \in 1..n |-> Rung(c, i, f, t)]

\* They have solutions.
LEMMA LadderExists ==
    ASSUME NEW c, NEW i
    PROVE  \E f : IsLadder(c, i, f, Tiers)
<1>0. Tiers \in Nat /\ Tiers >= 1
  BY BitmapAssumption
<1>r. ASSUME NEW f, NEW g, NEW t, t = 1 \/ f[t - 1] = g[t - 1]
      PROVE  Rung(c, i, f, t) = Rung(c, i, g, t)
  BY <1>r DEF Rung
<1> DEFINE Good == {n \in 1..Tiers : \E f : IsLadder(c, i, f, n)}
<1>1. 1 \in Good
  <2> DEFINE f == [t \in 1..1 |-> Rung(c, i, <<>>, t)]
  <2>1. \A t \in 1..1 : f[t] = Rung(c, i, <<>>, t) /\ t = 1
    OBVIOUS
  <2>2. f = [t \in 1..1 |-> f[t]]
    OBVIOUS
  <2> HIDE DEF f
  <2>3. \A t \in 1..1 : f[t] = Rung(c, i, f, t)
    BY <1>r, <2>1
  <2>4. [t \in 1..1 |-> f[t]] = [t \in 1..1 |-> Rung(c, i, f, t)]
    BY <2>3
  <2>5. IsLadder(c, i, f, 1)
    BY <2>2, <2>4 DEF IsLadder
  <2> QED BY <1>0, <2>5
<1>2. ASSUME NEW n \in 1..Tiers, n \in Good, n < Tiers PROVE n + 1 \in Good
  <2>1. PICK f : IsLadder(c, i, f, n)
    BY <1>2
  <2> DEFINE g == [t \in 1..(n + 1) |-> IF t = n + 1 THEN Rung(c, i, f, n + 1) ELSE f[t]]
  <2>2. \A t \in 1..n : g[t] = f[t]
    BY <1>0
  <2>3. \A t \in 1..n : f[t] = Rung(c, i, f, t)
    BY <2>1 DEF IsLadder
  <2>4. g[n + 1] = Rung(c, i, f, n + 1)
    BY <1>0
  <2>5. g = [t \in 1..(n + 1) |-> g[t]]
    OBVIOUS
  <2> HIDE DEF g
  <2>6. ASSUME NEW t \in 1..(n + 1) PROVE Rung(c, i, g, t) = Rung(c, i, f, t)
    <3>1. t = 1 \/ t - 1 \in 1..n
      BY <1>0
    <3>2. t = 1 \/ g[t - 1] = f[t - 1]
      BY <2>2, <3>1
    <3> QED BY <1>r, <3>2
  <2>7. ASSUME NEW t \in 1..(n + 1) PROVE g[t] = Rung(c, i, g, t)
    <3>1. t = n + 1 \/ t \in 1..n
      BY <1>0
    <3> QED BY <2>2, <2>3, <2>4, <2>6, <3>1
  <2>8. IsLadder(c, i, g, n + 1)
    <3>1. [t \in 1..(n + 1) |-> g[t]] = [t \in 1..(n + 1) |-> Rung(c, i, g, t)]
      BY <2>7
    <3> QED BY <2>5, <3>1 DEF IsLadder
  <2>9. n + 1 \in 1..Tiers
    BY <1>0, <1>2
  <2> QED BY <2>8, <2>9
<1> HIDE DEF Good
<1>3. Tiers \in Good
  <2>1. \A k \in 1..Tiers : k \in Good
    BY <1>0, <1>1, <1>2, IntervalInduction
  <2> QED BY <1>0, <2>1
<1> QED BY <1>3 DEF Good

LEMMA SizeIs ==
    /\ TierSize[1] = NBits
    /\ \A t \in 1..(Tiers - 1) : TierSize[t + 1] = (TierSize[t] + Radix - 1) \div Radix
<1>0. Tiers \in Nat /\ Tiers >= 1
  BY BitmapAssumption
<1> DEFINE Sizes(f) ==
        f = [t \in 1..Tiers |-> IF t = 1 THEN NBits ELSE (f[t - 1] + Radix - 1) \div Radix]
<1>1. TierSize = CHOOSE f : Sizes(f)
  BY DEF TierSize
<1>2. PICK f : IsLadder("size", 0, f, Tiers)
  BY LadderExists
<1>3. Sizes(f)
  BY <1>2 DEF IsLadder, Rung
<1>4. Sizes(TierSize)
  <2> HIDE DEF Sizes
  <2> QED BY <1>1, <1>3, Zenon
<1>5. \A t \in 1..Tiers :
        TierSize[t] = IF t = 1 THEN NBits ELSE (TierSize[t - 1] + Radix - 1) \div Radix
  BY <1>4
<1>6. TierSize[1] = NBits
  BY <1>0, <1>5
<1>7. ASSUME NEW t \in 1..(Tiers - 1)
      PROVE  TierSize[t + 1] = (TierSize[t] + Radix - 1) \div Radix
  <2>1. t + 1 \in 1..Tiers /\ t + 1 # 1 /\ (t + 1) - 1 = t
    BY <1>0
  <2> QED BY <1>5, <2>1
<1> QED BY <1>6, <1>7

\* A tier has bits, and no more than there are levels.
LEMMA SizeType ==
    \A t \in 1..Tiers : TierSize[t] \in Nat /\ 1 <= TierSize[t] /\ TierSize[t] <= NBits
<1>0. Tiers \in Nat /\ Tiers >= 1 /\ NBits \in Nat /\ 1 <= NBits /\ Radix \in Nat /\ Radix >= 2
  BY BitmapAssumption
<1> DEFINE Good == {t \in 1..Tiers : TierSize[t] \in Nat /\ 1 <= TierSize[t] /\ TierSize[t] <= NBits}
<1>1. 1 \in Good
  BY <1>0, SizeIs
<1>2. ASSUME NEW t \in 1..Tiers, t \in Good, t < Tiers PROVE t + 1 \in Good
  <2>1. t \in 1..(Tiers - 1) /\ t + 1 \in 1..Tiers
    BY <1>0, <1>2
  <2>2. PICK n \in Nat : n = TierSize[t] /\ 1 <= n /\ n <= NBits
    BY <1>2
  <2>3. TierSize[t + 1] = (n + Radix - 1) \div Radix
    BY <2>1, <2>2, SizeIs
  <2> DEFINE m == (n + Radix - 1) \div Radix
  <2>4. n + Radix - 1 \in Nat
    BY <1>0
  <2>5. m \in Nat /\ Radix * m <= n + Radix - 1
    <3>1. Radix \in Nat \ {0}
      BY <1>0
    <3> QED BY <2>4, <3>1, DivIs
  <2>6. 1 <= m
    <3>1. WordOf(0) \in Nat /\ WordOf(0) < m
      BY <2>2, WordIs
    <3> HIDE DEF m, WordOf
    <3> QED BY <2>5, <3>1
  <2> HIDE DEF m
  <2>7. m <= n
    <3>1. ~(n + 1 <= m)
      <4> SUFFICES ASSUME n + 1 <= m PROVE FALSE
        OBVIOUS
      <4>1. Radix * (n + 1) <= Radix * m
        BY <1>0, <2>5, Scales
      <4>2. Radix * (n + 1) = Radix * n + Radix /\ Radix * n \in Int
        BY <1>0, Distributes
      <4>3. n * 2 <= n * Radix
        BY <1>0, Scales
      <4>4. n * Radix = Radix * n
        BY <1>0, Distributes
      <4> QED BY <1>0, <2>2, <2>5, <4>1, <4>2, <4>3, <4>4
    <3> QED BY <2>5, <3>1
  <2> QED BY <1>0, <2>1, <2>2, <2>3, <2>5, <2>6, <2>7 DEF m
<1> HIDE DEF Good
<1>3. \A t \in 1..Tiers : t \in Good
  BY <1>0, <1>1, <1>2, IntervalInduction
<1> QED BY <1>3 DEF Good

\* The bits that stand for a level, from its own up, are bits of their tiers.
LEMMA BitOfIs ==
    ASSUME NEW i \in 0..(NBits - 1)
    PROVE  /\ \A t \in 1..(Tiers - 1) : BitOf(i)[t + 1] = WordOf(BitOf(i)[t])
           /\ \A t \in 1..Tiers : BitOf(i)[t] \in 0..(TierSize[t] - 1)
<1>0. Tiers \in Nat /\ Tiers >= 1
  BY BitmapAssumption
<1> DEFINE Up(f) == f = [t \in 1..Tiers |-> IF t = 1 THEN i ELSE WordOf(f[t - 1])]
           b == BitOf(i)
<1>1. b = CHOOSE f : Up(f)
  BY DEF BitOf
<1>2. PICK f : IsLadder("bit", i, f, Tiers)
  BY LadderExists
<1>3. Up(f)
  BY <1>2 DEF IsLadder, Rung
<1>4. Up(b)
  <2> HIDE DEF Up, b
  <2> QED BY <1>1, <1>3, Zenon
<1> HIDE DEF b
<1>5. \A t \in 1..Tiers : b[t] = IF t = 1 THEN i ELSE WordOf(b[t - 1])
  BY <1>4
<1>6. ASSUME NEW t \in 1..(Tiers - 1) PROVE b[t + 1] = WordOf(b[t])
  <2>1. t + 1 \in 1..Tiers /\ t + 1 # 1 /\ (t + 1) - 1 = t
    BY <1>0
  <2> QED BY <1>5, <2>1
<1> DEFINE Good == {t \in 1..Tiers : b[t] \in 0..(TierSize[t] - 1)}
<1>7. 1 \in Good
  BY <1>0, <1>5, SizeIs
<1>8. ASSUME NEW t \in 1..Tiers, t \in Good, t < Tiers PROVE t + 1 \in Good
  <2>1. t \in 1..(Tiers - 1) /\ t + 1 \in 1..Tiers
    BY <1>0, <1>8
  <2>2. PICK n \in Nat : n = TierSize[t]
    BY SizeType
  <2>3. b[t] \in Nat /\ b[t] < n
    BY <1>8, <2>2
  <2>4. b[t + 1] = WordOf(b[t]) /\ TierSize[t + 1] = (n + Radix - 1) \div Radix
    BY <1>6, <2>1, <2>2, SizeIs
  <2>5. WordOf(b[t]) \in Nat /\ WordOf(b[t]) < (n + Radix - 1) \div Radix
    BY <2>3, WordIs
  <2>6. TierSize[t + 1] \in Nat
    BY <2>1, SizeType
  <2> HIDE DEF WordOf
  <2> QED BY <2>1, <2>4, <2>5, <2>6
<1> HIDE DEF Good
<1>9. \A t \in 1..Tiers : t \in Good
  BY <1>0, <1>7, <1>8, IntervalInduction
<1> QED BY <1>6, <1>9 DEF Good, b

\* The inductive invariant: the bits of a tier are within it, and a summary bit
\* is set exactly when its word is not empty.
BitmapInv ==
    /\ bits = [t \in 1..Tiers |-> bits[t]]
    /\ \A t \in 1..Tiers : bits[t] \subseteq 0..(TierSize[t] - 1)
    /\ SummaryExact

\* set and clear keep it.  clear leaves every tier as it was or without the bit
\* that stood for the level, and takes that bit only from above a drained word.
LEMMA BitmapStep ==
    BitmapInv /\ [BitmapNext]_bits => BitmapInv'
<1> SUFFICES ASSUME BitmapInv, [BitmapNext]_bits PROVE BitmapInv'
  OBVIOUS
<1>0. Tiers \in Nat /\ Tiers >= 1
  BY BitmapAssumption
<1>1. CASE UNCHANGED bits
  BY <1>1 DEF BitmapInv, SummaryExact
<1>2. ASSUME NEW i \in 0..(NBits - 1), Set(i) \/ Clear(i) PROVE BitmapInv'
  <2> DEFINE b == BitOf(i)
  <2>1. \A t \in 1..(Tiers - 1) : b[t + 1] = WordOf(b[t])
    BY BitOfIs
  <2>2. \A t \in 1..Tiers : b[t] \in 0..(TierSize[t] - 1)
    BY BitOfIs
  <2>3. \A t \in 1..(Tiers - 1) : t \in 1..Tiers /\ t + 1 \in 1..Tiers
    BY <1>0
  <2>4. CASE Set(i)
    <3>1. bits' = [t \in 1..Tiers |-> bits[t] \cup {b[t]}]
      BY <2>4 DEF Set
    <3> HIDE DEF b
    <3>2. \A t \in 1..Tiers : bits'[t] = bits[t] \cup {b[t]}
      BY <3>1
    <3>3. \A t \in 1..Tiers : bits'[t] \subseteq 0..(TierSize[t] - 1)
      BY <2>2, <3>2 DEF BitmapInv
    <3>4. ASSUME NEW t \in 1..(Tiers - 1), NEW w \in 0..(TierSize[t + 1] - 1)
          PROVE  w \in bits'[t + 1] <=> BitsOf(bits'[t], w) # {}
      <4>1. w \in bits[t + 1] <=> BitsOf(bits[t], w) # {}
        BY DEF BitmapInv, SummaryExact
      <4>2. bits'[t + 1] = bits[t + 1] \cup {WordOf(b[t])} /\ bits'[t] = bits[t] \cup {b[t]}
        BY <2>1, <2>3, <3>2
      <4> HIDE DEF WordOf
      <4> QED BY <4>1, <4>2, Zenon DEF BitsOf
    <3>5. bits' = [t \in 1..Tiers |-> bits'[t]]
      BY <3>1
    <3> QED BY <3>3, <3>4, <3>5 DEF BitmapInv, SummaryExact
  <2>5. CASE Clear(i)
    <3> DEFINE After(f) == f = [t \in 1..Tiers |->
                 IF t = 1 \/ BitsOf(f[t - 1], BitOf(i)[t]) = {}
                 THEN bits[t] \ {BitOf(i)[t]} ELSE bits[t]]
    <3>1. bits' = CHOOSE f : After(f)
      BY <2>5 DEF Clear
    <3>2. PICK f : IsLadder("clear", i, f, Tiers)
      BY LadderExists
    <3>3. After(f)
      BY <3>2 DEF IsLadder, Rung
    <3>4. After(bits')
      <4> HIDE DEF After
      <4> QED BY <3>1, <3>3, Zenon
    <3>5. \A t \in 1..Tiers : bits'[t] = IF t = 1 \/ BitsOf(bits'[t - 1], b[t]) = {}
                                         THEN bits[t] \ {b[t]} ELSE bits[t]
      BY <3>4
    <3>6. bits' = [t \in 1..Tiers |-> bits'[t]]
      BY <3>4
    <3> HIDE DEF b
    <3>7. \A t \in 1..Tiers : bits'[t] = bits[t] \ {b[t]} \/ bits'[t] = bits[t]
      BY <3>5
    <3>8. \A t \in 1..Tiers : bits'[t] \subseteq 0..(TierSize[t] - 1)
      BY <3>7 DEF BitmapInv
    <3>9. ASSUME NEW t \in 1..(Tiers - 1), NEW w \in 0..(TierSize[t + 1] - 1)
          PROVE  w \in bits'[t + 1] <=> BitsOf(bits'[t], w) # {}
      <4>1. w \in bits[t + 1] <=> BitsOf(bits[t], w) # {}
        BY DEF BitmapInv, SummaryExact
      <4>2. bits'[t] = bits[t] \ {b[t]} \/ bits'[t] = bits[t]
        BY <2>3, <3>7
      <4>3. b[t + 1] = WordOf(b[t])
        BY <2>1
      <4>4. bits'[t + 1] = IF BitsOf(bits'[t], b[t + 1]) = {}
                           THEN bits[t + 1] \ {b[t + 1]} ELSE bits[t + 1]
        <5>1. t + 1 \in 1..Tiers /\ t + 1 # 1 /\ (t + 1) - 1 = t
          BY <1>0
        <5> QED BY <3>5, <5>1
      <4> HIDE DEF WordOf
      <4>5. CASE w = b[t + 1]
        <5>1. CASE BitsOf(bits'[t], w) = {}
          BY <4>4, <4>5, <5>1
        <5>2. CASE BitsOf(bits'[t], w) # {}
          <6>1. bits'[t + 1] = bits[t + 1]
            BY <4>4, <4>5, <5>2
          <6>2. BitsOf(bits[t], w) # {}
            BY <4>2, <5>2, Zenon DEF BitsOf
          <6> QED BY <4>1, <5>2, <6>1, <6>2
        <5> QED BY <5>1, <5>2
      <4>6. CASE w # b[t + 1]
        <5>1. BitsOf(bits'[t], w) = BitsOf(bits[t], w)
          BY <4>2, <4>3, <4>6, Zenon DEF BitsOf
        <5>2. w \in bits'[t + 1] <=> w \in bits[t + 1]
          BY <4>4, <4>6, Zenon
        <5> QED BY <4>1, <5>1, <5>2
      <4> QED BY <4>5, <4>6
    <3> QED BY <3>6, <3>8, <3>9 DEF BitmapInv, SummaryExact
  <2> QED BY <1>2, <2>4, <2>5
<1> QED BY <1>1, <1>2 DEF BitmapNext

\* The two searches, which recur from a tier to the one above it.
Row(d, f, t) ==
    IF d = "next"
    THEN [k \in 0..NBits |->
          LET w == WordOf(k)
              m == {j \in BitsOf(bits[t], w) : j >= k}
              up == IF t = Tiers THEN NPOS ELSE f[t + 1][w + 1]
          IN  IF w >= (TierSize[t] + Radix - 1) \div Radix THEN NPOS
              ELSE IF m # {} THEN Min(m)
              ELSE IF up = NPOS THEN NPOS
              ELSE Min(BitsOf(bits[t], up))]
    ELSE [k \in 0..NBits |->
          LET w == WordOf(k)
              m == {j \in BitsOf(bits[t], w) : j <= k}
              up == IF t = Tiers \/ w = 0 THEN NPOS ELSE f[t + 1][w - 1]
          IN  IF m # {} THEN Max(m)
              ELSE IF up = NPOS THEN NPOS
              ELSE Max(BitsOf(bits[t], up))]
IsSearch(d, f, n) == f = [t \in n..Tiers |-> Row(d, f, t)]

LEMMA SearchExists ==
    ASSUME NEW d
    PROVE  \E f : IsSearch(d, f, 1)
<1>0. Tiers \in Nat /\ Tiers >= 1
  BY BitmapAssumption
<1>r. ASSUME NEW f, NEW g, NEW t, t = Tiers \/ f[t + 1] = g[t + 1]
      PROVE  Row(d, f, t) = Row(d, g, t)
  <2>1. CASE t = Tiers
    BY <2>1, Zenon DEF Row
  <2>2. CASE f[t + 1] = g[t + 1]
    BY <2>2, Zenon DEF Row
  <2> QED BY <1>r, <2>1, <2>2
<1> DEFINE From(n) == (Tiers + 1) - n
           Good == {n \in 1..Tiers : \E f : IsSearch(d, f, From(n))}
<1>1. 1 \in Good
  <2> DEFINE f == [t \in Tiers..Tiers |-> Row(d, <<>>, t)]
  <2>1. \A t \in Tiers..Tiers : f[t] = Row(d, <<>>, t) /\ t = Tiers
    BY <1>0
  <2>2. f = [t \in Tiers..Tiers |-> f[t]]
    OBVIOUS
  <2> HIDE DEF f
  <2>3. \A t \in Tiers..Tiers : f[t] = Row(d, f, t)
    BY <1>r, <2>1
  <2>4. [t \in Tiers..Tiers |-> f[t]] = [t \in Tiers..Tiers |-> Row(d, f, t)]
    BY <2>3
  <2>5. IsSearch(d, f, Tiers)
    BY <2>2, <2>4 DEF IsSearch
  <2>6. From(1) = Tiers /\ 1 \in 1..Tiers
    BY <1>0
  <2> QED BY <2>5, <2>6
<1>2. ASSUME NEW n \in 1..Tiers, n \in Good, n < Tiers PROVE n + 1 \in Good
  <2>0. PICK p \in Int : p = From(n) /\ p > 1 /\ p <= Tiers /\ From(n + 1) = p - 1
    BY <1>0, <1>2
  <2>1. PICK f : IsSearch(d, f, p)
    BY <1>2, <2>0
  <2> DEFINE g == [t \in (p - 1)..Tiers |-> IF t = p - 1 THEN Row(d, f, p - 1) ELSE f[t]]
  <2>2. \A t \in p..Tiers : g[t] = f[t]
    BY <1>0, <2>0
  <2>3. \A t \in p..Tiers : f[t] = Row(d, f, t)
    BY <2>1 DEF IsSearch
  <2>4. g[p - 1] = Row(d, f, p - 1)
    BY <1>0, <2>0
  <2>5. g = [t \in (p - 1)..Tiers |-> g[t]]
    OBVIOUS
  <2> HIDE DEF g
  <2>6. ASSUME NEW t \in (p - 1)..Tiers PROVE Row(d, g, t) = Row(d, f, t)
    <3>1. t = Tiers \/ t + 1 \in p..Tiers
      BY <1>0, <2>0
    <3>2. t = Tiers \/ g[t + 1] = f[t + 1]
      BY <2>2, <3>1
    <3> QED BY <1>r, <3>2
  <2>7. ASSUME NEW t \in (p - 1)..Tiers PROVE g[t] = Row(d, g, t)
    <3>1. t = p - 1 \/ t \in p..Tiers
      BY <1>0, <2>0
    <3> QED BY <2>2, <2>3, <2>4, <2>6, <3>1
  <2>8. IsSearch(d, g, p - 1)
    <3>1. [t \in (p - 1)..Tiers |-> g[t]] = [t \in (p - 1)..Tiers |-> Row(d, g, t)]
      BY <2>7
    <3> QED BY <2>5, <3>1 DEF IsSearch
  <2>9. n + 1 \in 1..Tiers
    BY <1>0, <1>2
  <2> QED BY <2>0, <2>8, <2>9
<1>3. From(Tiers) = 1
  BY <1>0
<1>4. Tiers \in Good
  <2> HIDE DEF Good
  <2>1. \A k \in 1..Tiers : k \in Good
    BY <1>0, <1>1, <1>2, IntervalInduction
  <2> QED BY <1>0, <2>1
<1> QED BY <1>3, <1>4

\* x is the least, or the greatest, member of S, and NPOS when it has none.
IsLowest(S, x) == IF S = {} THEN x = NPOS ELSE x \in S /\ \A y \in S : x <= y
IsHighest(S, x) == IF S = {} THEN x = NPOS ELSE x \in S /\ \A y \in S : y <= x

\* The sets the searches look into are finite sets of naturals.
LEMMA TierIs ==
    ASSUME BitmapInv, NEW t \in 1..Tiers
    PROVE  /\ bits[t] \subseteq Nat
           /\ \A S \in SUBSET bits[t] : IsFiniteSet(S) /\ S \subseteq Int
           /\ \A j \in bits[t] : WordOf(j) \in Nat
           /\ \A j \in bits[t] : WordOf(j) < (TierSize[t] + Radix - 1) \div Radix
           /\ t = Tiers => \A j \in bits[t] : WordOf(j) = 0
           /\ t < Tiers => /\ bits[t + 1] \subseteq Nat
                           /\ \A w \in bits[t + 1] : BitsOf(bits[t], w) # {}
                           /\ \A j \in bits[t] : WordOf(j) \in bits[t + 1]
<1>0. Tiers \in Nat /\ Tiers >= 1 /\ Radix \in Nat /\ TierSize[Tiers] <= Radix
  BY BitmapAssumption
<1>1. PICK n \in Nat : n = TierSize[t]
  BY SizeType
<1>2. bits[t] \subseteq 0..(n - 1)
  BY <1>1 DEF BitmapInv
<1>3. \A S \in SUBSET bits[t] : IsFiniteSet(S) /\ S \subseteq Int
  <2>1. IsFiniteSet(0..(n - 1))
    BY FS_Interval
  <2>2. ASSUME NEW S \in SUBSET bits[t] PROVE IsFiniteSet(S)
    <3>1. S \subseteq 0..(n - 1)
      BY <1>2
    <3> QED BY <2>1, <3>1, FS_Subset
  <2> QED BY <1>2, <2>2
<1>4. ASSUME NEW j \in bits[t]
      PROVE  /\ j \in Nat /\ j < n
             /\ WordOf(j) \in Nat /\ WordOf(j) < (n + Radix - 1) \div Radix
  <2>1. j \in Nat /\ j < n
    BY <1>2
  <2> QED BY <2>1, WordIs
<1>5. ASSUME t = Tiers, NEW j \in bits[t] PROVE WordOf(j) = 0
  <2>1. j \in Nat /\ j < Radix
    BY <1>0, <1>1, <1>4, <1>5
  <2> QED BY <2>1, WordIs
<1>6. ASSUME t < Tiers
      PROVE  /\ bits[t + 1] \subseteq Nat
             /\ \A w \in bits[t + 1] : BitsOf(bits[t], w) # {}
             /\ \A j \in bits[t] : WordOf(j) \in bits[t + 1]
  <2>1. t \in 1..(Tiers - 1) /\ t + 1 \in 1..Tiers
    BY <1>0, <1>6
  <2>2. PICK m \in Nat : m = TierSize[t + 1] /\ m = (n + Radix - 1) \div Radix
    BY <1>1, <2>1, SizeIs, SizeType
  <2>3. bits[t + 1] \subseteq 0..(m - 1)
    BY <2>1, <2>2 DEF BitmapInv
  <2>4. \A w \in 0..(m - 1) : w \in bits[t + 1] <=> BitsOf(bits[t], w) # {}
    BY <2>1, <2>2 DEF BitmapInv, SummaryExact
  <2>5. ASSUME NEW j \in bits[t] PROVE WordOf(j) \in bits[t + 1]
    <3>1. PICK w \in Nat : w = WordOf(j) /\ w < m
      BY <1>4, <2>2
    <3>2. BitsOf(bits[t], w) # {}
      BY <3>1, Zenon DEF BitsOf
    <3>3. w \in 0..(m - 1)
      BY <3>1
    <3> QED BY <2>4, <3>1, <3>2, <3>3
  <2> QED BY <2>3, <2>4, <2>5
<1> QED BY <1>1, <1>2, <1>3, <1>4, <1>5, <1>6

\* One tier of next_set finds what the tier above lets it find.
LEMMA NextTier ==
    ASSUME BitmapInv, NEW f, NEW t \in 1..Tiers, NEW k \in 0..NBits,
           f[t] = Row("next", f, t),
           t < Tiers => \A h \in 0..NBits : IsLowest({j \in bits[t + 1] : j >= h}, f[t + 1][h])
    PROVE  IsLowest({j \in bits[t] : j >= k}, f[t][k])
<1>0. Tiers \in Nat /\ Tiers >= 1 /\ NBits \in Nat
  BY BitmapAssumption
<1> DEFINE S == {j \in bits[t] : j >= k}
           W == WordOf(k)
           M == {j \in BitsOf(bits[t], W) : j >= k}
           U == IF t = Tiers THEN NPOS ELSE f[t + 1][W + 1]
           top == (TierSize[t] + Radix - 1) \div Radix
           x == f[t][k]
<1>1. x = IF W >= top THEN NPOS ELSE IF M # {} THEN Min(M)
          ELSE IF U = NPOS THEN NPOS ELSE Min(BitsOf(bits[t], U))
  BY Zenon DEF Row
<1>2. k \in Nat /\ W \in Nat /\ W + 1 \in 0..NBits
  BY <1>0, WordIs
<1>3. \A j \in bits[t] : j \in Nat /\ WordOf(j) \in Nat /\ WordOf(j) < top
  BY TierIs
<1>4. \A j \in bits[t] : j >= k => W <= WordOf(j)
  BY <1>2, <1>3, WordIs
<1>5. \A j, l \in bits[t] : j <= l => WordOf(j) <= WordOf(l)
  BY <1>3, WordIs
<1>6. \A j \in bits[t] : j <= k => WordOf(j) <= W
  BY <1>2, <1>3, WordIs
<1>7. \A R \in SUBSET bits[t] : R # {} => Min(R) \in R /\ \A y \in R : Min(R) <= y
  BY TierIs, MinIs
<1>8. top \in Int
  <2>1. TierSize[t] + Radix - 1 \in Nat /\ Radix \in Nat \ {0}
    BY SizeType, BitmapAssumption
  <2> QED BY <2>1, DivIs
<1>m. \A j : j \in M <=> j \in bits[t] /\ WordOf(j) = W /\ j >= k
  BY DEF BitsOf
<1>u. \A u, j : j \in BitsOf(bits[t], u) <=> j \in bits[t] /\ WordOf(j) = u
  BY DEF BitsOf
<1>s. \A j : j \in S <=> j \in bits[t] /\ j >= k
  OBVIOUS
<1> HIDE DEF S, W, M, U, top, x, WordOf, BitsOf
<1>9. CASE W >= top
  <2>1. ASSUME NEW j \in S PROVE FALSE
    BY <1>2, <1>3, <1>4, <1>8, <1>9, <1>s
  <2>2. S = {} /\ x = NPOS
    BY <1>1, <1>9, <2>1
  <2> QED BY <2>2 DEF IsLowest, S, x
<1>10. CASE ~(W >= top) /\ M # {}
  <2>1. PICK v : v = Min(M) /\ v \in M /\ \A y \in M : v <= y
    <3>1. M \in SUBSET bits[t]
      BY <1>m
    <3> QED BY <1>7, <1>10, <3>1
  <2>2. v \in bits[t] /\ v >= k /\ WordOf(v) = W /\ v \in Nat
    BY <1>3, <1>m, <2>1
  <2>3. ASSUME NEW j \in S PROVE v <= j
    <3>1. j \in bits[t] /\ j >= k /\ j \in Nat /\ W <= WordOf(j)
      BY <1>3, <1>4, <1>s
    <3>2. CASE WordOf(j) = W
      BY <1>m, <2>1, <3>1, <3>2
    <3>3. CASE WordOf(j) # W
      <4>1. ~(j <= v)
        BY <1>2, <1>3, <1>5, <2>2, <3>1, <3>3
      <4> QED BY <2>2, <3>1, <4>1
    <3> QED BY <3>2, <3>3
  <2>4. x = v /\ v \in S
    BY <1>1, <1>10, <1>s, <2>1, <2>2
  <2>5. IsLowest(S, x)
    BY <2>3, <2>4 DEF IsLowest
  <2> QED BY <2>5 DEF S, x
<1>11. CASE ~(W >= top) /\ M = {}
  <2>1. \A j \in S : j \in bits[t] /\ WordOf(j) \in Nat /\ W + 1 <= WordOf(j)
    <3> TAKE j \in S
    <3>1. j \in bits[t] /\ WordOf(j) \in Nat /\ W <= WordOf(j) /\ WordOf(j) # W
      BY <1>3, <1>4, <1>11, <1>m, <1>s
    <3> QED BY <1>2, <3>1
  <2>2. CASE t = Tiers
    <3>1. \A j \in bits[t] : WordOf(j) = 0
      BY <2>2, TierIs
    <3>2. S = {}
      BY <1>2, <2>1, <3>1
    <3>3. x = NPOS
      BY <1>1, <1>11, <2>2 DEF U
    <3> QED BY <3>2, <3>3 DEF IsLowest, S, x
  <2>3. CASE t < Tiers
    <3> DEFINE H == {j \in bits[t + 1] : j >= W + 1}
    <3>1. U = f[t + 1][W + 1]
      BY <1>0, <2>3 DEF U
    <3>2. IsLowest(H, U)
      BY <1>2, <2>3, <3>1
    <3>3. \A j \in S : WordOf(j) \in H
      BY <2>1, <2>3, TierIs
    <3>4. CASE H = {}
      <4>1. U = NPOS /\ S = {}
        BY <3>2, <3>3, <3>4 DEF IsLowest
      <4>2. x = NPOS
        BY <1>1, <1>11, <4>1
      <4> QED BY <4>1, <4>2 DEF IsLowest, S, x
    <3>5. CASE H # {}
      <4>1. U \in H /\ \A y \in H : U <= y
        BY <3>2, <3>5 DEF IsLowest
      <4>2. U \in bits[t + 1] /\ U \in Nat /\ U >= W + 1
        <5>1. bits[t + 1] \subseteq Nat
          BY <2>3, TierIs
        <5> QED BY <4>1, <5>1
      <4>3. BitsOf(bits[t], U) # {}
        BY <2>3, <4>2, TierIs
      <4>4. PICK v : v = Min(BitsOf(bits[t], U)) /\ v \in BitsOf(bits[t], U)
                     /\ \A y \in BitsOf(bits[t], U) : v <= y
        <5>1. BitsOf(bits[t], U) \in SUBSET bits[t]
          BY <1>u
        <5> QED BY <1>7, <4>3, <5>1
      <4>5. v \in bits[t] /\ WordOf(v) = U /\ v \in Nat
        BY <1>3, <1>u, <4>4
      <4>6. v >= k
        <5>1. ~(v <= k)
          BY <1>2, <1>6, <4>2, <4>5
        <5> QED BY <1>2, <4>5, <5>1
      <4>7. ASSUME NEW j \in S PROVE v <= j
        <5>1. j \in bits[t] /\ j \in Nat /\ WordOf(j) \in Nat /\ U <= WordOf(j)
          BY <1>3, <2>1, <3>3, <4>1
        <5>2. CASE WordOf(j) = U
          BY <1>u, <4>4, <5>1, <5>2
        <5>3. CASE WordOf(j) # U
          <6>1. ~(j <= v)
            BY <1>5, <4>2, <4>5, <5>1, <5>3
          <6> QED BY <4>5, <5>1, <6>1
        <5> QED BY <5>2, <5>3
      <4>8. x = v /\ v \in S
        <5>1. U # NPOS
          BY <4>2 DEF NPOS
        <5> QED BY <1>1, <1>11, <1>s, <4>4, <4>5, <4>6, <5>1
      <4>9. IsLowest(S, x)
        BY <4>7, <4>8 DEF IsLowest
      <4> QED BY <4>9 DEF S, x
    <3> QED BY <3>4, <3>5
  <2> QED BY <1>0, <2>2, <2>3
<1> QED BY <1>9, <1>10, <1>11

\* One tier of prev_set, for the bits the tier has.
LEMMA PrevTier ==
    ASSUME BitmapInv, NEW f, NEW t \in 1..Tiers, NEW k \in 0..(TierSize[t] - 1),
           f[t] = Row("prev", f, t),
           t < Tiers => \A h \in 0..(TierSize[t + 1] - 1) :
                            IsHighest({j \in bits[t + 1] : j <= h}, f[t + 1][h])
    PROVE  IsHighest({j \in bits[t] : j <= k}, f[t][k])
<1>0. Tiers \in Nat /\ Tiers >= 1 /\ NBits \in Nat
  BY BitmapAssumption
<1> DEFINE S == {j \in bits[t] : j <= k}
           W == WordOf(k)
           M == {j \in BitsOf(bits[t], W) : j <= k}
           U == IF t = Tiers \/ W = 0 THEN NPOS ELSE f[t + 1][W - 1]
           x == f[t][k]
<1>k. k \in 0..NBits /\ k \in Nat /\ k < TierSize[t]
  BY <1>0, SizeType
<1>1. x = IF M # {} THEN Max(M) ELSE IF U = NPOS THEN NPOS ELSE Max(BitsOf(bits[t], U))
  BY <1>k, Zenon DEF Row
<1>2. /\ k \in Nat /\ W \in Nat
      /\ t = Tiers => W = 0
      /\ t < Tiers /\ W # 0 => W - 1 \in 0..(TierSize[t + 1] - 1)
  <2>1. PICK n \in Nat : n = TierSize[t]
    BY SizeType
  <2>2. W \in Nat /\ W < (n + Radix - 1) \div Radix
    BY <1>k, <2>1, WordIs
  <2>3. t = Tiers => k < Radix
    BY <1>k, <2>1, BitmapAssumption
  <2>4. t = Tiers => W = 0
    BY <1>k, <2>3, WordIs
  <2>5. t < Tiers => TierSize[t + 1] \in Nat /\ TierSize[t + 1] = (n + Radix - 1) \div Radix
    <3>1. t < Tiers => t \in 1..(Tiers - 1) /\ t + 1 \in 1..Tiers
      BY <1>0
    <3> QED BY <2>1, <3>1, SizeIs, SizeType
  <2> HIDE DEF W
  <2> QED BY <1>k, <2>2, <2>4, <2>5
<1>3. \A j \in bits[t] : j \in Nat /\ WordOf(j) \in Nat
  BY TierIs
<1>4. \A j \in bits[t] : j <= k => WordOf(j) <= W
  BY <1>2, <1>3, WordIs
<1>5. \A j, l \in bits[t] : j <= l => WordOf(j) <= WordOf(l)
  BY <1>3, WordIs
<1>6. \A j \in bits[t] : k <= j => W <= WordOf(j)
  BY <1>2, <1>3, WordIs
<1>7. \A R \in SUBSET bits[t] : R # {} => Max(R) \in R /\ \A y \in R : y <= Max(R)
  BY TierIs, MaxIs
<1>m. \A j : j \in M <=> j \in bits[t] /\ WordOf(j) = W /\ j <= k
  BY DEF BitsOf
<1>u. \A u, j : j \in BitsOf(bits[t], u) <=> j \in bits[t] /\ WordOf(j) = u
  BY DEF BitsOf
<1>s. \A j : j \in S <=> j \in bits[t] /\ j <= k
  OBVIOUS
<1> HIDE DEF S, W, M, U, x, WordOf, BitsOf
<1>10. CASE M # {}
  <2>1. PICK v : v = Max(M) /\ v \in M /\ \A y \in M : y <= v
    <3>1. M \in SUBSET bits[t]
      BY <1>m
    <3> QED BY <1>7, <1>10, <3>1
  <2>2. v \in bits[t] /\ v <= k /\ WordOf(v) = W /\ v \in Nat
    BY <1>3, <1>m, <2>1
  <2>3. ASSUME NEW j \in S PROVE j <= v
    <3>1. j \in bits[t] /\ j <= k /\ j \in Nat /\ WordOf(j) <= W
      BY <1>3, <1>4, <1>s
    <3>2. CASE WordOf(j) = W
      BY <1>m, <2>1, <3>1, <3>2
    <3>3. CASE WordOf(j) # W
      <4>1. ~(v <= j)
        BY <1>2, <1>3, <1>5, <2>2, <3>1, <3>3
      <4> QED BY <2>2, <3>1, <4>1
    <3> QED BY <3>2, <3>3
  <2>4. x = v /\ v \in S
    BY <1>1, <1>10, <1>s, <2>1, <2>2
  <2>5. IsHighest(S, x)
    BY <2>3, <2>4 DEF IsHighest
  <2> QED BY <2>5 DEF S, x
<1>11. CASE M = {}
  <2>1. \A j \in S : j \in bits[t] /\ WordOf(j) \in Nat /\ WordOf(j) < W
    <3> TAKE j \in S
    <3>1. j \in bits[t] /\ WordOf(j) \in Nat /\ WordOf(j) <= W /\ WordOf(j) # W
      BY <1>3, <1>4, <1>11, <1>m, <1>s
    <3> QED BY <1>2, <3>1
  <2>2. CASE t = Tiers \/ W = 0
    <3>1. ASSUME NEW j \in S PROVE FALSE
      BY <1>2, <2>1, <2>2
    <3>2. x = NPOS
      BY <1>1, <1>11, <2>2 DEF U
    <3> QED BY <3>1, <3>2 DEF IsHighest, S, x
  <2>3. CASE t < Tiers /\ W # 0
    <3> DEFINE H == {j \in bits[t + 1] : j <= W - 1}
    <3>1. U = f[t + 1][W - 1]
      BY <1>0, <2>3 DEF U
    <3>2. IsHighest(H, U)
      BY <1>2, <2>3, <3>1
    <3>3. \A j \in S : WordOf(j) \in H
      BY <1>2, <2>1, <2>3, TierIs
    <3>4. CASE H = {}
      <4>1. U = NPOS /\ S = {}
        BY <3>2, <3>3, <3>4 DEF IsHighest
      <4>2. x = NPOS
        BY <1>1, <1>11, <4>1
      <4> QED BY <4>1, <4>2 DEF IsHighest, S, x
    <3>5. CASE H # {}
      <4>1. U \in H /\ \A y \in H : y <= U
        BY <3>2, <3>5 DEF IsHighest
      <4>2. U \in bits[t + 1] /\ U \in Nat /\ U < W
        <5>1. bits[t + 1] \subseteq Nat
          BY <2>3, TierIs
        <5> QED BY <1>2, <4>1, <5>1
      <4>3. BitsOf(bits[t], U) # {}
        BY <2>3, <4>2, TierIs
      <4>4. PICK v : v = Max(BitsOf(bits[t], U)) /\ v \in BitsOf(bits[t], U)
                     /\ \A y \in BitsOf(bits[t], U) : y <= v
        <5>1. BitsOf(bits[t], U) \in SUBSET bits[t]
          BY <1>u
        <5> QED BY <1>7, <4>3, <5>1
      <4>5. v \in bits[t] /\ WordOf(v) = U /\ v \in Nat
        BY <1>3, <1>u, <4>4
      <4>6. v <= k
        <5>1. ~(k <= v)
          BY <1>2, <1>6, <4>2, <4>5
        <5> QED BY <1>2, <4>5, <5>1
      <4>7. ASSUME NEW j \in S PROVE j <= v
        <5>1. j \in bits[t] /\ j \in Nat /\ WordOf(j) \in Nat /\ WordOf(j) <= U
          BY <1>3, <2>1, <3>3, <4>1
        <5>2. CASE WordOf(j) = U
          BY <1>u, <4>4, <5>1, <5>2
        <5>3. CASE WordOf(j) # U
          <6>1. ~(v <= j)
            BY <1>5, <4>2, <4>5, <5>1, <5>3
          <6> QED BY <4>5, <5>1, <6>1
        <5> QED BY <5>2, <5>3
      <4>8. x = v /\ v \in S
        <5>1. U # NPOS
          BY <4>2 DEF NPOS
        <5> QED BY <1>1, <1>11, <1>s, <4>4, <4>5, <4>6, <5>1
      <4>9. IsHighest(S, x)
        BY <4>7, <4>8 DEF IsHighest
      <4> QED BY <4>9 DEF S, x
    <3> QED BY <3>4, <3>5
  <2> QED BY <1>0, <2>2, <2>3
<1> QED BY <1>10, <1>11

\* What next_set and prev_set return, by induction from the top tier down.
LEMMA SearchIs ==
    ASSUME BitmapInv
    PROVE  /\ \A i \in 0..NBits : IsLowest({j \in bits[1] : j >= i}, NextSet(i))
           /\ \A i \in 0..(NBits - 1) : IsHighest({j \in bits[1] : j <= i}, PrevSet(i))
<1>0. Tiers \in Nat /\ Tiers >= 1
  BY BitmapAssumption
<1> DEFINE From(n) == (Tiers + 1) - n
<1>f. \A n \in 1..Tiers : From(n) \in 1..Tiers /\ From(From(n)) = n
  BY <1>0
<1>d. /\ From(1) = Tiers
      /\ \A n \in 1..Tiers : n < Tiers => From(n + 1) < Tiers /\ From(n + 1) + 1 = From(n)
  BY <1>0
<1>1. ASSUME NEW f, IsSearch("next", f, 1), NEW i \in 0..NBits
      PROVE  IsLowest({j \in bits[1] : j >= i}, f[1][i])
  <2> DEFINE Found(t) == \A h \in 0..NBits : IsLowest({j \in bits[t] : j >= h}, f[t][h])
             Good == {n \in 1..Tiers : Found(From(n))}
  <2>1. \A t \in 1..Tiers : f[t] = Row("next", f, t)
    BY <1>1 DEF IsSearch
  <2>2. ASSUME NEW t \in 1..Tiers, t < Tiers => Found(t + 1) PROVE Found(t)
    <3> SUFFICES ASSUME NEW k \in 0..NBits
                 PROVE  IsLowest({j \in bits[t] : j >= k}, f[t][k])
      OBVIOUS
    <3>1. t < Tiers => \A h \in 0..NBits : IsLowest({j \in bits[t + 1] : j >= h}, f[t + 1][h])
      BY <2>2
    <3>2. f[t] = Row("next", f, t)
      BY <2>1
    <3> QED BY <3>1, <3>2, NextTier
  <2> HIDE DEF Found, From
  <2>3. 1 \in Good
    BY <1>0, <1>d, <1>f, <2>2
  <2>4. ASSUME NEW n \in 1..Tiers, n \in Good, n < Tiers PROVE n + 1 \in Good
    <3>1. n + 1 \in 1..Tiers
      BY <1>0, <2>4
    <3>2. Found(From(n + 1) + 1)
      BY <1>d, <2>4
    <3>3. Found(From(n + 1))
      BY <1>f, <2>2, <3>1, <3>2
    <3> QED BY <3>1, <3>3
  <2>5. \A n \in 1..Tiers : n \in Good
    <3> HIDE DEF Good
    <3> QED BY <1>0, <2>3, <2>4, IntervalInduction
  <2>6. Found(1)
    <3>1. 1 \in 1..Tiers
      BY <1>0
    <3>2. From(1) \in Good
      BY <1>f, <2>5, <3>1
    <3> QED BY <1>f, <3>1, <3>2
  <2> QED BY <2>6 DEF Found
<1>2. ASSUME NEW f, IsSearch("prev", f, 1), NEW i \in 0..(NBits - 1)
      PROVE  IsHighest({j \in bits[1] : j <= i}, f[1][i])
  <2> DEFINE Found(t) == \A h \in 0..(TierSize[t] - 1) :
                            IsHighest({j \in bits[t] : j <= h}, f[t][h])
             Good == {n \in 1..Tiers : Found(From(n))}
  <2>1. \A t \in 1..Tiers : f[t] = Row("prev", f, t)
    BY <1>2 DEF IsSearch
  <2>2. ASSUME NEW t \in 1..Tiers, t < Tiers => Found(t + 1) PROVE Found(t)
    <3> SUFFICES ASSUME NEW k \in 0..(TierSize[t] - 1)
                 PROVE  IsHighest({j \in bits[t] : j <= k}, f[t][k])
      OBVIOUS
    <3>1. t < Tiers => \A h \in 0..(TierSize[t + 1] - 1) :
                         IsHighest({j \in bits[t + 1] : j <= h}, f[t + 1][h])
      BY <2>2
    <3>2. f[t] = Row("prev", f, t)
      BY <2>1
    <3> QED BY <3>1, <3>2, PrevTier
  <2> HIDE DEF Found, From
  <2>3. 1 \in Good
    BY <1>0, <1>d, <1>f, <2>2
  <2>4. ASSUME NEW n \in 1..Tiers, n \in Good, n < Tiers PROVE n + 1 \in Good
    <3>1. n + 1 \in 1..Tiers
      BY <1>0, <2>4
    <3>2. Found(From(n + 1) + 1)
      BY <1>d, <2>4
    <3>3. Found(From(n + 1))
      BY <1>f, <2>2, <3>1, <3>2
    <3> QED BY <3>1, <3>3
  <2>5. \A n \in 1..Tiers : n \in Good
    <3> HIDE DEF Good
    <3> QED BY <1>0, <2>3, <2>4, IntervalInduction
  <2>6. Found(1)
    <3>1. 1 \in 1..Tiers
      BY <1>0
    <3>2. From(1) \in Good
      BY <1>f, <2>5, <3>1
    <3> QED BY <1>f, <3>1, <3>2
  <2>7. i \in 0..(TierSize[1] - 1)
    BY SizeIs
  <2> QED BY <2>6, <2>7 DEF Found
<1>3. ASSUME NEW i PROVE \E f : IsSearch("next", f, 1) /\ NextSet(i) = f[1][i]
  <2> DEFINE Rows(f) == f = [t \in 1..Tiers |-> [k \in 0..NBits |->
          LET w == WordOf(k)
              m == {j \in BitsOf(bits[t], w) : j >= k}
              up == IF t = Tiers THEN NPOS ELSE f[t + 1][w + 1]
          IN  IF w >= (TierSize[t] + Radix - 1) \div Radix THEN NPOS
              ELSE IF m # {} THEN Min(m)
              ELSE IF up = NPOS THEN NPOS
              ELSE Min(BitsOf(bits[t], up))]]
  <2>1. NextSet(i) = (CHOOSE f : Rows(f))[1][i]
    BY Zenon DEF NextSet
  <2>2. \A f : IsSearch("next", f, 1) <=> Rows(f)
    BY Zenon DEF IsSearch, Row
  <2> HIDE DEF Rows
  <2>3. \E f : Rows(f)
    BY <2>2, SearchExists
  <2>4. Rows(CHOOSE f : Rows(f))
    BY <2>3, Zenon
  <2> QED BY <2>1, <2>2, <2>4, Zenon
<1>4. ASSUME NEW i PROVE \E f : IsSearch("prev", f, 1) /\ PrevSet(i) = f[1][i]
  <2> DEFINE Rows(f) == f = [t \in 1..Tiers |-> [k \in 0..NBits |->
          LET w == WordOf(k)
              m == {j \in BitsOf(bits[t], w) : j <= k}
              up == IF t = Tiers \/ w = 0 THEN NPOS ELSE f[t + 1][w - 1]
          IN  IF m # {} THEN Max(m)
              ELSE IF up = NPOS THEN NPOS
              ELSE Max(BitsOf(bits[t], up))]]
  <2>1. PrevSet(i) = (CHOOSE f : Rows(f))[1][i]
    BY Zenon DEF PrevSet
  <2>2. \A f : IsSearch("prev", f, 1) <=> Rows(f)
    <3>1. "prev" # "next"
      OBVIOUS
    <3> QED BY <3>1, Zenon DEF IsSearch, Row
  <2> HIDE DEF Rows
  <2>3. \E f : Rows(f)
    BY <2>2, SearchExists
  <2>4. Rows(CHOOSE f : Rows(f))
    BY <2>3, Zenon
  <2> QED BY <2>1, <2>2, <2>4, Zenon
<1>5. ASSUME NEW i \in 0..NBits PROVE IsLowest({j \in bits[1] : j >= i}, NextSet(i))
  <2>1. PICK f : IsSearch("next", f, 1) /\ NextSet(i) = f[1][i]
    BY <1>3
  <2>2. IsLowest({j \in bits[1] : j >= i}, f[1][i])
    BY <1>1, <2>1
  <2> QED BY <2>1, <2>2
<1>6. ASSUME NEW i \in 0..(NBits - 1) PROVE IsHighest({j \in bits[1] : j <= i}, PrevSet(i))
  <2>1. PICK f : IsSearch("prev", f, 1) /\ PrevSet(i) = f[1][i]
    BY <1>4
  <2>2. IsHighest({j \in bits[1] : j <= i}, f[1][i])
    BY <1>2, <2>1
  <2> QED BY <2>1, <2>2
<1> QED BY <1>5, <1>6

LEMMA BitmapFinds ==
    ASSUME BitmapInv
    PROVE  BitmapFindsLevels
<1>0. 1 \in 1..Tiers /\ NBits \in Nat
  BY BitmapAssumption
<1>1. \A S \in SUBSET bits[1] : IsFiniteSet(S) /\ S \subseteq Int
  BY <1>0, TierIs
<1>2. ASSUME NEW S \in SUBSET bits[1], NEW x, IsLowest(S, x)
      PROVE  x = IF S = {} THEN NPOS ELSE Min(S)
  <2>1. CASE S = {}
    BY <1>2, <2>1 DEF IsLowest
  <2>2. CASE S # {}
    <3>1. x \in S /\ \A y \in S : x <= y
      BY <1>2, <2>2 DEF IsLowest
    <3>2. Min(S) \in S /\ \A y \in S : Min(S) <= y
      BY <1>1, <2>2, MinIs
    <3>3. x \in Int /\ Min(S) \in Int /\ x <= Min(S) /\ Min(S) <= x
      BY <1>1, <3>1, <3>2
    <3>4. x = Min(S)
      BY <3>3
    <3> QED BY <2>2, <3>4
  <2> QED BY <2>1, <2>2
<1>3. ASSUME NEW S \in SUBSET bits[1], NEW x, IsHighest(S, x)
      PROVE  x = IF S = {} THEN NPOS ELSE Max(S)
  <2>1. CASE S = {}
    BY <1>3, <2>1 DEF IsHighest
  <2>2. CASE S # {}
    <3>1. x \in S /\ \A y \in S : y <= x
      BY <1>3, <2>2 DEF IsHighest
    <3>2. Max(S) \in S /\ \A y \in S : y <= Max(S)
      BY <1>1, <2>2, MaxIs
    <3>3. x \in Int /\ Max(S) \in Int /\ x <= Max(S) /\ Max(S) <= x
      BY <1>1, <3>1, <3>2
    <3>4. x = Max(S)
      BY <3>3
    <3> QED BY <2>2, <3>4
  <2> QED BY <2>1, <2>2
<1>4. ASSUME NEW i \in 0..NBits
      PROVE  NextSet(i) = IF {j \in bits[1] : j >= i} = {} THEN NPOS
                          ELSE Min({j \in bits[1] : j >= i})
  <2>1. IsLowest({j \in bits[1] : j >= i}, NextSet(i))
    BY SearchIs
  <2>2. {j \in bits[1] : j >= i} \in SUBSET bits[1]
    OBVIOUS
  <2> QED BY <1>2, <2>1, <2>2
<1>5. ASSUME NEW i \in 0..NBits, i < NBits
      PROVE  PrevSet(i) = IF {j \in bits[1] : j <= i} = {} THEN NPOS
                          ELSE Max({j \in bits[1] : j <= i})
  <2>0. i \in 0..(NBits - 1)
    BY <1>0, <1>5
  <2>1. IsHighest({j \in bits[1] : j <= i}, PrevSet(i))
    BY <2>0, SearchIs
  <2>2. {j \in bits[1] : j <= i} \in SUBSET bits[1]
    OBVIOUS
  <2> QED BY <1>3, <2>1, <2>2
<1>6. NearestFound
  BY <1>4, <1>5, Zenon DEF NearestFound
<1> QED BY <1>6 DEF BitmapFindsLevels, BitmapInv

\* For every number of levels, radix and number of tiers: whatever levels are
\* set and cleared, in any order, OccupancyBitmap::next_set and prev_set return
\* the nearest occupied level, which is what the order book takes them to do.
THEOREM BitmapSound == BitmapSpec => []BitmapFindsLevels
<1>1. BitmapInit => BitmapInv
  <2> SUFFICES ASSUME BitmapInit PROVE BitmapInv
    OBVIOUS
  <2>1. bits = [t \in 1..Tiers |-> {}]
    BY DEF BitmapInit
  <2>2. \A t \in 1..Tiers : bits[t] = {}
    BY <2>1
  <2>3. bits = [t \in 1..Tiers |-> bits[t]]
    BY <2>1
  <2>4. \A t \in 1..(Tiers - 1) : t \in 1..Tiers /\ t + 1 \in 1..Tiers
    BY BitmapAssumption
  <2>5. SummaryExact
    BY <2>2, <2>4, Zenon DEF SummaryExact, BitsOf
  <2> QED BY <2>2, <2>3, <2>5 DEF BitmapInv
<1>2. BitmapInv => BitmapFindsLevels
  BY BitmapFinds
<1> QED BY <1>1, <1>2, BitmapStep, PTL DEF BitmapSpec

-----------------------------------------------------------------------------
(* HashTables: the two open-addressed tables, for any capacity and hash.   *)

\* The arithmetic of a table of n slots, without the modulus.
LEMMA ProbeIs ==
    ASSUME NEW n \in Nat \ {0}, NEW a \in 0..(n - 1), NEW b \in 0..(n - 1)
    PROVE  /\ Gap(a, b, n) = IF a >= b THEN a - b ELSE (a - b) + n
           /\ At(a, b, n) = IF a + b < n THEN a + b ELSE (a + b) - n
BY DEF Gap, At

\* A slot is the Gap from home to it after home.
LEMMA ProbeRange ==
    ASSUME NEW n \in Nat \ {0}, NEW a \in 0..(n - 1), NEW b \in 0..(n - 1)
    PROVE  /\ Gap(a, b, n) \in 0..(n - 1) /\ At(a, b, n) \in 0..(n - 1)
           /\ At(b, Gap(a, b, n), n) = a /\ Gap(At(b, a, n), b, n) = a
<1>1. PICK g : g = Gap(a, b, n) /\ g = IF a >= b THEN a - b ELSE (a - b) + n
  BY ProbeIs
<1>2. PICK c : c = At(a, b, n) /\ c = IF a + b < n THEN a + b ELSE (a + b) - n
  BY ProbeIs
<1>3. PICK d : d = At(b, a, n) /\ d = IF b + a < n THEN b + a ELSE (b + a) - n
  BY ProbeIs
<1>4. g \in 0..(n - 1) /\ c \in 0..(n - 1) /\ d \in 0..(n - 1)
  BY <1>1, <1>2, <1>3
<1>5. At(b, g, n) = IF b + g < n THEN b + g ELSE (b + g) - n
  BY <1>4, ProbeIs
<1>6. Gap(d, b, n) = IF d >= b THEN d - b ELSE (d - b) + n
  BY <1>4, ProbeIs
<1>7. At(b, g, n) = a /\ Gap(d, b, n) = a
  BY <1>1, <1>3, <1>5, <1>6
<1> QED BY <1>1, <1>2, <1>3, <1>4, <1>7

\* A probe that meets a slot of S ends at the first one.
LEMMA FirstFromIs ==
    ASSUME NEW n \in Nat \ {0}, NEW h \in 0..(n - 1), NEW S, NEW y \in 0..(n - 1), y \in S
    PROVE  LET p == FirstFrom(h, S, n)
           IN  /\ p \in 0..(n - 1) /\ p \in S
               /\ \A x \in 0..(n - 1) : Gap(x, h, n) < Gap(p, h, n) => x \notin S
<1> DEFINE K == {k \in 0..(n - 1) : At(h, k, n) \in S}
           p == FirstFrom(h, S, n)
<1>1. IsFiniteSet(K) /\ K \subseteq Int
  <2>1. IsFiniteSet(0..(n - 1)) /\ K \subseteq 0..(n - 1)
    BY FS_Interval
  <2> QED BY <2>1, FS_Subset
<1>2. Gap(y, h, n) \in K
  BY ProbeRange
<1>3. Min(K) \in K /\ \A k \in K : Min(K) <= k
  BY <1>1, <1>2, MinIs
<1>4. PICK m \in 0..(n - 1) : m = Min(K) /\ At(h, m, n) \in S
  BY <1>3
<1>5. p = At(h, m, n)
  BY <1>4 DEF FirstFrom
<1>6. p \in 0..(n - 1) /\ p \in S /\ Gap(p, h, n) = m
  BY <1>4, <1>5, ProbeRange
<1>7. ASSUME NEW x \in 0..(n - 1), Gap(x, h, n) < Gap(p, h, n) PROVE x \notin S
  <2>1. x \in S => Gap(x, h, n) \in K
    BY ProbeRange
  <2>2. ~(m <= Gap(x, h, n))
    BY <1>6, <1>7, ProbeRange
  <2> QED BY <1>3, <1>4, <2>1, <2>2
<1> QED BY <1>6, <1>7

\* O is the set of slots in use, H[x] the home of what is in x.  A probe for it
\* meets no slot that is not in use before x, unless it is e.
Chained(O, H, e, n) ==
    /\ O \subseteq 0..(n - 1)
    /\ \A x \in O : H[x] \in 0..(n - 1)
    /\ \A x \in O : \A y \in 0..(n - 1) :
          Gap(y, H[x], n) < Gap(x, H[x], n) => y \in O \/ y = e

\* While slot p is being closed up, after k rounds: the hole e is among the
\* slots seen, only probes may pass it, and none of those for what lies between
\* the hole and the last slot seen does.
Closing(O, H, e, p, k, n) ==
    /\ Chained(O, H, e, n)
    /\ e \in 0..(n - 1) /\ e \notin O /\ Gap(e, p, n) <= k
    /\ \A x \in O : Gap(e, p, n) < Gap(x, p, n) /\ Gap(x, p, n) <= k
                    => ~(Gap(e, H[x], n) < Gap(x, H[x], n))

\* What is in slot q, the next one, is moved into the hole its probe passes.
LEMMA ClosingMoves ==
    ASSUME NEW n \in Nat \ {0}, NEW p \in 0..(n - 1), NEW k \in 0..(n - 1),
           NEW m \in 0..(n - 1), m = k + 1,
           NEW O, NEW H, NEW e, Closing(O, H, e, p, k, n),
           NEW q, q = At(p, m, n), q \in O,
           Gap(e, H[q], n) < Gap(q, H[q], n),
           NEW P, P = (O \ {q}) \cup {e},
           NEW G, G[e] = H[q], \A x \in O \ {q} : G[x] = H[x]
    PROVE  Closing(P, G, q, p, m, n)
<1>1. e \in 0..(n - 1) /\ e \notin O /\ q \in 0..(n - 1) /\ e # q /\ Gap(q, p, n) = k + 1
  BY ProbeRange DEF Closing
<1>2. P \subseteq 0..(n - 1) /\ q \notin P
  BY <1>1 DEF Closing, Chained
<1>3. \A x \in P : G[x] \in 0..(n - 1)
  BY <1>1 DEF Closing, Chained
<1>4. ASSUME NEW x \in P, NEW y \in 0..(n - 1), Gap(y, G[x], n) < Gap(x, G[x], n)
      PROVE  y \in P \/ y = q
  <2>1. CASE x = e
    <3>1. PICK h \in 0..(n - 1) : h = H[q]
      BY DEF Closing, Chained
    <3>r. \A z \in 0..(n - 1) : Gap(z, h, n) \in 0..(n - 1)
      BY ProbeRange
    <3>2. Gap(y, h, n) \in Int /\ Gap(e, h, n) \in Int /\ Gap(q, h, n) \in Int
      BY <1>1, <3>r
    <3>3. Gap(y, h, n) < Gap(e, h, n) /\ Gap(e, h, n) < Gap(q, h, n)
      BY <1>4, <2>1, <3>1
    <3>t. Gap(y, H[q], n) < Gap(q, H[q], n)
      BY <3>1, <3>2, <3>3
    <3>4. y \in O \/ y = e
      BY <3>t DEF Closing, Chained
    <3> QED BY <3>4
  <2>2. CASE x \in O \ {q}
    <3>1. y \in O \/ y = e
      BY <1>4, <2>2 DEF Closing, Chained
    <3> QED BY <3>1
  <2> QED BY <2>1, <2>2
<1>5. ASSUME NEW x \in P, Gap(q, p, n) < Gap(x, p, n), Gap(x, p, n) <= k + 1 PROVE FALSE
  <2>1. x \in 0..(n - 1)
    BY <1>2
  <2>2. Gap(x, p, n) \in Int
    BY <2>1, ProbeRange
  <2> QED BY <1>1, <1>5, <2>2
<1>6. Chained(P, G, q, n)
  BY <1>2, <1>3, <1>4 DEF Chained
<1>7. Gap(q, p, n) <= k + 1
  BY <1>1
<1> QED BY <1>1, <1>2, <1>5, <1>6, <1>7 DEF Closing

\* What is in slot q stays where the hole is not on its way.
LEMMA ClosingStays ==
    ASSUME NEW n \in Nat \ {0}, NEW p \in 0..(n - 1), NEW k \in 0..(n - 1), k + 1 \in 0..(n - 1),
           NEW O, NEW H, NEW e, Closing(O, H, e, p, k, n),
           NEW q, q = At(p, k + 1, n), q \in O,
           ~(Gap(e, H[q], n) < Gap(q, H[q], n))
    PROVE  Closing(O, H, e, p, k + 1, n)
<1>1. e \in 0..(n - 1) /\ q \in 0..(n - 1) /\ Gap(e, p, n) \in Int
  BY ProbeRange DEF Closing
<1>2. Gap(e, p, n) <= k + 1
  BY <1>1 DEF Closing
<1>3. ASSUME NEW x \in O, Gap(e, p, n) < Gap(x, p, n), Gap(x, p, n) <= k + 1
      PROVE  ~(Gap(e, H[x], n) < Gap(x, H[x], n))
  <2>1. x \in 0..(n - 1)
    BY DEF Closing, Chained
  <2>2. Gap(x, p, n) \in 0..(n - 1) /\ At(p, Gap(x, p, n), n) = x
    BY <2>1, ProbeRange
  <2>3. CASE Gap(x, p, n) <= k
    BY <1>3, <2>3 DEF Closing
  <2>4. CASE Gap(x, p, n) = k + 1
    BY <2>2, <2>4
  <2> QED BY <1>3, <2>2, <2>3, <2>4
<1> QED BY <1>2, <1>3 DEF Closing

\* A slot that is not in use ends it: no probe gets past it to the hole.
LEMMA ClosingEnds ==
    ASSUME NEW n \in Nat \ {0}, NEW p \in 0..(n - 1), NEW k \in 0..(n - 1), k + 1 \in 0..(n - 1),
           NEW O, NEW H, NEW e, Closing(O, H, e, p, k, n),
           At(p, k + 1, n) \notin O
    PROVE  Chained(O, H, -1, n)
<1> DEFINE f == At(p, k + 1, n)
<1>1. f \in 0..(n - 1) /\ Gap(f, p, n) = k + 1
  BY ProbeRange
<1>2. e \in 0..(n - 1) /\ e \notin O /\ Gap(e, p, n) <= k
  BY DEF Closing
<1>3. f # e
  BY <1>1, <1>2
<1> HIDE DEF f
<1>4. ASSUME NEW x \in O, NEW y \in 0..(n - 1), Gap(y, H[x], n) < Gap(x, H[x], n)
      PROVE  y \in O
  <2>1. y \in O \/ y = e
    BY <1>4 DEF Closing, Chained
  <2>2. PICK h \in 0..(n - 1) : h = H[x]
    BY DEF Closing, Chained
  <2>3. x \in 0..(n - 1) /\ x # e /\ x # f
    BY <1>2 DEF Closing, Chained, f
  <2>4. ~(Gap(f, h, n) < Gap(x, h, n))
    BY <1>1, <1>3, <2>2 DEF Closing, Chained, f
  <2>5. Gap(e, p, n) < Gap(x, p, n) /\ Gap(x, p, n) <= k => ~(Gap(e, h, n) < Gap(x, h, n))
    BY <2>2 DEF Closing
  <2>6. ~(Gap(e, h, n) < Gap(x, h, n))
    <3>1. PICK eh : eh = Gap(e, h, n) /\ eh = IF e >= h THEN e - h ELSE (e - h) + n
      BY <1>2, ProbeIs
    <3>2. PICK xh : xh = Gap(x, h, n) /\ xh = IF x >= h THEN x - h ELSE (x - h) + n
      BY <2>3, ProbeIs
    <3>3. PICK fh : fh = Gap(f, h, n) /\ fh = IF f >= h THEN f - h ELSE (f - h) + n
      BY <1>1, ProbeIs
    <3>4. PICK ep : ep = Gap(e, p, n) /\ ep = IF e >= p THEN e - p ELSE (e - p) + n
      BY <1>2, ProbeIs
    <3>5. PICK xp : xp = Gap(x, p, n) /\ xp = IF x >= p THEN x - p ELSE (x - p) + n
      BY <2>3, ProbeIs
    <3>6. PICK fp : fp = Gap(f, p, n) /\ fp = IF f >= p THEN f - p ELSE (f - p) + n
      BY <1>1, ProbeIs
    <3>7. ~(fh < xh) /\ (ep < xp /\ xp <= k => ~(eh < xh)) /\ ep <= k /\ fp = k + 1
      BY <1>1, <1>2, <2>4, <2>5, <3>1, <3>2, <3>3, <3>4, <3>5, <3>6
    <3>8. ~(eh < xh)
      BY <1>1, <1>2, <2>3, <3>1, <3>2, <3>3, <3>4, <3>5, <3>6, <3>7
    <3> QED BY <3>1, <3>2, <3>8
  <2> QED BY <1>4, <2>1, <2>2, <2>6
<1> QED BY <1>4 DEF Closing, Chained

\* The recursive functions of the hash tables and of the histogram have
\* solutions, built round by round.
Round(c, x, k, a) ==
    IF c = "map" THEN ShiftStep(x, k, a)
    ELSE IF c = "table" THEN CompactStep(x, k, a)
    ELSE IF c = "power" THEN 2 * a
    ELSE x[k] + a
IsLoop(c, x, a0, f, n) == f = [k \in 0..n |-> IF k = 0 THEN a0 ELSE Round(c, x, k, f[k - 1])]

LEMMA LoopExists ==
    ASSUME NEW c, NEW x, NEW a0, NEW n \in Nat
    PROVE  \E f : IsLoop(c, x, a0, f, n)
<1> DEFINE Good == {m \in 1..(n + 1) : \E f : IsLoop(c, x, a0, f, m - 1)}
<1>1. 1 \in Good
  <2> DEFINE f == [k \in 0..0 |-> a0]
  <2>1. \A k \in 0..0 : k = 0
    OBVIOUS
  <2>2. f = [k \in 0..0 |-> IF k = 0 THEN a0 ELSE Round(c, x, k, f[k - 1])]
    BY <2>1
  <2>3. 1 - 1 = 0 /\ 1 \in 1..(n + 1)
    OBVIOUS
  <2> HIDE DEF f
  <2>4. IsLoop(c, x, a0, f, 0)
    BY <2>2 DEF IsLoop
  <2> QED BY <2>3, <2>4
<1>2. ASSUME NEW m \in 1..(n + 1), m \in Good, m < n + 1 PROVE m + 1 \in Good
  <2>0. m + 1 \in 1..(n + 1) /\ (m + 1) - 1 = m /\ m \in 0..m /\ m # 0
    BY <1>2
  <2>1. PICK f : IsLoop(c, x, a0, f, m - 1)
    BY <1>2
  <2>2. \A k \in 0..(m - 1) : f[k] = IF k = 0 THEN a0 ELSE Round(c, x, k, f[k - 1])
    BY <2>1 DEF IsLoop
  <2> DEFINE g == [k \in 0..m |-> IF k = m THEN Round(c, x, m, f[m - 1]) ELSE f[k]]
  <2>3. \A k \in 0..(m - 1) : k \in 0..m /\ g[k] = f[k]
    OBVIOUS
  <2>4. g[m] = Round(c, x, m, f[m - 1])
    BY <2>0
  <2>5. g = [k \in 0..m |-> g[k]]
    OBVIOUS
  <2> HIDE DEF g
  <2>6. ASSUME NEW k \in 0..m PROVE g[k] = IF k = 0 THEN a0 ELSE Round(c, x, k, g[k - 1])
    <3>1. CASE k = m
      <4>1. m - 1 \in 0..(m - 1)
        OBVIOUS
      <4>2. g[m - 1] = f[m - 1]
        BY <2>3, <4>1
      <4> QED BY <2>0, <2>4, <3>1, <4>2
    <3>2. CASE k = 0
      <4>1. k \in 0..(m - 1)
        BY <3>2
      <4> QED BY <2>2, <2>3, <3>2, <4>1
    <3>3. CASE k # m /\ k # 0
      <4>1. k \in 0..(m - 1) /\ k - 1 \in 0..(m - 1)
        BY <3>3
      <4>2. g[k] = f[k] /\ g[k - 1] = f[k - 1]
        BY <2>3, <4>1
      <4> QED BY <2>2, <3>3, <4>1, <4>2
    <3> QED BY <3>1, <3>2, <3>3
  <2>7. IsLoop(c, x, a0, g, m)
    <3>1. [k \in 0..m |-> g[k]]
            = [k \in 0..m |-> IF k = 0 THEN a0 ELSE Round(c, x, k, g[k - 1])]
      BY <2>6
    <3> QED BY <2>5, <3>1 DEF IsLoop
  <2> QED BY <2>0, <2>7
<1>3. n + 1 \in Good
  <2> HIDE DEF Good
  <2>1. \A k \in 1..(n + 1) : k \in Good
    BY <1>1, <1>2, IntervalInduction
  <2> QED BY <2>1
<1>4. (n + 1) - 1 = n
  OBVIOUS
<1> QED BY <1>3, <1>4

-----------------------------------------------------------------------------

SlotType == [key : Key \cup {NoKey}, entry : Entry, occupied : BOOLEAN]
Used(tab) == {x \in MapPos : tab[x].occupied}
Homes(tab) == [x \in Used(tab) |-> mapHash[tab[x].key]]

\* A table of slots: those in use hold keys, no key twice.
TabOK(tab) ==
    /\ tab \in [MapPos -> SlotType]
    /\ \A x \in Used(tab) : tab[x].key \in Key
    /\ \A x, y \in Used(tab) : tab[x].key = tab[y].key => x = y

\* The inductive invariant: what is in use is what the map has, every probe gets
\* to it, and a slot is free.
MapInv ==
    /\ mapHash \in [Key -> MapPos]
    /\ TabOK(slots_)
    /\ Chained(Used(slots_), Homes(slots_), -1, MapCapacity)
    /\ \A x \in Used(slots_) : slots_[x].key \in DOMAIN map /\ map[slots_[x].key] = slots_[x].entry
    /\ \A ref \in DOMAIN map : \E x \in Used(slots_) : slots_[x].key = ref
    /\ DOMAIN map \subseteq Key /\ IsFiniteSet(DOMAIN map)
    /\ Cardinality(Used(slots_)) = Cardinality(DOMAIN map)
    /\ Cardinality(DOMAIN map) < MapCapacity

\* The homes of what is in use are slots.
LEMMA HomeIs ==
    ASSUME mapHash \in [Key -> MapPos], NEW tab, TabOK(tab)
    PROVE  /\ Used(tab) \subseteq MapPos
           /\ \A x \in Used(tab) : Homes(tab)[x] = mapHash[tab[x].key] /\ Homes(tab)[x] \in MapPos
BY DEF Used, Homes, TabOK

LEMMA FreeSlot ==
    ASSUME MapInv
    PROVE  \E y \in MapPos : y \notin Used(slots_)
<1> SUFFICES ASSUME \A y \in MapPos : y \in Used(slots_) PROVE FALSE
  OBVIOUS
<1>1. Used(slots_) = 0..(MapCapacity - 1)
  BY DEF Used, MapPos
<1>2. Cardinality(0..(MapCapacity - 1)) = MapCapacity
  <2>1. 0 \in Int /\ MapCapacity - 1 \in Int /\ ~(0 > MapCapacity - 1)
    BY MapAssumption
  <2>2. Cardinality(0..(MapCapacity - 1)) = (MapCapacity - 1) - 0 + 1
    BY <2>1, FS_Interval
  <2> QED BY <2>2, MapAssumption
<1>3. Cardinality(Used(slots_)) < MapCapacity
  BY DEF MapInv
<1> QED BY <1>1, <1>2, <1>3, MapAssumption

\* The slot of a live reference, which probes for it find.
LEMMA LiveSlot ==
    ASSUME MapInv, NEW ref \in DOMAIN map
    PROVE  \E x \in Used(slots_) :
              /\ slots_[x].key = ref /\ slots_[x].entry = map[ref]
              /\ x = FirstFrom(mapHash[ref], Free \cup Holding(ref), MapCapacity)
              /\ x = FirstFrom(mapHash[ref], Holding(ref), MapCapacity)
<1> DEFINE C == MapCapacity
           h == mapHash[ref]
<1>0. C \in Nat \ {0} /\ MapPos = 0..(C - 1) /\ h \in 0..(C - 1) /\ ref \in Key
  BY MapAssumption DEF MapInv, MapPos
<1>1. PICK x \in Used(slots_) : slots_[x].key = ref
  BY DEF MapInv
<1>2. slots_[x].entry = map[ref]
  BY <1>1 DEF MapInv
<1>3. x \in 0..(C - 1) /\ x \in Holding(ref)
  BY <1>0, <1>1 DEF Used, Holding
<1>4. \A y \in 0..(C - 1) : Gap(y, h, C) < Gap(x, h, C) => y \in Used(slots_)
  <2>1. Homes(slots_)[x] = h
    BY <1>1 DEF Homes
  <2>2. \A y \in 0..(C - 1) : y # -1
    BY <1>0
  <2> QED BY <2>1, <2>2 DEF MapInv, Chained
<1> HIDE DEF C, h
<1>5. ASSUME NEW S, S = Holding(ref) \/ S = Free \cup Holding(ref)
      PROVE  x = FirstFrom(h, S, C)
  <2>1. x \in S
    BY <1>3, <1>5
  <2> DEFINE p == FirstFrom(h, S, C)
  <2>2. /\ p \in 0..(C - 1) /\ p \in S
        /\ \A y \in 0..(C - 1) : Gap(y, h, C) < Gap(p, h, C) => y \notin S
    BY <1>0, <1>3, <2>1, FirstFromIs
  <2> HIDE DEF p
  <2>3. Gap(p, h, C) \in 0..(C - 1) /\ Gap(x, h, C) \in 0..(C - 1)
    BY <1>0, <1>3, <2>2, ProbeRange
  <2>4. ~(Gap(x, h, C) < Gap(p, h, C))
    BY <1>3, <2>1, <2>2
  <2>5. CASE Gap(p, h, C) < Gap(x, h, C)
    <3>1. p \in Used(slots_)
      BY <1>4, <2>2, <2>5
    <3>2. p \notin Free
      BY <3>1 DEF Used, Free
    <3>3. slots_[p].key = ref
      BY <1>5, <2>2, <3>2 DEF Holding
    <3>4. p = x
      BY <1>1, <3>1, <3>3 DEF MapInv, TabOK
    <3> QED BY <3>4 DEF p
  <2>6. CASE Gap(p, h, C) = Gap(x, h, C)
    <3>1. At(h, Gap(p, h, C), C) = p /\ At(h, Gap(x, h, C), C) = x
      BY <1>0, <1>3, <2>2, ProbeRange
    <3> QED BY <2>6, <3>1 DEF p
  <2> QED BY <1>0, <2>3, <2>4, <2>5, <2>6
<1> QED BY <1>1, <1>2, <1>5 DEF C, h

\* find is right.
LEMMA MapFinds ==
    ASSUME MapInv
    PROVE  FindsExactlyTheLive
<1>1. ASSUME NEW ref \in Key, ref \in DOMAIN map PROVE MapFind(ref) = {map[ref]}
  <2>1. PICK x \in Used(slots_) :
           /\ slots_[x].key = ref /\ slots_[x].entry = map[ref]
           /\ x = FirstFrom(mapHash[ref], Free \cup Holding(ref), MapCapacity)
    BY <1>1, LiveSlot
  <2>2. slots_[x].occupied
    BY DEF Used
  <2> QED BY <2>1, <2>2 DEF MapFind
<1>2. ASSUME NEW ref \in Key, ref \notin DOMAIN map PROVE MapFind(ref) = {}
  <2>0. MapCapacity \in Nat \ {0} /\ mapHash[ref] \in 0..(MapCapacity - 1)
    BY MapAssumption DEF MapInv, MapPos
  <2>1. PICK y \in 0..(MapCapacity - 1) : y \in Free
    BY FreeSlot DEF Used, Free, MapPos
  <2>2. PICK p : p = FirstFrom(mapHash[ref], Free \cup Holding(ref), MapCapacity)
    OBVIOUS
  <2>3. y \in Free \cup Holding(ref)
    BY <2>1
  <2>4. p \in Free \cup Holding(ref)
    BY <2>0, <2>2, <2>3, FirstFromIs
  <2>5. ~slots_[p].occupied
    <3> SUFFICES ASSUME slots_[p].occupied PROVE FALSE
      OBVIOUS
    <3>1. p \in MapPos /\ slots_[p].key = ref
      BY <2>4 DEF Free, Holding
    <3>2. p \in Used(slots_)
      BY <3>1 DEF Used
    <3> QED BY <1>2, <3>1, <3>2 DEF MapInv
  <2> QED BY <2>2, <2>5 DEF MapFind
<1>3. {p \in MapPos : slots_[p].occupied} = Used(slots_)
  BY DEF Used
<1>4. Cardinality(Used(slots_)) = Cardinality(DOMAIN map)
  BY DEF MapInv
<1> QED BY <1>1, <1>2, <1>3, <1>4 DEF FindsExactlyTheLive

\* insert keeps the invariant.
LEMMA MapInsertStep ==
    ASSUME MapInv, NEW ref \in Key, NEW e \in Entry, MapInsert(ref, e)
    PROVE  MapInv'
<1> DEFINE C == MapCapacity
           h == mapHash[ref]
           p == FirstFrom(h, Free, C)
           U == Used(slots_)
           N == [key |-> ref, entry |-> e, occupied |-> TRUE]
<1>0. C \in Nat \ {0} /\ MapPos = 0..(C - 1) /\ h \in 0..(C - 1)
  BY MapAssumption DEF MapInv, MapPos
<1>1. /\ ref \notin DOMAIN map /\ Cardinality(DOMAIN map) < C - 1
      /\ slots_' = [slots_ EXCEPT ![p] = N]
      /\ map' = [k \in DOMAIN map \cup {ref} |-> IF k = ref THEN e ELSE map[k]]
      /\ mapHash' = mapHash
  BY DEF MapInsert
<1>2. PICK y \in 0..(C - 1) : y \in Free
  BY <1>0, FreeSlot DEF Used, Free
<1>3. /\ p \in 0..(C - 1) /\ p \in Free
      /\ \A x \in 0..(C - 1) : Gap(x, h, C) < Gap(p, h, C) => x \notin Free
  BY <1>0, <1>2, FirstFromIs
<1> HIDE DEF p, C, h
<1>4. p \in MapPos /\ p \notin U
  BY <1>0, <1>3 DEF Free, Used
<1>5. slots_ \in [MapPos -> SlotType] /\ N \in SlotType
  BY DEF MapInv, TabOK, SlotType
<1>6. slots_' \in [MapPos -> SlotType]
  BY <1>1, <1>5
<1>7. slots_'[p] = N /\ \A x \in MapPos : x # p => slots_'[x] = slots_[x]
  BY <1>1, <1>4, <1>5
<1>8. Used(slots_') = U \cup {p}
  BY <1>4, <1>7 DEF Used
<1>9. \A x \in U : x \in MapPos /\ x # p /\ slots_'[x] = slots_[x] /\ slots_[x].key \in Key
                   /\ slots_[x].key # ref
  <2>1. \A x \in U : x \in MapPos /\ x # p
    BY <1>4 DEF Used
  <2>2. \A x \in U : slots_[x].key \in DOMAIN map /\ slots_[x].key \in Key
    BY DEF MapInv, TabOK
  <2> QED BY <1>1, <1>7, <2>1, <2>2
<1> HIDE DEF U
<1>10. TabOK(slots_')
  <2>1. \A x \in Used(slots_') : slots_'[x].key \in Key
    BY <1>7, <1>8, <1>9
  <2>2. \A x, z \in U : slots_[x].key = slots_[z].key => x = z
    BY DEF MapInv, TabOK, U
  <2>3. \A x, z \in Used(slots_') : slots_'[x].key = slots_'[z].key => x = z
    BY <1>7, <1>8, <1>9, <2>2
  <2> QED BY <1>6, <2>1, <2>3 DEF TabOK
<1> DEFINE G == [x \in Used(slots_') |-> mapHash[slots_'[x].key]]
<1>11. G[p] = h /\ \A x \in U : G[x] = Homes(slots_)[x]
  BY <1>7, <1>8, <1>9 DEF Homes, h, U
<1>12. Chained(Used(slots_'), G, -1, C)
  <2>1. Chained(U, Homes(slots_), -1, C)
    BY DEF MapInv, U, C
  <2> HIDE DEF G
  <2>2. Used(slots_') \subseteq 0..(C - 1)
    BY <1>0 DEF Used
  <2>3. \A x \in Used(slots_') : G[x] \in 0..(C - 1)
    BY <1>0, <1>8, <1>11, <2>1 DEF Chained
  <2>4. ASSUME NEW x \in Used(slots_'), NEW z \in 0..(C - 1), Gap(z, G[x], C) < Gap(x, G[x], C)
        PROVE  z \in Used(slots_')
    <3>1. CASE x = p
      <4>1. z \notin Free
        BY <1>3, <1>11, <2>4, <3>1
      <4>2. z \in U
        BY <1>0, <4>1 DEF Free, Used, U
      <4> QED BY <1>8, <4>2
    <3>2. CASE x \in U
      <4>1. z \in U \/ z = -1
        BY <1>11, <2>1, <2>4, <3>2 DEF Chained
      <4> QED BY <1>0, <1>8, <4>1
    <3> QED BY <1>8, <3>1, <3>2
  <2> QED BY <2>2, <2>3, <2>4 DEF Chained
<1>13. DOMAIN map' = DOMAIN map \cup {ref} /\ map'[ref] = e
       /\ \A k \in DOMAIN map : map'[k] = map[k]
  BY <1>1
<1>14. \A x \in Used(slots_') : slots_'[x].key \in DOMAIN map' /\ map'[slots_'[x].key] = slots_'[x].entry
  <2>1. \A x \in U : slots_[x].key \in DOMAIN map /\ map[slots_[x].key] = slots_[x].entry
    BY DEF MapInv, U
  <2> QED BY <1>7, <1>8, <1>9, <1>13, <2>1
<1>15. \A r \in DOMAIN map' : \E x \in Used(slots_') : slots_'[x].key = r
  <2>1. \A r \in DOMAIN map : \E x \in U : slots_[x].key = r
    BY DEF MapInv, U
  <2> QED BY <1>7, <1>8, <1>9, <1>13, <2>1
<1>16. /\ DOMAIN map' \subseteq Key /\ IsFiniteSet(DOMAIN map')
       /\ Cardinality(Used(slots_')) = Cardinality(DOMAIN map') /\ Cardinality(DOMAIN map') < C
  <2>1. IsFiniteSet(DOMAIN map) /\ DOMAIN map \subseteq Key /\ Cardinality(U) = Cardinality(DOMAIN map)
    BY DEF MapInv, U
  <2>2. IsFiniteSet(U)
    <3>1. IsFiniteSet(0..(C - 1)) /\ U \subseteq 0..(C - 1)
      BY <1>0, FS_Interval DEF U, Used
    <3> QED BY <3>1, FS_Subset
  <2>3. Cardinality(U \cup {p}) = Cardinality(U) + 1
    BY <1>4, <2>2, FS_AddElement DEF U
  <2>4. IsFiniteSet(DOMAIN map \cup {ref}) /\ Cardinality(DOMAIN map \cup {ref}) = Cardinality(DOMAIN map) + 1
    BY <1>1, <2>1, FS_AddElement
  <2>5. Cardinality(DOMAIN map) \in Nat
    BY <2>1, FS_CardinalityType
  <2>6. DOMAIN map' \subseteq Key /\ IsFiniteSet(DOMAIN map')
    BY <1>13, <2>1, <2>4
  <2>7. PICK c \in Nat : c = Cardinality(DOMAIN map)
    BY <2>5
  <2>8. Cardinality(DOMAIN map') = c + 1 /\ Cardinality(Used(slots_')) = c + 1 /\ c < C - 1
    BY <1>1, <1>8, <1>13, <2>1, <2>3, <2>4, <2>7
  <2> QED BY <1>0, <2>6, <2>8
<1>17. mapHash' \in [Key -> MapPos]
  BY <1>1 DEF MapInv
<1>18. Homes(slots_)' = G
  BY <1>1 DEF Homes, Used
<1>19. TabOK(slots_)' /\ Used(slots_)' = Used(slots_')
  BY <1>10 DEF TabOK, Used
<1> HIDE DEF G
<1> QED BY <1>12, <1>14, <1>15, <1>16, <1>17, <1>18, <1>19 DEF MapInv, C

-----------------------------------------------------------------------------

\* What an erase must leave: the other entries, each once, and every probe
\* unbroken.
Others(tab, p) ==
    /\ \A x \in Used(tab) : \E y \in Used(slots_) \ {p} :
          tab[x].key = slots_[y].key /\ tab[x].entry = slots_[y].entry
    /\ \A y \in Used(slots_) \ {p} : \E x \in Used(tab) :
          tab[x].key = slots_[y].key /\ tab[x].entry = slots_[y].entry
Closed(tab, p) ==
    /\ Others(tab, p)
    /\ \E e \in Used(slots_) : Used(tab) = Used(slots_) \ {e}
    /\ Chained(Used(tab), Homes(tab), -1, MapCapacity)

\* Until then, after k rounds: the hole is the one slot given up, and all slots
\* seen were in use.
Shifting(a, p, k) ==
    /\ Others(a.tab, p)
    /\ a.hole \in Used(slots_) /\ Used(a.tab) = Used(slots_) \ {a.hole}
    /\ Closing(Used(a.tab), Homes(a.tab), a.hole, p, k, MapCapacity)
    /\ \A j \in 0..k : At(p, j, MapCapacity) \in Used(slots_)

ShiftType == [tab : [MapPos -> SlotType], hole : MapPos, over : BOOLEAN]
ShiftInv(a, p, k) ==
    /\ a \in ShiftType /\ TabOK(a.tab)
    /\ IF a.over THEN Closed(a.tab, p) ELSE Shifting(a, p, k)

LEMMA ShiftRound ==
    ASSUME MapInv, NEW p \in MapPos, NEW k \in MapPos, k + 1 \in MapPos,
           NEW a, ShiftInv(a, p, k)
    PROVE  ShiftInv(ShiftStep(p, k + 1, a), p, k + 1)
<1> DEFINE C == MapCapacity
           q == At(p, k + 1, C)
           U == Used(a.tab)
           H == Homes(a.tab)
           home == mapHash[a.tab[q].key]
<1>0. C \in Nat \ {0} /\ MapPos = 0..(C - 1) /\ q \in MapPos
  <2>1. C \in Nat \ {0} /\ MapPos = 0..(C - 1)
    BY MapAssumption DEF MapPos
  <2> QED BY <2>1, ProbeRange
<1>1. a \in ShiftType /\ TabOK(a.tab) /\ mapHash \in [Key -> MapPos]
  BY DEF ShiftInv, MapInv
<1>2. ASSUME NEW b, b = [a EXCEPT !.over = TRUE], Closed(a.tab, p)
      PROVE  ShiftInv(b, p, k + 1)
  <2>1. b \in ShiftType /\ b.tab = a.tab /\ b.over
    BY <1>1, <1>2 DEF ShiftType
  <2> QED BY <1>1, <1>2, <2>1 DEF ShiftInv
<1>3. CASE a.over
  <2>1. ShiftStep(p, k + 1, a) = [a EXCEPT !.over = TRUE]
    BY <1>3 DEF ShiftStep
  <2>2. Closed(a.tab, p)
    BY <1>3 DEF ShiftInv
  <2> QED BY <1>2, <2>1, <2>2
<1>4. CASE ~a.over
  <2>1. Shifting(a, p, k)
    BY <1>4 DEF ShiftInv
  <2>2. Closing(U, H, a.hole, p, k, C)
    BY <2>1 DEF Shifting
  <2>3. q \in U <=> a.tab[q].occupied
    BY <1>0 DEF Used
  <2>4. CASE ~a.tab[q].occupied
    <3>1. ShiftStep(p, k + 1, a) = [a EXCEPT !.over = TRUE]
      BY <2>4 DEF ShiftStep
    <3>2. Chained(U, H, -1, C)
      BY <1>0, <2>2, <2>3, <2>4, ClosingEnds
    <3>3. Closed(a.tab, p)
      BY <2>1, <3>2 DEF Closed, Shifting
    <3> QED BY <1>2, <3>1, <3>3
  <2>5. CASE a.tab[q].occupied
    <3>1. q \in U /\ q # a.hole /\ q \in Used(slots_) /\ a.hole \in MapPos /\ a.hole \notin U
      BY <1>0, <2>1, <2>3, <2>5 DEF Shifting, Used
    <3>2. H[q] = home /\ home \in MapPos
      BY <1>1, <3>1, HomeIs
    <3>3. \A j \in 0..(k + 1) : At(p, j, C) \in Used(slots_)
      <4>1. \A j \in 0..(k + 1) : j \in 0..k \/ j = k + 1
        BY <1>0
      <4> QED BY <2>1, <3>1, <4>1 DEF Shifting
    <3>g. /\ Gap(q, home, C) \in Int /\ Gap(a.hole, home, C) \in Int
      <4>1. PICK hm \in 0..(C - 1) : hm = home
        BY <1>0, <3>2
      <4>2. \A z \in 0..(C - 1) : Gap(z, hm, C) \in 0..(C - 1)
        BY <1>0, ProbeRange
      <4>3. q \in 0..(C - 1) /\ a.hole \in 0..(C - 1)
        BY <1>0, <3>1
      <4> HIDE DEF C, q, home
      <4>4. Gap(q, hm, C) \in 0..(C - 1) /\ Gap(a.hole, hm, C) \in 0..(C - 1)
        BY ONLY <4>2, <4>3
      <4>5. \A i \in 0..(C - 1) : i \in Int
        OBVIOUS
      <4>6. Gap(q, hm, C) \in Int /\ Gap(a.hole, hm, C) \in Int
        BY ONLY <4>4, <4>5
      <4> QED BY ONLY <4>1, <4>6
    <3>4. CASE Gap(q, home, C) > Gap(a.hole, home, C)
      <4> DEFINE t == [a.tab EXCEPT ![a.hole] = a.tab[q], ![q].occupied = FALSE]
                 b == [tab |-> t, hole |-> q, over |-> FALSE]
                 V == Used(t)
                 G == Homes(t)
      <4>1. ShiftStep(p, k + 1, a) = b
        BY <1>4, <2>5, <3>4 DEF ShiftStep
      <4>2. a.tab \in [MapPos -> SlotType]
        BY <1>1 DEF TabOK
      <4>3. /\ t \in [MapPos -> SlotType]
            /\ t[a.hole] = a.tab[q] /\ ~t[q].occupied
            /\ \A x \in MapPos : x # q /\ x # a.hole => t[x] = a.tab[x]
        <5>1. [a.tab[q] EXCEPT !.occupied = FALSE] \in SlotType
              /\ ~[a.tab[q] EXCEPT !.occupied = FALSE].occupied
          BY <1>0, <4>2 DEF SlotType
        <5>2. t = [[a.tab EXCEPT ![a.hole] = a.tab[q]] EXCEPT ![q].occupied = FALSE]
          OBVIOUS
        <5>3. t[q] = [a.tab[q] EXCEPT !.occupied = FALSE]
          BY <1>0, <3>1, <4>2
        <5>4. t[a.hole] = a.tab[q] /\ \A x \in MapPos : x # q /\ x # a.hole => t[x] = a.tab[x]
          BY <1>0, <3>1, <4>2
        <5>5. t = [x \in MapPos |-> t[x]]
          BY <4>2
        <5> HIDE DEF t
        <5>6. \A x \in MapPos : t[x] \in SlotType
          BY <1>0, <4>2, <5>1, <5>3, <5>4
        <5>7. t \in [MapPos -> SlotType]
          BY <5>5, <5>6
        <5> QED BY <5>1, <5>3, <5>4, <5>7
      <4>4. b.tab = t /\ b.hole = q /\ b.over = FALSE /\ b \in ShiftType
        BY <1>0, <4>3 DEF ShiftType
      <4> HIDE DEF t, b
      <4>5. V = (U \ {q}) \cup {a.hole}
        BY <2>5, <3>1, <4>3 DEF Used
      <4>6. V = Used(slots_) \ {q}
        BY <2>1, <3>1, <4>5 DEF Shifting
      <4>7. \A x \in U \ {q} : t[x] = a.tab[x] /\ x \in V /\ x # a.hole
        BY <3>1, <4>3, <4>5 DEF Used
      <4>8. G[a.hole] = H[q] /\ \A x \in U \ {q} : G[x] = H[x]
        BY <3>1, <4>3, <4>5, <4>7 DEF Homes
      <4> HIDE DEF G, H, U, V, q, home
      <4>9. TabOK(t)
        <5>1. \A x \in U : a.tab[x].key \in Key
          BY <1>1 DEF TabOK, U
        <5>2. \A x, y \in U : a.tab[x].key = a.tab[y].key => x = y
          BY <1>1 DEF TabOK, U
        <5>3. \A x \in V : t[x].key \in Key
          BY <3>1, <4>3, <4>5, <4>7, <5>1
        <5>4. \A x, y \in V : t[x].key = t[y].key => x = y
          BY <3>1, <4>3, <4>5, <4>7, <5>2
        <5> QED BY <4>3, <5>3, <5>4 DEF TabOK, V
      <4>10. Others(t, p)
        <5>1. \A x \in V : \E y \in U : t[x] = a.tab[y]
          BY <3>1, <4>3, <4>5, <4>7
        <5>2. \A y \in U : \E x \in V : t[x] = a.tab[y]
          BY <3>1, <4>3, <4>5, <4>7
        <5>3. Others(a.tab, p)
          BY <2>1 DEF Shifting
        <5>4. \A x \in V : \E y \in Used(slots_) \ {p} :
                 t[x].key = slots_[y].key /\ t[x].entry = slots_[y].entry
          BY <5>1, <5>3 DEF Others, U
        <5>5. \A y \in Used(slots_) \ {p} : \E x \in V :
                 t[x].key = slots_[y].key /\ t[x].entry = slots_[y].entry
          BY <5>2, <5>3 DEF Others, U
        <5> QED BY <5>4, <5>5 DEF Others, V
      <4>11. Closing(V, G, q, p, k + 1, C)
        <5>1. q = At(p, k + 1, C)
          BY DEF q
        <5>2. Gap(a.hole, H[q], C) < Gap(q, H[q], C)
          BY <3>2, <3>4, <3>g
        <5>3. k \in 0..(C - 1) /\ k + 1 \in 0..(C - 1) /\ p \in 0..(C - 1)
          BY <1>0
        <5>4. PICK m \in 0..(C - 1) : m = k + 1
          BY <5>3
        <5>5. PICK e : e = a.hole
          OBVIOUS
        <5> HIDE DEF C
        <5>6. Closing(U, H, e, p, k, C) /\ q = At(p, m, C) /\ q \in U
              /\ Gap(e, H[q], C) < Gap(q, H[q], C)
              /\ V = (U \ {q}) \cup {e} /\ G[e] = H[q]
          BY <2>2, <3>1, <4>5, <4>8, <5>1, <5>2, <5>4, <5>5
        <5>7. Closing(V, G, q, p, m, C)
          <6>1. C \in Nat \ {0} /\ p \in 0..(C - 1) /\ k \in 0..(C - 1)
            BY <1>0, <5>3
          <6>2. \A x \in U \ {q} : G[x] = H[x]
            BY <4>8
          <6> QED BY ONLY <5>4, <5>6, <6>1, <6>2, ClosingMoves
        <5> QED BY <5>4, <5>7
      <4>12. Shifting(b, p, k + 1)
        BY <3>1, <3>3, <4>4, <4>6, <4>10, <4>11 DEF Shifting, V, G
      <4> QED BY <4>1, <4>4, <4>9, <4>12 DEF ShiftInv
    <3>5. CASE ~(Gap(q, home, C) > Gap(a.hole, home, C))
      <4>1. ShiftStep(p, k + 1, a) = a
        BY <1>4, <2>5, <3>5 DEF ShiftStep
      <4>2. Closing(U, H, a.hole, p, k + 1, C)
        <5>1. ~(Gap(a.hole, H[q], C) < Gap(q, H[q], C))
          BY <3>2, <3>5, <3>g
        <5>2. k \in 0..(C - 1) /\ k + 1 \in 0..(C - 1) /\ p \in 0..(C - 1)
          BY <1>0
        <5>3. PICK z : z = q
          OBVIOUS
        <5> HIDE DEF C, U, H
        <5> QED BY <1>0, <2>2, <3>1, <5>1, <5>2, <5>3, ClosingStays
      <4>3. Shifting(a, p, k + 1)
        BY <2>1, <3>3, <4>2 DEF Shifting
      <4> QED BY <1>1, <1>4, <4>1, <4>3 DEF ShiftInv
    <3> QED BY <3>4, <3>5
  <2> QED BY <2>4, <2>5
<1> QED BY <1>3, <1>4

\* erase leaves the other entries, in unbroken chains.
LEMMA ShiftCloses ==
    ASSUME MapInv, NEW p \in Used(slots_)
    PROVE  TabOK(ShiftBack(p)) /\ Closed(ShiftBack(p), p)
<1> DEFINE C == MapCapacity
           t0 == [slots_ EXCEPT ![p].occupied = FALSE]
           a0 == [tab |-> t0, hole |-> p, over |-> FALSE]
           After(f) == f = [k \in MapPos |-> IF k = 0 THEN a0 ELSE ShiftStep(p, k, f[k - 1])]
           after == CHOOSE f : After(f)
<1>0. C \in Nat \ {0} /\ MapPos = 0..(C - 1) /\ p \in MapPos /\ 0 \in MapPos /\ C - 1 \in MapPos
  BY MapAssumption DEF MapPos, Used
<1>1. ShiftBack(p) = after[C - 1].tab
  BY DEF ShiftBack
<1>2. After(after)
  <2>0. C - 1 \in Nat
    BY <1>0
  <2>1. PICK f : IsLoop("map", p, a0, f, C - 1)
    <3> HIDE DEF a0, C
    <3> QED BY <2>0, LoopExists
  <2>2. f = [k \in 0..(C - 1) |-> IF k = 0 THEN a0 ELSE ShiftStep(p, k, f[k - 1])]
    <3>1. \A k, a : Round("map", p, k, a) = ShiftStep(p, k, a)
      BY DEF Round
    <3> HIDE DEF a0
    <3> QED BY <2>1, <3>1, Zenon DEF IsLoop
  <2>3. After(f)
    BY <1>0, <2>2
  <2> HIDE DEF After
  <2> QED BY <2>3, Zenon
<1> HIDE DEF after
<1>3. after[0] = a0
  BY <1>0, <1>2
<1>4. \A k \in MapPos : k + 1 \in MapPos => after[k + 1] = ShiftStep(p, k + 1, after[k])
  <2> TAKE k \in MapPos
  <2>1. k + 1 # 0 /\ (k + 1) - 1 = k
    BY <1>0
  <2> QED BY <1>2, <2>1
<1>5. ShiftInv(a0, p, 0)
  <2>1. slots_ \in [MapPos -> SlotType] /\ TabOK(slots_)
    BY DEF MapInv, TabOK
  <2>2. slots_[p] \in SlotType
    BY <1>0, <2>1
  <2>3. [slots_[p] EXCEPT !.occupied = FALSE] \in SlotType
        /\ ~[slots_[p] EXCEPT !.occupied = FALSE].occupied
    BY <2>2 DEF SlotType
  <2>4. t0[p] = [slots_[p] EXCEPT !.occupied = FALSE]
        /\ \A x \in MapPos : x # p => t0[x] = slots_[x]
    BY <1>0, <2>1
  <2>5. t0 \in [MapPos -> SlotType]
    BY <1>0, <2>1, <2>3
  <2>6. a0.tab = t0 /\ a0.hole = p /\ a0.over = FALSE /\ a0 \in ShiftType
    BY <1>0, <2>5 DEF ShiftType
  <2> HIDE DEF t0, a0
  <2>7. Used(t0) = Used(slots_) \ {p} /\ \A x \in Used(t0) : t0[x] = slots_[x]
    BY <2>3, <2>4 DEF Used
  <2>8. TabOK(t0)
    BY <2>1, <2>5, <2>7 DEF TabOK
  <2>9. Others(t0, p)
    BY <2>7 DEF Others
  <2>10. Closing(Used(t0), Homes(t0), p, p, 0, C)
    <3>1. Chained(Used(slots_), Homes(slots_), -1, C)
      BY DEF MapInv
    <3>2. \A x \in Used(t0) : Homes(t0)[x] = Homes(slots_)[x]
      BY <2>7 DEF Homes
    <3>3. Chained(Used(t0), Homes(t0), p, C)
      <4>1. \A y \in 0..(C - 1) : y # -1
        BY <1>0
      <4> HIDE DEF C
      <4>2. Used(t0) \subseteq 0..(C - 1) /\ \A x \in Used(t0) : Homes(t0)[x] \in 0..(C - 1)
        BY <2>7, <3>1, <3>2 DEF Chained
      <4>3. ASSUME NEW x \in Used(t0), NEW y \in 0..(C - 1),
                   Gap(y, Homes(t0)[x], C) < Gap(x, Homes(t0)[x], C)
            PROVE  y \in Used(t0) \/ y = p
        <5>1. y \in Used(slots_) \/ y = -1
          BY <2>7, <3>1, <3>2, <4>3 DEF Chained
        <5> QED BY <2>7, <4>1, <5>1
      <4> QED BY <4>2, <4>3 DEF Chained
    <3>4. Gap(p, p, C) = 0
      BY <1>0, ProbeIs
    <3>5. ASSUME NEW x \in Used(t0), Gap(p, p, C) < Gap(x, p, C), Gap(x, p, C) <= 0 PROVE FALSE
      <4>1. Gap(x, p, C) \in 0..(C - 1)
        BY <1>0, ProbeRange DEF Used
      <4> QED BY <1>0, <3>4, <3>5, <4>1
    <3> QED BY <1>0, <2>7, <3>3, <3>4, <3>5 DEF Closing
  <2>11. \A j \in 0..0 : At(p, j, C) \in Used(slots_)
    <3>1. At(p, 0, C) = p
      BY <1>0, ProbeIs
    <3> QED BY <3>1
  <2>12. Shifting(a0, p, 0)
    BY <2>6, <2>7, <2>9, <2>10, <2>11 DEF Shifting
  <2> QED BY <2>6, <2>8, <2>12 DEF ShiftInv
<1> HIDE DEF a0, t0, After
<1>6. ShiftInv(after[C - 1], p, C - 1)
  <2> DEFINE Good == {m \in 1..C : ShiftInv(after[m - 1], p, m - 1)}
  <2>1. 1 \in Good
    <3>1. 1 - 1 = 0 /\ 1 \in 1..C
      BY <1>0
    <3> QED BY <1>3, <1>5, <3>1
  <2>2. ASSUME NEW m \in 1..C, m \in Good, m < C PROVE m + 1 \in Good
    <3>1. m - 1 \in MapPos /\ (m - 1) + 1 \in MapPos /\ (m - 1) + 1 = (m + 1) - 1 /\ m + 1 \in 1..C
      BY <1>0, <2>2
    <3>2. ShiftInv(after[m - 1], p, m - 1)
      BY <2>2
    <3>3. ShiftInv(ShiftStep(p, (m - 1) + 1, after[m - 1]), p, (m - 1) + 1)
      BY <1>0, <3>1, <3>2, ShiftRound
    <3>4. after[(m - 1) + 1] = ShiftStep(p, (m - 1) + 1, after[m - 1])
      BY <1>4, <3>1
    <3>5. ShiftInv(after[(m + 1) - 1], p, (m + 1) - 1)
      BY <3>1, <3>3, <3>4
    <3> QED BY <3>1, <3>5
  <2> HIDE DEF Good
  <2>3. \A m \in 1..C : m \in Good
    BY <1>0, <2>1, <2>2, IntervalInduction
  <2>4. C \in Good
    BY <1>0, <2>3
  <2> QED BY <2>4 DEF Good
<1>7. after[C - 1].over
  <2> SUFFICES ASSUME ~after[C - 1].over PROVE FALSE
    OBVIOUS
  <2>1. \A j \in 0..(C - 1) : At(p, j, C) \in Used(slots_)
    BY <1>6 DEF ShiftInv, Shifting
  <2>2. PICK y \in 0..(C - 1) : y \notin Used(slots_)
    BY <1>0, FreeSlot
  <2>3. Gap(y, p, C) \in 0..(C - 1) /\ At(p, Gap(y, p, C), C) = y
    BY <1>0, ProbeRange
  <2> QED BY <2>1, <2>2, <2>3
<1> QED BY <1>1, <1>6, <1>7 DEF ShiftInv

LEMMA MapEraseStep ==
    ASSUME MapInv, NEW ref \in Key, MapErase(ref)
    PROVE  MapInv'
<1>1. /\ ref \in DOMAIN map /\ mapHash' = mapHash
      /\ slots_' = ShiftBack(FirstFrom(mapHash[ref], Holding(ref), MapCapacity))
      /\ map' = [k \in DOMAIN map \ {ref} |-> map[k]]
  BY DEF MapErase
<1>2. PICK p \in Used(slots_) :
         /\ slots_[p].key = ref /\ p = FirstFrom(mapHash[ref], Holding(ref), MapCapacity)
  BY <1>1, LiveSlot
<1> DEFINE t == ShiftBack(p)
<1>3. slots_' = t /\ TabOK(t) /\ Closed(t, p)
  BY <1>1, <1>2, ShiftCloses
<1>4. DOMAIN map' = DOMAIN map \ {ref} /\ \A k \in DOMAIN map' : map'[k] = map[k]
  BY <1>1
<1> HIDE DEF t
<1>5. \A y \in Used(slots_) \ {p} : slots_[y].key \in DOMAIN map'
                                   /\ map'[slots_[y].key] = slots_[y].entry
  <2>1. \A y \in Used(slots_) : slots_[y].key \in DOMAIN map /\ map[slots_[y].key] = slots_[y].entry
    BY DEF MapInv
  <2>2. \A y \in Used(slots_) : slots_[y].key = ref => y = p
    BY <1>2 DEF MapInv, TabOK
  <2> QED BY <1>4, <2>1, <2>2
<1>6. \A x \in Used(t) : t[x].key \in DOMAIN map' /\ map'[t[x].key] = t[x].entry
  <2> TAKE x \in Used(t)
  <2>1. PICK y \in Used(slots_) \ {p} : t[x].key = slots_[y].key /\ t[x].entry = slots_[y].entry
    BY <1>3 DEF Closed, Others
  <2> QED BY <1>5, <2>1
<1>7. \A r \in DOMAIN map' : \E x \in Used(t) : t[x].key = r
  <2> TAKE r \in DOMAIN map'
  <2>1. r \in DOMAIN map /\ r # ref
    BY <1>4
  <2>2. PICK y \in Used(slots_) : slots_[y].key = r
    BY <2>1 DEF MapInv
  <2>3. y \in Used(slots_) \ {p}
    BY <1>2, <2>1, <2>2
  <2>4. PICK x \in Used(t) : t[x].key = slots_[y].key
    BY <1>3, <2>3 DEF Closed, Others
  <2> QED BY <2>2, <2>4
<1>8. /\ DOMAIN map' \subseteq Key /\ IsFiniteSet(DOMAIN map')
      /\ Cardinality(Used(t)) = Cardinality(DOMAIN map') /\ Cardinality(DOMAIN map') < MapCapacity
  <2>1. /\ IsFiniteSet(DOMAIN map) /\ DOMAIN map \subseteq Key
        /\ Cardinality(Used(slots_)) = Cardinality(DOMAIN map) /\ Cardinality(DOMAIN map) < MapCapacity
    BY DEF MapInv
  <2>2. IsFiniteSet(Used(slots_))
    <3>1. IsFiniteSet(0..(MapCapacity - 1)) /\ Used(slots_) \subseteq 0..(MapCapacity - 1)
      BY MapAssumption, FS_Interval DEF Used, MapPos
    <3> QED BY <3>1, FS_Subset
  <2>3. PICK e \in Used(slots_) : Used(t) = Used(slots_) \ {e}
    BY <1>3 DEF Closed
  <2>4. Cardinality(Used(t)) = Cardinality(Used(slots_)) - 1
    BY <2>2, <2>3, FS_RemoveElement
  <2>5. IsFiniteSet(DOMAIN map') /\ Cardinality(DOMAIN map') = Cardinality(DOMAIN map) - 1
    BY <1>1, <1>4, <2>1, FS_RemoveElement
  <2>6. PICK c \in Nat : c = Cardinality(DOMAIN map)
    BY <2>1, FS_CardinalityType
  <2>7. c < MapCapacity /\ Cardinality(DOMAIN map') = c - 1 /\ Cardinality(Used(t)) = c - 1
    BY <2>1, <2>4, <2>5, <2>6
  <2>8. DOMAIN map' \subseteq Key
    BY <1>4, <2>1
  <2> QED BY <2>5, <2>7, <2>8, MapAssumption
<1>9. Used(slots_)' = Used(t) /\ TabOK(slots_)' /\ Homes(slots_)' = Homes(t)
  BY <1>1, <1>3 DEF Used, TabOK, Homes
<1>10. Chained(Used(t), Homes(t), -1, MapCapacity)
  BY <1>3 DEF Closed
<1>11. mapHash' \in [Key -> MapPos]
  BY <1>1 DEF MapInv
<1> QED BY <1>3, <1>6, <1>7, <1>8, <1>9, <1>10, <1>11 DEF MapInv

LEMMA MapInitInv == ASSUME MapInit PROVE MapInv
<1>1. BlankSlot \in SlotType /\ ~BlankSlot.occupied
  <2>1. (CHOOSE e \in Entry : TRUE) \in Entry
    BY MapAssumption
  <2> HIDE DEF SlotType
  <2> QED BY <2>1 DEF BlankSlot, SlotType
<1>2. slots_ = [p \in MapPos |-> BlankSlot] /\ mapHash \in [Key -> MapPos] /\ DOMAIN map = {}
  BY DEF MapInit
<1>3. slots_ \in [MapPos -> SlotType] /\ Used(slots_) = {}
  BY <1>1, <1>2 DEF Used
<1>4. TabOK(slots_) /\ Chained(Used(slots_), Homes(slots_), -1, MapCapacity)
  BY <1>3 DEF TabOK, Chained
<1>5. Cardinality({}) = 0 /\ IsFiniteSet({})
  BY FS_EmptySet
<1>6. 0 < MapCapacity
  BY MapAssumption
<1> QED BY <1>2, <1>3, <1>4, <1>5, <1>6 DEF MapInv

\* For every capacity, every set of references and every hash, OrderMap finds
\* exactly the live orders: no erase breaks a probe chain or takes a stale key.
THEOREM MapSound == MapSpec => []FindsExactlyTheLive
<1>1. MapInit => MapInv
  BY MapInitInv
<1>2. MapInv /\ [MapNext]_mapVars => MapInv'
  <2> SUFFICES ASSUME MapInv, [MapNext]_mapVars PROVE MapInv'
    OBVIOUS
  <2>1. CASE MapNext
    BY <2>1, MapEraseStep, MapInsertStep DEF MapNext
  <2>2. CASE UNCHANGED mapVars
    <3>1. UNCHANGED <<mapHash, slots_, map>>
      BY <2>2 DEF mapVars
    <3> QED BY <3>1 DEF MapInv, TabOK, Used, Homes, Chained
  <2> QED BY <2>1, <2>2
<1>3. MapInv => FindsExactlyTheLive
  BY MapFinds
<1> QED BY <1>1, <1>2, <1>3, PTL DEF MapSpec

-----------------------------------------------------------------------------

IndexType == [key : OrderId \cup {NoId}, pos : Nat]
Held(ix) == {x \in TablePos : ix[x].key # NoId}
HomesIn(ix, S) == [x \in S |-> tableHash[ix[x].key]]

\* An index in which every probe gets to its entry, and no key is twice.
IndexOK(ix) ==
    /\ ix \in [TablePos -> IndexType]
    /\ \A x, y \in Held(ix) : ix[x].key = ix[y].key => x = y
    /\ Chained(Held(ix), HomesIn(ix, Held(ix)), -1, INDEX_SLOTS)

\* An entry for every row and a row for every entry.
Indexes(ix, rs, S) ==
    /\ \A x \in S : ix[x].pos \in 1..Len(rs) /\ rs[ix[x].pos] = ix[x].key
    /\ \A i \in 1..Len(rs) : \E x \in S : ix[x].key = rs[i] /\ ix[x].pos = i

\* The inductive invariant.
TableInv ==
    /\ tableHash \in [OrderId -> TablePos]
    /\ rows_ \in Seq(OrderId) /\ Len(rows_) <= MAX_ROWS
    /\ IndexOK(index_) /\ Indexes(index_, rows_, Held(index_))
    /\ Cardinality(Held(index_)) = Len(rows_)

LEMMA EmptyIndexSlot ==
    ASSUME TableInv
    PROVE  \E y \in TablePos : y \notin Held(index_)
<1> SUFFICES ASSUME \A y \in TablePos : y \in Held(index_) PROVE FALSE
  OBVIOUS
<1>0. MAX_ROWS \in Nat /\ INDEX_SLOTS \in Nat /\ MAX_ROWS < INDEX_SLOTS
  BY TableAssumption
<1>1. Held(index_) = 0..(INDEX_SLOTS - 1)
  BY DEF Held, TablePos
<1>2. Cardinality(0..(INDEX_SLOTS - 1)) = INDEX_SLOTS
  <2>1. 0 \in Int /\ INDEX_SLOTS - 1 \in Int /\ ~(0 > INDEX_SLOTS - 1)
    BY <1>0
  <2>2. Cardinality(0..(INDEX_SLOTS - 1)) = (INDEX_SLOTS - 1) - 0 + 1
    BY <2>1, FS_Interval
  <2> QED BY <1>0, <2>2
<1>3. Len(rows_) \in Nat /\ Len(rows_) <= MAX_ROWS /\ Cardinality(Held(index_)) = Len(rows_)
  BY DEF TableInv
<1> QED BY <1>0, <1>1, <1>2, <1>3

\* slot_of finds the entry of an identifier, if it has one.
LEMMA SlotOfIs ==
    ASSUME TableInv, NEW id \in OrderId
    PROVE  /\ \A x \in Held(index_) : index_[x].key = id => slot_of(id) = x
           /\ (\A x \in Held(index_) : index_[x].key # id) => slot_of(id) = NONE
<1> DEFINE C == INDEX_SLOTS
           h == tableHash[id]
           S == Keyed({NoId, id})
           p == FirstFrom(h, S, C)
<1>0. C \in Nat \ {0} /\ TablePos = 0..(C - 1) /\ h \in 0..(C - 1) /\ id # NoId
  BY TableAssumption DEF TableInv, TablePos
<1>1. PICK z \in 0..(C - 1) : z \notin Held(index_)
  BY <1>0, EmptyIndexSlot
<1>2. z \in S
  BY <1>0, <1>1 DEF Held, Keyed
<1>3. /\ p \in 0..(C - 1) /\ p \in S
      /\ \A y \in 0..(C - 1) : Gap(y, h, C) < Gap(p, h, C) => y \notin S
  BY <1>0, <1>2, FirstFromIs
<1>4. slot_of(id) = IF index_[p].key = id THEN p ELSE NONE
  BY DEF slot_of
<1>5. index_[p].key = NoId \/ index_[p].key = id
  BY <1>3 DEF Keyed
<1> HIDE DEF p, C, h
<1>6. ASSUME NEW x \in Held(index_), index_[x].key = id PROVE p = x
  <2>1. x \in 0..(C - 1) /\ x \in S
    BY <1>0, <1>6 DEF Held, Keyed
  <2>2. \A y \in 0..(C - 1) : Gap(y, h, C) < Gap(x, h, C) => y \in Held(index_)
    <3>1. HomesIn(index_, Held(index_))[x] = h
      BY <1>6 DEF HomesIn, h
    <3>2. \A y \in 0..(C - 1) : y # -1
      BY <1>0
    <3>3. Chained(Held(index_), HomesIn(index_, Held(index_)), -1, C)
      BY DEF TableInv, IndexOK, C
    <3> QED BY <3>1, <3>2, <3>3 DEF Chained
  <2>3. Gap(p, h, C) \in 0..(C - 1) /\ Gap(x, h, C) \in 0..(C - 1)
    BY <1>0, <1>3, <2>1, ProbeRange
  <2>4. ~(Gap(x, h, C) < Gap(p, h, C))
    BY <1>3, <2>1
  <2>5. CASE Gap(p, h, C) < Gap(x, h, C)
    <3>1. p \in Held(index_)
      BY <1>3, <2>2, <2>5
    <3>2. index_[p].key = id
      BY <1>5, <3>1 DEF Held
    <3> QED BY <1>6, <3>1, <3>2 DEF TableInv, IndexOK
  <2>6. CASE Gap(p, h, C) = Gap(x, h, C)
    <3>1. At(h, Gap(p, h, C), C) = p /\ At(h, Gap(x, h, C), C) = x
      BY <1>0, <1>3, <2>1, ProbeRange
    <3> QED BY <2>6, <3>1
  <2> QED BY <1>0, <2>3, <2>4, <2>5, <2>6
<1>7. ASSUME \A x \in Held(index_) : index_[x].key # id PROVE slot_of(id) = NONE
  <2>1. index_[p].key = id => p \in Held(index_)
    BY <1>0, <1>3 DEF Held
  <2> QED BY <1>4, <1>7, <2>1
<1>8. ASSUME NEW x \in Held(index_), index_[x].key = id PROVE slot_of(id) = x
  BY <1>4, <1>6, <1>8
<1> QED BY <1>7, <1>8

\* find is right.
LEMMA TableFinds ==
    ASSUME TableInv
    PROVE  IndexFindsRows
<1>1. \A x \in Held(index_) : x \in Nat /\ x # NONE /\ index_[x].pos \in 1..Len(rows_)
                              /\ rows_[index_[x].pos] = index_[x].key
  <2>1. \A x \in Held(index_) : x \in Nat /\ x # NONE
    BY TableAssumption DEF Held, TablePos, NONE
  <2> QED BY <2>1 DEF TableInv, Indexes
<1>2. DOMAIN rows_ = 1..Len(rows_) /\ Len(rows_) \in Nat
  BY DEF TableInv
<1>3. ASSUME NEW id \in OrderId
      PROVE  /\ TableFind(id) # NONE => TableFind(id) \in DOMAIN rows_ /\ rows_[TableFind(id)] = id
             /\ TableFind(id) = NONE => \A i \in DOMAIN rows_ : rows_[i] # id
  <2>1. CASE \E x \in Held(index_) : index_[x].key = id
    <3>1. PICK x \in Held(index_) : index_[x].key = id
      BY <2>1
    <3>2. slot_of(id) = x
      BY <3>1, SlotOfIs
    <3>3. TableFind(id) = index_[x].pos
      BY <1>1, <3>2 DEF TableFind
    <3>4. TableFind(id) \in 1..Len(rows_) /\ rows_[TableFind(id)] = id
      BY <1>1, <3>1, <3>3
    <3>5. TableFind(id) # NONE
      BY <1>2, <3>4 DEF NONE
    <3> QED BY <1>2, <3>4, <3>5
  <2>2. CASE \A x \in Held(index_) : index_[x].key # id
    <3>1. slot_of(id) = NONE
      BY <2>2, SlotOfIs
    <3>2. TableFind(id) = NONE
      BY <3>1 DEF TableFind
    <3>3. \A i \in 1..Len(rows_) : rows_[i] # id
      BY <2>2 DEF TableInv, Indexes
    <3> QED BY <1>2, <3>2, <3>3
  <2> QED BY <2>1, <2>2
<1>4. {p \in TablePos : index_[p].key # NoId} = Held(index_)
  BY DEF Held
<1>5. Cardinality(Held(index_)) = Len(rows_)
  BY DEF TableInv
<1> QED BY <1>3, <1>4, <1>5 DEF IndexFindsRows

\* insert keeps the invariant.
LEMMA TableInsertStep ==
    ASSUME TableInv, NEW id \in OrderId, TableInsert(id)
    PROVE  TableInv'
<1> DEFINE C == INDEX_SLOTS
           h == tableHash[id]
           S == Keyed({NoId})
           p == FirstFrom(h, S, C)
           L == Len(rows_)
           U == Held(index_)
           N == [key |-> id, pos |-> L + 1]
           V == Held(index_')
           H == HomesIn(index_, U)
           G == HomesIn(index_', V)
<1>0. C \in Nat \ {0} /\ TablePos = 0..(C - 1) /\ h \in 0..(C - 1) /\ id # NoId
  BY TableAssumption DEF TableInv, TablePos
<1>1. /\ L < MAX_ROWS /\ slot_of(id) = NONE /\ rows_' = Append(rows_, id)
      /\ index_' = [index_ EXCEPT ![p] = N] /\ tableHash' = tableHash
  BY DEF TableInsert
<1>2. PICK z \in 0..(C - 1) : z \notin Held(index_)
  BY <1>0, EmptyIndexSlot
<1>3. z \in S
  BY <1>0, <1>2 DEF Held, Keyed
<1>4. /\ p \in 0..(C - 1) /\ p \in S
      /\ \A y \in 0..(C - 1) : Gap(y, h, C) < Gap(p, h, C) => y \notin S
  BY <1>0, <1>3, FirstFromIs
<1> HIDE DEF p, C, h
<1>5. p \in TablePos /\ p \notin U /\ L \in Nat
  BY <1>0, <1>4 DEF Keyed, Held, TableInv
<1>6. index_ \in [TablePos -> IndexType] /\ N \in IndexType
  BY <1>5 DEF TableInv, IndexOK, IndexType
<1>7. /\ index_' \in [TablePos -> IndexType]
      /\ index_'[p] = N /\ \A x \in TablePos : x # p => index_'[x] = index_[x]
  BY <1>1, <1>5, <1>6
<1>n. N.key = id /\ N.pos = L + 1
  OBVIOUS
<1> HIDE DEF N
<1>8. V = U \cup {p}
  BY <1>0, <1>5, <1>7, <1>n DEF Held
<1>9. \A x \in U : x \in TablePos /\ x # p /\ index_'[x] = index_[x]
  BY <1>5, <1>7 DEF Held
<1>10. \A x \in U : index_[x].key # id
  <2>1. \A x \in U : x # NONE
    BY TableAssumption DEF Held, TablePos, NONE
  <2> QED BY <1>1, <2>1, SlotOfIs
<1>11. G[p] = h /\ \A x \in U : G[x] = H[x]
  BY <1>7, <1>8, <1>9, <1>n DEF HomesIn, h
<1> HIDE DEF U, V, G, H, L
<1>12. Chained(V, G, -1, C)
  <2>1. Chained(U, H, -1, C)
    BY DEF TableInv, IndexOK, U, H, C
  <2>2. V \subseteq 0..(C - 1) /\ \A x \in V : G[x] \in 0..(C - 1)
    BY <1>0, <1>4, <1>8, <1>11, <2>1 DEF Chained
  <2>3. ASSUME NEW x \in V, NEW y \in 0..(C - 1), Gap(y, G[x], C) < Gap(x, G[x], C)
        PROVE  y \in V
    <3>1. CASE x = p
      <4>1. y \notin S
        BY <1>4, <1>11, <2>3, <3>1
      <4>2. y \in U
        BY <1>0, <4>1 DEF Keyed, Held, U
      <4> QED BY <1>8, <4>2
    <3>2. CASE x \in U
      <4>1. y \in U \/ y = -1
        BY <1>11, <2>1, <2>3, <3>2 DEF Chained
      <4> QED BY <1>0, <1>8, <4>1
    <3> QED BY <1>8, <3>1, <3>2
  <2> QED BY <2>2, <2>3 DEF Chained
<1>13. \A x, y \in V : index_'[x].key = index_'[y].key => x = y
  <2>1. \A x, y \in U : index_[x].key = index_[y].key => x = y
    BY DEF TableInv, IndexOK, U
  <2> QED BY <1>7, <1>8, <1>9, <1>10, <1>n, <2>1
<1>14. /\ rows_' \in Seq(OrderId) /\ Len(rows_') = L + 1 /\ rows_'[L + 1] = id
       /\ \A i \in 1..L : rows_'[i] = rows_[i]
  BY <1>1 DEF TableInv, L
<1>15. Indexes(index_', rows_', V)
  <2>1. \A x \in U : index_[x].pos \in 1..L /\ rows_[index_[x].pos] = index_[x].key
    BY DEF TableInv, Indexes, U, L
  <2>2. \A i \in 1..L : \E x \in U : index_[x].key = rows_[i] /\ index_[x].pos = i
    BY DEF TableInv, Indexes, U, L
  <2>3. \A i \in 1..L : i \in 1..(L + 1)
    BY <1>5
  <2>4. ASSUME NEW x \in V
        PROVE  index_'[x].pos \in 1..(L + 1) /\ rows_'[index_'[x].pos] = index_'[x].key
    <3>1. CASE x = p
      <4>1. L + 1 \in 1..(L + 1)
        BY <1>5
      <4> QED BY <1>7, <1>14, <1>n, <3>1, <4>1
    <3>2. CASE x \in U
      BY <1>9, <1>14, <2>1, <2>3, <3>2
    <3> QED BY <1>8, <3>1, <3>2
  <2>5. ASSUME NEW i \in 1..(L + 1)
        PROVE  \E x \in V : index_'[x].key = rows_'[i] /\ index_'[x].pos = i
    <3>1. CASE i = L + 1
      BY <1>7, <1>8, <1>14, <1>n, <3>1
    <3>2. CASE i \in 1..L
      <4>1. PICK x \in U : index_[x].key = rows_[i] /\ index_[x].pos = i
        BY <2>2, <3>2
      <4>2. x \in V /\ index_'[x].key = rows_'[i] /\ index_'[x].pos = i
        BY <1>8, <1>9, <1>14, <3>2, <4>1
      <4> QED BY <4>2
    <3> QED BY <1>5, <3>1, <3>2
  <2> QED BY <1>14, <2>4, <2>5 DEF Indexes
<1>16. Cardinality(V) = L + 1
  <2>1. IsFiniteSet(U)
    <3>1. IsFiniteSet(0..(C - 1)) /\ U \subseteq 0..(C - 1)
      BY <1>0, FS_Interval DEF U, Held
    <3> QED BY <3>1, FS_Subset
  <2>2. Cardinality(U) = L /\ p \notin U
    BY <1>5 DEF TableInv, U, L
  <2> QED BY <1>8, <2>1, <2>2, FS_AddElement
<1>17. L + 1 <= MAX_ROWS
  BY <1>1, <1>5, TableAssumption
<1>18. /\ tableHash' \in [OrderId -> TablePos]
       /\ Held(index_)' = V /\ HomesIn(index_, Held(index_))' = G
       /\ Indexes(index_, rows_, Held(index_))' <=> Indexes(index_', rows_', V)
  BY <1>1 DEF TableInv, HomesIn, Held, Indexes, V, G
<1>19. IndexOK(index_)'
  BY <1>7, <1>12, <1>13, <1>18 DEF IndexOK, V, C
<1> QED BY <1>14, <1>15, <1>16, <1>17, <1>18, <1>19 DEF TableInv

-----------------------------------------------------------------------------

\* The test of order_table.hpp, by the distances from the slot, is that of
\* core.cpp, by the distances from the home.
LEMMA GapSwap ==
    ASSUME NEW n \in Nat \ {0}, NEW i \in 0..(n - 1), NEW e \in 0..(n - 1), NEW h \in 0..(n - 1), i # e
    PROVE  Gap(i, h, n) >= Gap(i, e, n) <=> Gap(e, h, n) < Gap(i, h, n)
<1>1. PICK a : a = Gap(i, h, n) /\ a = IF i >= h THEN i - h ELSE (i - h) + n
  BY ProbeIs
<1>2. PICK b : b = Gap(i, e, n) /\ b = IF i >= e THEN i - e ELSE (i - e) + n
  BY ProbeIs
<1>3. PICK c : c = Gap(e, h, n) /\ c = IF e >= h THEN e - h ELSE (e - h) + n
  BY ProbeIs
<1>4. a >= b <=> c < a
  BY <1>1, <1>2, <1>3
<1> QED BY <1>1, <1>2, <1>3, <1>4

\* While slot s of index ix is closed up: the entries but for the hole are the
\* others of ix, each once, and so are the probes for them once it is over.
Live(ix, a) == Held(ix) \ {a.hole}
Kept(ix, s, a) ==
    /\ Held(a.ix) = Held(ix) /\ a.hole \in Held(ix)
    /\ \A x, y \in Live(ix, a) : a.ix[x].key = a.ix[y].key => x = y
    /\ \A x \in Live(ix, a) : \E y \in Held(ix) \ {s} : a.ix[x] = ix[y]
    /\ \A y \in Held(ix) \ {s} : \E x \in Live(ix, a) : a.ix[x] = ix[y]
CompactType == [ix : [TablePos -> IndexType], hole : TablePos, over : BOOLEAN]
LiveHomes(ix, a) == HomesIn(a.ix, Live(ix, a))
CompactInv(ix, s, a, k) ==
    /\ a \in CompactType /\ Kept(ix, s, a)
    /\ IF a.over THEN Chained(Live(ix, a), LiveHomes(ix, a), -1, INDEX_SLOTS)
       ELSE /\ Closing(Live(ix, a), LiveHomes(ix, a), a.hole, s, k, INDEX_SLOTS)
            /\ \A j \in 0..k : At(s, j, INDEX_SLOTS) \in Held(ix)

LEMMA CompactRound ==
    ASSUME tableHash \in [OrderId -> TablePos], NEW ix, NEW s \in TablePos,
           NEW k \in TablePos, k + 1 \in TablePos, NEW a, CompactInv(ix, s, a, k)
    PROVE  CompactInv(ix, s, CompactStep(s, k + 1, a), k + 1)
<1> DEFINE C == INDEX_SLOTS
           q == At(s, k + 1, C)
           U == Live(ix, a)
           H == LiveHomes(ix, a)
           home == tableHash[a.ix[q].key]
<1>0. C \in Nat \ {0} /\ TablePos = 0..(C - 1) /\ q \in TablePos
  <2>1. C \in Nat \ {0} /\ TablePos = 0..(C - 1)
    BY TableAssumption DEF TablePos
  <2> QED BY <2>1, ProbeRange
<1>1. a \in CompactType /\ Kept(ix, s, a)
  BY DEF CompactInv
<1>2. ASSUME NEW b, b = [a EXCEPT !.over = TRUE], Chained(U, H, -1, C)
      PROVE  CompactInv(ix, s, b, k + 1)
  <2>1. b \in CompactType /\ b.ix = a.ix /\ b.hole = a.hole /\ b.over
    BY <1>1, <1>2 DEF CompactType
  <2>2. Live(ix, b) = U /\ LiveHomes(ix, b) = H
    BY <2>1 DEF Live, LiveHomes, HomesIn
  <2>3. Kept(ix, s, b)
    BY <1>1, <2>1, <2>2 DEF Kept
  <2> QED BY <1>2, <2>1, <2>2, <2>3 DEF CompactInv
<1>3. CASE a.over
  <2>1. CompactStep(s, k + 1, a) = [a EXCEPT !.over = TRUE]
    BY <1>3 DEF CompactStep
  <2>2. Chained(U, H, -1, C)
    BY <1>3 DEF CompactInv
  <2> QED BY <1>2, <2>1, <2>2
<1>4. CASE ~a.over
  <2>2. Closing(U, H, a.hole, s, k, C) /\ \A j \in 0..k : At(s, j, C) \in Held(ix)
    BY <1>4 DEF CompactInv
  <2>3. q \in Held(ix) <=> a.ix[q].key # NoId
    BY <1>0, <1>1 DEF Held, Kept
  <2>h. a.hole \in 0..(C - 1) /\ Gap(a.hole, s, C) <= k /\ a.hole \notin U
    BY <2>2 DEF Closing
  <2>q. q # a.hole
    <3>1. Gap(q, s, C) = k + 1
      BY <1>0, ProbeRange
    <3>2. k \in Int
      BY <1>0
    <3> QED BY <2>h, <3>1, <3>2
  <2>4. CASE a.ix[q].key = NoId
    <3>1. CompactStep(s, k + 1, a) = [a EXCEPT !.over = TRUE]
      BY <2>4 DEF CompactStep
    <3>2. q \notin U
      BY <2>3, <2>4 DEF Live
    <3>3. Chained(U, H, -1, C)
      BY <1>0, <2>2, <3>2, ClosingEnds
    <3> QED BY <1>2, <3>1, <3>3
  <2>5. CASE a.ix[q].key # NoId
    <3>1. q \in U /\ q \in Held(ix)
      BY <2>3, <2>5, <2>q DEF Live
    <3>2. H[q] = home /\ home \in 0..(C - 1)
      <4>1. H[q] = home
        BY <3>1 DEF LiveHomes, HomesIn
      <4>2. \A x \in U : H[x] \in 0..(C - 1)
        BY <2>2 DEF Closing, Chained
      <4> QED BY <3>1, <4>1, <4>2
    <3>3. \A j \in 0..(k + 1) : At(s, j, C) \in Held(ix)
      <4>1. \A j \in 0..(k + 1) : j \in 0..k \/ j = k + 1
        BY <1>0
      <4> QED BY <2>2, <3>1, <4>1
    <3>g. Gap(q, home, C) >= Gap(q, a.hole, C) <=> Gap(a.hole, H[q], C) < Gap(q, H[q], C)
      <4>1. PICK hm \in 0..(C - 1) : hm = home /\ hm = H[q]
        BY <3>2
      <4>2. PICK e \in 0..(C - 1) : e = a.hole
        BY <2>h
      <4>3. PICK z \in 0..(C - 1) : z = q
        BY <1>0
      <4> HIDE DEF C, q, home, H
      <4>4. Gap(z, hm, C) >= Gap(z, e, C) <=> Gap(e, hm, C) < Gap(z, hm, C)
        BY <1>0, <2>q, <4>2, <4>3, GapSwap
      <4> QED BY <4>1, <4>2, <4>3, <4>4
    <3>4. CASE Gap(q, home, C) >= Gap(q, a.hole, C)
      <4> DEFINE t == [a.ix EXCEPT ![a.hole] = a.ix[q]]
                 b == [ix |-> t, hole |-> q, over |-> FALSE]
                 V == Live(ix, b)
                 G == LiveHomes(ix, b)
      <4>1. CompactStep(s, k + 1, a) = b
        BY <1>4, <2>5, <3>4 DEF CompactStep
      <4>2. a.ix \in [TablePos -> IndexType] /\ a.hole \in TablePos
        BY <1>1 DEF CompactType
      <4>3. /\ t \in [TablePos -> IndexType] /\ t[a.hole] = a.ix[q]
            /\ \A x \in TablePos : x # a.hole => t[x] = a.ix[x]
        BY <1>0, <4>2
      <4>4. b.ix = t /\ b.hole = q /\ b.over = FALSE /\ b \in CompactType
        BY <1>0, <4>3 DEF CompactType
      <4> HIDE DEF t, b
      <4>5. V = (U \ {q}) \cup {a.hole}
        BY <1>1, <2>q, <3>1, <4>4 DEF Live, Kept
      <4>6. Held(t) = Held(ix)
        <5>1. \A x \in TablePos : t[x].key # NoId <=> a.ix[x].key # NoId
          <6>1. a.ix[a.hole].key # NoId
            BY <1>1 DEF Kept, Held
          <6> QED BY <2>5, <4>3, <6>1
        <5>2. Held(t) = Held(a.ix)
          BY <5>1 DEF Held
        <5> QED BY <1>1, <5>2 DEF Kept
      <4>7. \A x \in U \ {q} : t[x] = a.ix[x] /\ x \in V /\ x # a.hole
        <5>1. \A x \in U : x \in TablePos /\ x # a.hole
          BY DEF Live, Held
        <5> QED BY <4>3, <4>5, <5>1
      <4>8. G[a.hole] = H[q] /\ \A x \in U \ {q} : G[x] = H[x]
        BY <3>1, <4>3, <4>4, <4>5, <4>7 DEF LiveHomes, HomesIn
      <4>9. Kept(ix, s, b)
        <5>1. \A x, y \in U : a.ix[x].key = a.ix[y].key => x = y
          BY <1>1 DEF Kept
        <5>2. \A x \in U : \E y \in Held(ix) \ {s} : a.ix[x] = ix[y]
          BY <1>1 DEF Kept
        <5>3. \A y \in Held(ix) \ {s} : \E x \in U : a.ix[x] = ix[y]
          BY <1>1 DEF Kept
        <5> HIDE DEF U, V, G, H, q, home
        <5>4. \A x, y \in V : t[x].key = t[y].key => x = y
          BY <3>1, <4>3, <4>5, <4>7, <5>1
        <5>5. \A x \in V : \E y \in U : t[x] = a.ix[y]
          BY <3>1, <4>3, <4>5, <4>7
        <5>6. \A y \in U : \E x \in V : t[x] = a.ix[y]
          BY <3>1, <4>3, <4>5, <4>7
        <5>7. \A x \in V : \E y \in Held(ix) \ {s} : t[x] = ix[y]
          BY <5>2, <5>5
        <5>8. \A y \in Held(ix) \ {s} : \E x \in V : t[x] = ix[y]
          BY <5>3, <5>6
        <5> QED BY <3>1, <4>4, <4>6, <5>4, <5>7, <5>8 DEF Kept, V
      <4>10. Closing(V, G, q, s, k + 1, C)
        <5>1. PICK m \in 0..(C - 1) : m = k + 1
          BY <1>0
        <5>2. PICK e : e = a.hole
          OBVIOUS
        <5>3. q = At(s, m, C)
          BY <5>1
        <5> HIDE DEF U, V, G, H, q, home, C
        <5>4. Closing(U, H, e, s, k, C) /\ q = At(s, m, C) /\ q \in U
              /\ Gap(e, H[q], C) < Gap(q, H[q], C)
              /\ V = (U \ {q}) \cup {e} /\ G[e] = H[q]
          BY <2>2, <3>1, <3>4, <3>g, <4>5, <4>8, <5>2, <5>3
        <5>5. Closing(V, G, q, s, m, C)
          <6>1. C \in Nat \ {0} /\ s \in 0..(C - 1) /\ k \in 0..(C - 1)
            BY <1>0
          <6>2. \A x \in U \ {q} : G[x] = H[x]
            BY <4>8
          <6> QED BY ONLY <5>1, <5>4, <6>1, <6>2, ClosingMoves
        <5> QED BY <5>1, <5>5
      <4> QED BY <3>3, <4>1, <4>4, <4>9, <4>10 DEF CompactInv
    <3>5. CASE ~(Gap(q, home, C) >= Gap(q, a.hole, C))
      <4>1. CompactStep(s, k + 1, a) = a
        BY <1>4, <2>5, <3>5 DEF CompactStep
      <4>2. Closing(U, H, a.hole, s, k + 1, C)
        <5>1. ~(Gap(a.hole, H[q], C) < Gap(q, H[q], C))
          BY <3>5, <3>g
        <5>2. k \in 0..(C - 1) /\ k + 1 \in 0..(C - 1) /\ s \in 0..(C - 1)
          BY <1>0
        <5>3. PICK z : z = q
          OBVIOUS
        <5> HIDE DEF C, U, H
        <5> QED BY <1>0, <2>2, <3>1, <5>1, <5>2, <5>3, ClosingStays
      <4> QED BY <1>1, <1>4, <3>3, <4>1, <4>2 DEF CompactInv
    <3> QED BY <3>4, <3>5
  <2> QED BY <2>4, <2>5
<1> QED BY <1>3, <1>4

\* The second half of erase leaves the other entries, in unbroken chains.
LEMMA CompactCloses ==
    ASSUME tableHash \in [OrderId -> TablePos], NEW ix, IndexOK(ix), NEW s \in Held(ix),
           \E y \in TablePos : y \notin Held(ix)
    PROVE  /\ IndexOK(Compact(ix, s))
           /\ \E e \in Held(ix) : Held(Compact(ix, s)) = Held(ix) \ {e}
           /\ \A x \in Held(Compact(ix, s)) : \E y \in Held(ix) \ {s} : Compact(ix, s)[x] = ix[y]
           /\ \A y \in Held(ix) \ {s} : \E x \in Held(Compact(ix, s)) : Compact(ix, s)[x] = ix[y]
<1> DEFINE C == INDEX_SLOTS
           a0 == [ix |-> ix, hole |-> s, over |-> FALSE]
           After(f) == f = [k \in TablePos |-> IF k = 0 THEN a0 ELSE CompactStep(s, k, f[k - 1])]
           after == CHOOSE f : After(f)
           end == after[C - 1]
           r == Compact(ix, s)
<1>0. /\ C \in Nat \ {0} /\ TablePos = 0..(C - 1) /\ s \in TablePos
      /\ 0 \in TablePos /\ C - 1 \in TablePos
  BY TableAssumption DEF TablePos, Held
<1>1. r = [end.ix EXCEPT ![end.hole] = EmptySlot]
  BY DEF Compact
<1>2. After(after)
  <2>0. C - 1 \in Nat
    BY <1>0
  <2>1. PICK f : IsLoop("table", s, a0, f, C - 1)
    <3> HIDE DEF a0, C
    <3> QED BY <2>0, LoopExists
  <2>2. f = [k \in 0..(C - 1) |-> IF k = 0 THEN a0 ELSE CompactStep(s, k, f[k - 1])]
    <3>1. \A k, a : Round("table", s, k, a) = CompactStep(s, k, a)
      BY DEF Round
    <3> HIDE DEF a0
    <3> QED BY <2>1, <3>1, Zenon DEF IsLoop
  <2>3. After(f)
    BY <1>0, <2>2
  <2> HIDE DEF After
  <2> QED BY <2>3, Zenon
<1> HIDE DEF after, r
<1>3. after[0] = a0
  BY <1>0, <1>2
<1>4. \A k \in TablePos : k + 1 \in TablePos => after[k + 1] = CompactStep(s, k + 1, after[k])
  <2> TAKE k \in TablePos
  <2>1. k + 1 # 0 /\ (k + 1) - 1 = k
    BY <1>0
  <2> QED BY <1>2, <2>1
<1>5. CompactInv(ix, s, a0, 0)
  <2>1. ix \in [TablePos -> IndexType]
    BY DEF IndexOK
  <2>2. a0.ix = ix /\ a0.hole = s /\ a0.over = FALSE /\ a0 \in CompactType
    BY <1>0, <2>1 DEF CompactType
  <2> HIDE DEF a0
  <2> DEFINE U == Live(ix, a0)
             H == LiveHomes(ix, a0)
             W == Held(ix)
             J == HomesIn(ix, W)
  <2>3. U = W \ {s} /\ \A x \in U : H[x] = J[x]
    BY <2>2 DEF Live, LiveHomes, HomesIn
  <2>4. \A x, y \in W : ix[x].key = ix[y].key => x = y
    BY DEF IndexOK
  <2>5. Kept(ix, s, a0)
    BY <2>2, <2>3, <2>4 DEF Kept
  <2>6. Chained(W, J, -1, C)
    BY DEF IndexOK
  <2> HIDE DEF U, H, J, W
  <2>7. Chained(U, H, s, C)
    <3>1. \A y \in 0..(C - 1) : y # -1
      BY <1>0
    <3> HIDE DEF C
    <3>2. U \subseteq 0..(C - 1) /\ \A x \in U : H[x] \in 0..(C - 1)
      BY <2>3, <2>6 DEF Chained
    <3>3. ASSUME NEW x \in U, NEW y \in 0..(C - 1), Gap(y, H[x], C) < Gap(x, H[x], C)
          PROVE  y \in U \/ y = s
      <4>1. y \in W \/ y = -1
        BY <2>3, <2>6, <3>3 DEF Chained
      <4> QED BY <2>3, <3>1, <4>1
    <3> QED BY <3>2, <3>3 DEF Chained
  <2>8. Gap(s, s, C) = 0 /\ At(s, 0, C) = s
    BY <1>0, ProbeIs
  <2>9. ASSUME NEW x \in U, Gap(s, s, C) < Gap(x, s, C), Gap(x, s, C) <= 0 PROVE FALSE
    <3>1. x \in 0..(C - 1)
      BY <2>7 DEF Chained
    <3>2. Gap(x, s, C) \in 0..(C - 1)
      BY <1>0, <3>1, ProbeRange
    <3> QED BY <1>0, <2>8, <2>9, <3>2
  <2>10. s \in 0..(C - 1) /\ s \notin U /\ Gap(s, s, C) <= 0
    BY <1>0, <2>3, <2>8
  <2>11. Closing(U, H, s, s, 0, C)
    BY <2>7, <2>9, <2>10 DEF Closing
  <2>12. \A j \in 0..0 : At(s, j, C) \in Held(ix)
    BY <2>8
  <2> QED BY <2>2, <2>5, <2>11, <2>12 DEF CompactInv, U, H
<1> HIDE DEF a0, After
<1>6. CompactInv(ix, s, end, C - 1)
  <2> DEFINE Good == {m \in 1..C : CompactInv(ix, s, after[m - 1], m - 1)}
  <2>1. 1 \in Good
    <3>1. 1 - 1 = 0 /\ 1 \in 1..C
      BY <1>0
    <3> QED BY <1>3, <1>5, <3>1
  <2>2. ASSUME NEW m \in 1..C, m \in Good, m < C PROVE m + 1 \in Good
    <3>1. /\ m - 1 \in TablePos /\ (m - 1) + 1 \in TablePos
          /\ (m - 1) + 1 = (m + 1) - 1 /\ m + 1 \in 1..C
      BY <1>0, <2>2
    <3>2. CompactInv(ix, s, after[m - 1], m - 1)
      BY <2>2
    <3>3. CompactInv(ix, s, CompactStep(s, (m - 1) + 1, after[m - 1]), (m - 1) + 1)
      BY <1>0, <3>1, <3>2, CompactRound
    <3>4. after[(m - 1) + 1] = CompactStep(s, (m - 1) + 1, after[m - 1])
      BY <1>4, <3>1
    <3>5. CompactInv(ix, s, after[(m + 1) - 1], (m + 1) - 1)
      BY <3>1, <3>3, <3>4
    <3> QED BY <3>1, <3>5
  <2> HIDE DEF Good
  <2>3. \A m \in 1..C : m \in Good
    BY <1>0, <2>1, <2>2, IntervalInduction
  <2>4. C \in Good
    BY <1>0, <2>3
  <2> QED BY <2>4 DEF Good
<1> HIDE DEF end
<1>7. end.over
  <2> SUFFICES ASSUME ~end.over PROVE FALSE
    OBVIOUS
  <2>1. \A j \in 0..(C - 1) : At(s, j, C) \in Held(ix)
    BY <1>6 DEF CompactInv
  <2>2. PICK y \in 0..(C - 1) : y \notin Held(ix)
    BY <1>0
  <2>3. Gap(y, s, C) \in 0..(C - 1) /\ At(s, Gap(y, s, C), C) = y
    BY <1>0, ProbeRange
  <2> QED BY <2>1, <2>2, <2>3
<1> DEFINE U == Live(ix, end)
<1>8. end \in CompactType /\ Kept(ix, s, end) /\ Chained(U, LiveHomes(ix, end), -1, C)
  BY <1>6, <1>7 DEF CompactInv
<1>9. end.ix \in [TablePos -> IndexType] /\ end.hole \in TablePos /\ EmptySlot \in IndexType
  BY <1>8 DEF CompactType, EmptySlot, IndexType
<1>10. /\ r \in [TablePos -> IndexType] /\ r[end.hole] = EmptySlot
       /\ \A x \in TablePos : x # end.hole => r[x] = end.ix[x]
  BY <1>1, <1>9
<1>11. Held(r) = U
  <2>1. EmptySlot.key = NoId
    BY DEF EmptySlot
  <2>2. Held(r) = Held(end.ix) \ {end.hole}
    BY <1>10, <2>1 DEF Held
  <2> QED BY <1>8, <2>2 DEF Kept, Live
<1>12. \A x \in U : r[x] = end.ix[x]
  BY <1>10 DEF Live, Held
<1>13. HomesIn(r, Held(r)) = LiveHomes(ix, end)
  BY <1>11, <1>12 DEF HomesIn, LiveHomes
<1>14. /\ \A x, y \in U : end.ix[x].key = end.ix[y].key => x = y
       /\ \A x \in U : \E y \in Held(ix) \ {s} : end.ix[x] = ix[y]
       /\ \A y \in Held(ix) \ {s} : \E x \in U : end.ix[x] = ix[y]
       /\ end.hole \in Held(ix) /\ U = Held(ix) \ {end.hole}
  BY <1>8 DEF Kept, Live
<1> HIDE DEF U
<1>15. IndexOK(r)
  BY <1>8, <1>10, <1>11, <1>12, <1>13, <1>14 DEF IndexOK
<1>16. \A x \in Held(r) : \E y \in Held(ix) \ {s} : r[x] = ix[y]
  BY <1>11, <1>12, <1>14
<1>17. \A y \in Held(ix) \ {s} : \E x \in Held(r) : r[x] = ix[y]
  BY <1>11, <1>12, <1>14
<1>18. \E e \in Held(ix) : Held(r) = Held(ix) \ {e}
  BY <1>11, <1>14
<1> QED BY <1>15, <1>16, <1>17, <1>18 DEF r

\* The first half leaves an index of the rows but for the one that goes, with
\* every entry where it was.
LEMMA RepointIs ==
    ASSUME TableInv, NEW id \in OrderId, NEW x \in Held(index_), index_[x].key = id,
           NEW rs, rs = [k \in 1..(Len(rows_) - 1) |->
                           IF k = TableFind(id) THEN rows_[Len(rows_)] ELSE rows_[k]]
    PROVE  /\ IndexOK(Repoint(id)) /\ Held(Repoint(id)) = Held(index_)
           /\ rs \in Seq(OrderId) /\ Len(rs) = Len(rows_) - 1 /\ Len(rows_) \in Nat \ {0}
           /\ Indexes(Repoint(id), rs, Held(index_) \ {x})
<1> DEFINE L == Len(rows_)
           i == TableFind(id)
           moved == rows_[L]
           B == Repoint(id)
           U == Held(index_)
<1>1. i = index_[x].pos
  <2>1. slot_of(id) = x
    BY SlotOfIs
  <2>2. x # NONE
    BY TableAssumption DEF Held, TablePos, NONE
  <2> QED BY <2>1, <2>2 DEF TableFind
<1>2. L \in Nat /\ rows_ \in Seq(OrderId) /\ index_ \in [TablePos -> IndexType]
  BY DEF TableInv, IndexOK
<1>3. i \in 1..L /\ rows_[i] = id
  BY <1>1 DEF TableInv, Indexes
<1>4. L \in 1..L /\ L # 0 /\ i \in Nat
  BY <1>2, <1>3
<1>5. PICK y \in U : index_[y].key = moved /\ index_[y].pos = L
  BY <1>4 DEF TableInv, Indexes
<1>6. moved \in OrderId /\ slot_of(moved) = y
  <2>1. moved \in OrderId
    BY <1>2, <1>4
  <2> HIDE DEF moved
  <2> QED BY <1>5, <2>1, SlotOfIs
<1>7. \A z, w \in U : index_[z].key = index_[w].key => z = w
  BY DEF TableInv, IndexOK
<1>8. /\ \A z \in U : index_[z].pos \in 1..L /\ rows_[index_[z].pos] = index_[z].key
      /\ \A j \in 1..L : \E z \in U : index_[z].key = rows_[j] /\ index_[z].pos = j
  BY DEF TableInv, Indexes
<1>9. \A z, w \in U : index_[z].pos = index_[w].pos => z = w
  BY <1>7, <1>8
<1>10. U \subseteq TablePos /\ x \in U
  BY DEF Held
\* What Repoint does, in both of its cases.
<1>11. /\ B \in [TablePos -> IndexType]
       /\ \A z \in TablePos : B[z].key = index_[z].key
       /\ \A z \in U \ {x} : B[z].pos = IF z = y THEN i ELSE index_[z].pos
  <2>1. CASE i = L
    <3>1. B = index_
      BY <2>1 DEF Repoint
    <3>2. y = x
      BY <1>1, <1>5, <1>9, <2>1
    <3> QED BY <1>2, <3>1, <3>2
  <2>2. CASE i # L
    <3>1. B = [index_ EXCEPT ![y].pos = i]
      BY <1>6, <2>2 DEF Repoint
    <3>2. y \in TablePos /\ index_[y] \in IndexType
      BY <1>2, <1>10
    <3>3. [index_[y] EXCEPT !.pos = i] \in IndexType
          /\ [index_[y] EXCEPT !.pos = i].key = index_[y].key
          /\ [index_[y] EXCEPT !.pos = i].pos = i
      BY <1>4, <3>2 DEF IndexType
    <3>4. B[y] = [index_[y] EXCEPT !.pos = i] /\ \A z \in TablePos : z # y => B[z] = index_[z]
      BY <1>2, <3>1, <3>2
    <3>5. B \in [TablePos -> IndexType]
      BY <1>2, <3>1, <3>2, <3>3
    <3> HIDE DEF B
    <3> QED BY <1>10, <3>3, <3>4, <3>5
  <2> QED BY <2>1, <2>2
<1> HIDE DEF B
<1>12. Held(B) = U
  BY <1>11 DEF Held
<1>13. IndexOK(B)
  <2>1. HomesIn(B, Held(B)) = HomesIn(index_, U)
    BY <1>10, <1>11, <1>12 DEF HomesIn
  <2>2. Chained(U, HomesIn(index_, U), -1, INDEX_SLOTS)
    BY DEF TableInv, IndexOK
  <2>3. \A z, w \in U : B[z].key = B[w].key => z = w
    BY <1>7, <1>10, <1>11
  <2> HIDE DEF U
  <2> QED BY <1>11, <1>12, <2>1, <2>2, <2>3 DEF IndexOK
<1>14. /\ L - 1 \in Nat /\ rs = [k \in 1..(L - 1) |-> IF k = i THEN moved ELSE rows_[k]]
       /\ \A k \in 1..(L - 1) : k \in 1..L
  BY <1>2, <1>4
<1> HIDE DEF i, moved, L, U
<1>15. rs \in Seq(OrderId) /\ Len(rs) = L - 1
  <2>1. \A k \in 1..(L - 1) : (IF k = i THEN moved ELSE rows_[k]) \in OrderId
    <3>1. \A k \in 1..L : rows_[k] \in OrderId
      BY <1>2 DEF L
    <3> QED BY <1>6, <1>14, <3>1
  <2>2. rs \in [1..(L - 1) -> OrderId]
    BY <1>14, <2>1
  <2>3. rs \in Seq(OrderId)
    BY <1>14, <2>2, SeqDef
  <2>4. DOMAIN rs = 1..(L - 1)
    BY <2>2
  <2>5. PICK n \in Nat : n = Len(rs) /\ 1..n = 1..(L - 1)
    BY <2>3, <2>4, LenProperties
  <2>6. n = L - 1
    <3>1. \A m \in Nat : 1..n = 1..m => n = m
      <4> TAKE m \in Nat
      <4> HAVE 1..n = 1..m
      <4>1. n \in 1..n => n \in 1..m
        OBVIOUS
      <4>2. m \in 1..m => m \in 1..n
        OBVIOUS
      <4> QED BY <4>1, <4>2
    <3> QED BY <1>14, <2>5, <3>1
  <2> QED BY <2>3, <2>5, <2>6
<1>16. ASSUME NEW z \in U \ {x} PROVE B[z].pos \in 1..(L - 1) /\ rs[B[z].pos] = B[z].key
  <2>1. CASE z = y
    <3>1. i # L
      BY <1>1, <1>5, <1>9, <1>10, <2>1
    <3>2. i \in 1..(L - 1)
      BY <1>2, <1>3, <3>1 DEF L
    <3>3. rs[i] = moved
      BY <1>14, <3>2
    <3> QED BY <1>5, <1>10, <1>11, <2>1, <3>2, <3>3
  <2>2. CASE z # y
    <3>1. B[z].pos = index_[z].pos /\ B[z].key = index_[z].key
      BY <1>10, <1>11, <2>2
    <3>2. index_[z].pos \in 1..L /\ index_[z].pos # L /\ index_[z].pos # i
      BY <1>1, <1>5, <1>8, <1>9, <1>10, <2>2
    <3>3. PICK p : p = index_[z].pos
      OBVIOUS
    <3>4. p \in 1..(L - 1)
      BY <1>4, <3>2, <3>3
    <3>5. rs[p] = rows_[p]
      BY <1>14, <3>2, <3>3, <3>4
    <3> QED BY <1>8, <3>1, <3>3, <3>4, <3>5
  <2> QED BY <2>1, <2>2
<1>17. ASSUME NEW j \in 1..(L - 1) PROVE \E z \in U \ {x} : B[z].key = rs[j] /\ B[z].pos = j
  <2>1. CASE j = i
    <3>1. i # L /\ rs[j] = moved
      BY <1>4, <1>14, <2>1
    <3>2. y \in U \ {x}
      BY <1>1, <1>5, <3>1
    <3> QED BY <1>5, <1>10, <1>11, <2>1, <3>1, <3>2
  <2>2. CASE j # i
    <3>1. rs[j] = rows_[j] /\ j \in 1..L /\ j # L
      BY <1>4, <1>14, <2>2
    <3>2. PICK z \in U : index_[z].key = rows_[j] /\ index_[z].pos = j
      BY <1>8, <3>1
    <3>3. z # x /\ z # y
      BY <1>1, <1>5, <2>2, <3>1, <3>2
    <3>4. z \in U \ {x} /\ B[z].key = rs[j] /\ B[z].pos = j
      BY <1>10, <1>11, <3>1, <3>2, <3>3
    <3> QED BY <3>4
  <2> QED BY <2>1, <2>2
<1>18. Indexes(B, rs, U \ {x})
  <2> HIDE DEF U
  <2> QED BY <1>15, <1>16, <1>17 DEF Indexes
<1> QED BY <1>4, <1>12, <1>13, <1>14, <1>15, <1>18 DEF B, L, U

LEMMA TableEraseStep ==
    ASSUME TableInv, NEW id \in OrderId, TableErase(id)
    PROVE  TableInv'
<1> DEFINE L == Len(rows_)
           B == Repoint(id)
           U == Held(index_)
<1>1. /\ TableFind(id) # NONE /\ tableHash' = tableHash
      /\ rows_' = [k \in 1..(L - 1) |-> IF k = TableFind(id) THEN rows_[L] ELSE rows_[k]]
      /\ index_' = Compact(B, slot_of(id))
  BY DEF TableErase
<1>2. PICK x \in U : index_[x].key = id
  <2>1. slot_of(id) # NONE
    BY <1>1 DEF TableFind
  <2> QED BY <2>1, SlotOfIs
<1>3. slot_of(id) = x
  BY <1>2, SlotOfIs
<1> DEFINE r == Compact(B, x)
<1>4. /\ IndexOK(B) /\ Held(B) = U /\ rows_' \in Seq(OrderId)
      /\ Len(rows_') = L - 1 /\ L \in Nat \ {0} /\ Indexes(B, rows_', U \ {x})
  BY <1>1, <1>2, RepointIs
<1>5. tableHash \in [OrderId -> TablePos] /\ \E y \in TablePos : y \notin U
  BY EmptyIndexSlot DEF TableInv
<1> HIDE DEF B, U, L
<1>6. /\ IndexOK(r) /\ \E e \in U : Held(r) = U \ {e}
      /\ \A z \in Held(r) : \E y \in U \ {x} : r[z] = B[y]
      /\ \A y \in U \ {x} : \E z \in Held(r) : r[z] = B[y]
  <2>1. PICK b : b = B
    OBVIOUS
  <2>2. IndexOK(b) /\ x \in Held(b) /\ Held(b) = U /\ \E y \in TablePos : y \notin Held(b)
    BY <1>2, <1>4, <1>5, <2>1
  <2>3. /\ IndexOK(Compact(b, x)) /\ \E e \in Held(b) : Held(Compact(b, x)) = Held(b) \ {e}
        /\ \A z \in Held(Compact(b, x)) : \E y \in Held(b) \ {x} : Compact(b, x)[z] = b[y]
        /\ \A y \in Held(b) \ {x} : \E z \in Held(Compact(b, x)) : Compact(b, x)[z] = b[y]
    BY <1>5, <2>2, CompactCloses
  <2> QED BY <2>1, <2>2, <2>3
<1>7. index_' = r
  BY <1>1, <1>3
<1> HIDE DEF r
<1>8. Indexes(r, rows_', Held(r))
  <2>1. ASSUME NEW z \in Held(r) PROVE r[z].pos \in 1..Len(rows_') /\ rows_'[r[z].pos] = r[z].key
    <3>1. PICK y \in U \ {x} : r[z] = B[y]
      BY <1>6
    <3> QED BY <1>4, <3>1 DEF Indexes
  <2>2. ASSUME NEW j \in 1..Len(rows_') PROVE \E z \in Held(r) : r[z].key = rows_'[j] /\ r[z].pos = j
    <3>1. PICK y \in U \ {x} : B[y].key = rows_'[j] /\ B[y].pos = j
      BY <1>4 DEF Indexes
    <3>2. PICK z \in Held(r) : r[z] = B[y]
      BY <1>6
    <3> QED BY <3>1, <3>2
  <2> QED BY <2>1, <2>2 DEF Indexes
<1>9. Cardinality(Held(r)) = L - 1
  <2>1. IsFiniteSet(U)
    <3>1. IsFiniteSet(0..(INDEX_SLOTS - 1)) /\ U \subseteq 0..(INDEX_SLOTS - 1)
      BY TableAssumption, FS_Interval DEF U, Held, TablePos
    <3> QED BY <3>1, FS_Subset
  <2>2. PICK e \in U : Held(r) = U \ {e}
    BY <1>6
  <2>3. Cardinality(U) = L
    BY DEF TableInv, U, L
  <2> QED BY <2>1, <2>2, <2>3, FS_RemoveElement
<1>10. L - 1 <= MAX_ROWS
  <2>1. L <= MAX_ROWS
    BY DEF TableInv, L
  <2> QED BY <1>4, <2>1, TableAssumption
<1>11. Held(index_)' = Held(r) /\ HomesIn(index_, Held(index_))' = HomesIn(r, Held(r))
  BY <1>1, <1>7 DEF Held, HomesIn
<1>12. IndexOK(index_)'
  BY <1>6, <1>7, <1>11 DEF IndexOK
<1>13. Indexes(index_, rows_, Held(index_))'
  BY <1>7, <1>8, <1>11 DEF Indexes
<1>14. tableHash' \in [OrderId -> TablePos]
  BY <1>1, <1>5
<1>15. Cardinality(Held(index_))' = Len(rows_') /\ Len(rows_') <= MAX_ROWS
  BY <1>4, <1>9, <1>10, <1>11
<1> QED BY <1>4, <1>12, <1>13, <1>14, <1>15 DEF TableInv

LEMMA TableInitInv == ASSUME TableInit PROVE TableInv
<1>1. EmptySlot \in IndexType /\ EmptySlot.key = NoId
  BY DEF EmptySlot, IndexType
<1>2. /\ tableHash \in [OrderId -> TablePos] /\ rows_ = <<>>
      /\ index_ = [p \in TablePos |-> EmptySlot]
  BY DEF TableInit
<1>3. index_ \in [TablePos -> IndexType] /\ Held(index_) = {}
  BY <1>1, <1>2 DEF Held
<1>4. IndexOK(index_)
  BY <1>3 DEF IndexOK, Chained
<1>5. rows_ \in Seq(OrderId) /\ Len(rows_) = 0
  BY <1>2
<1>6. Indexes(index_, rows_, Held(index_))
  BY <1>3, <1>5 DEF Indexes
<1>7. Cardinality({}) = 0 /\ 0 <= MAX_ROWS
  BY FS_EmptySet, TableAssumption
<1> QED BY <1>2, <1>3, <1>4, <1>5, <1>6, <1>7 DEF TableInv

\* For every number of rows and slots, every set of identifiers and every hash,
\* OrderTable finds the row of exactly the live orders: swap-remove repoints the
\* row it moves, and closing up the index breaks no probe chain.
THEOREM TableSound == TableSpec => []IndexFindsRows
<1>1. TableInit => TableInv
  BY TableInitInv
<1>2. TableInv /\ [TableNext]_tableVars => TableInv'
  <2> SUFFICES ASSUME TableInv, [TableNext]_tableVars PROVE TableInv'
    OBVIOUS
  <2>1. CASE TableNext
    BY <2>1, TableEraseStep, TableInsertStep DEF TableNext
  <2>2. CASE UNCHANGED tableVars
    <3>1. UNCHANGED <<tableHash, rows_, index_>>
      BY <2>2 DEF tableVars
    <3> QED BY <3>1 DEF TableInv, IndexOK, Indexes, Held, HomesIn, Chained
  <2> QED BY <2>1, <2>2
<1>3. TableInv => IndexFindsRows
  BY TableFinds
<1> QED BY <1>1, <1>2, <1>3, PTL DEF TableSpec

\* TablesFindTheLive, for every size of both tables, every set of keys and every
\* hash: open addressing with deletion, as core.cpp and order_table.hpp each
\* write it, finds the live orders, all of them and no other.
THEOREM TablesSound == MapSpec /\ TableSpec => []TablesFindTheLive
<1>1. FindsExactlyTheLive /\ IndexFindsRows => TablesFindTheLive
  BY DEF TablesFindTheLive
<1> QED BY <1>1, MapSound, TableSound, PTL

-----------------------------------------------------------------------------
(* Histogram: percentiles, for any number of buckets and of samples.       *)

\* The bounds of the buckets double.
LEMMA PowerIs ==
    /\ Power[0] = 1
    /\ \A b \in Buckets : Power[b + 1] = 2 * Power[b]
    /\ \A b \in 0..Width : Power[b] \in Nat \ {0}
<1> DEFINE P(f) == f = [b \in 0..Width |-> IF b = 0 THEN 1 ELSE 2 * f[b - 1]]
<1>0. Width \in Nat \ {0}
  BY HistogramAssumption
<1>1. PICK f : IsLoop("power", 0, 1, f, Width)
  BY <1>0, LoopExists
<1>2. P(f)
  <2>1. \A k, a : Round("power", 0, k, a) = 2 * a
    BY DEF Round
  <2> QED BY <1>1, <2>1, Zenon DEF IsLoop
<1>3. Power = CHOOSE g : P(g)
  BY DEF Power
<1> HIDE DEF P
<1>4. P(Power)
  BY <1>2, <1>3, Zenon
<1>5. Power = [b \in 0..Width |-> IF b = 0 THEN 1 ELSE 2 * Power[b - 1]]
  BY <1>4 DEF P
<1>6. Power[0] = 1
  BY <1>0, <1>5
<1>7. ASSUME NEW b \in Buckets PROVE Power[b + 1] = 2 * Power[b]
  <2>1. b + 1 \in 0..Width /\ b + 1 # 0 /\ (b + 1) - 1 = b
    BY <1>0 DEF Buckets
  <2> QED BY <1>5, <2>1
<1>8. \A b \in 0..Width : Power[b] \in Nat \ {0}
  <2> DEFINE Good == {m \in 1..(Width + 1) : Power[m - 1] \in Nat \ {0}}
  <2>1. 1 \in Good
    <3>1. 1 - 1 = 0 /\ 1 \in 1..(Width + 1)
      BY <1>0
    <3> QED BY <1>6, <3>1
  <2>2. ASSUME NEW m \in 1..(Width + 1), m \in Good, m < Width + 1 PROVE m + 1 \in Good
    <3>1. m - 1 \in Buckets /\ (m - 1) + 1 = m /\ (m + 1) - 1 = m /\ m + 1 \in 1..(Width + 1)
      BY <1>0, <2>2 DEF Buckets
    <3>2. Power[m] = 2 * Power[m - 1]
      BY <1>7, <3>1
    <3>3. PICK q \in Nat \ {0} : q = Power[m - 1]
      BY <2>2
    <3>4. Power[m] \in Nat \ {0}
      BY <3>2, <3>3
    <3> QED BY <3>1, <3>4
  <2> HIDE DEF Good
  <2>3. \A m \in 1..(Width + 1) : m \in Good
    <3>1. Width + 1 \in Nat
      BY <1>0
    <3> QED BY <2>1, <2>2, <3>1, IntervalInduction
  <2>4. ASSUME NEW b \in 0..Width PROVE Power[b] \in Nat \ {0}
    <3>1. b + 1 \in 1..(Width + 1) /\ (b + 1) - 1 = b
      BY <1>0
    <3>2. b + 1 \in Good
      BY <2>3, <3>1
    <3> QED BY <3>1, <3>2 DEF Good
  <2> QED BY <2>4
<1> QED BY <1>6, <1>7, <1>8

LEMMA PowerGrows ==
    ASSUME NEW a \in 0..Width, NEW b \in 0..Width, a <= b
    PROVE  Power[a] <= Power[b]
<1> DEFINE Good == {m \in 1..(Width + 1) : a <= m - 1 => Power[a] <= Power[m - 1]}
<1>0. Width \in Nat \ {0} /\ Width + 1 \in Nat /\ Power[a] \in Nat
  BY HistogramAssumption, PowerIs
<1>1. 1 \in Good
  <2>1. a <= 1 - 1 => a = 1 - 1
    BY <1>0
  <2>2. 1 \in 1..(Width + 1)
    BY <1>0
  <2> QED BY <1>0, <2>1, <2>2
<1>2. ASSUME NEW m \in 1..(Width + 1), m \in Good, m < Width + 1 PROVE m + 1 \in Good
  <2>1. /\ m - 1 \in Buckets /\ (m - 1) + 1 = m /\ (m + 1) - 1 = m
        /\ m + 1 \in 1..(Width + 1) /\ m - 1 \in 0..Width
    BY <1>0, <1>2 DEF Buckets
  <2>2. Power[m] = 2 * Power[m - 1]
    BY <2>1, PowerIs
  <2>3. PICK q \in Nat \ {0} : q = Power[m - 1]
    BY <2>1, PowerIs
  <2>4. a <= m => Power[a] <= Power[m]
    <3>1. CASE a <= m - 1
      BY <1>0, <1>2, <2>2, <2>3, <3>1
    <3>2. CASE a = m
      BY <1>0, <3>2
    <3> QED BY <3>1, <3>2
  <2> QED BY <2>1, <2>4
<1> HIDE DEF Good
<1>3. \A m \in 1..(Width + 1) : m \in Good
  BY <1>0, <1>1, <1>2, IntervalInduction
<1>4. b + 1 \in 1..(Width + 1) /\ (b + 1) - 1 = b
  BY <1>0
<1>5. b + 1 \in Good
  BY <1>3, <1>4
<1> QED BY <1>4, <1>5 DEF Good

Cycles == 0..(Power[Width] - 1)

\* Every cycle count has a bucket.
LEMMA BucketIs ==
    ASSUME NEW c \in Cycles
    PROVE  /\ Bucket(c) \in Buckets
           /\ Power[Bucket(c)] <= c \/ Bucket(c) = 0
           /\ c < Power[Bucket(c) + 1]
<1> DEFINE In(b) == (Power[b] <= c \/ b = 0) /\ c < Power[b + 1]
           Good == {m \in 1..Width : c < Power[m] => \E b \in Buckets : In(b)}
<1>0. Width \in Nat \ {0} /\ Power[Width] \in Nat /\ c \in Nat /\ c < Power[Width]
  <2>1. Width \in Nat \ {0} /\ Width \in 0..Width
    BY HistogramAssumption
  <2>2. PICK q \in Nat : q = Power[Width]
    BY <2>1, PowerIs
  <2>3. c \in 0..(q - 1)
    BY <2>2 DEF Cycles
  <2>4. c \in Nat /\ c < q
    BY <2>2, <2>3
  <2> QED BY <2>1, <2>2, <2>4
<1>1. 1 \in Good
  <2>1. 0 \in Buckets /\ 0 + 1 = 1 /\ 1 \in 1..Width
    BY <1>0 DEF Buckets
  <2> QED BY <2>1
<1>2. ASSUME NEW m \in 1..Width, m \in Good, m < Width PROVE m + 1 \in Good
  <2>1. m \in Buckets /\ m + 1 \in 1..Width /\ m \in 0..Width
    BY <1>0, <1>2 DEF Buckets
  <2>2. PICK q \in Nat : q = Power[m]
    BY <2>1, PowerIs
  <2>3. c < q \/ q <= c
    BY <1>0
  <2>4. CASE c < Power[m]
    BY <1>2, <2>1, <2>4
  <2>5. CASE Power[m] <= c
    BY <2>1, <2>5
  <2> QED BY <2>2, <2>3, <2>4, <2>5
<1> HIDE DEF Good
<1>3. \A m \in 1..Width : m \in Good
  BY <1>0, <1>1, <1>2, IntervalInduction
<1>4. Width \in Good
  BY <1>0, <1>3
<1>5. \E b \in Buckets : In(b)
  BY <1>0, <1>4 DEF Good
<1>6. Bucket(c) = CHOOSE b \in Buckets : In(b)
  BY DEF Bucket
<1> HIDE DEF In
<1>7. Bucket(c) \in Buckets /\ In(Bucket(c))
  BY <1>5, <1>6
<1> QED BY <1>7 DEF In

\* The buckets are in the order of what they hold.
LEMMA BucketOrder ==
    ASSUME NEW c \in Cycles, NEW d \in Cycles, Bucket(c) < Bucket(d)
    PROVE  c < d
<1>0. Width \in Nat \ {0}
  BY HistogramAssumption
<1>1. PICK b \in Buckets : b = Bucket(c) /\ c < Power[b + 1]
  BY BucketIs
<1>2. PICK e \in Buckets : e = Bucket(d) /\ (Power[e] <= d \/ e = 0)
  BY BucketIs
<1>3. b + 1 \in 0..Width /\ e \in 0..Width /\ b + 1 <= e /\ e # 0
  BY <1>0, <1>1, <1>2 DEF Buckets
<1>4. Power[b + 1] <= Power[e] /\ Power[b + 1] \in Nat /\ Power[e] \in Nat
  BY <1>3, PowerGrows, PowerIs
<1>5. c \in Int /\ d \in Int
  <2>1. PICK q \in Nat : q = Power[Width]
    BY <1>0, PowerIs
  <2> QED BY <2>1 DEF Cycles
<1> QED BY <1>1, <1>2, <1>3, <1>4, <1>5

\* The samples from the i-th to the n-th in bucket b, and in buckets 0 to b.
InBucket(s, i, n, b) == {j \in i..n : Bucket(s[j]) = b}
UpTo(s, i, n, b) == {j \in i..n : Bucket(s[j]) <= b}

\* The buckets of h count those samples.
Tallies(h, s, i, n) == \A b \in Buckets : h.buckets[b] = Cardinality(InBucket(s, i, n, b))

LEMMA SampleSets ==
    ASSUME NEW i \in Nat \ {0}, NEW n \in Nat, NEW T \in SUBSET (i..n)
    PROVE  IsFiniteSet(T) /\ Cardinality(T) \in Nat
<1>1. IsFiniteSet(i..n)
  BY FS_Interval
<1>2. IsFiniteSet(T)
  BY <1>1, FS_Subset
<1> QED BY <1>2, FS_CardinalityType

\* The running sum of percentile_cycles counts the samples up to a bucket.
LEMMA CumulativeIs ==
    ASSUME NEW h, NEW s, NEW n \in Nat, NEW i \in Nat \ {0},
           \A j \in i..n : s[j] \in Cycles, Tallies(h, s, i, n)
    PROVE  \A b \in Buckets : Cumulative(h)[b] = Cardinality(UpTo(s, i, n, b))
<1> DEFINE P(f) == f = [b \in Buckets |-> h.buckets[b] + IF b = 0 THEN 0 ELSE f[b - 1]]
           cum == Cumulative(h)
           C(b) == Cardinality(UpTo(s, i, n, b))
           D(b) == Cardinality(InBucket(s, i, n, b))
<1>0. Width \in Nat \ {0} /\ Width - 1 \in Nat /\ Buckets = 0..(Width - 1) /\ 0 \in Buckets
  BY HistogramAssumption DEF Buckets
<1>1. \A b \in Buckets : h.buckets[b] = D(b)
  BY DEF Tallies
<1>t. \A b \in Buckets : C(b) \in Nat /\ D(b) \in Nat
  BY SampleSets DEF UpTo, InBucket
<1>2. PICK f : P(f)
  <2>1. PICK a0 : a0 = h.buckets[0] + 0
    OBVIOUS
  <2>2. PICK f : IsLoop("sum", h.buckets, a0, f, Width - 1)
    BY <1>0, LoopExists
  <2>3. \A k, a : Round("sum", h.buckets, k, a) = h.buckets[k] + a
    BY DEF Round
  <2>4. f = [k \in 0..(Width - 1) |-> IF k = 0 THEN a0 ELSE h.buckets[k] + f[k - 1]]
    BY <2>2, <2>3, Zenon DEF IsLoop
  <2>5. \A k \in Buckets : (IF k = 0 THEN a0 ELSE h.buckets[k] + f[k - 1])
                           = h.buckets[k] + IF k = 0 THEN 0 ELSE f[k - 1]
    BY <2>1
  <2>6. P(f)
    BY <1>0, <2>4, <2>5
  <2> QED BY <2>6
<1>3. cum = CHOOSE g : P(g)
  BY DEF Cumulative
<1> HIDE DEF P, cum
<1>4. P(cum)
  BY <1>2, <1>3, Zenon
<1>5. \A b \in Buckets : cum[b] = h.buckets[b] + IF b = 0 THEN 0 ELSE cum[b - 1]
  BY <1>4 DEF P
<1>6. C(0) = D(0)
  <2>1. \A j \in i..n : Bucket(s[j]) \in Nat
    BY <1>0, BucketIs
  <2>2. \A j \in i..n : Bucket(s[j]) <= 0 <=> Bucket(s[j]) = 0
    BY <2>1
  <2>3. UpTo(s, i, n, 0) = InBucket(s, i, n, 0)
    BY <2>2 DEF UpTo, InBucket
  <2> QED BY <2>3
<1>7. ASSUME NEW b \in Buckets, b + 1 \in Buckets PROVE C(b + 1) = D(b + 1) + C(b)
  <2> DEFINE X == UpTo(s, i, n, b)
             Y == InBucket(s, i, n, b + 1)
  <2>1. \A j \in i..n : Bucket(s[j]) \in Int
    BY <1>0, BucketIs
  <2>2. b \in Int
    BY <1>0
  <2>3. \A j \in i..n : /\ Bucket(s[j]) <= b + 1 <=> (Bucket(s[j]) <= b \/ Bucket(s[j]) = b + 1)
                        /\ ~(Bucket(s[j]) <= b /\ Bucket(s[j]) = b + 1)
    BY <2>1, <2>2
  <2>4. UpTo(s, i, n, b + 1) = X \cup Y
    BY <2>3 DEF UpTo, InBucket
  <2>5. X \cap Y = {}
    BY <2>3 DEF UpTo, InBucket
  <2>6. X \in SUBSET (i..n) /\ Y \in SUBSET (i..n)
    BY DEF UpTo, InBucket
  <2> HIDE DEF X, Y
  <2>7. IsFiniteSet(X) /\ IsFiniteSet(Y) /\ Cardinality(X) \in Nat /\ Cardinality(Y) \in Nat
    BY <2>6, SampleSets
  <2>8. Cardinality(X \cup Y) = Cardinality(X) + Cardinality(Y)
    <3>1. Cardinality(X \cup Y) = Cardinality(X) + Cardinality(Y) - Cardinality(X \cap Y)
      BY <2>7, FS_Union
    <3>2. Cardinality(X \cap Y) = 0
      BY <2>5, FS_EmptySet
    <3> QED BY <2>7, <3>1, <3>2
  <2>9. Cardinality(X \cup Y) = Cardinality(Y) + Cardinality(X)
    BY <2>7, <2>8
  <2> QED BY <2>4, <2>9 DEF X, Y
<1> HIDE DEF C, D
<1>8. \A b \in Buckets : cum[b] = C(b)
  <2> DEFINE Good == {m \in 1..Width : cum[m - 1] = C(m - 1)}
  <2>1. 1 \in Good
    <3>1. 1 - 1 = 0 /\ 1 \in 1..Width
      BY <1>0
    <3>2. cum[0] = D(0) + 0
      BY <1>0, <1>1, <1>5
    <3>3. cum[0] = C(0)
      BY <1>0, <1>6, <1>t, <3>2
    <3> QED BY <3>1, <3>3
  <2>2. ASSUME NEW m \in 1..Width, m \in Good, m < Width PROVE m + 1 \in Good
    <3>1. /\ m - 1 \in Buckets /\ (m - 1) + 1 = m /\ (m + 1) - 1 = m
          /\ m + 1 \in 1..Width /\ m \in Buckets /\ m # 0
      BY <1>0, <2>2
    <3>2. cum[m] = D(m) + cum[m - 1]
      BY <1>1, <1>5, <3>1
    <3>3. C(m) = D(m) + C(m - 1)
      BY <1>7, <3>1
    <3>4. cum[m] = C(m)
      BY <2>2, <3>2, <3>3
    <3> QED BY <3>1, <3>4
  <2> HIDE DEF Good
  <2>3. \A m \in 1..Width : m \in Good
    BY <1>0, <2>1, <2>2, IntervalInduction
  <2>4. ASSUME NEW b \in Buckets PROVE cum[b] = C(b)
    <3>1. b + 1 \in 1..Width /\ (b + 1) - 1 = b
      BY <1>0
    <3>2. b + 1 \in Good
      BY <2>3, <3>1
    <3> QED BY <3>1, <3>2 DEF Good
  <2> QED BY <2>4
<1> QED BY <1>8 DEF cum, C

\* The samples from the i-th to the n-th below x, and those up to x.
Below(s, i, n, x) == {l \in i..n : s[l] < x}
NoMore(s, i, n, x) == {l \in i..n : s[l] <= x}

\* Of n - i + 1 samples, one has every rank below their number.
LEMMA RankExists ==
    ASSUME NEW s, NEW n \in Nat, NEW i \in Nat \ {0}, \A j \in i..n : s[j] \in Cycles,
           NEW k \in Nat, k < Cardinality(i..n)
    PROVE  \E j \in i..n : /\ Cardinality(Below(s, i, n, s[j])) <= k
                           /\ Cardinality(NoMore(s, i, n, s[j])) > k
<1> DEFINE Low(x) == {l \in i..n : s[l] < x}
           To(x) == {l \in i..n : s[l] <= x}
           All == {s[j] : j \in i..n}
           X == {x \in All : Cardinality(To(x)) > k}
<1>1. IsFiniteSet(Cycles) /\ Cycles \subseteq Int
  <2>1. PICK q \in Int : q = Power[Width] - 1
    BY HistogramAssumption, PowerIs
  <2>2. Cycles = 0..q /\ 0 \in Int
    BY <2>1 DEF Cycles
  <2>3. IsFiniteSet(0..q)
    BY <2>1, <2>2, FS_Interval
  <2> QED BY <2>2, <2>3
<1>2. IsFiniteSet(All) /\ All \subseteq Int
  <2>1. All \subseteq Cycles
    OBVIOUS
  <2> HIDE DEF All
  <2> QED BY <1>1, <2>1, FS_Subset
<1>3. ASSUME NEW T \in SUBSET (i..n), Cardinality(T) > k
      PROVE  \E x \in X : (\E j \in T : x = s[j]) /\ \A j \in T : s[j] <= x
  <2> DEFINE V == {s[j] : j \in T}
  <2>1. IsFiniteSet(T) /\ T # {}
    <3>1. Cardinality({}) = 0
      BY FS_EmptySet
    <3>2. ~(0 > k)
      OBVIOUS
    <3>3. T # {}
      BY <1>3, <3>1, <3>2
    <3> QED BY <3>3, SampleSets
  <2>2. IsFiniteSet(V) /\ V \subseteq Int /\ V # {}
    <3>1. V \subseteq All /\ V # {}
      BY <2>1
    <3> HIDE DEF V, All
    <3> QED BY <1>2, <3>1, FS_Subset
  <2>3. PICK x : x \in V /\ \A y \in V : y <= x
    <3> HIDE DEF V
    <3> QED BY <2>2, MaxIs
  <2>4. T \subseteq To(x)
    BY <2>3
  <2>5. Cardinality(T) <= Cardinality(To(x))
    <3>1. IsFiniteSet(To(x))
      BY SampleSets
    <3> QED BY <2>4, <3>1, FS_Subset
  <2>6. Cardinality(To(x)) > k
    <3>1. Cardinality(To(x)) \in Nat /\ Cardinality(T) \in Nat
      BY SampleSets
    <3> HIDE DEF To
    <3> QED BY <1>3, <2>5, <3>1
  <2>7. x \in All
    BY <2>3
  <2> QED BY <2>3, <2>6, <2>7
<1>4. X # {}
  BY <1>3
<1>5. IsFiniteSet(X) /\ X \subseteq Int
  BY <1>2, FS_Subset
<1>6. PICK x \in X : \A y \in X : x <= y
  <2> HIDE DEF X
  <2> QED BY <1>4, <1>5, MinIs
<1>7. PICK j \in i..n : x = s[j]
  BY <1>6
<1>8. Cardinality(To(x)) > k
  BY <1>6
<1>9. Cardinality(Low(x)) <= k
  <2> SUFFICES ASSUME ~(Cardinality(Low(x)) <= k) PROVE FALSE
    OBVIOUS
  <2>1. Cardinality(Low(x)) \in Nat
    BY SampleSets
  <2>2. Cardinality(Low(x)) > k
    BY <2>1
  <2>3. PICK y \in X : \E l \in Low(x) : y = s[l]
    BY <1>3, <2>2
  <2>4. y < x
    BY <2>3
  <2>5. x \in Int /\ y \in Int /\ x <= y
    BY <1>5, <1>6
  <2> QED BY <2>4, <2>5
<1> QED BY <1>7, <1>8, <1>9 DEF Below, NoMore

\* A percentile's rank is at most the number of samples.
LEMMA ThresholdIs ==
    ASSUME NEW pm \in 0..1000, NEW n \in Nat
    PROVE  (pm * n) \div 1000 \in 0..n /\ (pm = 1000 => (pm * n) \div 1000 = n)
<1>1. (1000 - pm) * n >= 0 /\ pm * n >= 0
  <2>1. \A a, b \in Nat : a * b >= 0
    OBVIOUS
  <2>2. 1000 - pm \in Nat /\ pm \in Nat
    OBVIOUS
  <2> QED BY <2>1, <2>2
<1>2. (1000 - pm) * n = 1000 * n - pm * n
  OBVIOUS
<1>3. PICK x \in Int : x = pm * n /\ 0 <= x /\ x <= 1000 * n
  BY <1>1, <1>2
<1>4. x \div 1000 \in 0..n
  BY <1>3
<1>5. pm = 1000 => x \div 1000 = n
  BY <1>3
<1> QED BY <1>3, <1>4, <1>5

\* h counts the samples from the i-th on.
Counts(h, i) ==
    /\ h.count = (Len(samples) - i) + 1
    /\ Tallies(h, samples, i, Len(samples))

\* What percentile_cycles calls the threshold.
Threshold(h, pm) == (pm * h.count) \div 1000

LEMMA PercentileIs ==
    ASSUME samples \in Seq(Cycles), NEW i \in 1..(Len(samples) + 1), NEW h, Counts(h, i),
           NEW pm \in 0..1000, NEW k, k = Threshold(h, pm), h.count # 0, k # h.count
    PROVE  \E j \in i..Len(samples) :
              Ranked(samples[j], k, i) /\ EndsBucketOf(PercentileCycles(h, pm), samples[j])
<1> DEFINE n == Len(samples)
           Cum(b) == Cardinality(UpTo(samples, i, n, b))
           p == PercentileCycles(h, pm)
           hits == {b \in Buckets : Cumulative(h)[b] > Threshold(h, pm)}
           first == CHOOSE b \in hits : \A c \in hits : b <= c
           top == Width - 1
<1>0. /\ n \in Nat /\ i \in Nat \ {0} /\ \A j \in i..n : samples[j] \in Cycles
      /\ Width \in Nat \ {0} /\ Buckets = 0..top /\ top \in Buckets
  BY HistogramAssumption DEF Buckets
<1>c. Cycles \subseteq Int
  <2>1. PICK q \in Int : q = Power[Width]
    BY HistogramAssumption, PowerIs
  <2> QED BY <2>1 DEF Cycles
<1>1. h.count \in Nat \ {0} /\ h.count = Cardinality(i..n)
  <2>1. h.count = (n - i) + 1
    BY DEF Counts
  <2>2. i <= n + 1 /\ h.count \in Nat
    BY <1>0, <2>1
  <2>3. ~(i > n)
    BY <1>0, <2>1, <2>2
  <2>4. Cardinality(i..n) = (n - i) + 1
    BY <1>0, <2>3, FS_Interval
  <2> QED BY <2>1, <2>2, <2>4
<1>2. k \in Nat /\ k < Cardinality(i..n)
  <2>1. PICK m \in Nat : m = h.count
    BY <1>1
  <2>t. (pm * m) \div 1000 \in 0..m
    BY ThresholdIs
  <2>k. k = (pm * m) \div 1000 /\ k # m
    BY ONLY <2>1, k = Threshold(h, pm), k # h.count DEF Threshold
  <2>2. k \in 0..m /\ k # m
    BY ONLY <2>t, <2>k
  <2> QED BY <1>1, <2>1, <2>2
<1> HIDE DEF n
<1> HIDE DEF hits, first, p, Cum
<1>3. PICK j \in i..n : /\ Cardinality(Below(samples, i, n, samples[j])) <= k
                        /\ Cardinality(NoMore(samples, i, n, samples[j])) > k
  <2>1. PICK s : s = samples
    OBVIOUS
  <2>2. \A j \in i..n : s[j] \in Cycles
    BY <1>0, <2>1
  <2>3. \E j \in i..n : /\ Cardinality(Below(s, i, n, s[j])) <= k
                         /\ Cardinality(NoMore(s, i, n, s[j])) > k
    BY ONLY <1>0, <1>2, <2>2, RankExists
  <2> QED BY <2>1, <2>3
<1>4. Ranked(samples[j], k, i)
  BY <1>3 DEF Ranked, Below, NoMore, n
<1>5. \A b \in Buckets : Cumulative(h)[b] = Cum(b) /\ Cum(b) \in Nat
  <2>1. Tallies(h, samples, i, n)
    BY DEF Counts, n
  <2>2. \A b \in Buckets : Cumulative(h)[b] = Cum(b)
    <3>1. PICK s : s = samples
      OBVIOUS
    <3>2. /\ \A j1 \in i..n : s[j1] \in Cycles
          /\ Tallies(h, s, i, n)
      BY <1>0, <2>1, <3>1
    <3>3. \A b \in Buckets : Cumulative(h)[b] = Cardinality(UpTo(s, i, n, b))
      BY ONLY <1>0, <3>2, CumulativeIs
    <3> QED BY <3>1, <3>3 DEF Cum
  <2>3. \A b \in Buckets : Cum(b) \in Nat
    BY <1>0, SampleSets DEF UpTo, Cum
  <2> QED BY <2>2, <2>3
<1>6. Cum(top) > k
  <2>1. \A l \in i..n : Bucket(samples[l]) <= top
    BY <1>0, BucketIs
  <2>2. UpTo(samples, i, n, top) = i..n
    BY <2>1 DEF UpTo
  <2> QED BY <1>1, <1>2, <2>2 DEF Cum
<1>7. \A b \in Buckets : b \in hits <=> Cum(b) > k
  BY <1>5 DEF hits
<1>8. top \in hits /\ hits \subseteq Int
  BY <1>0, <1>6, <1>7 DEF hits
<1>9. first \in hits /\ \A c \in hits : first <= c
  <2>1. IsFiniteSet(hits)
    <3>1. IsFiniteSet(0..top) /\ hits \subseteq 0..top
      BY <1>0, FS_Interval DEF hits
    <3> QED BY <3>1, FS_Subset
  <2>2. \E b \in hits : \A c \in hits : b <= c
    <3>1. hits # {}
      BY <1>8
    <3>2. Min(hits) \in hits /\ \A c \in hits : Min(hits) <= c
      BY <1>8, <2>1, <3>1, MinIs
    <3> QED BY <3>2
  <2> QED BY <2>2 DEF first
<1>10. p = IF first < top THEN Power[first + 1] ELSE Power[Width] - 1
  <2>1. h.count # 0 /\ hits # {}
    BY <1>8
  <2> QED BY <2>1 DEF PercentileCycles, Threshold, p, first, hits
<1>11. hits \subseteq Buckets
  BY DEF hits
<1> DEFINE x == samples[j]
           b == Bucket(x)
<1>12. x \in Cycles /\ b \in Buckets /\ first \in Buckets /\ b \in Int /\ first \in Int
  BY <1>0, <1>9, <1>11, BucketIs
<1>13. ~(b < first)
  <2> SUFFICES ASSUME b < first PROVE FALSE
    OBVIOUS
  <2>1. b \notin hits
    BY <1>9, <1>12
  <2>2. ~(Cum(b) > k)
    BY <1>7, <1>12, <2>1
  <2>3. \A l \in i..n : samples[l] <= x => Bucket(samples[l]) <= b
    <3> TAKE l \in i..n
    <3>0. samples[l] \in Cycles /\ samples[l] \in Int /\ x \in Int
      BY <1>0, <1>c, <1>12
    <3>1. Bucket(samples[l]) \in Int
      BY <1>0, <3>0, BucketIs
    <3>2. b < Bucket(samples[l]) => x < samples[l]
      BY <1>12, <3>0, BucketOrder
    <3> HIDE DEF b, x
    <3> QED BY <1>12, <3>0, <3>1, <3>2
  <2> DEFINE T == NoMore(samples, i, n, x)
  <2>4. T \subseteq UpTo(samples, i, n, b)
    BY <2>3 DEF UpTo, NoMore
  <2>5. IsFiniteSet(UpTo(samples, i, n, b)) /\ Cardinality(T) \in Nat
    BY <1>0, SampleSets DEF UpTo, NoMore
  <2>6. Cardinality(T) <= Cum(b)
    BY <2>4, <2>5, FS_Subset DEF Cum
  <2>7. Cardinality(T) > k
    BY <1>3
  <2>8. Cum(b) \in Nat
    BY <1>5, <1>12
  <2> HIDE DEF T, b
  <2> QED BY <1>2, <2>2, <2>5, <2>6, <2>7, <2>8
<1>14. ~(first < b)
  <2> SUFFICES ASSUME first < b PROVE FALSE
    OBVIOUS
  <2>1. Cum(first) > k
    BY <1>7, <1>9, <1>12
  <2>2. \A l \in i..n : Bucket(samples[l]) <= first => samples[l] < x
    <3> TAKE l \in i..n
    <3>1. samples[l] \in Cycles /\ Bucket(samples[l]) \in Int
      BY <1>0, BucketIs
    <3>2. Bucket(samples[l]) < b => samples[l] < x
      BY <1>12, <3>1, BucketOrder
    <3> HIDE DEF b, x
    <3> QED BY <1>12, <3>1, <3>2
  <2> DEFINE T == Below(samples, i, n, x)
  <2>3. UpTo(samples, i, n, first) \subseteq T
    BY <2>2 DEF UpTo, Below
  <2>4. IsFiniteSet(T) /\ Cardinality(T) \in Nat
    BY <1>0, SampleSets DEF Below
  <2>5. Cum(first) <= Cardinality(T)
    BY <2>3, <2>4, FS_Subset DEF Cum
  <2>6. Cardinality(T) <= k
    BY <1>3
  <2>7. Cum(first) \in Nat
    BY <1>5, <1>12
  <2> HIDE DEF T
  <2> QED BY <1>2, <2>1, <2>4, <2>5, <2>6, <2>7
<1>15. b = first
  BY <1>12, <1>13, <1>14
<1>16. (Power[first] <= x \/ first = 0) /\ x < Power[first + 1]
  BY <1>12, <1>15, BucketIs
<1>17. x \in Nat
  <2>1. PICK q \in Int : q = Power[Width]
    BY HistogramAssumption, PowerIs
  <2> QED BY <1>12, <2>1 DEF Cycles
<1>18. EndsBucketOf(p, x)
  <2>1. /\ first \in 0..Width /\ first + 1 \in 0..Width /\ top \in 0..Width
        /\ Power[first + 1] = 2 * Power[first] /\ Power[0] = 1
    BY <1>0, <1>12, PowerIs DEF Buckets
  <2>2. PICK f \in Nat \ {0} : f = Power[first]
    BY <2>1, PowerIs
  <2>3. PICK t \in Nat \ {0} : t = Power[top]
    BY <2>1, PowerIs
  <2>4. first = 0 => f = 1
    BY <2>1, <2>2
  <2>5. (f <= x \/ f = 1) /\ x < 2 * f
    BY <1>16, <2>1, <2>2, <2>4
  <2> HIDE DEF x, b
  <2>6. CASE first < top
    <3>1. p = 2 * f
      BY <1>10, <2>1, <2>2, <2>6
    <3>2. first + 1 <= top
      BY <1>0, <1>12, <2>6
    <3>3. 2 * f <= t
      BY <2>1, <2>2, <2>3, <3>2, PowerGrows
    <3>4. x < t
      BY <1>17, <2>5, <3>3
    <3>5. x < p /\ p <= 2 * (IF x = 0 THEN 1 ELSE x)
      BY <1>17, <2>5, <3>1
    <3> QED BY <2>3, <3>4, <3>5 DEF EndsBucketOf
  <2>7. CASE ~(first < top)
    <3>1. first = top
      BY <1>0, <1>12, <2>7
    <3>2. p = Power[Width] - 1 /\ (first + 1) = Width
      BY <1>0, <1>10, <2>7, <3>1
    <3>3. p = 2 * f - 1 /\ f = t
      BY <2>1, <2>2, <2>3, <3>1, <3>2
    <3>4. CASE x < t
      <4>1. f = 1 /\ x = 0 /\ p = 1
        BY <1>17, <2>5, <3>3, <3>4
      <4>2. x < p /\ p <= 2 * (IF x = 0 THEN 1 ELSE x)
        BY <4>1
      <4> QED BY <2>3, <3>4, <4>2 DEF EndsBucketOf
    <3>5. CASE ~(x < t)
      BY <2>3, <3>2, <3>5 DEF EndsBucketOf
    <3> QED BY <3>4, <3>5
  <2> QED BY <2>6, <2>7
<1> QED BY <1>4, <1>18 DEF n, p

HistType == [buckets : [Buckets -> Nat], count : Nat, max : Nat]

\* The inductive invariant: the histogram counts all samples and keeps the
\* largest, and the dashboard's copy counts the first of them.
HistInv ==
    /\ samples \in Seq(Cycles) /\ hist \in HistType /\ prevHist \in HistType
    /\ Counts(hist, 1)
    /\ prevHist.count <= Len(samples) /\ Tallies(prevHist, samples, 1, prevHist.count)
    /\ \A j \in 1..Len(samples) : samples[j] <= hist.max
    /\ samples = <<>> => hist.max = 0
    /\ samples # <<>> => \E j \in 1..Len(samples) : samples[j] = hist.max

LEMMA CyclesAre == Cycles \subseteq Nat
<1>1. PICK q \in Int : q = Power[Width]
  BY HistogramAssumption, PowerIs
<1> QED BY <1>1 DEF Cycles

\* One more sample is one more in its bucket.
LEMMA TallyAdd ==
    ASSUME samples \in Seq(Cycles), NEW c \in Cycles, NEW n, n = Len(samples), NEW s, s = Append(samples, c),
           NEW b \in Buckets
    PROVE  Cardinality(InBucket(s, 1, n + 1, b)) =
              Cardinality(InBucket(samples, 1, n, b)) + IF b = Bucket(c) THEN 1 ELSE 0
<1>1. n \in Nat /\ s[n + 1] = c /\ \A j \in 1..n : s[j] = samples[j]
  OBVIOUS
<1>2. \A j : j \in 1..(n + 1) <=> j \in 1..n \/ j = n + 1
  BY <1>1
<1> DEFINE I == InBucket(samples, 1, n, b)
<1>3. I \in SUBSET (1..n) /\ n + 1 \notin 1..n
  BY <1>1 DEF InBucket
<1>4. IsFiniteSet(I) /\ Cardinality(I) \in Nat
  <2>1. 1 \in Nat \ {0}
    OBVIOUS
  <2> HIDE DEF I
  <2> QED BY <1>1, <1>3, <2>1, SampleSets
<1>5. CASE b = Bucket(c)
  <2>1. InBucket(s, 1, n + 1, b) = I \cup {n + 1}
    BY <1>1, <1>2, <1>5 DEF InBucket
  <2>2. n + 1 \notin I
    BY <1>3
  <2> HIDE DEF I
  <2>3. Cardinality(I \cup {n + 1}) = Cardinality(I) + 1
    BY <1>4, <2>2, FS_AddElement
  <2> QED BY <1>5, <2>1, <2>3 DEF I
<1>6. CASE b # Bucket(c)
  <2>1. InBucket(s, 1, n + 1, b) = I
    BY <1>1, <1>2, <1>6 DEF InBucket
  <2>2. Cardinality(I) = Cardinality(I) + 0
    BY <1>4
  <2> QED BY <1>6, <2>1, <2>2
<1> QED BY <1>5, <1>6

LEMMA RecordStep ==
    ASSUME HistInv, NEW c \in Cycles, Record(c)
    PROVE  HistInv'
<1> DEFINE n == Len(samples)
           B == Bucket(c)
           m == IF c > hist.max THEN c ELSE hist.max
           bs == [hist.buckets EXCEPT ![B] = @ + 1]
           s == samples'
<1>1. /\ samples \in Seq(Cycles) /\ s = Append(samples, c) /\ prevHist' = prevHist
      /\ hist' = [buckets |-> bs, count |-> hist.count + 1, max |-> m]
  BY DEF Record, HistInv
<1>2. hist'.buckets = bs /\ hist'.count = hist.count + 1 /\ hist'.max = m
  BY <1>1
<1>3. hist.buckets \in [Buckets -> Nat] /\ hist.count \in Nat /\ hist.max \in Nat
  BY DEF HistInv, HistType
<1>4. B \in Buckets /\ c \in Nat
  BY BucketIs, CyclesAre
<1>5. /\ bs \in [Buckets -> Nat]
      /\ \A b \in Buckets : bs[b] = hist.buckets[b] + IF b = B THEN 1 ELSE 0
  <2>1. hist.buckets[B] + 1 \in Nat
    BY <1>3, <1>4
  <2>2. bs \in [Buckets -> Nat]
    BY <1>3, <1>4, <2>1
  <2>3. \A b \in Buckets : bs[b] = IF b = B THEN hist.buckets[b] + 1 ELSE hist.buckets[b]
    BY <1>3, <1>4
  <2>4. \A b \in Buckets : hist.buckets[b] \in Nat
    BY <1>3
  <2> HIDE DEF bs, B
  <2> QED BY <2>2, <2>3, <2>4
<1>6. m \in Nat /\ hist.max <= m /\ c <= m /\ (m = c \/ m = hist.max)
  BY <1>3, <1>4
<1>7. hist' \in HistType
  BY <1>1, <1>3, <1>5, <1>6 DEF HistType
<1>8. /\ n \in Nat /\ s \in Seq(Cycles) /\ Len(s) = n + 1 /\ s[n + 1] = c
      /\ \A j \in 1..n : s[j] = samples[j] /\ samples[j] \in Cycles
  BY <1>1
<1> HIDE DEF n, B, m, bs
<1>9. Counts(hist, 1)'
  <2>1. hist.count = (n - 1) + 1 /\ Tallies(hist, samples, 1, n)
    BY DEF HistInv, Counts, n
  <2>2. hist'.count = (Len(s) - 1) + 1
    BY <1>2, <1>8, <2>1
  <2>3. \A b \in Buckets : Cardinality(InBucket(s, 1, n + 1, b)) =
              Cardinality(InBucket(samples, 1, n, b)) + IF b = B THEN 1 ELSE 0
    <3>1. PICK t : t = s
      OBVIOUS
    <3>2. t = Append(samples, c)
      BY <1>1, <3>1
    <3>3. \A b \in Buckets : Cardinality(InBucket(t, 1, n + 1, b)) =
              Cardinality(InBucket(samples, 1, n, b)) + IF b = Bucket(c) THEN 1 ELSE 0
      BY <1>1, <3>2, TallyAdd DEF n
    <3> QED BY <3>1, <3>3 DEF B
  <2>4. \A b \in Buckets : bs[b] = Cardinality(InBucket(s, 1, n + 1, b))
    BY <1>5, <2>1, <2>3 DEF Tallies
  <2>5. Tallies(hist', s, 1, Len(s))
    BY <1>2, <1>8, <2>4 DEF Tallies
  <2>6. Counts(hist, 1)' <=> hist'.count = (Len(s) - 1) + 1 /\ Tallies(hist', s, 1, Len(s))
    BY DEF Counts, Tallies
  <2> QED BY <2>2, <2>5, <2>6
<1>10. prevHist'.count <= Len(s) /\ Tallies(prevHist', s, 1, prevHist'.count)
  <2>1. prevHist.count <= n /\ prevHist.count \in Nat
    BY DEF HistInv, HistType, n
  <2>2. \A j \in 1..prevHist.count : s[j] = samples[j]
    BY <1>8, <2>1
  <2>3. \A b : InBucket(s, 1, prevHist.count, b) = InBucket(samples, 1, prevHist.count, b)
    BY <2>2 DEF InBucket
  <2>4. Tallies(prevHist, samples, 1, prevHist.count)
    BY DEF HistInv
  <2>5. Tallies(prevHist, s, 1, prevHist.count)
    BY <2>3, <2>4 DEF Tallies
  <2> QED BY <1>1, <1>8, <2>1, <2>5
<1>11. \A j \in 1..Len(s) : s[j] <= hist'.max
  <2> TAKE j \in 1..Len(s)
  <2>1. CASE j = n + 1
    BY <1>2, <1>6, <1>8, <2>1
  <2>2. CASE j \in 1..n
    <3>1. samples[j] <= hist.max
      BY <2>2 DEF HistInv, n
    <3>2. s[j] = samples[j] /\ samples[j] \in Nat
      BY <1>8, <2>2, CyclesAre
    <3> QED BY <1>2, <1>3, <1>6, <3>1, <3>2
  <2> QED BY <1>8, <2>1, <2>2
<1>12. \E j \in 1..Len(s) : s[j] = hist'.max
  <2>1. CASE m = c
    <3>1. n + 1 \in 1..Len(s)
      BY <1>8
    <3> QED BY <1>2, <1>8, <2>1, <3>1
  <2>2. CASE m # c
    <3>1. m = hist.max /\ c <= hist.max
      BY <1>6, <2>2
    <3>2. CASE samples # <<>>
      <4>1. PICK j \in 1..n : samples[j] = hist.max
        BY <3>2 DEF HistInv, n
      <4>2. j \in 1..Len(s) /\ s[j] = hist'.max
        BY <1>2, <1>8, <3>1, <4>1
      <4> QED BY <4>2
    <3>3. CASE samples = <<>>
      <4>1. hist.max = 0
        BY <3>3 DEF HistInv
      <4> QED BY <1>4, <2>2, <3>1, <4>1
    <3> QED BY <3>2, <3>3
  <2> QED BY <2>1, <2>2
<1>14. s # <<>>
  BY <1>8
<1>13. prevHist' \in HistType
  BY <1>1 DEF HistInv
<1> QED BY <1>7, <1>8, <1>9, <1>10, <1>11, <1>12, <1>13, <1>14 DEF HistInv, Tallies

\* What delta_pct takes percentiles of counts the samples since the copy.
LEMMA DeltaCounts ==
    ASSUME HistInv
    PROVE  Counts(Delta, prevHist.count + 1) /\ prevHist.count + 1 \in 1..(Len(samples) + 1)
<1> DEFINE n == Len(samples)
           p == prevHist.count
<1>1. /\ n \in Nat /\ p \in Nat /\ p <= n /\ hist.count = (n - 1) + 1
      /\ Tallies(hist, samples, 1, n) /\ Tallies(prevHist, samples, 1, p)
  BY DEF HistInv, HistType, Counts
<1>2. /\ Delta.count = hist.count - p
      /\ \A b \in Buckets : Delta.buckets[b] = hist.buckets[b] - prevHist.buckets[b]
  BY DEF Delta
<1> HIDE DEF n, p
<1>3. ASSUME NEW b \in Buckets
      PROVE  Delta.buckets[b] = Cardinality(InBucket(samples, p + 1, n, b))
  <2> DEFINE X == InBucket(samples, 1, p, b)
             Y == InBucket(samples, p + 1, n, b)
             Z == InBucket(samples, 1, n, b)
  <2>1. \A j : j \in 1..n <=> (j \in 1..p \/ j \in (p + 1)..n)
    BY <1>1
  <2>2. \A j : ~(j \in 1..p /\ j \in (p + 1)..n)
    BY <1>1
  <2>3. Z = X \cup Y /\ X \cap Y = {}
    BY <2>1, <2>2 DEF InBucket
  <2>4. X \in SUBSET (1..p) /\ Y \in SUBSET ((p + 1)..n)
    BY DEF InBucket
  <2>5. 1 \in Nat \ {0} /\ p + 1 \in Nat \ {0}
    BY <1>1
  <2>6. hist.buckets[b] = Cardinality(Z) /\ prevHist.buckets[b] = Cardinality(X)
    BY <1>1 DEF Tallies
  <2> HIDE DEF X, Y, Z
  <2>7. IsFiniteSet(X) /\ IsFiniteSet(Y) /\ Cardinality(X) \in Nat /\ Cardinality(Y) \in Nat
    BY <1>1, <2>4, <2>5, SampleSets
  <2>8. Cardinality(Z) = Cardinality(X) + Cardinality(Y) - Cardinality(X \cap Y)
    BY <2>3, <2>7, FS_Union
  <2>9. Cardinality(X \cap Y) = 0
    BY <2>3, FS_EmptySet
  <2>10. Cardinality(Z) - Cardinality(X) = Cardinality(Y)
    BY <2>7, <2>8, <2>9
  <2> QED BY <1>2, <2>6, <2>10 DEF Y
<1>4. Delta.count = (n - (p + 1)) + 1
  BY <1>1, <1>2
<1>5. p + 1 \in 1..(n + 1)
  BY <1>1
<1> QED BY <1>3, <1>4, <1>5 DEF Counts, Tallies, n, p

\* The last percentile of all samples is the largest.
LEMMA HundredthIs ==
    ASSUME HistInv, samples # <<>>
    PROVE  /\ \E j \in DOMAIN samples : samples[j] = PercentileCycles(hist, 1000)
           /\ \A j \in DOMAIN samples : samples[j] <= PercentileCycles(hist, 1000)
<1> DEFINE n == Len(samples)
           hits == {b \in Buckets : Cumulative(hist)[b] > (1000 * hist.count) \div 1000}
<1>1. /\ samples \in Seq(Cycles) /\ n \in Nat \ {0} /\ DOMAIN samples = 1..n
      /\ hist.count = n /\ Tallies(hist, samples, 1, n)
  <2>1. samples \in Seq(Cycles) /\ n \in Nat
    BY DEF HistInv
  <2>2. n # 0 /\ DOMAIN samples = 1..n
    BY <2>1
  <2>3. hist.count = (n - 1) + 1 /\ Tallies(hist, samples, 1, n)
    BY DEF HistInv, Counts
  <2> QED BY <2>1, <2>2, <2>3
<1>2. (1000 * hist.count) \div 1000 = n
  <2>1. PICK m \in Nat : m = n /\ m = hist.count
    BY <1>1
  <2>2. 1000 \in 0..1000
    OBVIOUS
  <2>3. (1000 * m) \div 1000 = m
    BY <2>2, ThresholdIs
  <2> QED BY ONLY <2>1, <2>3
<1> HIDE DEF n
<1>3. hits = {}
  <2> SUFFICES ASSUME NEW b \in Buckets, Cumulative(hist)[b] > n PROVE FALSE
    BY <1>2
  <2>1. \A j \in 1..n : samples[j] \in Cycles
    BY <1>1
  <2>2. PICK s : s = samples
    OBVIOUS
  <2>3. 1 \in Nat \ {0} /\ n \in Nat /\ \A j \in 1..n : s[j] \in Cycles
    BY <1>1, <2>1, <2>2
  <2>4. PICK h : h = hist
    OBVIOUS
  <2>5. Tallies(h, s, 1, n)
    BY <1>1, <2>2, <2>4
  <2>6. \A c \in Buckets : Cumulative(h)[c] = Cardinality(UpTo(s, 1, n, c))
    BY ONLY <2>3, <2>5, CumulativeIs
  <2>7. UpTo(s, 1, n, b) \in SUBSET (1..n)
    BY DEF UpTo
  <2>8. Cardinality(UpTo(s, 1, n, b)) \in Nat
    BY <2>3, <2>7, SampleSets
  <2>9. IsFiniteSet(1..n) /\ Cardinality(1..n) = n
    BY <1>1, FS_Interval
  <2>10. Cardinality(UpTo(s, 1, n, b)) <= n
    BY <2>7, <2>9, FS_Subset
  <2> QED BY <1>1, <2>4, <2>6, <2>8, <2>10
<1> HIDE DEF hits
<1>4. PercentileCycles(hist, 1000) = hist.max
  BY <1>1, <1>3 DEF PercentileCycles, hits
<1> QED BY <1>1, <1>4 DEF HistInv, n

LEMMA HistBrackets ==
    ASSUME HistInv
    PROVE  PercentileBrackets
<1>1. ASSUME NEW pm \in Permille, NEW h, NEW i \in 1..(Len(samples) + 1), Counts(h, i)
      PROVE  LET k == (pm * h.count) \div 1000
             IN  h.count = 0 \/ k = h.count
                   \/ \E j \in i..Len(samples) :
                         Ranked(samples[j], k, i) /\ EndsBucketOf(PercentileCycles(h, pm), samples[j])
  <2>1. pm \in 0..1000 /\ samples \in Seq(Cycles)
    BY HistogramAssumption DEF HistInv
  <2>2. PICK k : k = Threshold(h, pm)
    OBVIOUS
  <2>3. h.count # 0 /\ k # h.count =>
           \E j \in i..Len(samples) :
              Ranked(samples[j], k, i) /\ EndsBucketOf(PercentileCycles(h, pm), samples[j])
    BY <1>1, <2>1, <2>2, PercentileIs
  <2>4. k = (pm * h.count) \div 1000
    BY <2>2 DEF Threshold
  <2> QED BY <2>3, <2>4
<1>2. Counts(hist, 1) /\ 1 \in 1..(Len(samples) + 1)
  <2>1. Len(samples) \in Nat
    BY DEF HistInv
  <2> QED BY <2>1 DEF HistInv
<1>3. Counts(Delta, prevHist.count + 1) /\ prevHist.count + 1 \in 1..(Len(samples) + 1)
  BY DeltaCounts
<1>4. ASSUME NEW pm \in Permille, pm = 1000, samples # <<>>
      PROVE  /\ \E j \in DOMAIN samples : samples[j] = PercentileCycles(hist, pm)
             /\ \A j \in DOMAIN samples : samples[j] <= PercentileCycles(hist, pm)
  BY <1>4, HundredthIs
<1> QED BY <1>1, <1>2, <1>3, <1>4 DEF PercentileBrackets

LEMMA HistInitInv == ASSUME HistInit PROVE HistInv
<1>1. EmptyHist.buckets = [b \in Buckets |-> 0] /\ EmptyHist.count = 0 /\ EmptyHist.max = 0
  BY DEF EmptyHist
<1>2. EmptyHist \in HistType
  BY DEF EmptyHist, HistType
<1>3. samples = <<>> /\ hist = EmptyHist /\ prevHist = EmptyHist
  BY DEF HistInit
<1>4. Len(samples) = 0 /\ samples \in Seq(Cycles)
  BY <1>3
<1>5. Tallies(EmptyHist, samples, 1, 0)
  <2>1. \A b : InBucket(samples, 1, 0, b) = {}
    BY DEF InBucket
  <2>2. Cardinality({}) = 0
    BY FS_EmptySet
  <2> QED BY <1>1, <2>1, <2>2 DEF Tallies
<1> QED BY <1>1, <1>2, <1>3, <1>4, <1>5 DEF HistInv, Counts

\* For any number of buckets, samples and percentiles: a percentile ends the
\* bucket of the sample of its rank, of all samples and, through the difference
\* of two cumulative histograms, of those since the dashboard's last sample.
THEOREM PercentilesSound == HistSpec => []PercentileBrackets
<1>1. HistInit => HistInv
  BY HistInitInv
<1>2. HistInv /\ [HistNext]_histVars => HistInv'
  <2> SUFFICES ASSUME HistInv, [HistNext]_histVars PROVE HistInv'
    OBVIOUS
  <2>1. CASE \E c \in 0..(Power[Width] - 1) : Record(c)
    BY <2>1, RecordStep DEF Cycles
  <2>2. CASE SampleHist
    <3>1. prevHist' = hist /\ hist' = hist /\ samples' = samples
      BY <2>2 DEF SampleHist
    <3>2. hist.count = (Len(samples) - 1) + 1 /\ Tallies(hist, samples, 1, Len(samples))
      BY DEF HistInv, Counts
    <3>3. hist.count = Len(samples) /\ hist.count <= Len(samples)
      <4>1. Len(samples) \in Nat
        BY DEF HistInv
      <4> QED BY <3>2, <4>1
    <3>4. hist'.count <= Len(samples) /\ Tallies(prevHist, samples, 1, prevHist.count)'
      BY <3>1, <3>2, <3>3 DEF Tallies
    <3> QED BY <3>1, <3>3, <3>4 DEF HistInv, Counts, Tallies
  <2>3. CASE UNCHANGED histVars
    <3>1. UNCHANGED <<hist, prevHist, samples>>
      BY <2>3 DEF histVars
    <3> QED BY <3>1 DEF HistInv, Counts, Tallies
  <2> QED BY <2>1, <2>2, <2>3 DEF HistNext
<1>3. HistInv => PercentileBrackets
  BY HistBrackets
<1> QED BY <1>1, <1>2, <1>3, PTL DEF HistSpec
=============================================================================
