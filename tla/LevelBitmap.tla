---------------------------- MODULE LevelBitmap ----------------------------
(***************************************************************************)
(* core::equity::OccupancyBitmap (core/level_bitmap.hpp): the radix tree   *)
(* of bits that lets the order book hop from one occupied price level to   *)
(* the next.  Tier 1 has one bit per level; a bit of tier t + 1 summarises *)
(* one word (Radix bits) of tier t; the top tier is a single word.         *)
(* OrderBook.tla takes the bitmap for a set with a minimum above and a     *)
(* maximum below an index; here is why it may.                             *)
(***************************************************************************)
EXTENDS Integers, FiniteSetsExt

CONSTANTS
    NBits,  \* levels (1048576 in the code)
    Radix,  \* bits per word (64 in the code)
    Tiers   \* tiers of the tree; its recursion ends where one word is enough

\* Bits of tier t: each tier has one bit per word, rounded up, of the one below.
TierSize[t \in 1..Tiers] ==
    IF t = 1 THEN NBits ELSE (TierSize[t - 1] + Radix - 1) \div Radix

ASSUME BitmapAssumption ==
    /\ NBits \in Nat \ {0} /\ Radix \in Nat \ {0, 1} /\ Tiers \in Nat \ {0}
    /\ TierSize[Tiers] <= Radix
    /\ \A t \in 1..(Tiers - 1) : TierSize[t] > Radix

VARIABLE bits  \* per tier, the indices of the bits that are set

NPOS == -1  \* BITMAP_NPOS

WordOf(i) == i \div Radix

\* The set bits of word w of a tier.
BitsOf(S, w) == {j \in S : WordOf(j) = w}

\* The bit that stands for level i in tier t.
BitOf(i) == LET b[t \in 1..Tiers] == IF t = 1 THEN i ELSE WordOf(b[t - 1]) IN b

BitmapInit ==
    bits = [t \in 1..Tiers |-> {}]

\* Mutant: only the first summary tier is told.
SetLazy(i) ==
    bits' = [t \in 1..Tiers |->
               IF t <= 2 THEN bits[t] \cup {BitOf(i)[t]} ELSE bits[t]]

\* set(i): the bit, and its word's bit in every tier above.
Set(i) ==
    bits' = [t \in 1..Tiers |-> bits[t] \cup {BitOf(i)[t]}]

\* clear(i): the bit, and upwards as long as the word it was in is drained.
Clear(i) ==
    bits' = LET after[t \in 1..Tiers] ==
                  IF t = 1 \/ BitsOf(after[t - 1], BitOf(i)[t]) = {}
                  THEN bits[t] \ {BitOf(i)[t]}
                  ELSE bits[t]
            IN  after

BitmapNext == \E i \in 0..(NBits - 1) : Set(i) \/ Clear(i)

BitmapSpec == BitmapInit /\ [][BitmapNext]_bits

-----------------------------------------------------------------------------
(* The searches.                                                           *)

\* Mutant: the search of the summary starts at the word it has just left.
NextSetHere(i) ==
    LET next[t \in 1..Tiers] == [k \in 0..NBits |->
          LET w == WordOf(k)
              m == {j \in BitsOf(bits[t], w) : j >= k}
              up == IF t = Tiers THEN NPOS ELSE next[t + 1][w]
          IN  IF k >= TierSize[t] THEN NPOS
              ELSE IF m # {} THEN Min(m)
              ELSE IF up = NPOS \/ BitsOf(bits[t], up) = {} THEN NPOS
              ELSE Min(BitsOf(bits[t], up))]
    IN  next[1][i]

\* next_set(i): in i's own word at or above i, else the lowest bit of the next
\* word the summary says is not empty.
NextSet(i) ==
    LET next[t \in 1..Tiers] == [k \in 0..NBits |->
          LET w == WordOf(k)
              m == {j \in BitsOf(bits[t], w) : j >= k}
              up == IF t = Tiers THEN NPOS ELSE next[t + 1][w + 1]
          IN  IF w >= (TierSize[t] + Radix - 1) \div Radix THEN NPOS
              ELSE IF m # {} THEN Min(m)
              ELSE IF up = NPOS THEN NPOS
              ELSE Min(BitsOf(bits[t], up))]
    IN  next[1][i]

\* prev_set(i): the mirror image.
PrevSet(i) ==
    LET prev[t \in 1..Tiers] == [k \in 0..NBits |->
          LET w == WordOf(k)
              m == {j \in BitsOf(bits[t], w) : j <= k}
              up == IF t = Tiers \/ w = 0 THEN NPOS ELSE prev[t + 1][w - 1]
          IN  IF m # {} THEN Max(m)
              ELSE IF up = NPOS THEN NPOS
              ELSE Max(BitsOf(bits[t], up))]
    IN  prev[1][i]

-----------------------------------------------------------------------------
(* Properties.                                                             *)

\* The structure's own invariant, which the searches lean on to descend into a
\* non-empty word: a summary bit is set if and only if its word is not empty.
SummaryExact ==
    \A t \in 1..(Tiers - 1) : \A w \in 0..(TierSize[t + 1] - 1) :
        w \in bits[t + 1] <=> BitsOf(bits[t], w) # {}

\* next_set and prev_set find the nearest occupied level at or beyond any
\* index, one past the last included, or NPOS when there is none.
NearestFound ==
    \A i \in 0..NBits :
        LET above == {j \in bits[1] : j >= i}
            below == {j \in bits[1] : j <= i}
        IN  /\ NextSet(i) = IF above = {} THEN NPOS ELSE Min(above)
            /\ i < NBits => PrevSet(i) = IF below = {} THEN NPOS ELSE Max(below)

\* The bitmap is the set of occupied levels the book takes it for: SummaryExact
\* and NearestFound.
BitmapFindsLevels == SummaryExact /\ NearestFound
=============================================================================
