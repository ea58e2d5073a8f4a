----------------------------- MODULE Histogram -----------------------------
(***************************************************************************)
(* common::Histogram (common/histogram.hpp): a latency histogram with one  *)
(* bucket per power of two, of which the logs read percentiles; and the    *)
(* dashboard's delta_pct (trading_panels.cpp), which reads percentiles of  *)
(* what was recorded since its last sample from the difference of two      *)
(* histograms.  Width stands for the 64 buckets and the 64-bit cycles.     *)
(***************************************************************************)
EXTENDS Integers, Sequences, FiniteSets

CONSTANTS
    Width,        \* buckets, and bits of a cycle count
    Permille,     \* percentiles read, in thousandths
    MaxSamples    \* bound: samples recorded

ASSUME HistogramAssumption ==
    Width \in Nat \ {0} /\ Permille \subseteq 0..1000 /\ MaxSamples \in Nat

VARIABLES
    hist,         \* the histogram: buckets, count, max_cycles
    prevHist,     \* the dashboard's copy of its last sample
    samples       \* history: what was recorded

histVars == <<hist, prevHist, samples>>

Buckets == 0..(Width - 1)
EmptyHist == [buckets |-> [b \in Buckets |-> 0], count |-> 0, max |-> 0]

HistInit == hist = EmptyHist /\ prevHist = EmptyHist /\ samples = <<>>

\* 1 << b.
Power[b \in 0..Width] == IF b = 0 THEN 1 ELSE 2 * Power[b - 1]

\* The bucket of a sample: its highest bit, and bucket 0 for no cycles at all.
Bucket(c) == CHOOSE b \in Buckets : (Power[b] <= c \/ b = 0) /\ c < Power[b + 1]

Record(c) ==
    /\ Len(samples) < MaxSamples
    /\ samples' = Append(samples, c)
    /\ hist' = [buckets |-> [hist.buckets EXCEPT ![Bucket(c)] = @ + 1],
                count |-> hist.count + 1,
                max |-> IF c > hist.max THEN c ELSE hist.max]
    /\ UNCHANGED prevHist

\* TradingPanels::update, at the end of a sampling period.
SampleHist ==
    /\ prevHist' = hist
    /\ UNCHANGED <<hist, samples>>

HistNext == SampleHist \/ \E c \in 0..(Power[Width] - 1) : Record(c)

HistSpec == HistInit /\ [][HistNext]_histVars

-----------------------------------------------------------------------------
\* The samples of h in buckets 0 .. b.
Cumulative(h) ==
    LET cum[b \in Buckets] == h.buckets[b] + IF b = 0 THEN 0 ELSE cum[b - 1] IN cum

\* Mutant: the scan stops at a bucket that only reaches the threshold.
PercentileReached(h, pm) ==
    LET threshold == (pm * h.count) \div 1000
        hits == {b \in Buckets : Cumulative(h)[b] >= threshold}
        first == CHOOSE b \in hits : \A c \in hits : b <= c
    IN  IF h.count = 0 THEN 0
        ELSE IF hits = {} THEN h.max
        ELSE IF first < Width - 1 THEN Power[first + 1] ELSE Power[Width] - 1

\* percentile_cycles(pm / 1000): the end of the first bucket with which more
\* than the threshold have been seen, the largest sample if there is none.
PercentileCycles(h, pm) ==
    LET threshold == (pm * h.count) \div 1000
        hits == {b \in Buckets : Cumulative(h)[b] > threshold}
        first == CHOOSE b \in hits : \A c \in hits : b <= c
    IN  IF h.count = 0 THEN 0
        ELSE IF hits = {} THEN h.max
        ELSE IF first < Width - 1 THEN Power[first + 1] ELSE Power[Width] - 1

\* The difference delta_pct takes percentiles of; its max_cycles stays 0.
Delta ==
    [buckets |-> [b \in Buckets |-> hist.buckets[b] - prevHist.buckets[b]],
     count |-> hist.count - prevHist.count, max |-> 0]

-----------------------------------------------------------------------------
(* Properties.                                                             *)

\* Of the samples from the i-th on, x has at most k below it and more than k
\* up to it.
Ranked(x, k, i) ==
    /\ Cardinality({j \in i..Len(samples) : samples[j] < x}) <= k
    /\ Cardinality({j \in i..Len(samples) : samples[j] <= x}) > k

\* p is the end of the bucket of a sample x: above it and at most twice it, but
\* for the top bucket, whose end does not fit in the type.
EndsBucketOf(p, x) ==
    IF x < Power[Width - 1] THEN x < p /\ p <= 2 * (IF x = 0 THEN 1 ELSE x)
                         ELSE p = Power[Width] - 1

\* A percentile ends the bucket that holds the sample of its rank, of all the
\* samples recorded or of those since the dashboard's last sample; the 100th
\* percentile of all, which only the former is asked for, is the maximum.
PercentileBrackets ==
    \A pm \in Permille :
        LET Brackets(h, i) ==
              LET k == (pm * h.count) \div 1000
              IN  h.count = 0 \/ k = h.count
                    \/ \E j \in i..Len(samples) :
                          /\ Ranked(samples[j], k, i)
                          /\ EndsBucketOf(PercentileCycles(h, pm), samples[j])
        IN  /\ Brackets(hist, 1)
            /\ Brackets(Delta, prevHist.count + 1)
            /\ (pm = 1000 /\ samples # <<>>) =>
                 /\ \E j \in DOMAIN samples : samples[j] = PercentileCycles(hist, pm)
                 /\ \A j \in DOMAIN samples : samples[j] <= PercentileCycles(hist, pm)
=============================================================================
