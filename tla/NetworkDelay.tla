------------------------------ MODULE NetworkDelay ------------------------------
(***************************************************************************)
(* What becomes of a frame's network delay (client lib.rs,                 *)
(* Pipeline::decode): the tracker's answer is recorded in the series       *)
(* ClientStats reports as `transit`, unless the decoder fails on the       *)
(* frame; a reset starts the series anew and leaves the tracker alone.     *)
(***************************************************************************)
EXTENDS TransitTracker, LatencySeries

CONSTANTS
  MaxRecorded,   \* BOUND: delays recorded between two resets
  MaxResets      \* BOUND: measurement windows begun after the first

VARIABLES
  series,      \* StatsState::transit
  recorded,    \* the delays recorded since the last reset (history)
  resets       \* how many there were (history)

delayVars == <<vars, series, recorded, resets>>

\* decode(): observe, and record what it returned when push() gave a frame or none.
Decode ==
  /\ Len(recorded) < MaxRecorded
  /\ FirstFrame \/ Frame
  /\ \/ /\ series' = Record(series, delay')
        /\ recorded' = Append(recorded, delay')
     \/ UNCHANGED <<series, recorded>>
  /\ UNCHANGED resets

\* Client::reset_stats.
Reset ==
  /\ resets < MaxResets /\ resets' = resets + 1
  /\ series' = NewSeries /\ recorded' = <<>>
  /\ UNCHANGED vars

DelayInit == Init /\ series = NewSeries /\ recorded = <<>> /\ resets = 0
DelayNext == Decode \/ Reset
DelaySpec == DelayInit /\ [][DelayNext]_delayVars

-----------------------------------------------------------------------------
(* The summary of a series, from the samples themselves. *)

Samples == [i \in DOMAIN recorded |-> Saturated(recorded[i])]

\* Those the percentiles are of: "the last `cap` samples".
Latest(n) == SubSeq(Samples, Len(Samples) - n + 1, Len(Samples))
Windowed == Latest(Min({Cap, Len(Samples)}))

\* x has rank i among the samples of v.
HasRank(v, i, x) ==
  /\ Cardinality({j \in DOMAIN v : v[j] < x}) <= i
  /\ Cardinality({j \in DOMAIN v : v[j] <= x}) > i

\* The numbers the client reports are those of the samples (LatencySeries): percentiles
\* of the last ones, whatever the selections leave in which order, and count, mean and
\* extremes of all since the reset.
SummaryIsReal ==
  /\ series.count = Len(recorded)
  /\ series.count > 0 =>
       /\ \A p \in Summaries(series) : \A k \in 1 .. 3 :
            HasRank(Windowed, RankOf(Ranks[k], Len(Windowed)), p[k])
       /\ series.least = Min(Range(Samples)) /\ series.most = Max(Range(Samples))
       /\ series.sum = FoldLeft(LAMBDA a, b : a + b, 0, Samples)
=============================================================================
