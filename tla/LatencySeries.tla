----------------------------- MODULE LatencySeries -----------------------------
(***************************************************************************)
(* A series of latency samples (starfire-protocol metrics.rs,              *)
(* LatencySeries): a ring with the last ones, and the count, sum and       *)
(* extremes of all of them.  Its summary finds three order statistics by   *)
(* selecting, each within what the one before left below its rank; a       *)
(* selection may leave the samples in any order that its contract allows.  *)
(***************************************************************************)
EXTENDS Integers, Sequences, FiniteSetsExt, SequencesExt

CONSTANTS
  Cap,        \* samples the ring holds (4096)
  Longest,    \* the longest sample that is told from longer ones (u32::MAX)
  Ranks       \* the three percentages, ascending (50, 95, 99)

ASSUME SeriesAssumption ==
  /\ Cap \in Nat \ {0} /\ Longest \in Nat
  /\ Ranks \in Seq(0 .. 100) /\ Len(Ranks) = 3 /\ Ranks[1] <= Ranks[2] /\ Ranks[2] <= Ranks[3]

NewSeries ==
  [window |-> <<>>, next |-> 0, count |-> 0, sum |-> 0, least |-> Longest, most |-> 0]

Saturated(sample) == IF sample < Longest THEN sample ELSE Longest

\* Mutant: the ring overwrites its last place only.
RecordAtEnd(s, sample) ==
  LET us == Saturated(sample)
  IN  [s EXCEPT !.window = IF Len(@) < Cap THEN Append(@, us) ELSE [@ EXCEPT ![Cap] = us],
                !.count = @ + 1, !.sum = @ + us,
                !.least = IF us < @ THEN us ELSE @, !.most = IF us > @ THEN us ELSE @]

\* record, record_us.
Record(s, sample) ==
  LET us == Saturated(sample)
  IN  [s EXCEPT !.window = IF Len(@) < Cap THEN Append(@, us) ELSE [@ EXCEPT ![s.next + 1] = us],
                !.next = (@ + 1) % Cap,
                !.count = @ + 1, !.sum = @ + us,
                !.least = IF us < @ THEN us ELSE @, !.most = IF us > @ THEN us ELSE @]

-----------------------------------------------------------------------------
(* The summary. *)

\* The rank of a percentage among n samples: (n - 1) * p, to the nearest.
RankOf(p, n) == LET r == ((n - 1) * p * 2 + 100) \div 200 IN IF r < n - 1 THEN r ELSE n - 1

\* What select_nth_unstable(i) may make of v: nothing left of place i is more than what
\* is there, and nothing right of it is less.
Selected(v, i) ==
  {w \in {[j \in DOMAIN v |-> v[q[j]]] : q \in {q \in [DOMAIN v -> DOMAIN v] : IsInjective(q)}} :
     \A j \in DOMAIN v : (j <= i => w[j] <= w[i + 1]) /\ (j > i => w[j] >= w[i + 1])}

\* What a selection at rank i within the places left of `end` may leave.
SelectedLeftOf(v, end, i) ==
  {w \o SubSeq(v, end + 1, Len(v)) : w \in Selected(SubSeq(v, 1, end), i)}

\* The percentiles summary() may return for a series with samples.
Summaries(s) ==
  LET n   == Len(s.window)
      i50 == RankOf(Ranks[1], n)
      i95 == RankOf(Ranks[2], n)
      i99 == RankOf(Ranks[3], n)
  IN  UNION {UNION {{<<u[i50 + 1], v[i95 + 1], w[i99 + 1]>> :
             u \in IF i50 = i95 THEN {v} ELSE SelectedLeftOf(v, i95, i50)} :
             v \in IF i95 = i99 THEN {w} ELSE SelectedLeftOf(w, i99, i95)} :
             w \in Selected(s.window, i99)}
=============================================================================
