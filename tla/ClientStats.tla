------------------------------ MODULE ClientStats ------------------------------
(***************************************************************************)
(* What the client measures of itself (starfire-client lib.rs, StatsState, *)
(* and what the pipeline thread and the embedder do with it), with the     *)
(* app's Reporter (main.rs), which resets the measurements and reads them  *)
(* at the end of a benchmark.  Both threads lock StatsState for one step   *)
(* at a time.  A series is its count and its sum (LatencySeries has the    *)
(* rest); one cumulative counter stands for all of reassembly and the      *)
(* sockets.                                                                *)
(***************************************************************************)
EXTENDS AudioPath, FiniteSets

CONSTANTS
  SubmittedLimit,   \* submissions remembered (8)
  RecentLimit,      \* RECENT_FRAMES
  MaxClock,         \* BOUND: ticks of the clock
  MaxEvents,        \* BOUND: frames, losses and datagrams from the session
  MaxWindows        \* BOUND: resets

ASSUME StatsAssumption ==
  SubmittedLimit \in Nat \ {0} /\ RecentLimit \in Nat \ {0}
  /\ MaxClock \in Nat /\ MaxEvents \in Nat /\ MaxWindows \in Nat

VARIABLES
  clock,
  frames,      \* frames that came from the depacketizer
  stage,       \* where the pipeline thread is with the newest: "wait", "receive", "complete",
               \* "decode", "publish"
  meta,        \* the frame on its way: [pts, first, complete]
  submitted,   \* those handed to the decoder: [pts, first, complete, at]
  output,      \* what the decoder gave: [pts, source, decoded, published]
  slot,        \* the pts of the frame in `latest`, in a set of at most one
  lost,        \* the cumulative counter
  st,          \* StatsState
  reporter,    \* "idle", "warmup", "measuring" or "done"
  windows,     \* resets so far (history)
  atReset,     \* `lost` at the last reset (history)
  refreshed    \* `lost` at the last refresh since, in a set of at most one (history)

pipeVars  == <<frames, stage, meta, submitted, output, slot>>
truthVars == <<windows, atReset, refreshed>>
statsVars == <<audioVars, clock, pipeVars, lost, st, reporter, truthVars>>

Series == {"receive", "queue", "decode", "pipeline", "present", "total", "interval", "host"}
Empty  == [count |-> 0, sum |-> 0]

NoMeta  == [pts |-> 0, first |-> 0, complete |-> 0]
NoOutput == [pts |-> 0, source |-> {}, decoded |-> 0, published |-> 0]
LostStamp == -1

\* StatsState::new.
NewStats ==
  [decoded |-> 0, errors |-> 0, lag |-> [late \in 0 .. 3 |-> 0], lost |-> 0, base |-> 0,
   audioDropped |-> 0, series |-> [s \in Series |-> Empty], lastPublish |-> {}, recent |-> <<>>]

\* record_span: a series with one more sample.
With(series, s, span) ==
  [series EXCEPT ![s] = [count |-> @.count + 1, sum |-> @.sum + (IF span > 0 THEN span ELSE 0)]]

\* Mutant: the counters start from zero, not from where they are.
ResetForgetsLost == [NewStats EXCEPT !.base = st.lost]

\* StatsState::reset: codec, size and round trip, which are no measurements, are kept too.
AfterReset == [NewStats EXCEPT !.lost = st.lost, !.base = st.lost]

\* snapshot().
ShownLost == st.lost - st.base

-----------------------------------------------------------------------------
(* The session's events. *)

Room == frames + lost + datagrams < MaxEvents

FirstPacket ==
  /\ stage = "wait" /\ Room
  /\ frames' = frames + 1 /\ stage' = "receive"
  /\ meta' = [pts |-> frames + 1, first |-> clock, complete |-> clock]
  /\ UNCHANGED <<audioVars, clock, submitted, output, slot, lost, st, reporter, truthVars>>

LastPacket ==
  /\ stage = "receive" /\ stage' = "complete"
  /\ meta' = [meta EXCEPT !.complete = clock]
  /\ UNCHANGED <<audioVars, clock, frames, submitted, output, slot, lost, st, reporter, truthVars>>

FrameLost ==
  /\ stage = "wait" /\ Room
  /\ lost' = lost + 1
  /\ UNCHANGED <<audioVars, clock, pipeVars, st, reporter, truthVars>>

AudioDatagram ==
  /\ stage = "wait" /\ Room
  /\ Offer
  /\ UNCHANGED <<clock, pipeVars, lost, st, reporter, truthVars>>

\* decode() hands the access unit to the decoder.
Submit ==
  /\ stage = "complete" /\ stage' = "decode"
  /\ submitted' = Append(IF Len(submitted) >= SubmittedLimit THEN Tail(submitted) ELSE submitted,
                         [pts |-> meta.pts, first |-> meta.first, complete |-> meta.complete, at |-> clock])
  /\ UNCHANGED <<audioVars, clock, frames, meta, output, slot, lost, st, reporter, truthVars>>

\* push() fails, or returns no frame.
NothingOut ==
  /\ stage = "decode" /\ stage' = "wait"
  /\ \/ /\ submitted' = Front(submitted)
        /\ st' = [st EXCEPT !.errors = @ + 1]
     \/ UNCHANGED <<submitted, st>>
  /\ UNCHANGED <<audioVars, clock, frames, meta, output, slot, lost, reporter, truthVars>>

\* The submissions that are left once those before pts are given up.
NotBefore(pts) ==
  LET i == SelectInSeq(submitted, LAMBDA s : s.pts >= pts)
  IN  IF i = 0 THEN <<>> ELSE SubSeq(submitted, i, Len(submitted))

\* push() returns the frame of a submission, with its stamp or without; submissions
\* before it are given up; the frame goes to the slot.
FrameOut(pts) ==
  /\ stage = "decode" /\ stage' = "publish"
  /\ LET rest  == NotBefore(pts)
         found == rest # <<>> /\ Head(rest).pts = pts
     IN  /\ submitted' = IF found THEN Tail(rest) ELSE rest
         /\ output' = [pts |-> pts, source |-> IF found THEN {Head(rest)} ELSE {},
                       decoded |-> clock, published |-> clock]
  /\ slot' = {pts}
  /\ UNCHANGED <<audioVars, clock, frames, meta, lost, st, reporter, truthVars>>

Lag == IF frames - output.pts > 3 THEN 3 ELSE frames - output.pts

Counted(counter, k) == [counter EXCEPT ![k] = @ + 1]

\* The timeline of a frame whose submission was found.
Timeline(series, src) ==
  LET a == With(series, "host", 0)
      b == With(a, "decode", output.decoded - src.at)
      c == With(b, "receive", src.complete - src.first)
      d == With(c, "queue", src.at - src.complete)
  IN  With(d, "pipeline", output.published - src.first)

Remembered(recent, entry) ==
  Append(IF Len(recent) >= RecentLimit THEN Tail(recent) ELSE recent, entry)

\* decode() locks the stats, after the frame is in the slot.
RecordFrame ==
  /\ stage = "publish" /\ stage' = "wait"
  /\ LET paced == IF st.lastPublish = {} THEN st.series
                  ELSE With(st.series, "interval", output.published - (CHOOSE t \in st.lastPublish : TRUE))
         base  == [st EXCEPT !.decoded = @ + 1,
                             !.lag = IF output.pts >= 0 THEN Counted(@, Lag) ELSE @,
                             !.lastPublish = {output.published}, !.series = paced]
     IN  IF output.source = {} THEN st' = base
         ELSE \E src \in output.source :
                st' = [base EXCEPT !.series = Timeline(paced, src),
                                   !.recent = Remembered(@, [pts |-> output.pts, first |-> src.first,
                                                             published |-> output.published])]
  /\ UNCHANGED <<audioVars, clock, frames, meta, submitted, output, slot, lost, reporter, truthVars>>

\* Every 500 ms, between two events: the snapshot's cumulative counters.
Refresh ==
  /\ stage = "wait" /\ <<st.lost, st.audioDropped>> # <<lost, refused>>
  /\ st' = [st EXCEPT !.lost = lost, !.audioDropped = refused]
  /\ refreshed' = {lost}
  /\ UNCHANGED <<audioVars, clock, pipeVars, lost, reporter, windows, atReset>>

-----------------------------------------------------------------------------
(* The embedder's thread. *)

\* A frame that was drawn: what is remembered from position i on is kept.
Drawn(i, kept) ==
  [st EXCEPT !.series = With(With(@, "present", clock - st.recent[i].published),
                             "total", clock - st.recent[i].first),
             !.recent = SubSeq(@, kept, Len(@))]

\* Mutant: a frame that was presented is remembered.
PresentedTwice(pts) ==
  LET i == SelectInSeq(st.recent, LAMBDA r : r.pts = pts)
  IN  IF i = 0 THEN st ELSE Drawn(i, i)

\* frame_presented: the frame leaves `recent` with all older ones, which are those before
\* it (TimelineAdds).
Presented(pts) ==
  LET i == SelectInSeq(st.recent, LAMBDA r : r.pts = pts)
  IN  IF i = 0 THEN st ELSE Drawn(i, i + 1)

\* RedrawRequested: the slot's frame is drawn, again if no new one has come.
Redraw ==
  /\ \E pts \in slot : st' = Presented(pts)
  /\ UNCHANGED <<audioVars, clock, pipeVars, lost, reporter, truthVars>>

ResetStats ==
  /\ windows < MaxWindows /\ windows' = windows + 1
  /\ st' = AfterReset
  /\ atReset' = lost /\ refreshed' = {}

\* Reporter::tick: the first decoded frame starts the warm-up; after it the measurements
\* are reset; after the window the report is read.
TickReporter ==
  /\ \/ /\ reporter = "idle" /\ st.decoded > 0
        /\ reporter' = "warmup" /\ UNCHANGED <<st, truthVars>>
     \/ reporter = "warmup" /\ reporter' = "measuring" /\ ResetStats
     \/ reporter = "measuring" /\ reporter' = "done" /\ UNCHANGED <<st, truthVars>>
  /\ UNCHANGED <<audioVars, clock, pipeVars, lost>>

\* reset_stats by any embedder.
EmbedderResets ==
  /\ ResetStats
  /\ UNCHANGED <<audioVars, clock, pipeVars, lost, reporter>>

Tick ==
  /\ clock < MaxClock /\ clock' = clock + 1
  /\ UNCHANGED <<audioVars, pipeVars, lost, st, reporter, truthVars>>

-----------------------------------------------------------------------------
StatsInit ==
  /\ AudioInit
  /\ clock = 0 /\ frames = 0 /\ stage = "wait" /\ meta = NoMeta /\ submitted = <<>>
  /\ output = NoOutput /\ slot = {} /\ lost = 0 /\ st = NewStats
  /\ reporter = "idle" /\ windows = 0 /\ atReset = 0 /\ refreshed = {}

Stats == <<clock, pipeVars, lost, st, reporter, truthVars>>

StatsNext ==
  \/ FirstPacket \/ LastPacket \/ FrameLost \/ AudioDatagram \/ Submit \/ NothingOut
  \/ \E pts \in {s.pts : s \in Range(submitted)} \cup {LostStamp} : FrameOut(pts)
  \/ RecordFrame \/ Refresh \/ Redraw \/ TickReporter \/ EmbedderResets \/ Tick
  \/ Listening /\ UNCHANGED Stats

StatsSpec == StatsInit /\ [][StatsNext]_statsVars

-----------------------------------------------------------------------------
(* Properties. *)

Count(s) == st.series[s].count
Sum(s)   == st.series[s].sum

\* The stages of the timeline add up (ClientStats, "The client timeline for one frame"):
\* in every window, receive, queue and decode are within pipeline, what total has beyond
\* present is within pipeline, and a frame is presented once, however often it is drawn
\* and wherever a reset falls; what is remembered for that is in the order of the frames.
TimelineAdds ==
  /\ Count("receive") = Count("pipeline") /\ Count("queue") = Count("pipeline")
  /\ Count("decode") = Count("pipeline") /\ Count("pipeline") <= st.decoded
  /\ Sum("receive") + Sum("queue") + Sum("decode") <= Sum("pipeline")
  /\ Count("present") = Count("total") /\ Count("present") + Len(st.recent) <= Count("pipeline")
  /\ Sum("total") - Sum("present") \in 0 .. Sum("pipeline")
  /\ \A i, j \in DOMAIN st.recent : i < j => st.recent[i].pts < st.recent[j].pts

\* The counters of a window are those of the window: never below zero, never what the
\* counter has not counted since the last refresh before the reset, and at a refresh
\* nothing that was counted since the reset is missing (StatsState, "Counter baselines
\* taken at the last reset (the sources are cumulative)").
CountersOfWindow ==
  /\ ShownLost \in 0 .. lost - st.base
  /\ \A r \in refreshed : ShownLost >= r - atReset
=============================================================================
