------------------------------ MODULE Depacketizer ------------------------------
(***************************************************************************)
(* The streaming reassembler of starfire-core (video.rs, mod reassembly):  *)
(* datagrams in, access units out.  A frame is one to four FEC blocks; a   *)
(* block is whole when any k of its k+m shards are here.  At most          *)
(* WindowFrames frames are assembled at once; `floor` is the newest frame  *)
(* index delivered or given up on; with the keyframe gate on, frames that  *)
(* depend on a lost one are withheld.                                      *)
(*                                                                         *)
(* The bytes of a shard are abstracted to their length and to the frame    *)
(* they were cut from (`src`).  One step is one call of push_at, take_loss *)
(* or require_keyframe, with everything that call does.                    *)
(***************************************************************************)
EXTENDS Integers, Sequences, FiniteSets, SequencesExt

CONSTANTS
  Packet,           \* the datagrams the video socket may hand over
  Source,           \* the frames the host has cut into shards
  KeyFrame,         \* those of them that are IDR frames
  IndexMod,         \* frame indices are computed modulo this (2^32 in the code)
  WindowFrames,     \* frames that may be in flight at once
  RestartDistance,  \* further behind the floor than this: the host restarted
  MaxBlocks,        \* FEC blocks of a frame
  MaxBlockShards,   \* data + parity shards of a protected block
  HeaderLen,        \* bytes of the short-frame header in front of shard 0
  Gate,             \* the keyframe gate is on
  MaxRestarts,      \* BOUND: counter restarts followed in a behaviour
  StatCap,          \* BOUND: where the per-packet statistics stop counting
  None

Index == 0 .. IndexMod - 1
Shard == [slot : Nat, len : Nat, src : Source]
Run   == [first : Index, last : Index]

ASSUME PacketAssumption ==
  /\ Packet \subseteq [index : Index, block : Nat, last : Nat, k : Nat, pct : Nat,
                       slot : Nat, pic : BOOLEAN, len : Nat, src : Source]
  /\ KeyFrame \subseteq Source
ASSUME SizeAssumption ==
  /\ IndexMod \in Nat /\ IndexMod >= 4 /\ IndexMod % 2 = 0
  /\ WindowFrames \in Nat \ {0}
  /\ RestartDistance \in Nat /\ RestartDistance < IndexMod
  /\ MaxBlocks \in Nat \ {0} /\ MaxBlockShards \in Nat /\ HeaderLen \in Nat
  /\ MaxRestarts \in Nat /\ StatCap \in Nat
ASSUME GateAssumption == Gate \in BOOLEAN
ASSUME NoneAssumption == None \notin Index

VARIABLES
  window,       \* frames in flight, oldest first
  floor,        \* newest index delivered or given up on, or None
  awaiting,     \* the gate is closed until a keyframe completes
  pendingLoss,  \* the run of lost frames not yet taken by the caller: a set of at most one
  stats,        \* ReassemblyStats
  lastOut,      \* history: the last access unit handed out since the host's counter (re)started
  restarts      \* history: counter restarts followed so far

vars == <<window, floor, awaiting, pendingLoss, stats, lastOut, restarts>>

-----------------------------------------------------------------------------
(* Wrap-around arithmetic on frame indices. *)

\* Mutant: the index after the last one does not wrap.
WrapIncNoWrap(a) == a + 1

WrapInc(a)    == IF a = IndexMod - 1 THEN 0 ELSE a + 1
WrapDec(a)    == IF a = 0 THEN IndexMod - 1 ELSE a - 1
WrapSub(a, b) == IF a >= b THEN a - b ELSE a - b + IndexMod

Newer(a, b) == a # b /\ WrapSub(a, b) < IndexMod \div 2

Frames(run) == WrapInc(WrapSub(run.last, run.first))

-----------------------------------------------------------------------------
(* FEC blocks and frames in flight. *)

ParityCount(k, pct) == (k * pct + 99) \div 100

EmptyBlock == [k |-> 0, pct |-> 0, held |-> {}]

DataHeld(b) == {h \in b.held : h.slot < b.k}

Complete(b) == b.k # 0 /\ Cardinality(b.held) >= b.k

\* The block's data is all here, or the shards that are here have one length,
\* so that the missing ones can be solved for.
Recoverable(b) ==
  \/ Cardinality(DataHeld(b)) >= b.k
  \/ \A g, h \in b.held : g.len = h.len

\* What the first data shard of a frame is made of: itself when it arrived,
\* every survivor of its block when it had to be rebuilt.
FirstShard(f) ==
  LET held == f.blocks[1].held
      own  == {h \in held : h.slot = 0}
  IN  IF own # {} THEN own ELSE held

HeaderWhole(f) == \A h \in FirstShard(f) : h.len >= HeaderLen

\* The frame type read from shard 0.  Shards of different frames solve to noise.
TypeReads(f, key) ==
  \A s \in Source : {h.src : h \in FirstShard(f)} = {s} => key = (s \in KeyFrame)

Rebuilt(f) ==
  \E b \in DOMAIN f.blocks : Cardinality(DataHeld(f.blocks[b])) < f.blocks[b].k

SourcesOf(f) == UNION {{h.src : h \in f.blocks[b].held} : b \in DOMAIN f.blocks}

-----------------------------------------------------------------------------
(* The receiver as a record, and the methods that transform it. *)

Bump(n) == IF n < StatCap THEN n + 1 ELSE n

Now == [window |-> window, floor |-> floor, awaiting |-> awaiting,
        pending |-> pendingLoss, stats |-> stats]

Become(st) ==
  /\ window' = st.window
  /\ floor' = st.floor
  /\ awaiting' = st.awaiting
  /\ pendingLoss' = st.pending
  /\ stats' = st.stats

\* Mutants: a loss leaves the gate open; a new loss replaces an unread one.
DeclareLostGateOpen(st, first, last) ==
  [st EXCEPT
     !.stats.lost = @ + Frames([first |-> first, last |-> last]),
     !.pending = IF @ = {} THEN {[first |-> first, last |-> last]}
                 ELSE {[first |-> r.first, last |-> last] : r \in @}]
DeclareLostReplace(st, first, last) ==
  [st EXCEPT
     !.stats.lost = @ + Frames([first |-> first, last |-> last]),
     !.pending = {[first |-> first, last |-> last]},
     !.awaiting = @ \/ Gate]

DeclareLost(st, first, last) ==
  [st EXCEPT
     !.stats.lost = @ + Frames([first |-> first, last |-> last]),
     !.pending = IF @ = {} THEN {[first |-> first, last |-> last]}
                 ELSE {[first |-> r.first, last |-> last] : r \in @},
     !.awaiting = @ \/ Gate]

GiveUpThrough(st, index) ==
  [DeclareLost(st, IF st.floor = None THEN index ELSE WrapInc(st.floor), index)
     EXCEPT !.floor = index]

\* Mutant: a restart keeps the window.
RestartedKeepsWindow(st) == [st EXCEPT !.floor = None, !.awaiting = Gate]

Restarted(st) ==
  [st EXCEPT !.window = <<>>, !.floor = None, !.awaiting = Gate]

\* slot_for, for a frame that has no slot yet.
MakeRoom(st) ==
  IF Len(st.window) < WindowFrames THEN st
  ELSE GiveUpThrough([st EXCEPT !.window = Tail(@)], Head(st.window).index)

\* Mutant: a new frame always goes to the end of the window.
InsertAtEnd(st, p) ==
  [st EXCEPT !.window =
     Append(@, [index |-> p.index, blocks |-> [b \in 1 .. p.last + 1 |-> EmptyBlock]])]

Insert(st, p) ==
  LET newerAt == SelectInSeq(st.window, LAMBDA f : Newer(f.index, p.index))
      at      == IF newerAt = 0 THEN Len(st.window) + 1 ELSE newerAt
      frame   == [index |-> p.index, blocks |-> [b \in 1 .. p.last + 1 |-> EmptyBlock]]
  IN  [st EXCEPT !.window = InsertAt(@, at, frame)]

\* Mutant: the run of lost frames starts at the floor instead of after it.
RetireFromFloor(st, pos) ==
  LET index  == st.window[pos].index
      rest   == RemoveAt(st.window, pos)
      keepAt == SelectInSeq(rest, LAMBDA f : ~Newer(index, f.index))
      keep   == IF keepAt = 0 THEN Len(rest) + 1 ELSE keepAt
      first  == IF st.floor # None THEN st.floor
                ELSE IF keep > 1 THEN rest[1].index ELSE index
      told   == IF first = index THEN st ELSE DeclareLost(st, first, WrapDec(index))
  IN  [told EXCEPT !.window = SubSeq(rest, keep, Len(rest)), !.floor = index]

\* finish, up to the point where the frame is rebuilt: everything older than
\* the frame at `pos` is lost, and the floor moves to it.
Retire(st, pos) ==
  LET index  == st.window[pos].index
      rest   == RemoveAt(st.window, pos)
      keepAt == SelectInSeq(rest, LAMBDA f : ~Newer(index, f.index))
      keep   == IF keepAt = 0 THEN Len(rest) + 1 ELSE keepAt
      first  == IF st.floor # None THEN WrapInc(st.floor)
                ELSE IF keep > 1 THEN rest[1].index ELSE index
      told   == IF first = index THEN st ELSE DeclareLost(st, first, WrapDec(index))
  IN  [told EXCEPT !.window = SubSeq(rest, keep, Len(rest)), !.floor = index]

-----------------------------------------------------------------------------
(* What push_at asks of a datagram. *)

Picture(p) == p.k # 0 /\ (p.slot >= p.k \/ p.pic)

WellFormed(p) ==
  LET m == ParityCount(p.k, p.pct)
  IN  /\ p.slot < p.k + m
      /\ m = 0 \/ p.k + m <= MaxBlockShards
      /\ p.block <= p.last
      /\ p.last < MaxBlocks

Behind(p)       == floor # None /\ ~Newer(p.index, floor)
HostRestart(p)  == Behind(p) /\ WrapSub(floor, p.index) > RestartDistance
Late(p)         == Behind(p) /\ ~HostRestart(p)

Entry(p) == IF HostRestart(p) THEN Restarted(Now) ELSE Now

Position(st, p) == SelectInSeq(st.window, LAMBDA f : f.index = p.index)

\* Older than everything in a full window.
Stale(st, p) ==
  /\ Position(st, p) = 0
  /\ Len(st.window) >= WindowFrames
  /\ ~Newer(p.index, Head(st.window).index)

Opened(p) ==
  LET st == Entry(p)
  IN  IF Position(st, p) # 0 THEN st ELSE Insert(MakeRoom(st), p)

\* The frame's geometry as its earlier packets stated it.
Agrees(f, p) ==
  /\ Len(f.blocks) = p.last + 1
  /\ LET b == f.blocks[p.block + 1]
     IN  b.k = 0 \/ (b.k = p.k /\ b.pct = p.pct)

Holds(f, p) == \E h \in f.blocks[p.block + 1].held : h.slot = p.slot

Fill(b, p) ==
  [k |-> p.k, pct |-> p.pct,
   held |-> b.held \cup {[slot |-> p.slot, len |-> p.len, src |-> p.src]}]

\* The state once the shard is stored in its frame.
Filled(p) ==
  LET st  == Opened(p)
      pos == Position(st, p)
  IN  [st EXCEPT !.window[pos].blocks[p.block + 1] = Fill(@, p),
                 !.stats.packets = Bump(@)]

\* slot_for found or made the frame, and the shard is new to it.
Accepts(p) ==
  /\ Picture(p) /\ WellFormed(p) /\ ~Late(p)
  /\ HostRestart(p) => restarts < MaxRestarts
  /\ ~Stale(Entry(p), p)
  /\ LET st == Opened(p)
         f  == st.window[Position(st, p)]
     IN  Agrees(f, p) /\ ~Holds(f, p)

FilledFrame(p) == LET st == Filled(p) IN st.window[Position(st, p)]

Whole(f) == \A b \in DOMAIN f.blocks : Complete(f.blocks[b])

Finished(p) == LET st == Filled(p) IN Retire(st, Position(st, p))

\* History, advanced by every push that gets as far as the window.
Restarting(p) ==
  /\ restarts' = IF HostRestart(p) THEN restarts + 1 ELSE restarts
  /\ lastOut' = IF HostRestart(p) THEN {} ELSE lastOut

-----------------------------------------------------------------------------
(* push_at, one action per way it can end. *)

Count(field) == stats' = [stats EXCEPT ![field] = Bump(@)]
UnchangedButStats == UNCHANGED <<window, floor, awaiting, pendingLoss, lastOut, restarts>>

PushMalformed(p) ==
  /\ Picture(p) /\ ~WellFormed(p)
  /\ Count("malformed") /\ UnchangedButStats

PushLate(p) ==
  /\ Picture(p) /\ WellFormed(p) /\ Late(p)
  /\ Count("late") /\ UnchangedButStats

PushStale(p) ==
  /\ Picture(p) /\ WellFormed(p) /\ ~Behind(p) /\ Stale(Now, p)
  /\ Count("late") /\ UnchangedButStats

PushMismatch(p) ==
  /\ Picture(p) /\ WellFormed(p) /\ ~Behind(p) /\ Position(Now, p) # 0
  /\ ~Agrees(window[Position(Now, p)], p)
  /\ Count("malformed") /\ UnchangedButStats

PushDuplicate(p) ==
  /\ Picture(p) /\ WellFormed(p) /\ ~Behind(p) /\ Position(Now, p) # 0
  /\ Agrees(window[Position(Now, p)], p) /\ Holds(window[Position(Now, p)], p)
  /\ Count("duplicate") /\ UnchangedButStats

\* Mutant: whether the frame is whole is asked only when a data shard arrives.
PushShardDataOnly(p) ==
  /\ Accepts(p) /\ ~(p.slot < p.k /\ Whole(FilledFrame(p)))
  /\ Become(Filled(p))
  /\ Restarting(p)

PushShard(p) ==
  /\ Accepts(p) /\ ~Whole(FilledFrame(p))
  /\ Become(Filled(p))
  /\ Restarting(p)

\* Mutant: a frame that cannot be rebuilt is dropped without being declared lost.
FinishUnrecoverableSilent(p) ==
  /\ Accepts(p) /\ Whole(FilledFrame(p))
  /\ \E b \in DOMAIN FilledFrame(p).blocks : ~Recoverable(FilledFrame(p).blocks[b])
  /\ Become(Finished(p))
  /\ Restarting(p)

\* Whole, but a lost data shard cannot be solved for: survivors differ in length.
FinishUnrecoverable(p) ==
  /\ Accepts(p) /\ Whole(FilledFrame(p))
  /\ \E b \in DOMAIN FilledFrame(p).blocks : ~Recoverable(FilledFrame(p).blocks[b])
  /\ Become(DeclareLost(Finished(p), p.index, p.index))
  /\ Restarting(p)

\* A frame that can be assembled.
Assembles(f) == \A b \in DOMAIN f.blocks : Recoverable(f.blocks[b])

\* Whole, but shard 0 is too short to hold the short-frame header.
FinishRunt(p) ==
  /\ Accepts(p) /\ Whole(FilledFrame(p)) /\ Assembles(FilledFrame(p))
  /\ ~HeaderWhole(FilledFrame(p))
  /\ LET st == Finished(p)
     IN  Become(DeclareLost([st EXCEPT !.stats.malformed = Bump(@)], p.index, p.index))
  /\ Restarting(p)

\* An access unit came together; the gate lets it out, or withholds it.
FinishSkip(p) ==
  /\ Accepts(p) /\ Whole(FilledFrame(p)) /\ Assembles(FilledFrame(p))
  /\ HeaderWhole(FilledFrame(p))
  /\ TypeReads(FilledFrame(p), FALSE)
  /\ Finished(p).awaiting
  /\ LET st == Finished(p)
     IN  Become([st EXCEPT !.stats.skipped = @ + 1])
  /\ Restarting(p)

Emit(p, key) ==
  /\ Accepts(p) /\ Whole(FilledFrame(p)) /\ Assembles(FilledFrame(p))
  /\ HeaderWhole(FilledFrame(p))
  /\ TypeReads(FilledFrame(p), key)
  /\ Finished(p).awaiting => key
  /\ LET st == Finished(p)
     IN  Become([st EXCEPT !.awaiting = FALSE,
                           !.stats.delivered = @ + 1,
                           !.stats.recovered = IF Rebuilt(FilledFrame(p)) THEN Bump(@) ELSE @])
  /\ lastOut' = {[index |-> p.index, key |-> key, from |-> SourcesOf(FilledFrame(p))]}
  /\ restarts' = IF HostRestart(p) THEN restarts + 1 ELSE restarts

FinishKey(p)       == Emit(p, TRUE)
FinishPredicted(p) == Emit(p, FALSE)

Push(p) ==
  \/ PushMalformed(p)
  \/ PushLate(p)
  \/ PushStale(p)
  \/ PushMismatch(p)
  \/ PushDuplicate(p)
  \/ PushShard(p)
  \/ FinishUnrecoverable(p)
  \/ FinishRunt(p)
  \/ FinishSkip(p)
  \/ FinishKey(p)
  \/ FinishPredicted(p)

TakeLoss ==
  /\ pendingLoss # {}
  /\ pendingLoss' = {}
  /\ UNCHANGED <<window, floor, awaiting, stats, lastOut, restarts>>

\* The decoder lost its references.
RequireKeyframe ==
  /\ Gate /\ ~awaiting
  /\ awaiting' = TRUE
  /\ UNCHANGED <<window, floor, pendingLoss, stats, lastOut, restarts>>

NoStats == [packets |-> 0, delivered |-> 0, recovered |-> 0, lost |-> 0,
            skipped |-> 0, late |-> 0, duplicate |-> 0, malformed |-> 0]

Init ==
  /\ window = <<>>
  /\ floor = None
  /\ awaiting = Gate
  /\ pendingLoss = {}
  /\ stats = NoStats
  /\ lastOut = {}
  /\ restarts = 0

Next ==
  \/ \E p \in Packet : Push(p)
  \/ TakeLoss
  \/ RequireKeyframe

Spec == Init /\ [][Next]_vars

-----------------------------------------------------------------------------
(* Properties. *)

Block   == [k : Nat, pct : Nat, held : SUBSET Shard]
Partial == [index : Index, blocks : Seq(Block)]
Stats   == [packets : Nat, delivered : Nat, recovered : Nat, lost : Nat,
            skipped : Nat, late : Nat, duplicate : Nat, malformed : Nat]
Unit    == [index : Index, key : BOOLEAN, from : SUBSET Source]

\* The types of the receiver's fields (struct Depacketizer).
TypeOK ==
  /\ window \in Seq(Partial)
  /\ floor \in Index \cup {None}
  /\ awaiting \in BOOLEAN
  /\ pendingLoss \in SUBSET Run
  /\ stats \in Stats
  /\ lastOut \in SUBSET Unit
  /\ restarts \in Nat

\* With the gate on, a predicted frame is handed out only if the frame right
\* before it was handed out last: the decoder holds its reference, whatever was
\* lost, reordered, repeated, evicted or restarted (video.rs, Depacketizer's
\* "never handed a frame whose reference is missing").
GateSound ==
  [][ Gate /\ stats'.delivered # stats.delivered
      => \A au \in lastOut' :
           au.key \/ \E prev \in lastOut : au.index = WrapInc(prev.index) ]_vars

\* What makes the gate sound from one call to the next: while it is open, the
\* floor is the frame handed out last, so nothing was lost since.
GateOpenMeansUnbroken ==
  Gate /\ ~awaiting => \E au \in lastOut : floor = au.index

\* Every index the floor passes is counted exactly once, as delivered, skipped
\* or lost; and nothing is counted while the floor stands (ReassemblyStats,
\* "All counts are exact").
SettledCount == stats.delivered + stats.skipped + stats.lost
CountedOnce ==
  [][ floor # None /\ restarts' = restarts
      => SettledCount' - SettledCount = WrapSub(floor', floor) ]_vars

\* Everything still in the window is ahead of the floor, in order, without
\* repetition, and no more than WindowFrames frames are held: no frame is
\* assembled twice and nothing is delivered behind the floor.
WindowAhead ==
  /\ Len(window) <= WindowFrames
  /\ \A i \in DOMAIN window : floor # None => Newer(window[i].index, floor)
  /\ \A i, j \in DOMAIN window : i < j => Newer(window[j].index, window[i].index)

\* A frame leaves the window by the very packet that makes it whole: nothing
\* decodable waits there for a packet that may never come (push_at, "the moment
\* a frame is recoverable").
NothingWholeWaits == \A i \in DOMAIN window : ~Whole(window[i])

\* A push that loses frames reports the run of exactly those frames, ending no later
\* than the floor; until the host restarts its counter, an unread report is extended: it
\* keeps its first frame and covers the frames lost since (take_loss, LossEvent;
\* declare_lost, "Merge with an unread event").
NewLossReported ==
  pendingLoss = {} =>
    /\ (pendingLoss' = {}) <=> (stats'.lost = stats.lost)
    /\ \A run \in pendingLoss' :
         /\ Frames(run) = stats'.lost - stats.lost
         /\ run.last = floor' \/ run.last = WrapDec(floor')
UnreadLossExtended ==
  pendingLoss # {} /\ pendingLoss' # {} /\ restarts' = 0 =>
    \A run \in pendingLoss, now \in pendingLoss' :
      /\ now.first = run.first
      /\ Frames(now) - Frames(run) >= stats'.lost - stats.lost
LossReported == [][NewLossReported /\ UnreadLossExtended]_vars

\* With the gate on, the reassembler is a GatedStream: the floor is its head, an
\* open gate its unbroken chain.
Promise == INSTANCE GatedStream
  WITH head <- floor, chain <- ~awaiting,
       given <- {[index |-> au.index, key |-> au.key] : au \in lastOut}
KeepsPromise == Promise!GSpec
=============================================================================
