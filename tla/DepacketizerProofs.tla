--------------------------- MODULE DepacketizerProofs ---------------------------
(***************************************************************************)
(* Proofs about Depacketizer, for every set of datagrams and every value   *)
(* of its constants. First the types, and that an open gate means an       *)
(* unbroken chain of references, from which GateSound follows. Then, while *)
(* the indices of a session span less than half of the ring (OneSpan), the *)
(* order of the window, the accounts, the loss reports, and that the       *)
(* reassembler implements GatedStream. Last, about VideoStream: that what  *)
(* is handed out are frames of the host, each after its reference.         *)
(***************************************************************************)
EXTENDS VideoStream, DataLemmas

State == [window : Seq(Partial), floor : Index \cup {None}, awaiting : BOOLEAN,
          pending : SUBSET Run, stats : Stats]

-----------------------------------------------------------------------------
(* Arithmetic and counters. *)

\* Index arithmetic stays among the indices; a run has a length.
LEMMA WrapType ==
  ASSUME NEW a \in Index, NEW b \in Index
  PROVE  /\ WrapInc(a) \in Index /\ WrapDec(a) \in Index /\ WrapSub(a, b) \in Index
         /\ Frames([first |-> a, last |-> b]) \in Nat
PROOF
<1>1. IndexMod \in Nat /\ IndexMod >= 4
  BY SizeAssumption
<1>2. \A x, y \in Index : WrapInc(x) \in Index /\ WrapDec(x) \in Index /\ WrapSub(x, y) \in Index
  BY <1>1 DEF Index, WrapInc, WrapDec, WrapSub
<1>3. Frames([first |-> a, last |-> b]) = WrapInc(WrapSub(b, a))
  BY DEF Frames
<1>4. \A x \in Index : x \in Nat
  BY <1>1 DEF Index
<1>. QED
  BY <1>2, <1>3, <1>4

LEMMA BumpType ==
  ASSUME NEW n \in Nat
  PROVE  Bump(n) \in Nat
BY SizeAssumption DEF Bump

-----------------------------------------------------------------------------
(* The methods keep the receiver's types, and close the gate when they lose. *)

LEMMA DeclareLostFacts ==
  ASSUME NEW st \in State, NEW first \in Index, NEW last \in Index
  PROVE  /\ DeclareLost(st, first, last) \in State
         /\ DeclareLost(st, first, last).window = st.window
         /\ DeclareLost(st, first, last).floor = st.floor
         /\ DeclareLost(st, first, last).stats.delivered = st.stats.delivered
         /\ Gate => DeclareLost(st, first, last).awaiting
PROOF
<1>. DEFINE run == [first |-> first, last |-> last]
            pend == IF st.pending = {} THEN {run}
                    ELSE {[first |-> r.first, last |-> last] : r \in st.pending}
            sts == [st.stats EXCEPT !.lost = @ + Frames(run)]
<1>1. pend \in SUBSET Run
  BY DEF State, Run
<1>2. sts \in Stats /\ sts.delivered = st.stats.delivered
  <2>1. Frames(run) \in Nat
    BY WrapType
  <2>2. st.stats \in Stats
    BY DEF State
  <2>. QED
    BY <2>1, <2>2 DEF Stats
<1>3. (st.awaiting \/ Gate) \in BOOLEAN
  BY GateAssumption DEF State
<1>4. DeclareLost(st, first, last) =
        [st EXCEPT !.stats = sts, !.pending = pend, !.awaiting = @ \/ Gate]
  BY DEF DeclareLost
<1>. HIDE DEF pend, sts
<1>. QED
  BY <1>1, <1>2, <1>3, <1>4 DEF State

LEMMA GiveUpFacts ==
  ASSUME NEW st \in State, NEW index \in Index
  PROVE  /\ GiveUpThrough(st, index) \in State
         /\ GiveUpThrough(st, index).window = st.window
         /\ GiveUpThrough(st, index).stats.delivered = st.stats.delivered
         /\ Gate => GiveUpThrough(st, index).awaiting
PROOF
<1>. DEFINE first == IF st.floor = None THEN index ELSE WrapInc(st.floor)
            told == DeclareLost(st, first, index)
<1>1. first \in Index
  BY WrapType, st.floor \in Index \cup {None} DEF State
<1>. HIDE DEF first
<1>2. /\ told \in State /\ told.window = st.window /\ (Gate => told.awaiting)
      /\ told.stats.delivered = st.stats.delivered
  BY <1>1, DeclareLostFacts
<1>3. GiveUpThrough(st, index) = [told EXCEPT !.floor = index]
  BY DEF GiveUpThrough, first
<1>. HIDE DEF told
<1>. QED
  BY <1>2, <1>3 DEF State

-----------------------------------------------------------------------------
(* Finding and making the packet's frame. *)

LEMMA PositionFacts ==
  ASSUME NEW st, st.window \in Seq(Partial), NEW p
  PROVE  /\ Position(st, p) \in 0 .. Len(st.window)
         /\ Position(st, p) # 0 => st.window[Position(st, p)].index = p.index
         /\ (\E i \in 1 .. Len(st.window) : st.window[i].index = p.index)
              => Position(st, p) # 0
PROOF
<1>. DEFINE n == Len(st.window)
            I == {i \in 1 .. n : st.window[i].index = p.index}
<1>1. n \in Nat
  BY LenProperties
<1>2. Position(st, p) = IF I # {} THEN Min(I) ELSE 0
  BY DEF Position, SelectInSeq
<1>3. I # {} => Min(I) \in I
  BY <1>1, LeastPosition, I \in SUBSET (1 .. n)
<1>. QED
  BY <1>1, <1>2, <1>3

\* A new frame lands in the window, and nothing else of the state changes.
LEMMA InsertFacts ==
  ASSUME NEW st \in State, NEW p \in Packet
  PROVE  /\ Insert(st, p) \in State
         /\ Insert(st, p).floor = st.floor
         /\ Insert(st, p).awaiting = st.awaiting
         /\ Insert(st, p).stats = st.stats
         /\ \E i \in 1 .. Len(Insert(st, p).window) :
              Insert(st, p).window[i].index = p.index
PROOF
<1>. DEFINE w == st.window
            I == {i \in 1 .. Len(w) : Newer(w[i].index, p.index)}
            newerAt == SelectInSeq(w, LAMBDA f : Newer(f.index, p.index))
            at == IF newerAt = 0 THEN Len(w) + 1 ELSE newerAt
            frame == [index |-> p.index, blocks |-> [b \in 1 .. p.last + 1 |-> EmptyBlock]]
            ww == InsertAt(w, at, frame)
<1>1. w \in Seq(Partial) /\ Len(w) \in Nat
  BY LenProperties DEF State
<1>2. newerAt = IF I # {} THEN Min(I) ELSE 0
  BY DEF SelectInSeq
<1>3. I # {} => Min(I) \in I
  BY <1>1, LeastPosition, I \in SUBSET (1 .. Len(w))
<1>4. at \in 1 .. Len(w) + 1
  BY <1>1, <1>2, <1>3
<1>5. frame \in Partial
  <2>1. p.index \in Index /\ p.last \in Nat
    BY PacketAssumption
  <2>2. EmptyBlock \in Block
    BY DEF EmptyBlock, Block
  <2>3. [b \in 1 .. p.last + 1 |-> EmptyBlock] \in Seq(Block)
    BY <2>1, <2>2
  <2>. QED
    BY <2>1, <2>3 DEF Partial
<1>6. frame.index = p.index
  OBVIOUS
<1>7. Insert(st, p) = [st EXCEPT !.window = ww]
  BY DEF Insert
<1>. HIDE DEF w, at, frame
<1>8. ww \in Seq(Partial) /\ Len(ww) = Len(w) + 1 /\ ww[at] = frame
  BY <1>1, <1>4, <1>5, InsertAtFacts
<1>. HIDE DEF ww
<1>9. Insert(st, p) \in State /\ Insert(st, p).window = ww
      /\ Insert(st, p).floor = st.floor /\ Insert(st, p).awaiting = st.awaiting
      /\ Insert(st, p).stats = st.stats
  BY <1>7, <1>8 DEF State
<1>. QED
  BY <1>4, <1>6, <1>8, <1>9

\* A state with the gate still open has lost nothing since `old`.
Unbroken(st, old) ==
  /\ Gate /\ ~st.awaiting => ~old.awaiting /\ st.floor = old.floor
  /\ st.stats.delivered = old.stats.delivered

LEMMA MakeRoomFacts ==
  ASSUME NEW st \in State
  PROVE  MakeRoom(st) \in State /\ Unbroken(MakeRoom(st), st)
PROOF
<1>. DEFINE w == st.window
            cut == [st EXCEPT !.window = Tail(@)]
<1>1. w \in Seq(Partial) /\ Len(w) \in Nat
  BY LenProperties DEF State
<1>2. CASE Len(w) < WindowFrames
  BY <1>2 DEF MakeRoom, Unbroken
<1>3. CASE ~(Len(w) < WindowFrames)
  <2>1. w # <<>>
    BY <1>1, <1>3, SizeAssumption
  <2>2. Head(w) \in Partial /\ Tail(w) \in Seq(Partial)
    BY <1>1, <2>1, HeadTailProperties
  <2>3. Head(w).index \in Index
    BY <2>2 DEF Partial
  <2>4. cut \in State /\ cut.stats = st.stats
    BY <2>2 DEF State
  <2>5. MakeRoom(st) = GiveUpThrough(cut, Head(w).index)
    BY <1>3 DEF MakeRoom
  <2>. DEFINE at == Head(w).index
  <2>. HIDE DEF cut, at
  <2>6. /\ GiveUpThrough(cut, at) \in State
        /\ GiveUpThrough(cut, at).stats.delivered = cut.stats.delivered
        /\ Gate => GiveUpThrough(cut, at).awaiting
    BY <2>3, <2>4, GiveUpFacts DEF at
  <2>7. MakeRoom(st) = GiveUpThrough(cut, at)
    BY <2>5 DEF cut, at
  <2>. QED
    BY <2>4, <2>6, <2>7 DEF Unbroken
<1>. QED
  BY <1>2, <1>3

LEMMA NowType ==
  ASSUME TypeOK
  PROVE  /\ Now \in State /\ Now.window = window /\ Now.floor = floor
         /\ Now.awaiting = awaiting /\ Now.pending = pendingLoss /\ Now.stats = stats
BY DEF TypeOK, Now, State

\* The same of a state reached within the push of p; a counter restart closes
\* the gate.
StillOpen(st, p) ==
  /\ Gate /\ ~st.awaiting => ~awaiting /\ st.floor = floor /\ ~HostRestart(p)
  /\ st.stats.delivered = stats.delivered

LEMMA EntryFacts ==
  ASSUME TypeOK, NEW p \in Packet
  PROVE  Entry(p) \in State /\ StillOpen(Entry(p), p)
PROOF
<1>1. Now \in State
  BY NowType
<1>2. CASE HostRestart(p)
  <2>1. Entry(p) = [Now EXCEPT !.window = <<>>, !.floor = None, !.awaiting = Gate]
    BY <1>2 DEF Entry, Restarted
  <2>2. <<>> \in Seq(Partial)
    BY EmptySeq
  <2>. HIDE DEF Now
  <2>3. Entry(p) \in State /\ Entry(p).awaiting = Gate /\ Entry(p).stats = Now.stats
    BY <1>1, <2>1, <2>2, GateAssumption DEF State
  <2>. QED
    BY <2>3, NowType DEF StillOpen
<1>3. CASE ~HostRestart(p)
  BY <1>1, <1>3, NowType DEF Entry, StillOpen
<1>. QED
  BY <1>2, <1>3

\* The packet's frame is in the window once slot_for returns.
LEMMA OpenedFacts ==
  ASSUME TypeOK, NEW p \in Packet
  PROVE  /\ Opened(p) \in State /\ StillOpen(Opened(p), p)
         /\ Position(Opened(p), p) \in 1 .. Len(Opened(p).window)
         /\ Opened(p).window[Position(Opened(p), p)].index = p.index
PROOF
<1>. DEFINE st == Entry(p)
            room == MakeRoom(st)
<1>1. st \in State /\ StillOpen(st, p)
  BY EntryFacts
<1>. HIDE DEF st
<1>2. room \in State /\ Unbroken(room, st)
  BY <1>1, MakeRoomFacts
<1>. HIDE DEF room
<1>3. Opened(p) \in State /\ StillOpen(Opened(p), p) /\ Position(Opened(p), p) # 0
  <2>1. CASE Position(st, p) # 0
    BY <1>1, <2>1 DEF Opened, st
  <2>2. CASE Position(st, p) = 0
    <3>1. Opened(p) = Insert(room, p)
      BY <2>2 DEF Opened, st, room
    <3>2. /\ Insert(room, p) \in State
          /\ Insert(room, p).floor = room.floor
          /\ Insert(room, p).awaiting = room.awaiting
          /\ Insert(room, p).stats = room.stats
          /\ \E i \in 1 .. Len(Insert(room, p).window) :
               Insert(room, p).window[i].index = p.index
      BY <1>2, InsertFacts
    <3>3. Position(Insert(room, p), p) # 0
      <4>. DEFINE ins == Insert(room, p)
      <4>1. ins.window \in Seq(Partial)
        BY <3>2 DEF State
      <4>. QED
        BY <4>1, <3>2, PositionFacts
    <3>. QED
      BY <1>1, <1>2, <3>1, <3>2, <3>3 DEF Unbroken, StillOpen
  <2>. QED
    BY <2>1, <2>2
<1>4. Opened(p).window \in Seq(Partial) /\ Len(Opened(p).window) \in Nat
  BY <1>3, LenProperties DEF State
<1>. HIDE DEF Opened
<1>5. /\ Position(Opened(p), p) \in 0 .. Len(Opened(p).window)
      /\ Position(Opened(p), p) # 0 => Opened(p).window[Position(Opened(p), p)].index = p.index
  BY <1>4, PositionFacts
<1>. QED
  BY <1>3, <1>4, <1>5

-----------------------------------------------------------------------------
(* Storing the shard, and retiring a frame that became whole. *)

LEMMA FilledFacts ==
  ASSUME TypeOK, NEW p \in Packet, Accepts(p)
  PROVE  /\ Filled(p) \in State /\ StillOpen(Filled(p), p)
         /\ Position(Filled(p), p) \in 1 .. Len(Filled(p).window)
         /\ Filled(p).window[Position(Filled(p), p)].index = p.index
PROOF
<1>. DEFINE st == Opened(p)
            pos == Position(st, p)
            f == st.window[pos]
            b == f.blocks[p.block + 1]
            ff == [f EXCEPT !.blocks = [@ EXCEPT ![p.block + 1] = Fill(b, p)]]
            ww == [st.window EXCEPT ![pos] = ff]
            sts == [st.stats EXCEPT !.packets = Bump(@)]
<1>1. /\ st \in State /\ StillOpen(st, p)
      /\ pos \in 1 .. Len(st.window)
      /\ f.index = p.index
  BY OpenedFacts
<1>2. /\ p.index \in Index /\ p.block \in Nat /\ p.last \in Nat /\ p.k \in Nat
      /\ p.pct \in Nat /\ p.slot \in Nat /\ p.len \in Nat /\ p.src \in Source
  BY PacketAssumption
<1>3. Len(f.blocks) = p.last + 1 /\ p.block <= p.last
  BY DEF Accepts, Agrees, WellFormed
<1>4. Filled(p) = [st EXCEPT !.window = ww, !.stats = sts]
  BY DEF Filled
<1>. HIDE DEF st, pos
<1>5. f \in Partial /\ f.blocks \in Seq(Block)
  <2>1. st.window \in Seq(Partial)
    BY <1>1 DEF State
  <2>2. f \in Partial
    BY <1>1, <2>1, ElementOfSeq
  <2>. QED
    BY <2>2 DEF Partial
<1>. HIDE DEF f
<1>6. b \in Block
  BY <1>2, <1>3, <1>5, ElementOfSeq
<1>7. Fill(b, p) \in Block
  BY <1>2, <1>6 DEF Fill, Block, Shard
<1>8. ff \in Partial /\ ff.index = p.index
  <2>. HIDE DEF b
  <2>1. [f.blocks EXCEPT ![p.block + 1] = Fill(b, p)] \in Seq(Block)
    BY <1>2, <1>3, <1>5, <1>7, ExceptSeq
  <2>. QED
    BY <1>1, <1>5, <2>1 DEF Partial, f
<1>. HIDE DEF ff
<1>9. /\ ww \in Seq(Partial) /\ Len(ww) = Len(st.window) /\ ww[pos] = ff
  BY <1>1, <1>8, ExceptSeq DEF State
<1>. HIDE DEF ww
<1>10. sts \in Stats /\ sts.delivered = st.stats.delivered
  <2>1. st.stats \in Stats
    BY <1>1 DEF State
  <2>2. Bump(st.stats.packets) \in Nat
    BY <2>1, BumpType DEF Stats
  <2>. QED
    BY <2>1, <2>2 DEF Stats
<1>. HIDE DEF sts
<1>11. /\ Filled(p) \in State /\ Filled(p).window = ww
       /\ Filled(p).floor = st.floor /\ Filled(p).awaiting = st.awaiting
       /\ Filled(p).stats = sts
  BY <1>1, <1>4, <1>9, <1>10 DEF State
<1>. HIDE DEF Filled
<1>12. \E i \in 1 .. Len(Filled(p).window) : Filled(p).window[i].index = p.index
  BY <1>1, <1>8, <1>9, <1>11
<1>13. /\ Position(Filled(p), p) \in 0 .. Len(Filled(p).window)
       /\ Position(Filled(p), p) # 0
       /\ Filled(p).window[Position(Filled(p), p)].index = p.index
  <2>1. Filled(p).window \in Seq(Partial)
    BY <1>9, <1>11
  <2>. QED
    BY <2>1, <1>12, PositionFacts
<1>14. Len(Filled(p).window) \in Nat
  BY <1>11, LenProperties DEF State
<1>. QED
  BY <1>1, <1>10, <1>11, <1>13, <1>14 DEF StillOpen

LEMMA RetireFacts ==
  ASSUME NEW st \in State, NEW pos \in 1 .. Len(st.window)
  PROVE  /\ Retire(st, pos) \in State
         /\ Retire(st, pos).floor = st.window[pos].index
         /\ Retire(st, pos).stats.delivered = st.stats.delivered
         /\ Gate /\ ~Retire(st, pos).awaiting
              => /\ ~st.awaiting
                 /\ st.floor # None => st.window[pos].index = WrapInc(st.floor)
PROOF
<1>. DEFINE w == st.window
            index == w[pos].index
            rest == RemoveAt(w, pos)
            keepAt == SelectInSeq(rest, LAMBDA f : ~Newer(index, f.index))
            I == {i \in 1 .. Len(rest) : ~Newer(index, rest[i].index)}
            keep == IF keepAt = 0 THEN Len(rest) + 1 ELSE keepAt
            first == IF st.floor # None THEN WrapInc(st.floor)
                     ELSE IF keep > 1 THEN rest[1].index ELSE index
            told == IF first = index THEN st ELSE DeclareLost(st, first, WrapDec(index))
            ww == SubSeq(rest, keep, Len(rest))
<1>1. w \in Seq(Partial) /\ Len(w) \in Nat
  BY LenProperties DEF State
<1>2. index \in Index
  <2>1. w[pos] \in Partial
    BY <1>1, ElementOfSeq
  <2>. QED
    BY <2>1 DEF Partial
<1>3. rest \in Seq(Partial) /\ Len(rest) \in Nat
  <2>1. rest \in Seq(Partial)
    BY <1>1, RemoveAtFacts
  <2>. QED
    BY <2>1, LenProperties
<1>4. keepAt = IF I # {} THEN Min(I) ELSE 0
  BY DEF SelectInSeq
<1>5. Retire(st, pos) = [told EXCEPT !.window = ww, !.floor = index]
  BY DEF Retire
<1>. HIDE DEF w, rest, keepAt
<1>6. I # {} => Min(I) \in I
  BY <1>3, LeastPosition, I \in SUBSET (1 .. Len(rest))
<1>7. keep \in 1 .. Len(rest) + 1
  BY <1>3, <1>4, <1>6
<1>. HIDE DEF I, keep
<1>8. ww \in Seq(Partial)
  BY <1>3, <1>7, SubSeqProperties, ElementOfSeq
<1>9. first \in Index
  <2>1. CASE st.floor # None
    BY <2>1, WrapType DEF State
  <2>2. CASE st.floor = None /\ keep > 1
    <3>1. 1 \in 1 .. Len(rest)
      BY <1>3, <1>7, <2>2
    <3>2. rest[1] \in Partial
      BY <1>3, <3>1, ElementOfSeq
    <3>. QED
      BY <2>2, <3>2 DEF Partial
  <2>3. CASE st.floor = None /\ ~(keep > 1)
    BY <1>2, <2>3
  <2>. QED
    BY <2>1, <2>2, <2>3
<1>10. /\ told \in State /\ (Gate /\ ~told.awaiting => ~st.awaiting /\ first = index)
       /\ told.stats.delivered = st.stats.delivered
  <2>1. CASE first = index
    BY <2>1
  <2>2. CASE first # index
    <3>1. told = DeclareLost(st, first, WrapDec(index))
      BY <2>2
    <3>2. WrapDec(index) \in Index
      BY <1>2, WrapType
    <3>. QED
      BY <1>9, <3>1, <3>2, DeclareLostFacts
  <2>. QED
    BY <2>1, <2>2
<1>11. st.floor # None => first = WrapInc(st.floor)
  OBVIOUS
<1>. HIDE DEF told, first, ww
<1>12. /\ Retire(st, pos) \in State /\ Retire(st, pos).floor = index
       /\ Retire(st, pos).awaiting = told.awaiting
       /\ Retire(st, pos).stats = told.stats
  <2>. HIDE DEF index
  <2>. QED
    BY <1>2, <1>5, <1>8, <1>10 DEF State
<1>. QED
  BY <1>10, <1>11, <1>12 DEF w

LEMMA FinishedFacts ==
  ASSUME TypeOK, NEW p \in Packet, Accepts(p)
  PROVE  /\ Finished(p) \in State
         /\ Finished(p).floor = p.index
         /\ Finished(p).stats.delivered = stats.delivered
         /\ Gate /\ ~Finished(p).awaiting
              => ~awaiting /\ ~HostRestart(p) /\ (floor # None => p.index = WrapInc(floor))
PROOF
<1>. DEFINE st == Filled(p)
            pos == Position(st, p)
<1>1. /\ st \in State /\ StillOpen(st, p)
      /\ pos \in 1 .. Len(st.window) /\ st.window[pos].index = p.index
  BY FilledFacts
<1>2. Finished(p) = Retire(st, pos)
  BY DEF Finished
<1>. HIDE DEF st, pos
<1>3. /\ Retire(st, pos) \in State
      /\ Retire(st, pos).floor = st.window[pos].index
      /\ Retire(st, pos).stats.delivered = st.stats.delivered
      /\ Gate /\ ~Retire(st, pos).awaiting
           => /\ ~st.awaiting
              /\ st.floor # None => st.window[pos].index = WrapInc(st.floor)
  BY <1>1, RetireFacts
<1>. QED
  BY <1>1, <1>2, <1>3 DEF StillOpen

-----------------------------------------------------------------------------
(* The invariant. *)

\* The types, and that while the gate is open the floor is the frame handed out
\* last; the second needs the first for the index arithmetic of the floor.
GateInv == TypeOK /\ GateOpenMeansUnbroken

LEMMA BecomeType ==
  ASSUME NEW st \in State, Become(st)
  PROVE  /\ window' \in Seq(Partial) /\ floor' \in Index \cup {None}
         /\ awaiting' \in BOOLEAN /\ pendingLoss' \in SUBSET Run /\ stats' \in Stats
BY DEF Become, State

LEMMA RestartingType ==
  ASSUME TypeOK, NEW p \in Packet, Restarting(p)
  PROVE  restarts' \in Nat /\ lastOut' \in SUBSET Unit
BY DEF Restarting, TypeOK

LEMMA CountType ==
  ASSUME TypeOK,
         NEW field \in {"packets", "delivered", "recovered", "lost", "skipped", "late",
                        "duplicate", "malformed"},
         Count(field), UnchangedButStats
  PROVE  TypeOK'
PROOF
<1>1. stats \in Stats
  BY DEF TypeOK
<1>2. stats[field] \in Nat
  BY <1>1 DEF Stats
<1>3. Bump(stats[field]) \in Nat
  BY <1>2, BumpType
<1>4. stats' \in Stats
  BY <1>1, <1>3 DEF Count, Stats
<1>. QED
  BY <1>4 DEF TypeOK, UnchangedButStats

\* A frame's shards were cut from the host's frames.
LEMMA SourcesType ==
  ASSUME TypeOK, NEW p \in Packet, Accepts(p)
  PROVE  SourcesOf(FilledFrame(p)) \in SUBSET Source
PROOF
<1>. DEFINE f == FilledFrame(p)
<1>1. f \in Partial
  <2>1. Filled(p).window \in Seq(Partial)
    BY FilledFacts DEF State
  <2>2. Position(Filled(p), p) \in 1 .. Len(Filled(p).window)
    BY FilledFacts
  <2>3. f = Filled(p).window[Position(Filled(p), p)]
    BY DEF FilledFrame
  <2>. HIDE DEF f
  <2>. QED
    BY <2>1, <2>2, <2>3, ElementOfSeq
<1>. HIDE DEF f
<1>2. f.blocks \in Seq(Block)
  BY <1>1 DEF Partial
<1>3. ASSUME NEW b \in DOMAIN f.blocks, NEW h \in f.blocks[b].held
      PROVE  h.src \in Source
  <2>1. f.blocks[b] \in Block
    BY <1>2, LenProperties, ElementOfSeq
  <2>. QED
    BY <2>1 DEF Block, Shard
<1>. QED
  BY <1>3 DEF SourcesOf, f

\* A push that stores a shard, whole frame or not.
LEMMA ShardStep ==
  ASSUME GateInv, NEW p \in Packet, PushShard(p)
  PROVE  GateInv'
PROOF
<1>1. TypeOK /\ GateOpenMeansUnbroken /\ Accepts(p) /\ Become(Filled(p)) /\ Restarting(p)
  BY DEF GateInv, PushShard
<1>2. Filled(p) \in State /\ StillOpen(Filled(p), p)
  BY <1>1, FilledFacts
<1>3. TypeOK'
  BY <1>1, <1>2, BecomeType, RestartingType DEF TypeOK
<1>4. GateOpenMeansUnbroken'
  <2>1. SUFFICES ASSUME Gate, ~awaiting'
                 PROVE  \E au \in lastOut' : floor' = au.index
    BY DEF GateOpenMeansUnbroken
  <2>2. ~awaiting /\ floor' = floor /\ ~HostRestart(p)
    BY <1>1, <1>2, <2>1 DEF Become, StillOpen
  <2>. QED
    BY <1>1, <2>1, <2>2 DEF GateOpenMeansUnbroken, Restarting
<1>. QED
  BY <1>3, <1>4 DEF GateInv

\* What is known of the state once a whole frame is retired.
LEMMA RetiredStep ==
  ASSUME GateInv, NEW p \in Packet, Accepts(p)
  PROVE  /\ TypeOK /\ Finished(p) \in State
         /\ Finished(p).floor = p.index /\ p.index \in Index
         /\ Gate /\ ~Finished(p).awaiting
              => ~HostRestart(p) /\ \E au \in lastOut : p.index = WrapInc(au.index)
PROOF
<1>1. TypeOK /\ GateOpenMeansUnbroken
  BY DEF GateInv
<1>2. /\ Finished(p) \in State /\ Finished(p).floor = p.index
      /\ Gate /\ ~Finished(p).awaiting
           => ~awaiting /\ ~HostRestart(p) /\ (floor # None => p.index = WrapInc(floor))
  BY <1>1, FinishedFacts
<1>3. p.index \in Index
  BY PacketAssumption
<1>4. ASSUME Gate, ~Finished(p).awaiting
      PROVE  ~HostRestart(p) /\ \E au \in lastOut : p.index = WrapInc(au.index)
  <2>1. PICK au \in lastOut : floor = au.index
    BY <1>1, <1>2, <1>4 DEF GateOpenMeansUnbroken
  <2>2. au.index \in Index
    BY <1>1, <2>1 DEF TypeOK, Unit
  <2>. QED
    BY <1>2, <1>4, <2>1, <2>2, NoneAssumption
<1>. QED
  BY <1>1, <1>2, <1>3, <1>4

\* A whole frame that cannot be assembled is lost.
LEMMA FailStep ==
  ASSUME GateInv, NEW p \in Packet, FinishUnrecoverable(p) \/ FinishRunt(p)
  PROVE  GateInv'
PROOF
<1>1. Accepts(p) /\ Restarting(p)
  BY DEF FinishUnrecoverable, FinishRunt
<1>2. TypeOK /\ Finished(p) \in State /\ p.index \in Index
  BY <1>1, RetiredStep
<1>. DEFINE noted == [Finished(p) EXCEPT !.stats.malformed = Bump(@)]
<1>3. noted \in State
  <2>. DEFINE sts == [Finished(p).stats EXCEPT !.malformed = Bump(@)]
  <2>1. Finished(p).stats \in Stats
    BY <1>2 DEF State
  <2>2. Bump(Finished(p).stats.malformed) \in Nat
    BY <2>1, BumpType DEF Stats
  <2>3. sts \in Stats
    BY <2>1, <2>2 DEF Stats
  <2>4. noted = [Finished(p) EXCEPT !.stats = sts]
    OBVIOUS
  <2>. HIDE DEF sts, noted
  <2>. QED
    BY <1>2, <2>3, <2>4 DEF State
<1>4. PICK st \in State : Become(DeclareLost(st, p.index, p.index))
  <2>1. CASE FinishUnrecoverable(p)
    BY <1>2, <2>1 DEF FinishUnrecoverable
  <2>2. CASE FinishRunt(p)
    BY <1>3, <2>2 DEF FinishRunt
  <2>. QED
    BY <2>1, <2>2
<1>5. /\ DeclareLost(st, p.index, p.index) \in State
      /\ Gate => DeclareLost(st, p.index, p.index).awaiting
  BY <1>2, DeclareLostFacts
<1>6. TypeOK'
  BY <1>1, <1>2, <1>4, <1>5, BecomeType, RestartingType DEF TypeOK
<1>7. GateOpenMeansUnbroken'
  BY <1>4, <1>5 DEF Become, GateOpenMeansUnbroken
<1>. QED
  BY <1>6, <1>7 DEF GateInv

\* A whole frame that the gate withholds.
LEMMA SkipStep ==
  ASSUME GateInv, NEW p \in Packet, FinishSkip(p)
  PROVE  GateInv'
PROOF
<1>. DEFINE st == Finished(p)
            sts == [st.stats EXCEPT !.skipped = @ + 1]
            ss == [st EXCEPT !.stats.skipped = @ + 1]
<1>1. Accepts(p) /\ Restarting(p) /\ st.awaiting /\ Become(ss)
  BY DEF FinishSkip
<1>2. TypeOK /\ st \in State
  BY <1>1, RetiredStep
<1>3. ss = [st EXCEPT !.stats = sts]
  OBVIOUS
<1>. HIDE DEF st, ss
<1>4. sts \in Stats
  BY <1>2, SMTT(30) DEF State, Stats
<1>. HIDE DEF sts
<1>5. ss \in State /\ ss.awaiting = st.awaiting
  BY <1>2, <1>3, <1>4 DEF State
<1>6. TypeOK'
  BY <1>1, <1>2, <1>5, BecomeType, RestartingType DEF TypeOK
<1>7. GateOpenMeansUnbroken'
  BY <1>1, <1>5 DEF Become, GateOpenMeansUnbroken
<1>. QED
  BY <1>6, <1>7 DEF GateInv

\* An access unit is handed out.
LEMMA EmitStep ==
  ASSUME GateInv, NEW p \in Packet, NEW key \in BOOLEAN, Emit(p, key)
  PROVE  GateInv'
PROOF
<1>. DEFINE st == Finished(p)
            mended == IF Rebuilt(FilledFrame(p)) THEN Bump(st.stats.recovered)
                      ELSE st.stats.recovered
            sts == [st.stats EXCEPT !.delivered = @ + 1, !.recovered = mended]
            ss == [st EXCEPT !.awaiting = FALSE, !.stats = sts]
            au == [index |-> p.index, key |-> key, from |-> SourcesOf(FilledFrame(p))]
<1>1. Accepts(p) /\ Become(ss) /\ lastOut' = {au}
      /\ restarts' = IF HostRestart(p) THEN restarts + 1 ELSE restarts
  BY DEF Emit
<1>2. TypeOK /\ st \in State /\ st.floor = p.index /\ p.index \in Index
  BY <1>1, RetiredStep
<1>3. SourcesOf(FilledFrame(p)) \in SUBSET Source
  BY <1>1, <1>2, SourcesType
<1>. HIDE DEF st
<1>4. sts \in Stats
  <2>1. st.stats \in Stats
    BY <1>2 DEF State
  <2>2. mended \in Nat
    BY <2>1, BumpType DEF Stats
  <2>. DEFINE one == [st.stats EXCEPT !.delivered = @ + 1]
  <2>3. one \in Stats
    BY <2>1 DEF Stats
  <2>4. sts = [one EXCEPT !.recovered = mended]
    BY Zenon
  <2>. HIDE DEF mended, one, sts
  <2>. QED
    BY <2>2, <2>3, <2>4 DEF Stats
<1>. HIDE DEF sts
<1>5. ss \in State /\ ss.floor = p.index
  BY <1>2, <1>4 DEF State
<1>. HIDE DEF ss
<1>6. au \in Unit /\ au.index = p.index
  BY <1>2, <1>3 DEF Unit
<1>. HIDE DEF au
<1>7. TypeOK'
  <2>1. lastOut' \in SUBSET Unit /\ restarts' \in Nat
    BY <1>1, <1>2, <1>6 DEF TypeOK
  <2>. QED
    BY <1>1, <1>5, <2>1, BecomeType DEF TypeOK
<1>8. GateOpenMeansUnbroken'
  BY <1>1, <1>5, <1>6 DEF Become, GateOpenMeansUnbroken
<1>. QED
  BY <1>7, <1>8 DEF GateInv

-----------------------------------------------------------------------------
(* The theorems. *)

LEMMA InitGateInv == Init => GateInv
PROOF
<1>1. NoStats \in Stats
  BY DEF NoStats, Stats
<1>. SUFFICES ASSUME Init PROVE GateInv
  OBVIOUS
<1>2. TypeOK
  BY <1>1, EmptySeq, GateAssumption DEF Init, TypeOK
<1>3. GateOpenMeansUnbroken
  BY DEF Init, GateOpenMeansUnbroken
<1>. QED
  BY <1>2, <1>3 DEF GateInv

LEMMA NextGateInv == GateInv /\ [Next]_vars => GateInv'
PROOF
<1>. SUFFICES ASSUME GateInv, [Next]_vars PROVE GateInv'
  OBVIOUS
<1>0. TypeOK /\ GateOpenMeansUnbroken
  BY DEF GateInv
<1>1. ASSUME NEW p \in Packet, NEW f \in {"late", "malformed", "duplicate"},
             Count(f), UnchangedButStats
      PROVE  GateInv'
  <2>1. TypeOK'
    BY <1>0, <1>1, CountType
  <2>2. GateOpenMeansUnbroken'
    BY <1>0, <1>1 DEF UnchangedButStats, GateOpenMeansUnbroken
  <2>. QED
    BY <2>1, <2>2 DEF GateInv
<1>2. ASSUME NEW p \in Packet, Push(p)
      PROVE  GateInv'
  <2>1. CASE PushMalformed(p)
    BY <1>1, <2>1 DEF PushMalformed
  <2>2. CASE PushLate(p)
    BY <1>1, <2>2 DEF PushLate
  <2>3. CASE PushStale(p)
    BY <1>1, <2>3 DEF PushStale
  <2>4. CASE PushMismatch(p)
    BY <1>1, <2>4 DEF PushMismatch
  <2>5. CASE PushDuplicate(p)
    BY <1>1, <2>5 DEF PushDuplicate
  <2>6. CASE PushShard(p)
    BY <2>6, ShardStep
  <2>7. CASE FinishUnrecoverable(p) \/ FinishRunt(p)
    BY <2>7, FailStep
  <2>8. CASE FinishSkip(p)
    BY <2>8, SkipStep
  <2>9. CASE FinishKey(p) \/ FinishPredicted(p)
    BY <2>9, EmitStep DEF FinishKey, FinishPredicted
  <2>. QED
    BY <1>2, <2>1, <2>2, <2>3, <2>4, <2>5, <2>6, <2>7, <2>8, <2>9 DEF Push
<1>3. CASE TakeLoss
  BY <1>0, <1>3 DEF TakeLoss, GateInv, TypeOK, GateOpenMeansUnbroken
<1>4. CASE RequireKeyframe
  BY <1>0, <1>4 DEF RequireKeyframe, GateInv, TypeOK, GateOpenMeansUnbroken
<1>5. CASE UNCHANGED vars
  BY <1>0, <1>5 DEF vars, GateInv, TypeOK, GateOpenMeansUnbroken
<1>. QED
  BY <1>2, <1>3, <1>4, <1>5 DEF Next

\* The fields keep their types on every run, whatever datagrams arrive.
THEOREM TypeCorrect == Spec => []TypeOK
PROOF
<1>1. GateInv => TypeOK
  BY DEF GateInv
<1>. QED
  BY InitGateInv, NextGateInv, <1>1, PTL DEF Spec

\* While the gate is open nothing was lost since the frame handed out last.
THEOREM OpenGateUnbroken == Spec => []GateOpenMeansUnbroken
PROOF
<1>1. GateInv => GateOpenMeansUnbroken
  BY DEF GateInv
<1>. QED
  BY InitGateInv, NextGateInv, <1>1, PTL DEF Spec

\* Only a push that emits counts a delivery.
LEMMA PushDelivers ==
  ASSUME GateInv, NEW p \in Packet, Push(p), stats'.delivered # stats.delivered
  PROVE  \E key \in BOOLEAN : Emit(p, key)
PROOF
<1>0. TypeOK /\ stats \in Stats
  BY DEF GateInv, TypeOK
<1>1. ASSUME NEW f \in {"late", "malformed", "duplicate"}, Count(f)
      PROVE  stats'.delivered = stats.delivered
  BY <1>0, <1>1 DEF Count, Stats
<1>2. \E key \in BOOLEAN : Emit(p, key)
  <2>1. CASE PushMalformed(p)
    BY <1>1, <2>1 DEF PushMalformed
  <2>2. CASE PushLate(p)
    BY <1>1, <2>2 DEF PushLate
  <2>3. CASE PushStale(p)
    BY <1>1, <2>3 DEF PushStale
  <2>4. CASE PushMismatch(p)
    BY <1>1, <2>4 DEF PushMismatch
  <2>5. CASE PushDuplicate(p)
    BY <1>1, <2>5 DEF PushDuplicate
  <2>6. CASE PushShard(p)
    <3>1. StillOpen(Filled(p), p) /\ Become(Filled(p))
      BY <1>0, <2>6, FilledFacts DEF PushShard
    <3>. QED
      BY <3>1 DEF StillOpen, Become
  <2>7. CASE FinishUnrecoverable(p)
    <3>1. /\ Finished(p) \in State /\ Finished(p).stats.delivered = stats.delivered
          /\ Become(DeclareLost(Finished(p), p.index, p.index)) /\ p.index \in Index
      BY <1>0, <2>7, FinishedFacts, PacketAssumption DEF FinishUnrecoverable
    <3>. QED
      BY <3>1, DeclareLostFacts DEF Become
  <2>8. CASE FinishRunt(p)
    <3>. DEFINE st == Finished(p)
                sts == [st.stats EXCEPT !.malformed = Bump(@)]
                ss == [st EXCEPT !.stats = sts]
    <3>1. /\ st \in State /\ st.stats.delivered = stats.delivered
          /\ Become(DeclareLost(ss, p.index, p.index)) /\ p.index \in Index
      BY <1>0, <2>8, FinishedFacts, PacketAssumption DEF FinishRunt
    <3>. HIDE DEF st
    <3>2. st.stats \in Stats
      BY <3>1 DEF State
    <3>3. Bump(st.stats.malformed) \in Nat
      BY <3>2, BumpType DEF Stats
    <3>4. sts \in Stats /\ sts.delivered = st.stats.delivered
      BY <3>2, <3>3 DEF Stats
    <3>. HIDE DEF sts
    <3>5. ss \in State /\ ss.stats = sts
      BY <3>1, <3>4 DEF State
    <3>. HIDE DEF ss
    <3>. QED
      BY <3>1, <3>4, <3>5, DeclareLostFacts DEF Become
  <2>9. CASE FinishSkip(p)
    <3>. DEFINE st == Finished(p)
                sts == [st.stats EXCEPT !.skipped = @ + 1]
                ss == [st EXCEPT !.stats = sts]
    <3>1. st \in State /\ st.stats.delivered = stats.delivered /\ Become(ss)
      BY <1>0, <2>9, FinishedFacts DEF FinishSkip
    <3>. HIDE DEF st
    <3>2. sts.delivered = st.stats.delivered
      BY <3>1 DEF State, Stats
    <3>. HIDE DEF sts
    <3>3. ss.stats = sts
      BY <3>1 DEF State
    <3>. QED
      BY <3>1, <3>2, <3>3 DEF Become
  <2>10. CASE FinishKey(p) \/ FinishPredicted(p)
    BY <2>10 DEF FinishKey, FinishPredicted
  <2>. QED
    BY <2>1, <2>2, <2>3, <2>4, <2>5, <2>6, <2>7, <2>8, <2>9, <2>10 DEF Push
<1>. QED
  BY <1>2

LEMMA DeliveredOnlyByEmit ==
  ASSUME GateInv, [Next]_vars, stats'.delivered # stats.delivered
  PROVE  \E p \in Packet, key \in BOOLEAN : Emit(p, key)
BY PushDelivers DEF Next, TakeLoss, RequireKeyframe, vars

\* With the gate on, a predicted frame is only ever handed out right after the frame
\* before it.
THEOREM GateIsSound == Spec => GateSound
PROOF
<1>1. ASSUME GateInv, [Next]_vars, Gate, stats'.delivered # stats.delivered,
             NEW au \in lastOut'
      PROVE  au.key \/ \E prev \in lastOut : au.index = WrapInc(prev.index)
  <2>1. PICK p \in Packet, key \in BOOLEAN : Emit(p, key)
    BY <1>1, DeliveredOnlyByEmit
  <2>2. au.index = p.index /\ au.key = key
    BY <1>1, <2>1 DEF Emit
  <2>3. CASE key
    BY <2>2, <2>3
  <2>4. CASE ~key
    <3>1. Accepts(p) /\ ~Finished(p).awaiting
      BY <2>1, <2>4 DEF Emit
    <3>2. \E prev \in lastOut : p.index = WrapInc(prev.index)
      BY <1>1, <3>1, RetiredStep
    <3>. QED
      BY <2>2, <3>2
  <2>. QED
    BY <2>3, <2>4
<1>2. GateInv /\ [Next]_vars
      => [ Gate /\ stats'.delivered # stats.delivered
           => \A au \in lastOut' :
                au.key \/ \E prev \in lastOut : au.index = WrapInc(prev.index) ]_vars
  BY <1>1
<1>. QED
  BY InitGateInv, NextGateInv, <1>2, PTL DEF Spec, GateSound

-----------------------------------------------------------------------------
(* The order of frame indices.  Newer is no order on all of them, the     *)
(* indices being a ring; it is one on the indices of half a ring.          *)

Half == IndexMod \div 2

\* The host's frames of one session span less than half of the indices: 2^31 frames are a
\* year of video.  Without it even the first two frames may be half a ring apart, and
\* neither of them is newer.
OneSpan == \E b \in Index : \A p \in Packet : WrapSub(p.index, b) < Half

Base == CHOOSE b \in Index : \A p \in Packet : WrapSub(p.index, b) < Half

\* How far an index is from the oldest one.
Off(i) == WrapSub(i, Base)

Near == {i \in Index : Off(i) < Half}

LEMMA SpanFacts ==
  ASSUME OneSpan
  PROVE  /\ Base \in Index /\ \A p \in Packet : p.index \in Near
         /\ Half \in Nat /\ IndexMod = Half + Half /\ Half >= 2
PROOF
<1>1. Base \in Index /\ \A p \in Packet : WrapSub(p.index, Base) < Half
  BY DEF OneSpan, Base
<1>2. \A p \in Packet : p.index \in Near
  BY <1>1, PacketAssumption DEF Near, Off
<1>3. Half \in Nat /\ IndexMod = Half + Half /\ Half >= 2
  BY SizeAssumption DEF Half
<1>. QED
  BY <1>1, <1>2, <1>3

\* Near indices are as far apart as their distances from the oldest say.
LEMMA OffFacts ==
  ASSUME OneSpan, NEW x \in Near, NEW y \in Near
  PROVE  /\ x \in Index /\ Off(x) \in 0 .. Half - 1
         /\ Newer(x, y) <=> Off(y) < Off(x)
         /\ Off(x) = Off(y) => x = y
         /\ Off(y) <= Off(x) => WrapSub(x, y) = Off(x) - Off(y)
         /\ x # None
PROOF
<1>1. /\ Base \in Nat /\ Base < IndexMod /\ IndexMod = Half + Half /\ Half \in Nat /\ Half >= 2
      /\ IndexMod \in Nat /\ IndexMod - 1 \in Int
  BY SpanFacts, SizeAssumption DEF Index
<1>2. x \in 0 .. IndexMod - 1 /\ y \in 0 .. IndexMod - 1 /\ Off(x) < Half /\ Off(y) < Half
  BY DEF Near, Index
<1>3. /\ Off(x) = (IF x >= Base THEN x - Base ELSE x - Base + IndexMod)
      /\ Off(y) = (IF y >= Base THEN y - Base ELSE y - Base + IndexMod)
      /\ WrapSub(x, y) = (IF x >= y THEN x - y ELSE x - y + IndexMod)
  BY DEF Off, WrapSub
<1>4. Off(x) \in 0 .. Half - 1 /\ Off(y) \in 0 .. Half - 1
  BY <1>1, <1>2, <1>3
<1>5. Off(x) = Off(y) => x = y
  BY <1>1, <1>2, <1>3
<1>6. Off(y) <= Off(x) => WrapSub(x, y) = Off(x) - Off(y)
  BY <1>1, <1>2, <1>3
<1>7. Off(x) < Off(y) => WrapSub(x, y) = Off(x) - Off(y) + IndexMod
  BY <1>1, <1>2, <1>3
<1>8. Newer(x, y) <=> Off(y) < Off(x)
  <2>1. Newer(x, y) <=> x # y /\ WrapSub(x, y) < Half
    BY DEF Newer, Half
  <2>2. ASSUME Off(y) < Off(x) PROVE x # y /\ WrapSub(x, y) < Half
    <3>1. x # y
      BY <1>4, <2>2
    <3>2. WrapSub(x, y) = Off(x) - Off(y)
      BY <1>4, <1>6, <2>2
    <3>. QED
      BY <1>1, <1>4, <2>2, <3>1, <3>2
  <2>3. ASSUME ~ (Off(y) < Off(x)) PROVE ~ (x # y /\ WrapSub(x, y) < Half)
    <3>1. CASE Off(x) < Off(y)
      BY <1>1, <1>4, <1>7, <3>1
    <3>2. CASE ~ (Off(x) < Off(y))
      BY <1>4, <1>5, <2>3, <3>2
    <3>. QED
      BY <3>1, <3>2
  <2>. QED
    BY <2>1, <2>2, <2>3
<1>. QED
  BY <1>4, <1>5, <1>6, <1>8, NoneAssumption DEF Near

LEMMA OffNext ==
  ASSUME OneSpan, NEW x \in Near
  PROVE  /\ Off(WrapInc(x)) = Off(x) + 1 /\ WrapInc(x) \in Index
         /\ Off(x) > 0 => WrapDec(x) \in Near /\ Off(WrapDec(x)) = Off(x) - 1
         /\ \A y \in Near : Off(x) < Off(y) => WrapInc(x) \in Near
PROOF
<1>1. /\ Base \in 0 .. IndexMod - 1 /\ IndexMod = Half + Half /\ Half \in Nat /\ Half >= 2
      /\ IndexMod \in Nat
  BY SpanFacts, SizeAssumption DEF Index
<1>2. x \in 0 .. IndexMod - 1 /\ Off(x) < Half
      /\ Off(x) = IF x >= Base THEN x - Base ELSE x - Base + IndexMod
  BY DEF Near, Index, Off, WrapSub
<1>3. WrapInc(x) = (IF x = IndexMod - 1 THEN 0 ELSE x + 1)
  BY DEF WrapInc
<1>4. WrapInc(x) \in 0 .. IndexMod - 1
  BY <1>1, <1>2, <1>3
<1>5. Off(WrapInc(x)) = (IF WrapInc(x) >= Base THEN WrapInc(x) - Base
                                               ELSE WrapInc(x) - Base + IndexMod)
  BY DEF Off, WrapSub
<1>6. Off(WrapInc(x)) = Off(x) + 1
  BY <1>1, <1>2, <1>3, <1>5
<1>7. ASSUME Off(x) > 0 PROVE WrapDec(x) \in Near /\ Off(WrapDec(x)) = Off(x) - 1
  <2>1. WrapDec(x) = (IF x = 0 THEN IndexMod - 1 ELSE x - 1)
    BY DEF WrapDec
  <2>2. WrapDec(x) \in 0 .. IndexMod - 1
    BY <1>1, <1>2, <2>1
  <2>3. Off(WrapDec(x)) = (IF WrapDec(x) >= Base THEN WrapDec(x) - Base
                                                 ELSE WrapDec(x) - Base + IndexMod)
    BY DEF Off, WrapSub
  <2>4. Off(WrapDec(x)) = Off(x) - 1
    BY <1>1, <1>2, <1>7, <2>1, <2>3
  <2>. QED
    BY <1>1, <1>2, <2>2, <2>4 DEF Near, Index
<1>8. ASSUME NEW y \in Near, Off(x) < Off(y) PROVE WrapInc(x) \in Near
  <2>1. Off(y) \in 0 .. Half - 1 /\ Off(x) \in 0 .. Half - 1
    BY OffFacts
  <2>. QED
    BY <1>1, <1>4, <1>6, <1>8, <2>1 DEF Near, Index
<1>. QED
  BY <1>4, <1>6, <1>7, <1>8 DEF Index

\* The length of a run.
LEMMA RunLength ==
  ASSUME OneSpan, NEW x \in Near, NEW y \in Near, Off(x) <= Off(y)
  PROVE  Frames([first |-> x, last |-> y]) = Off(y) - Off(x) + 1
PROOF
<1>1. WrapSub(y, x) = Off(y) - Off(x) /\ Off(x) \in 0 .. Half - 1 /\ Off(y) \in 0 .. Half - 1
  BY OffFacts
<1>2. IndexMod = Half + Half /\ Half \in Nat /\ Half >= 2
  BY SpanFacts
<1>3. WrapSub(y, x) # IndexMod - 1
  BY <1>1, <1>2
<1>. QED
  BY <1>1, <1>3 DEF Frames, WrapInc

-----------------------------------------------------------------------------
(* The window in order, ahead of the floor. *)

Ordered(w) ==
  /\ \A i \in 1 .. Len(w) : w[i].index \in Near
  /\ \A i, j \in 1 .. Len(w) : i < j => Off(w[i].index) < Off(w[j].index)

\* Everything in the window is ahead of index fl.
Above(w, fl) ==
  fl # None => fl \in Near /\ \A i \in 1 .. Len(w) : Off(fl) < Off(w[i].index)

Waits(w) == \A i \in 1 .. Len(w) : ~Whole(w[i])

\* v is w without some of its frames.
Thinned(v, w) ==
  \E g \in [1 .. Len(v) -> 1 .. Len(w)] :
    /\ \A i \in 1 .. Len(v) : v[i] = w[g[i]]
    /\ \A i, j \in 1 .. Len(v) : i < j => g[i] < g[j]

LEMMA ThinnedKeeps ==
  ASSUME NEW v, NEW w, Thinned(v, w)
  PROVE  /\ Ordered(w) => Ordered(v)
         /\ \A fl : Above(w, fl) => Above(v, fl)
         /\ Waits(w) => Waits(v)
PROOF
<1>1. PICK g \in [1 .. Len(v) -> 1 .. Len(w)] :
        /\ \A i \in 1 .. Len(v) : v[i] = w[g[i]]
        /\ \A i, j \in 1 .. Len(v) : i < j => g[i] < g[j]
  BY DEF Thinned
<1>2. Ordered(w) => Ordered(v)
  BY <1>1 DEF Ordered
<1>3. \A fl : Above(w, fl) => Above(v, fl)
  BY <1>1 DEF Above
<1>4. Waits(w) => Waits(v)
  BY <1>1 DEF Waits
<1>. QED
  BY <1>2, <1>3, <1>4

\* A piece of the window from position m on.
LEMMA SuffixThinned ==
  ASSUME NEW w \in Seq(Partial), NEW m \in 1 .. Len(w) + 1, NEW v, v = SubSeq(w, m, Len(w))
  PROVE  /\ Thinned(v, w) /\ v \in Seq(Partial) /\ Len(v) = Len(w) - m + 1
         /\ \A i \in 1 .. Len(v) : v[i] = w[m + i - 1] /\ m + i - 1 \in 1 .. Len(w)
PROOF
<1>1. Len(w) \in Nat
  BY LenProperties
<1>2. /\ v \in Seq(Partial) /\ Len(v) = Len(w) - m + 1
      /\ \A i \in 1 .. Len(w) - m + 1 : v[i] = w[m + i - 1]
  BY <1>1, SubSeqProperties, ElementOfSeq
<1>. DEFINE g == [i \in 1 .. Len(v) |-> m + i - 1]
<1>3. \A i \in 1 .. Len(v) : m + i - 1 \in 1 .. Len(w)
  BY <1>1, <1>2
<1>4. g \in [1 .. Len(v) -> 1 .. Len(w)] /\ \A i \in 1 .. Len(v) : g[i] = m + i - 1
  BY <1>3
<1>. HIDE DEF g
<1>5. Thinned(v, w)
  <2>1. \A i \in 1 .. Len(v) : v[i] = w[g[i]]
    BY <1>2, <1>4
  <2>2. \A i, j \in 1 .. Len(v) : i < j => g[i] < g[j]
    BY <1>1, <1>2, <1>4
  <2>. QED
    BY <1>4, <2>1, <2>2 DEF Thinned
<1>. QED
  BY <1>2, <1>3, <1>5

LEMMA RemovedThinned ==
  ASSUME NEW w \in Seq(Partial), NEW pos \in 1 .. Len(w), NEW v, v = RemoveAt(w, pos)
  PROVE  /\ Thinned(v, w) /\ v \in Seq(Partial) /\ Len(v) = Len(w) - 1
         /\ \A i \in 1 .. Len(v) :
              \E k \in 1 .. Len(w) : k # pos /\ v[i] = w[k] /\ (i < pos <=> k < pos)
PROOF
<1>1. Len(w) \in Nat
  BY LenProperties
<1>2. /\ v \in Seq(Partial) /\ Len(v) = Len(w) - 1
      /\ \A i \in 1 .. Len(w) - 1 : v[i] = IF i < pos THEN w[i] ELSE w[i + 1]
  BY RemoveAtFacts
<1>. DEFINE g == [i \in 1 .. Len(v) |-> IF i < pos THEN i ELSE i + 1]
<1>3. /\ g \in [1 .. Len(v) -> 1 .. Len(w)]
      /\ \A i \in 1 .. Len(v) : g[i] = IF i < pos THEN i ELSE i + 1
  BY <1>1, <1>2
<1>. HIDE DEF g
<1>4. \A i \in 1 .. Len(v) : g[i] \in 1 .. Len(w) /\ v[i] = w[g[i]]
  BY <1>2, <1>3
<1>5. Thinned(v, w)
  <2>1. \A i, j \in 1 .. Len(v) : i < j => g[i] < g[j]
    BY <1>1, <1>2, <1>3
  <2>. QED
    BY <1>3, <1>4, <2>1 DEF Thinned
<1>6. \A i \in 1 .. Len(v) : g[i] # pos /\ (i < pos <=> g[i] < pos)
  BY <1>1, <1>2, <1>3
<1>. QED
  BY <1>2, <1>4, <1>5, <1>6

\* What the receiver holds: everything in the window in order and ahead of the floor.
Placed(st) == Ordered(st.window) /\ Above(st.window, st.floor)

\* slot_for makes room by giving up on the oldest frame.
LEMMA MakeRoomPlaced ==
  ASSUME OneSpan, NEW st \in State, Placed(st), Waits(st.window), Len(st.window) <= WindowFrames
  PROVE  /\ Placed(MakeRoom(st)) /\ Waits(MakeRoom(st).window)
         /\ Len(MakeRoom(st).window) < WindowFrames
         /\ Thinned(MakeRoom(st).window, st.window)
         /\ \/ MakeRoom(st) = st
            \/ /\ Len(st.window) >= WindowFrames /\ Head(st.window).index \in Near
               /\ MakeRoom(st).floor = Head(st.window).index
               /\ st.floor # None => Off(st.floor) < Off(Head(st.window).index)
PROOF
<1>. DEFINE w == st.window
            cut == [st EXCEPT !.window = Tail(@)]
            first == Head(w).index
<1>1. w \in Seq(Partial) /\ Len(w) \in Nat /\ WindowFrames \in Nat \ {0}
  BY LenProperties, SizeAssumption DEF State
<1>2. CASE Len(w) < WindowFrames
  <2>1. MakeRoom(st) = st
    BY <1>2 DEF MakeRoom
  <2>2. w = SubSeq(w, 1, Len(w)) /\ 1 \in 1 .. Len(w) + 1
    BY <1>1, SubSeqFull
  <2>3. Thinned(w, w)
    BY <1>1, <2>2, SuffixThinned
  <2>. QED
    BY <1>2, <2>1, <2>3
<1>3. CASE ~ (Len(w) < WindowFrames)
  <2>1. w # <<>> /\ Head(w) = w[1] /\ 1 \in 1 .. Len(w) /\ 2 \in 1 .. Len(w) + 1
    BY <1>1, <1>3
  <2>2. Tail(w) = SubSeq(w, 2, Len(w))
    BY <1>1, <2>1, TailIsSubSeq
  <2>3. /\ Thinned(Tail(w), w) /\ Tail(w) \in Seq(Partial) /\ Len(Tail(w)) = Len(w) - 1
        /\ \A i \in 1 .. Len(Tail(w)) : Tail(w)[i] = w[i + 1] /\ i + 1 \in 1 .. Len(w)
    <3>1. /\ Thinned(Tail(w), w) /\ Tail(w) \in Seq(Partial) /\ Len(Tail(w)) = Len(w) - 2 + 1
          /\ \A i \in 1 .. Len(Tail(w)) : Tail(w)[i] = w[2 + i - 1] /\ 2 + i - 1 \in 1 .. Len(w)
      BY <1>1, <2>1, <2>2, SuffixThinned
    <3>2. \A i \in 1 .. Len(Tail(w)) : 2 + i - 1 = i + 1
      OBVIOUS
    <3>. QED
      BY <1>1, <3>1, <3>2
  <2>4. first \in Near /\ (st.floor # None => Off(st.floor) < Off(first))
    BY <2>1 DEF Placed, Ordered, Above
  <2>5. \A i \in 1 .. Len(Tail(w)) : Off(first) < Off(Tail(w)[i].index)
    <3>1. \A i \in 1 .. Len(Tail(w)) : 1 < i + 1
      OBVIOUS
    <3>. QED
      BY <2>1, <2>3, <3>1 DEF Placed, Ordered
  <2>6. cut \in State /\ cut.window = Tail(w) /\ first \in Index
    BY <2>3, <2>4 DEF State, Near
  <2>7. MakeRoom(st) = GiveUpThrough(cut, first)
    BY <1>3 DEF MakeRoom
  <2>. HIDE DEF w, cut, first
  <2>8. MakeRoom(st).window = Tail(w) /\ MakeRoom(st).floor = first
    <3>1. GiveUpThrough(cut, first).window = Tail(w)
      BY <2>6, GiveUpFacts
    <3>2. GiveUpThrough(cut, first).floor = first
      <4>1. GiveUpThrough(cut, first) =
              [DeclareLost(cut, IF cut.floor = None THEN first ELSE WrapInc(cut.floor), first)
                 EXCEPT !.floor = first]
        BY DEF GiveUpThrough
      <4>2. (IF cut.floor = None THEN first ELSE WrapInc(cut.floor)) \in Index
        BY <2>6, WrapType DEF State
      <4>3. DeclareLost(cut, IF cut.floor = None THEN first ELSE WrapInc(cut.floor), first) \in State
        BY <2>6, <4>2, DeclareLostFacts
      <4>. QED
        BY <4>1, <4>3 DEF State
    <3>. QED
      BY <2>7, <3>1, <3>2
  <2>9. Ordered(Tail(w)) /\ Waits(Tail(w))
    BY <2>3, ThinnedKeeps DEF Placed, w
  <2>10. Above(Tail(w), first)
    BY <2>4, <2>5 DEF Above
  <2>11. Len(Tail(w)) < WindowFrames
    BY <1>1, <2>3 DEF w
  <2>. QED
    <3>1. Len(w) >= WindowFrames
      BY <1>1, <1>3 DEF w
    <3>2. Placed(MakeRoom(st)) /\ Waits(MakeRoom(st).window)
      BY <2>8, <2>9, <2>10 DEF Placed
    <3>. QED
      BY <2>3, <2>4, <2>8, <2>11, <3>1, <3>2 DEF w, first
<1>. QED
  BY <1>2, <1>3

LEMMA NotThere ==
  ASSUME NEW st \in State, NEW p, Position(st, p) = 0
  PROVE  \A i \in 1 .. Len(st.window) : st.window[i].index # p.index
BY PositionFacts DEF State

\* A new frame is put in its place, and is not whole.
LEMMA InsertPlaced ==
  ASSUME OneSpan, NEW st \in State, Placed(st), Waits(st.window),
         NEW p \in Packet, Position(st, p) = 0,
         st.floor # None => Off(st.floor) < Off(p.index)
  PROVE  /\ Placed(Insert(st, p)) /\ Waits(Insert(st, p).window)
         /\ Len(Insert(st, p).window) = Len(st.window) + 1
PROOF
<1>. DEFINE w == st.window
            I == {i \in 1 .. Len(w) : Newer(w[i].index, p.index)}
            newerAt == SelectInSeq(w, LAMBDA f : Newer(f.index, p.index))
            at == IF newerAt = 0 THEN Len(w) + 1 ELSE newerAt
            frame == [index |-> p.index, blocks |-> [b \in 1 .. p.last + 1 |-> EmptyBlock]]
            ww == InsertAt(w, at, frame)
<1>1. w \in Seq(Partial) /\ Len(w) \in Nat
  BY LenProperties DEF State
<1>2. newerAt = IF I # {} THEN Min(I) ELSE 0
  BY DEF SelectInSeq
<1>3. I # {} => Min(I) \in I /\ \A i \in I : Min(I) <= i
  BY <1>1, LeastPosition, I \in SUBSET (1 .. Len(w))
<1>4. /\ at \in 1 .. Len(w) + 1
      /\ at <= Len(w) => Newer(w[at].index, p.index)
      /\ \A i \in 1 .. Len(w) : i < at => ~Newer(w[i].index, p.index)
  <2>. HIDE DEF newerAt, w
  <2>1. CASE I = {}
    <3>1. at = Len(w) + 1
      BY <1>2, <2>1
    <3>2. \A i \in 1 .. Len(w) : ~Newer(w[i].index, p.index)
      BY <2>1
    <3>. HIDE DEF at, I
    <3>. QED
      BY <1>1, <3>1, <3>2
  <2>2. CASE I # {}
    <3>1. at = Min(I) /\ at \in I /\ \A i \in I : at <= i
      <4>1. newerAt = Min(I) /\ Min(I) \in I /\ \A i \in I : Min(I) <= i
        BY <1>2, <1>3, <2>2
      <4>2. I \subseteq 1 .. Len(w)
        OBVIOUS
      <4>. HIDE DEF I
      <4>3. newerAt # 0
        BY <4>1, <4>2
      <4>. QED
        BY <4>1, <4>3
    <3>2. at \in 1 .. Len(w) /\ Newer(w[at].index, p.index)
      BY <3>1
    <3>3. ASSUME NEW i \in 1 .. Len(w), i < at PROVE ~Newer(w[i].index, p.index)
      <4>1. i \notin I
        BY <1>1, <3>1, <3>2, <3>3
      <4>. QED
        BY <4>1
    <3>. HIDE DEF at, I
    <3>. QED
      BY <1>1, <3>2, <3>3
  <2>. QED
    BY <2>1, <2>2
<1>5. frame \in Partial /\ frame.index = p.index /\ ~Whole(frame)
  <2>1. p.index \in Index /\ p.last \in Nat
    BY PacketAssumption
  <2>2. EmptyBlock \in Block /\ ~Complete(EmptyBlock)
    BY DEF EmptyBlock, Block, Complete
  <2>3. [b \in 1 .. p.last + 1 |-> EmptyBlock] \in Seq(Block)
    BY <2>1, <2>2
  <2>4. 1 \in DOMAIN frame.blocks /\ frame.blocks[1] = EmptyBlock
    BY <2>1
  <2>. QED
    BY <2>1, <2>2, <2>3, <2>4 DEF Partial, Whole
<1>6. Insert(st, p) = [st EXCEPT !.window = ww]
  BY DEF Insert
<1>. HIDE DEF w, at, frame, newerAt, I
<1>7. p.index \in Near
  BY SpanFacts
<1>8. ASSUME NEW i \in 1 .. Len(w)
      PROVE  /\ w[i].index \in Near /\ Off(w[i].index) \in Int /\ Off(p.index) \in Int
             /\ i < at => Off(w[i].index) < Off(p.index)
             /\ i >= at => Off(p.index) < Off(w[i].index)
  <2>1. w[i].index \in Near /\ w[i].index # p.index
    BY NotThere DEF Placed, Ordered, w
  <2>2. /\ Off(w[i].index) \in 0 .. Half - 1 /\ Off(p.index) \in 0 .. Half - 1
        /\ Newer(w[i].index, p.index) <=> Off(p.index) < Off(w[i].index)
        /\ Off(w[i].index) # Off(p.index)
    BY <1>7, <2>1, OffFacts
  <2>3. i < at => Off(w[i].index) < Off(p.index)
    BY <1>4, <2>2
  <2>4. ASSUME i >= at PROVE Off(p.index) < Off(w[i].index)
    <3>1. at \in 1 .. Len(w) /\ Newer(w[at].index, p.index)
      BY <1>1, <1>4, <2>4
    <3>2. w[at].index \in Near /\ (at < i => Off(w[at].index) < Off(w[i].index))
      BY <3>1 DEF Placed, Ordered, w
    <3>3. Off(p.index) < Off(w[at].index) /\ Off(w[at].index) \in 0 .. Half - 1
      BY <1>7, <3>1, <3>2, OffFacts
    <3>4. at < i \/ at = i
      BY <1>1, <2>4, <3>1
    <3>. QED
      BY <2>2, <3>2, <3>3, <3>4
  <2>. QED
    BY <2>1, <2>2, <2>3, <2>4
<1>9. /\ ww \in Seq(Partial) /\ Len(ww) = Len(w) + 1
      /\ \A j \in 1 .. Len(w) + 1 :
           ww[j] = IF j < at THEN w[j] ELSE IF j = at THEN frame ELSE w[j - 1]
  <2>1. at \in 1 .. Len(w) + 1 /\ frame \in Partial
    BY <1>4, <1>5
  <2>. QED
    BY <1>1, <2>1, InsertAtFacts
<1>. HIDE DEF ww
<1>10. /\ Insert(st, p).window = ww /\ Insert(st, p).floor = st.floor
  BY <1>6, <1>9 DEF State
<1>11. ASSUME NEW j \in 1 .. Len(ww)
       PROVE  \/ j < at /\ j \in 1 .. Len(w) /\ ww[j] = w[j]
              \/ j = at /\ ww[j] = frame
              \/ j > at /\ j - 1 \in 1 .. Len(w) /\ j - 1 >= at /\ ww[j] = w[j - 1]
  BY <1>1, <1>4, <1>9
<1>12. ASSUME NEW j \in 1 .. Len(ww) PROVE ww[j].index \in Near /\ ~Whole(ww[j])
  BY <1>5, <1>7, <1>8, <1>11 DEF Waits, w
<1>13. ASSUME NEW i \in 1 .. Len(ww), NEW j \in 1 .. Len(ww), i < j
       PROVE  Off(ww[i].index) < Off(ww[j].index)
  <2>0. i \in Int /\ j \in Int /\ at \in Int
    BY <1>4
  <2>7. \/ i < at /\ i \in 1 .. Len(w) /\ ww[i] = w[i]
        \/ i = at /\ ww[i] = frame
        \/ i > at /\ i - 1 \in 1 .. Len(w) /\ i - 1 >= at /\ ww[i] = w[i - 1]
    BY <1>11
  <2>8. \/ j < at /\ j \in 1 .. Len(w) /\ ww[j] = w[j]
        \/ j = at /\ ww[j] = frame
        \/ j > at /\ j - 1 \in 1 .. Len(w) /\ j - 1 >= at /\ ww[j] = w[j - 1]
    BY <1>11
  <2>1. ASSUME NEW k \in 1 .. Len(w), NEW l \in 1 .. Len(w), k < l
        PROVE  Off(w[k].index) < Off(w[l].index)
    BY <2>1 DEF Placed, Ordered, w
  <2>2. CASE i < at /\ j < at
    BY <1>1, <1>4, <1>9, <1>11, <1>13, <2>1, <2>2
  <2>3. CASE i < at /\ j = at
    BY <1>4, <1>5, <1>8, <1>9, <1>11, <2>3
  <2>4. CASE i < at /\ j > at
    <3>1. i \in 1 .. Len(w) /\ ww[i] = w[i]
      BY <2>0, <2>7, <2>4
    <3>2. j - 1 \in 1 .. Len(w) /\ j - 1 >= at /\ ww[j] = w[j - 1]
      BY <2>0, <2>8, <2>4
    <3>. QED
      BY <1>8, <2>4, <3>1, <3>2
  <2>5. CASE i = at /\ j > at
    <3>1. j - 1 \in 1 .. Len(w) /\ j - 1 >= at /\ ww[j] = w[j - 1] /\ ww[i] = frame
      BY <2>0, <2>7, <2>8, <2>5
    <3>. QED
      BY <1>5, <1>8, <3>1
  <2>6. CASE i > at /\ j > at
    <3>1. /\ i - 1 \in 1 .. Len(w) /\ ww[i] = w[i - 1] /\ j - 1 \in 1 .. Len(w)
          /\ ww[j] = w[j - 1] /\ i - 1 < j - 1
      BY <1>4, <1>9, <1>11, <1>13, <2>6
    <3>. QED
      BY <2>1, <3>1
  <2>. QED
    BY <1>1, <1>4, <1>9, <1>13, <2>2, <2>3, <2>4, <2>5, <2>6
<1>14. Above(ww, st.floor)
  <2>1. ASSUME st.floor # None, NEW j \in 1 .. Len(ww) PROVE Off(st.floor) < Off(ww[j].index)
    <3>1. \A i \in 1 .. Len(w) : Off(st.floor) < Off(w[i].index)
      BY <2>1 DEF Placed, Above, w
    <3>. QED
      BY <1>5, <1>11, <2>1, <3>1
  <2>. QED
    BY <2>1 DEF Above, Placed
<1>. QED
  BY <1>9, <1>10, <1>12, <1>13, <1>14 DEF Placed, Ordered, Waits, w

PlacedInv ==
  Ordered(window) /\ Above(window, floor) /\ Waits(window) /\ Len(window) <= WindowFrames

\* A packet that is not late is ahead of the floor, or of a new count.
LEMMA EntryPlaced ==
  ASSUME OneSpan, TypeOK, PlacedInv, NEW p \in Packet, ~Late(p)
  PROVE  /\ Placed(Entry(p)) /\ Waits(Entry(p).window) /\ Len(Entry(p).window) <= WindowFrames
         /\ Entry(p).floor # None => Off(Entry(p).floor) < Off(p.index)
         /\ HostRestart(p) => Entry(p).floor = None
         /\ ~HostRestart(p) => Entry(p) = Now
         /\ Entry(p).stats = stats /\ Entry(p).pending = pendingLoss
PROOF
<1>1. CASE HostRestart(p)
  <2>1. Entry(p) = [Now EXCEPT !.window = <<>>, !.floor = None, !.awaiting = Gate]
    BY <1>1 DEF Entry, Restarted
  <2>2. /\ Entry(p).window = <<>> /\ Entry(p).floor = None
        /\ Entry(p).stats = stats /\ Entry(p).pending = pendingLoss
    BY <2>1 DEF Now
  <2>3. Ordered(<<>>) /\ Above(<<>>, None) /\ Waits(<<>>) /\ Len(<<>>) <= WindowFrames
    BY SizeAssumption DEF Ordered, Above, Waits
  <2>. QED
    BY <1>1, <2>2, <2>3 DEF Placed
<1>2. CASE ~HostRestart(p)
  <2>1. Entry(p) = Now
    BY <1>2 DEF Entry
  <2>2. ~Behind(p)
    BY <1>2 DEF Late
  <2>3. p.index \in Near
    BY SpanFacts
  <2>4. floor # None => Off(floor) < Off(p.index)
    BY <2>2, <2>3, OffFacts DEF Behind, PlacedInv, Above
  <2>. QED
    BY <1>2, <2>1, <2>4, NowType DEF PlacedInv, Placed
<1>. QED
  BY <1>1, <1>2

LEMMA OpenedPlaced ==
  ASSUME OneSpan, TypeOK, PlacedInv, NEW p \in Packet, Accepts(p)
  PROVE  Placed(Opened(p)) /\ Waits(Opened(p).window) /\ Len(Opened(p).window) <= WindowFrames
PROOF
<1>. DEFINE st == Entry(p)
            room == MakeRoom(st)
<1>1. /\ st \in State /\ Placed(st) /\ Waits(st.window) /\ Len(st.window) <= WindowFrames
      /\ st.floor # None => Off(st.floor) < Off(p.index)
  BY EntryFacts, EntryPlaced DEF Accepts
<1>2. p.index \in Near /\ WindowFrames \in Nat
  BY SpanFacts, SizeAssumption
<1>3. CASE Position(st, p) # 0
  BY <1>1, <1>3 DEF Opened
<1>4. CASE Position(st, p) = 0
  <2>1. Opened(p) = Insert(room, p)
    BY <1>4 DEF Opened
  <2>2. ~ (Len(st.window) >= WindowFrames /\ ~Newer(p.index, Head(st.window).index))
    BY <1>4 DEF Accepts, Stale
  <2>. HIDE DEF st
  <2>3. /\ room \in State
        /\ Placed(room) /\ Waits(room.window) /\ Len(room.window) < WindowFrames
        /\ Thinned(room.window, st.window)
        /\ \/ room = st
           \/ /\ Len(st.window) >= WindowFrames /\ Head(st.window).index \in Near
              /\ room.floor = Head(st.window).index
    BY <1>1, MakeRoomFacts, MakeRoomPlaced
  <2>. HIDE DEF room
  <2>4. room.floor # None => Off(room.floor) < Off(p.index)
    BY <1>1, <1>2, <2>2, <2>3, OffFacts
  <2>5. Position(room, p) = 0
    <3>1. \A i \in 1 .. Len(st.window) : st.window[i].index # p.index
      BY <1>1, <1>4, NotThere
    <3>2. \A i \in 1 .. Len(room.window) : room.window[i].index # p.index
      BY <2>3, <3>1 DEF Thinned
    <3>. QED
      BY <2>3, <3>2, PositionFacts DEF State
  <2>6. /\ Placed(Insert(room, p)) /\ Waits(Insert(room, p).window)
        /\ Len(Insert(room, p).window) = Len(room.window) + 1
    BY <2>3, <2>4, <2>5, InsertPlaced
  <2>7. Len(room.window) \in Nat
    BY <2>3, LenProperties DEF State
  <2>. QED
    BY <1>2, <2>1, <2>3, <2>6, <2>7
<1>. QED
  BY <1>3, <1>4

\* The shard is stored in the packet's frame; no other frame changes.
LEMMA FilledPlaced ==
  ASSUME OneSpan, TypeOK, PlacedInv, NEW p \in Packet, Accepts(p)
  PROVE  /\ Placed(Filled(p)) /\ Len(Filled(p).window) <= WindowFrames
         /\ \A i \in 1 .. Len(Filled(p).window) :
              i # Position(Filled(p), p) => ~Whole(Filled(p).window[i])
         /\ Filled(p).floor = Opened(p).floor /\ Filled(p).pending = Opened(p).pending
         /\ Filled(p).awaiting = Opened(p).awaiting
         /\ Filled(p).stats.lost = Opened(p).stats.lost
         /\ Filled(p).stats.skipped = Opened(p).stats.skipped
         /\ Filled(p).stats.delivered = Opened(p).stats.delivered
PROOF
<1>. DEFINE st == Opened(p)
            pos == Position(st, p)
            ff == [st.window[pos] EXCEPT !.blocks[p.block + 1] = Fill(@, p)]
            ww == [st.window EXCEPT ![pos] = ff]
            sts == [st.stats EXCEPT !.packets = Bump(@)]
<1>1. /\ st \in State /\ pos \in 1 .. Len(st.window) /\ st.window[pos].index = p.index
      /\ Placed(st) /\ Waits(st.window) /\ Len(st.window) <= WindowFrames
  BY OpenedFacts, OpenedPlaced
<1>2. Filled(p) = [st EXCEPT !.window = ww, !.stats = sts]
  BY DEF Filled
<1>3. /\ Filled(p) \in State
      /\ Position(Filled(p), p) \in 1 .. Len(Filled(p).window)
      /\ Filled(p).window[Position(Filled(p), p)].index = p.index
  BY FilledFacts
<1>. DEFINE at == Position(Filled(p), p)
<1>. HIDE DEF st, pos, at
<1>4. st.window \in Seq(Partial) /\ st.window[pos] \in Partial /\ st.stats \in Stats
  BY <1>1, ElementOfSeq DEF State
<1>5. ff.index = p.index
  BY <1>1, <1>4 DEF Partial
<1>. HIDE DEF ff
<1>6. /\ DOMAIN ww = DOMAIN st.window
      /\ \A i \in 1 .. Len(st.window) : ww[i] = IF i = pos THEN ff ELSE st.window[i]
  BY <1>1, <1>4, LenProperties
<1>7. sts.lost = st.stats.lost /\ sts.skipped = st.stats.skipped /\ sts.delivered = st.stats.delivered
  BY <1>4 DEF Stats
<1>. HIDE DEF ww, sts
<1>8. /\ Filled(p).window = ww /\ Filled(p).stats = sts
      /\ Filled(p).floor = st.floor /\ Filled(p).pending = st.pending
      /\ Filled(p).awaiting = st.awaiting
  BY <1>1, <1>2 DEF State
<1>9. ww \in Seq(Partial) /\ Len(ww) = Len(st.window)
  <2>1. ww \in Seq(Partial)
    BY <1>3, <1>8 DEF State
  <2>2. DOMAIN ww = 1 .. Len(ww) /\ DOMAIN st.window = 1 .. Len(st.window)
        /\ Len(ww) \in Nat /\ Len(st.window) \in Nat
    BY <1>4, <2>1, LenProperties
  <2>3. 1 .. Len(ww) = 1 .. Len(st.window)
    BY <1>6, <2>2
  <2>. QED
    BY <2>1, <2>2, <2>3
<1>10. \A i \in 1 .. Len(ww) : ww[i].index = st.window[i].index
  BY <1>1, <1>5, <1>6, <1>9
<1>11. Ordered(ww) /\ Above(ww, st.floor)
  BY <1>1, <1>9, <1>10 DEF Placed, Ordered, Above
<1>12. at \in 1 .. Len(ww) /\ ww[at].index = p.index /\ ww[pos].index = p.index
  BY <1>1, <1>3, <1>5, <1>6, <1>8 DEF at
<1>13. at = pos
  <2>1. pos \in 1 .. Len(ww)
    BY <1>1, <1>9
  <2>2. at < pos \/ at = pos \/ pos < at
    BY <1>12, <2>1
  <2>3. Off(p.index) \in Int
    BY SpanFacts, OffFacts
  <2>. QED
    BY <1>11, <1>12, <2>1, <2>2, <2>3 DEF Ordered
<1>14. \A i \in 1 .. Len(ww) : i # at => ~Whole(ww[i])
  BY <1>1, <1>6, <1>9, <1>13 DEF Waits
<1>. QED
  BY <1>1, <1>7, <1>8, <1>9, <1>11, <1>14 DEF Placed, at, st

\* finish keeps the frames ahead of the one it retires, and gives up on all others.
LEMMA RetirePlaced ==
  ASSUME OneSpan, NEW st \in State, Placed(st), NEW pos \in 1 .. Len(st.window),
         \A i \in 1 .. Len(st.window) : i # pos => ~Whole(st.window[i]),
         Len(st.window) <= WindowFrames
  PROVE  /\ Placed(Retire(st, pos)) /\ Waits(Retire(st, pos).window)
         /\ Len(Retire(st, pos).window) <= WindowFrames
         /\ \E first \in Near :
              LET index == st.window[pos].index
                  told  == IF first = index THEN st ELSE DeclareLost(st, first, WrapDec(index))
              IN  /\ index \in Near /\ Off(first) <= Off(index)
                  /\ st.floor # None => first = WrapInc(st.floor) /\ Off(st.floor) < Off(index)
                  /\ Retire(st, pos).stats = told.stats /\ Retire(st, pos).pending = told.pending
                  /\ Retire(st, pos).awaiting = told.awaiting
PROOF
<1>. DEFINE w == st.window
            index == w[pos].index
            rest == RemoveAt(w, pos)
            keepAt == SelectInSeq(rest, LAMBDA f : ~Newer(index, f.index))
            I == {i \in 1 .. Len(rest) : ~Newer(index, rest[i].index)}
            keep == IF keepAt = 0 THEN Len(rest) + 1 ELSE keepAt
            first == IF st.floor # None THEN WrapInc(st.floor)
                     ELSE IF keep > 1 THEN rest[1].index ELSE index
            told == IF first = index THEN st ELSE DeclareLost(st, first, WrapDec(index))
            ww == SubSeq(rest, keep, Len(rest))
<1>1. w \in Seq(Partial) /\ Len(w) \in Nat /\ WindowFrames \in Nat
  BY LenProperties, SizeAssumption DEF State
<1>2. index \in Near /\ Off(index) \in Int /\ index \in Index
  BY OffFacts DEF Placed, Ordered, Near
<1>3. keepAt = IF I # {} THEN Min(I) ELSE 0
  BY DEF SelectInSeq
<1>4. Retire(st, pos) = [told EXCEPT !.window = ww, !.floor = index]
  BY DEF Retire
<1>6. Retire(st, pos).floor = index
  BY RetireFacts
<1>. HIDE DEF w, rest, keepAt
<1>7. /\ Thinned(rest, w) /\ rest \in Seq(Partial) /\ Len(rest) = Len(w) - 1
      /\ \A i \in 1 .. Len(rest) :
           \E k \in 1 .. Len(w) : k # pos /\ rest[i] = w[k] /\ (i < pos <=> k < pos)
  <2>1. rest = RemoveAt(w, pos)
    BY DEF rest
  <2>2. pos \in 1 .. Len(w)
    BY DEF w
  <2>. HIDE DEF index, I, keep, first, told, ww
  <2>3. Thinned(rest, w) /\ rest \in Seq(Partial) /\ Len(rest) = Len(w) - 1
    BY <1>1, <2>1, <2>2, RemovedThinned
  <2>4. \A i \in 1 .. Len(rest) :
          \E k \in 1 .. Len(w) : k # pos /\ rest[i] = w[k] /\ (i < pos <=> k < pos)
    BY <1>1, <2>1, <2>2, RemovedThinned
  <2>. QED
    BY <2>3, <2>4
<1>8. Len(rest) \in Nat /\ Ordered(rest)
  BY <1>7, LenProperties, ThinnedKeeps DEF Placed, w
<1>9. ASSUME NEW i \in 1 .. Len(rest)
      PROVE  ~Whole(rest[i]) /\ rest[i].index \in Near /\ Off(rest[i].index) # Off(index)
             /\ Off(rest[i].index) \in Int
             /\ (Newer(index, rest[i].index) <=> Off(rest[i].index) < Off(index))
  <2>1. PICK k \in 1 .. Len(w) : k # pos /\ rest[i] = w[k]
    BY <1>7
  <2>2. ~Whole(w[k]) /\ w[k].index \in Near
    BY <2>1 DEF w, Placed, Ordered
  <2>3. k < pos \/ pos < k
    BY <1>1, <2>1 DEF w
  <2>4. Off(w[k].index) # Off(index) /\ Off(w[k].index) \in Int
    BY <1>2, <2>2, <2>3, OffFacts DEF Placed, Ordered, w
  <2>. QED
    BY <1>2, <2>1, <2>2, <2>4, OffFacts
<1>10. I # {} => Min(I) \in I /\ \A y \in I : Min(I) <= y
  BY <1>8, LeastPosition, I \in SUBSET (1 .. Len(rest))
<1>11. /\ keep \in 1 .. Len(rest) + 1
       /\ keep > 1 => 1 \in 1 .. Len(rest) /\ Newer(index, rest[1].index)
       /\ \A i \in keep .. Len(rest) : Off(index) < Off(rest[i].index)
  <2>1. CASE I = {}
    <3>1. keep = Len(rest) + 1
      BY <1>3, <2>1
    <3>2. keep > 1 => 1 \in 1 .. Len(rest)
      BY <1>8, <3>1
    <3>3. \A i \in 1 .. Len(rest) : Newer(index, rest[i].index)
      BY <2>1
    <3>4. \A i \in keep .. Len(rest) : FALSE
      BY <1>8, <3>1
    <3>5. keep \in 1 .. Len(rest) + 1
      BY <1>8, <3>1
    <3>. HIDE DEF keep, I, index
    <3>. QED
      BY <3>2, <3>3, <3>4, <3>5
  <2>2. CASE I # {}
    <3>1. keep = Min(I) /\ Min(I) \in I /\ \A y \in I : Min(I) <= y
      <4>1. Min(I) \in I /\ \A y \in I : Min(I) <= y
        BY <1>10, <2>2
      <4>2. I \subseteq 1 .. Len(rest)
        OBVIOUS
      <4>3. keepAt = Min(I)
        BY <1>3, <2>2
      <4>. HIDE DEF I
      <4>. QED
        BY <4>1, <4>2, <4>3
    <3>2. keep \in 1 .. Len(rest) /\ ~Newer(index, rest[keep].index)
      BY <3>1
    <3>3. keep > 1 => 1 \in 1 .. Len(rest) /\ Newer(index, rest[1].index)
      <4>1. SUFFICES ASSUME keep > 1 PROVE 1 \in 1 .. Len(rest) /\ 1 \notin I
        OBVIOUS
      <4>. HIDE DEF I, keep
      <4>. QED
        BY <1>8, <3>1, <3>2, <4>1
    <3>. HIDE DEF I, keep
    <3>4. Off(index) < Off(rest[keep].index)
      BY <1>2, <1>9, <3>2
    <3>5. ASSUME NEW i \in keep .. Len(rest) PROVE Off(index) < Off(rest[i].index)
      <4>1. i \in 1 .. Len(rest) /\ (i = keep \/ keep < i)
        BY <1>8, <3>2
      <4>2. keep < i => Off(rest[keep].index) < Off(rest[i].index)
        BY <1>8, <3>2, <4>1 DEF Ordered
      <4>3. Off(rest[keep].index) \in Int /\ Off(rest[i].index) \in Int
        BY <1>9, <3>2, <4>1
      <4>. HIDE DEF index
      <4>. QED
        BY <1>2, <3>4, <4>1, <4>2, <4>3
    <3>. QED
      BY <1>8, <3>2, <3>3, <3>5
  <2>. QED
    BY <2>1, <2>2
<1>. HIDE DEF I, keep
<1>12. /\ Thinned(ww, rest) /\ ww \in Seq(Partial) /\ Len(ww) = Len(rest) - keep + 1
       /\ \A i \in 1 .. Len(ww) : ww[i] = rest[keep + i - 1] /\ keep + i - 1 \in 1 .. Len(rest)
  BY <1>7, <1>11, SuffixThinned
<1>13. Ordered(ww) /\ Waits(ww) /\ Len(ww) <= WindowFrames
  <2>1. Waits(rest)
    BY <1>9 DEF Waits
  <2>2. Len(ww) <= WindowFrames
    BY <1>1, <1>7, <1>8, <1>11, <1>12 DEF w
  <2>. QED
    BY <1>8, <1>12, <2>1, <2>2, ThinnedKeeps
<1>14. Above(ww, index)
  <2>1. ASSUME NEW i \in 1 .. Len(ww) PROVE Off(index) < Off(ww[i].index)
    <3>1. keep + i - 1 \in keep .. Len(rest) /\ ww[i] = rest[keep + i - 1]
      BY <1>8, <1>11, <1>12
    <3>. QED
      BY <1>11, <3>1
  <2>. QED
    BY <1>2, <2>1 DEF Above
<1>15. st.floor # None => Off(st.floor) < Off(index) /\ st.floor \in Near
  BY DEF Placed, Above, w
<1>16. first \in Near /\ Off(first) <= Off(index)
  <2>1. CASE st.floor # None
    <3>1. WrapInc(st.floor) \in Near /\ Off(WrapInc(st.floor)) = Off(st.floor) + 1
      BY <1>2, <1>15, <2>1, OffNext
    <3>2. Off(st.floor) \in Int
      BY <1>15, <2>1, OffFacts
    <3>3. first = WrapInc(st.floor)
      BY <2>1
    <3>. HIDE DEF first, index
    <3>. QED
      BY <1>2, <1>15, <2>1, <3>1, <3>2, <3>3
  <2>2. CASE st.floor = None /\ keep > 1
    <3>1. first = rest[1].index
      BY <2>2
    <3>. HIDE DEF first, index
    <3>. QED
      BY <1>2, <1>9, <1>11, <2>2, <3>1
  <2>3. CASE st.floor = None /\ ~ (keep > 1)
    <3>1. first = index
      BY <2>3
    <3>. HIDE DEF first, index
    <3>. QED
      BY <1>2, <3>1
  <2>. QED
    BY <2>1, <2>2, <2>3
<1>17. st.floor # None => first = WrapInc(st.floor)
  OBVIOUS
<1>18. told \in State
  <2>1. CASE first = index
    BY <2>1
  <2>2. CASE first # index
    <3>1. told = DeclareLost(st, first, WrapDec(index))
      BY <2>2
    <3>2. first \in Index /\ WrapDec(index) \in Index
      BY <1>2, <1>16, WrapType DEF Near
    <3>. HIDE DEF first, told, index
    <3>. QED
      BY <3>1, <3>2, DeclareLostFacts
  <2>. QED
    BY <2>1, <2>2
<1>19. /\ Retire(st, pos).window = ww /\ Retire(st, pos).stats = told.stats
       /\ Retire(st, pos).pending = told.pending /\ Retire(st, pos).awaiting = told.awaiting
  <2>. HIDE DEF told, index, ww
  <2>. QED
    BY <1>4, <1>18 DEF State
<1>. HIDE DEF first, ww
<1>20. /\ index \in Near /\ Off(first) <= Off(index)
       /\ st.floor # None => first = WrapInc(st.floor) /\ Off(st.floor) < Off(index)
       /\ Retire(st, pos).stats = told.stats /\ Retire(st, pos).pending = told.pending
       /\ Retire(st, pos).awaiting = told.awaiting
  BY <1>2, <1>15, <1>16, <1>17, <1>19
<1>21. Placed(Retire(st, pos)) /\ Waits(Retire(st, pos).window)
       /\ Len(Retire(st, pos).window) <= WindowFrames
  BY <1>6, <1>13, <1>14, <1>19 DEF Placed
<1>. QED
  BY <1>16, <1>20, <1>21 DEF w

LEMMA FinishedPlaced ==
  ASSUME OneSpan, TypeOK, PlacedInv, NEW p \in Packet, Accepts(p)
  PROVE  Placed(Finished(p)) /\ Waits(Finished(p).window) /\ Len(Finished(p).window) <= WindowFrames
PROOF
<1>. DEFINE st == Filled(p)
            pos == Position(st, p)
<1>1. /\ st \in State /\ pos \in 1 .. Len(st.window) /\ Placed(st)
      /\ Len(st.window) <= WindowFrames
      /\ \A i \in 1 .. Len(st.window) : i # pos => ~Whole(st.window[i])
  BY FilledFacts, FilledPlaced
<1>2. Finished(p) = Retire(st, pos)
  BY DEF Finished
<1>. HIDE DEF st, pos
<1>. QED
  BY <1>1, <1>2, RetirePlaced

\* How a push ends, as far as window and floor are concerned.
LEMMA PushEnds ==
  ASSUME TypeOK, NEW p \in Packet, Push(p)
  PROVE  \/ UNCHANGED <<window, floor, pendingLoss, restarts, awaiting, lastOut>>
            /\ SettledCount' = SettledCount /\ stats'.lost = stats.lost
         \/ PushShard(p)
         \/ /\ Accepts(p)
            /\ window' = Finished(p).window /\ floor' = Finished(p).floor
            /\ FinishUnrecoverable(p) \/ FinishRunt(p) \/ FinishSkip(p)
                 \/ FinishKey(p) \/ FinishPredicted(p)
PROOF
<1>1. stats \in Stats
  BY DEF TypeOK
<1>2. ASSUME NEW f \in {"late", "malformed", "duplicate"}, Count(f), UnchangedButStats
      PROVE  UNCHANGED <<window, floor, pendingLoss, restarts, awaiting, lastOut>>
             /\ SettledCount' = SettledCount /\ stats'.lost = stats.lost
  <2>1. /\ stats'.delivered = stats.delivered /\ stats'.skipped = stats.skipped
        /\ stats'.lost = stats.lost
    BY <1>1, <1>2 DEF Count, Stats
  <2>. QED
    BY <1>2, <2>1 DEF UnchangedButStats, SettledCount
<1>3. CASE PushMalformed(p) \/ PushLate(p) \/ PushStale(p) \/ PushMismatch(p) \/ PushDuplicate(p)
  BY <1>2, <1>3 DEF PushMalformed, PushLate, PushStale, PushMismatch, PushDuplicate
<1>4. CASE FinishUnrecoverable(p)
  <2>1. Finished(p) \in State /\ p.index \in Index
    BY <1>4, FinishedFacts, PacketAssumption DEF FinishUnrecoverable
  <2>. QED
    BY <1>4, <2>1, DeclareLostFacts DEF FinishUnrecoverable, Become
<1>5. CASE FinishRunt(p)
  <2>. DEFINE ss == [Finished(p) EXCEPT !.stats.malformed = Bump(@)]
  <2>1. Finished(p) \in State /\ p.index \in Index
    BY <1>5, FinishedFacts, PacketAssumption DEF FinishRunt
  <2>2. ss \in State /\ ss.window = Finished(p).window /\ ss.floor = Finished(p).floor
    <3>. DEFINE sts == [Finished(p).stats EXCEPT !.malformed = Bump(@)]
    <3>1. Finished(p).stats \in Stats
      BY <2>1 DEF State
    <3>2. Bump(Finished(p).stats.malformed) \in Nat
      BY <3>1, BumpType DEF Stats
    <3>3. sts \in Stats
      BY <3>1, <3>2 DEF Stats
    <3>4. ss = [Finished(p) EXCEPT !.stats = sts]
      OBVIOUS
    <3>. HIDE DEF sts, ss
    <3>. QED
      BY <2>1, <3>3, <3>4 DEF State
  <2>3. Accepts(p) /\ Become(DeclareLost(ss, p.index, p.index))
    BY <1>5 DEF FinishRunt
  <2>. HIDE DEF ss
  <2>. QED
    BY <1>5, <2>1, <2>2, <2>3, DeclareLostFacts DEF Become
<1>6. CASE FinishSkip(p)
  <2>1. Finished(p) \in State
    BY <1>6, FinishedFacts DEF FinishSkip
  <2>. QED
    BY <1>6, <2>1 DEF FinishSkip, Become, State
<1>7. CASE FinishKey(p) \/ FinishPredicted(p)
  <2>1. PICK key \in BOOLEAN : Emit(p, key)
    BY <1>7 DEF FinishKey, FinishPredicted
  <2>2. Accepts(p)
    BY <2>1 DEF Emit
  <2>3. Finished(p) \in State
    BY <2>2, FinishedFacts
  <2>4. window' = Finished(p).window /\ floor' = Finished(p).floor
    BY <2>1, <2>3 DEF Emit, Become, State
  <2>. QED
    BY <1>7, <2>2, <2>4
<1>. QED
  BY <1>3, <1>4, <1>5, <1>6, <1>7 DEF Push

LEMMA NextPlacedInv ==
  ASSUME OneSpan, TypeOK, PlacedInv, [Next]_vars
  PROVE  PlacedInv'
PROOF
<1>1. ASSUME UNCHANGED <<window, floor>> PROVE PlacedInv'
  BY <1>1 DEF PlacedInv
<1>2. ASSUME NEW st \in State, Placed(st), Waits(st.window), Len(st.window) <= WindowFrames,
             window' = st.window, floor' = st.floor
      PROVE  PlacedInv'
  BY <1>2 DEF PlacedInv, Placed
<1>3. ASSUME NEW p \in Packet, Push(p) PROVE PlacedInv'
  <2>1. CASE UNCHANGED <<window, floor>>
    BY <1>1, <2>1
  <2>2. CASE PushShard(p)
    <3>1. Accepts(p) /\ ~Whole(FilledFrame(p)) /\ Become(Filled(p))
      BY <2>2 DEF PushShard
    <3>2. /\ Filled(p) \in State /\ Placed(Filled(p)) /\ Len(Filled(p).window) <= WindowFrames
          /\ \A i \in 1 .. Len(Filled(p).window) :
               i # Position(Filled(p), p) => ~Whole(Filled(p).window[i])
      BY <3>1, FilledFacts, FilledPlaced
    <3>3. ~Whole(Filled(p).window[Position(Filled(p), p)])
      BY <3>1 DEF FilledFrame
    <3>4. Waits(Filled(p).window)
      BY <3>2, <3>3 DEF Waits
    <3>. QED
      BY <1>2, <3>1, <3>2, <3>4 DEF Become
  <2>3. CASE Accepts(p) /\ window' = Finished(p).window /\ floor' = Finished(p).floor
    BY <1>2, <2>3, FinishedFacts, FinishedPlaced
  <2>. QED
    BY <1>3, <2>1, <2>2, <2>3, PushEnds
<1>4. CASE TakeLoss \/ RequireKeyframe \/ UNCHANGED vars
  BY <1>1, <1>4 DEF TakeLoss, RequireKeyframe, vars
<1>. QED
  BY <1>3, <1>4 DEF Next

LEMMA InitPlacedInv == Init => PlacedInv
BY SizeAssumption DEF Init, PlacedInv, Ordered, Above, Waits

\* Frames of one span stay in order and ahead of the floor, no more than WindowFrames of
\* them.
THEOREM WindowStaysAhead ==
  ASSUME OneSpan
  PROVE  Spec => []WindowAhead
PROOF
<1>1. GateInv /\ PlacedInv /\ [Next]_vars => PlacedInv'
  BY NextPlacedInv DEF GateInv
<1>2. GateInv /\ PlacedInv => WindowAhead
  <2>1. SUFFICES ASSUME TypeOK, PlacedInv PROVE WindowAhead
    BY DEF GateInv
  <2>2. DOMAIN window = 1 .. Len(window)
    BY LenProperties DEF TypeOK
  <2>3. ASSUME NEW i \in 1 .. Len(window), floor # None PROVE Newer(window[i].index, floor)
    BY <2>1, <2>3, OffFacts DEF PlacedInv, Ordered, Above
  <2>4. ASSUME NEW i \in 1 .. Len(window), NEW j \in 1 .. Len(window), i < j
        PROVE  Newer(window[j].index, window[i].index)
    BY <2>1, <2>4, OffFacts DEF PlacedInv, Ordered
  <2>. QED
    BY <2>1, <2>2, <2>3, <2>4 DEF WindowAhead, PlacedInv
<1>. QED
  BY InitGateInv, NextGateInv, InitPlacedInv, <1>1, <1>2, PTL DEF Spec

\* No frame that could be finished is left in the window after a push.
THEOREM NothingWaits ==
  ASSUME OneSpan
  PROVE  Spec => []NothingWholeWaits
PROOF
<1>1. GateInv /\ PlacedInv /\ [Next]_vars => PlacedInv'
  BY NextPlacedInv DEF GateInv
<1>2. GateInv /\ PlacedInv => NothingWholeWaits
  <2>1. SUFFICES ASSUME TypeOK, PlacedInv PROVE NothingWholeWaits
    BY DEF GateInv
  <2>2. DOMAIN window = 1 .. Len(window)
    BY LenProperties DEF TypeOK
  <2>. QED
    BY <2>1, <2>2 DEF NothingWholeWaits, PlacedInv, Waits
<1>. QED
  BY InitGateInv, NextGateInv, InitPlacedInv, <1>1, <1>2, PTL DEF Spec

-----------------------------------------------------------------------------
(* The accounts of a push: what it counts lost, what it reports, and how far the floor   *)
(* moves.                                                                                 *)

\* What the push has counted and reported on the way from o to st: the frames between the
\* two floors, less the newest when it is not decided yet (gap = 1).
Told(o, st, gap) ==
  LET lost == st.stats.lost - o.stats.lost
  IN  /\ lost \in Nat
      /\ st.stats.skipped = o.stats.skipped /\ st.stats.delivered = o.stats.delivered
      /\ st.floor # None => st.floor \in Near
      /\ st.floor = None => o.floor = None /\ lost = 0
      /\ o.floor # None => o.floor \in Near /\ lost = Off(st.floor) - Off(o.floor) - gap
      /\ lost = 0 => st.pending = o.pending
      /\ lost > 0 =>
           \E first, last \in Near :
             /\ Off(first) <= Off(last) /\ Off(last) = Off(st.floor) - gap
             /\ o.pending = {} => /\ st.pending = {[first |-> first, last |-> last]}
                                  /\ lost = Off(last) - Off(first) + 1
             /\ o.pending # {} => st.pending = {[first |-> r.first, last |-> last] : r \in o.pending}

\* The report after frames first to last are declared lost.
Reported(pending, first, last) ==
  IF pending = {} THEN {[first |-> first, last |-> last]}
  ELSE {[first |-> r.first, last |-> last] : r \in pending}

LEMMA DeclareLostShape ==
  ASSUME OneSpan, NEW st \in State, NEW first \in Near, NEW last \in Near, Off(first) <= Off(last)
  PROVE  /\ DeclareLost(st, first, last) \in State
         /\ DeclareLost(st, first, last).stats.lost = st.stats.lost + (Off(last) - Off(first) + 1)
         /\ DeclareLost(st, first, last).stats.skipped = st.stats.skipped
         /\ DeclareLost(st, first, last).stats.delivered = st.stats.delivered
         /\ DeclareLost(st, first, last).floor = st.floor
         /\ DeclareLost(st, first, last).pending = Reported(st.pending, first, last)
PROOF
<1>. DEFINE run == [first |-> first, last |-> last]
            pend == IF st.pending = {} THEN {run}
                    ELSE {[first |-> r.first, last |-> last] : r \in st.pending}
            sts == [st.stats EXCEPT !.lost = @ + Frames(run)]
            told == DeclareLost(st, first, last)
<1>1. told = [st EXCEPT !.stats = sts, !.pending = pend, !.awaiting = @ \/ Gate]
  BY DEF DeclareLost
<1>2. Frames(run) = Off(last) - Off(first) + 1
  BY RunLength
<1>3. told \in State /\ told.floor = st.floor
  BY DeclareLostFacts DEF Near
<1>4. /\ sts.lost = st.stats.lost + Frames(run)
      /\ sts.skipped = st.stats.skipped /\ sts.delivered = st.stats.delivered
  BY DEF State, Stats
<1>. HIDE DEF sts, pend
<1>5. told.stats = sts /\ told.pending = pend
  BY <1>1 DEF State
<1>. HIDE DEF told, run
<1>6. /\ told \in State
      /\ told.stats.lost = st.stats.lost + (Off(last) - Off(first) + 1)
      /\ told.stats.skipped = st.stats.skipped
      /\ told.stats.delivered = st.stats.delivered
      /\ told.floor = st.floor
      /\ told.pending = pend
  BY <1>2, <1>3, <1>4, <1>5
<1>7. pend = Reported(st.pending, first, last)
  BY DEF pend, run, Reported
<1>. QED
  BY <1>6, <1>7 DEF told

\* Declaring the frames after those already told.
LEMMA ToldMore ==
  ASSUME OneSpan, NEW o \in State, NEW st \in State, NEW gap \in {0, 1}, Told(o, st, gap),
         NEW first \in Near, NEW last \in Near, Off(first) <= Off(last),
         st.floor # None => Off(first) = Off(st.floor) - gap + 1,
         NEW ss \in State, NEW newGap \in {0, 1},
         ss.floor \in Near, Off(last) = Off(ss.floor) - newGap,
         ss.stats.lost = DeclareLost(st, first, last).stats.lost,
         ss.stats.skipped = st.stats.skipped, ss.stats.delivered = st.stats.delivered,
         ss.pending = DeclareLost(st, first, last).pending
  PROVE  Told(o, ss, newGap)
PROOF
<1>. DEFINE lost == st.stats.lost - o.stats.lost
            more == ss.stats.lost - o.stats.lost
            Run1(f, l) == {[first |-> f, last |-> l]}
            Grown(s, l) == {[first |-> r.first, last |-> l] : r \in s}
<1>1. /\ lost \in Nat
      /\ st.stats.skipped = o.stats.skipped /\ st.stats.delivered = o.stats.delivered
      /\ st.floor # None => st.floor \in Near
      /\ st.floor = None => o.floor = None /\ lost = 0
      /\ o.floor # None => o.floor \in Near /\ lost = Off(st.floor) - Off(o.floor) - gap
      /\ lost = 0 => st.pending = o.pending
      /\ lost > 0 =>
           \E f, l \in Near :
             /\ Off(f) <= Off(l) /\ Off(l) = Off(st.floor) - gap
             /\ o.pending = {} => st.pending = Run1(f, l) /\ lost = Off(l) - Off(f) + 1
             /\ o.pending # {} => st.pending = Grown(o.pending, l)
  BY DEF Told
<1>2. /\ ss.stats.lost = st.stats.lost + (Off(last) - Off(first) + 1)
      /\ ss.pending = IF st.pending = {} THEN Run1(first, last) ELSE Grown(st.pending, last)
  <2>1. ss.stats.lost = st.stats.lost + (Off(last) - Off(first) + 1)
    BY DeclareLostShape
  <2>2. ss.pending = Reported(st.pending, first, last)
    BY DeclareLostShape
  <2>. QED
    BY <2>1, <2>2 DEF Reported
<1>3. o.stats.lost \in Nat /\ st.stats.lost \in Nat
  BY DEF State, Stats
<1>4. Off(first) \in Nat /\ Off(last) \in Nat /\ Off(ss.floor) \in Nat
  BY OffFacts, SpanFacts
<1>5. more = lost + (Off(last) - Off(first) + 1) /\ more > 0 /\ more \in Nat
  BY <1>1, <1>2, <1>3, <1>4
<1>6. ASSUME o.floor # None
      PROVE  o.floor \in Near /\ more = Off(ss.floor) - Off(o.floor) - newGap
  <2>1. st.floor # None /\ st.floor \in Near
    BY <1>1, <1>6
  <2>2. Off(o.floor) \in Nat /\ Off(st.floor) \in Nat
    BY <1>1, <1>6, <2>1, OffFacts, SpanFacts
  <2>. HIDE DEF lost, more
  <2>. QED
    BY <1>1, <1>4, <1>5, <1>6, <2>1, <2>2
<1>7. \E f, l \in Near :
        /\ Off(f) <= Off(l) /\ Off(l) = Off(ss.floor) - newGap
        /\ o.pending = {} => ss.pending = Run1(f, l) /\ more = Off(l) - Off(f) + 1
        /\ o.pending # {} => ss.pending = Grown(o.pending, l)
  <2>1. CASE lost = 0
    <3>1. st.pending = o.pending
      BY <1>1, <2>1
    <3>2. more = Off(last) - Off(first) + 1
      BY <1>4, <1>5, <2>1
    <3>. HIDE DEF Run1, Grown, more, lost
    <3>. QED
      BY <1>2, <3>1, <3>2
  <2>2. CASE lost > 0
    <3>1. PICK f \in Near, l \in Near :
             /\ Off(f) <= Off(l) /\ Off(l) = Off(st.floor) - gap
             /\ o.pending = {} => st.pending = Run1(f, l) /\ lost = Off(l) - Off(f) + 1
             /\ o.pending # {} => st.pending = Grown(o.pending, l)
      BY <1>1, <2>2
    <3>2. st.floor # None /\ st.floor \in Near
      BY <1>1, <2>2
    <3>3. Off(f) \in Nat /\ Off(l) \in Nat /\ Off(st.floor) \in Nat
      BY <3>2, OffFacts, SpanFacts
    <3>4. Off(l) = Off(first) - 1 /\ Off(f) <= Off(last)
      BY <1>4, <3>1, <3>2, <3>3
    <3>5. CASE o.pending = {}
      <4>1. ss.pending = Grown(Run1(f, l), last)
        <5>1. st.pending = Run1(f, l) /\ Run1(f, l) # {}
          BY <3>1, <3>5
        <5>. HIDE DEF Run1, Grown
        <5>. QED
          BY <1>2, <5>1
      <4>2. Grown(Run1(f, l), last) = Run1(f, last)
        OBVIOUS
      <4>3. more = Off(last) - Off(f) + 1
        BY <1>4, <1>5, <3>1, <3>3, <3>4, <3>5
      <4>. HIDE DEF Run1, Grown, more, lost
      <4>. QED
        BY <3>4, <3>5, <4>1, <4>2, <4>3
    <3>6. CASE o.pending # {}
      <4>1. st.pending = Grown(o.pending, l) /\ Grown(o.pending, l) # {}
        BY <3>1, <3>6
      <4>2. Grown(Grown(o.pending, l), last) = Grown(o.pending, last)
        <5>1. ASSUME NEW x \in Grown(Grown(o.pending, l), last)
              PROVE  x \in Grown(o.pending, last)
          <6>1. PICK r \in o.pending : x = [first |-> [first |-> r.first, last |-> l].first,
                                           last |-> last]
            OBVIOUS
          <6>2. x = [first |-> r.first, last |-> last]
            BY <6>1
          <6>. QED
            BY <6>2
        <5>2. ASSUME NEW x \in Grown(o.pending, last)
              PROVE  x \in Grown(Grown(o.pending, l), last)
          <6>1. PICK r \in o.pending : x = [first |-> r.first, last |-> last]
            OBVIOUS
          <6>. DEFINE q == [first |-> r.first, last |-> l]
          <6>2. q \in Grown(o.pending, l) /\ q.first = r.first
            OBVIOUS
          <6>. HIDE DEF q
          <6>3. x = [first |-> q.first, last |-> last]
            BY <6>1, <6>2
          <6>. QED
            BY <6>2, <6>3
        <5>. HIDE DEF Grown
        <5>. QED
          BY <5>1, <5>2
      <4>3. ss.pending = Grown(o.pending, last)
        <5>. HIDE DEF Run1, Grown
        <5>. QED
          BY <1>2, <4>1, <4>2
      <4>. HIDE DEF Run1, Grown, more, lost
      <4>. QED
        BY <3>4, <3>6, <4>3
    <3>. QED
      BY <3>5, <3>6
  <2>. HIDE DEF lost
  <2>. QED
    BY <1>1, <2>1, <2>2
<1>8. ss.floor # None
  BY NoneAssumption DEF Near
<1>. HIDE DEF lost
<1>. QED
  BY <1>1, <1>5, <1>6, <1>7, <1>8 DEF Told

\* Nothing declared: the floor stands, or moves to the frame right after it.
LEMMA ToldSame ==
  ASSUME OneSpan, NEW o \in State, NEW st \in State, NEW gap \in {0, 1}, Told(o, st, gap),
         NEW ss \in State, NEW newGap \in {0, 1},
         \/ ss.floor = st.floor /\ newGap = gap
         \/ ss.floor \in Near /\ st.floor = None
         \/ ss.floor \in Near /\ st.floor # None /\ Off(ss.floor) - newGap = Off(st.floor) - gap,
         ss.stats.lost = st.stats.lost,
         ss.stats.skipped = st.stats.skipped, ss.stats.delivered = st.stats.delivered,
         ss.pending = st.pending
  PROVE  Told(o, ss, newGap)
PROOF
<1>1. CASE ss.floor = st.floor /\ newGap = gap
  BY <1>1 DEF Told
<1>2. CASE ss.floor \in Near /\ st.floor = None
  <2>1. o.floor = None /\ ss.stats.lost - o.stats.lost = 0
    BY <1>2 DEF Told
  <2>2. ss.floor # None
    BY <1>2, NoneAssumption DEF Near
  <2>. QED
    BY <1>2, <2>1, <2>2 DEF Told
<1>3. CASE ss.floor \in Near /\ st.floor # None /\ Off(ss.floor) - newGap = Off(st.floor) - gap
  <2>1. ss.floor # None
    BY <1>3, NoneAssumption DEF Near
  <2>2. Off(ss.floor) \in Nat /\ Off(st.floor) \in Nat
    BY <1>3, OffFacts, SpanFacts DEF Told
  <2>3. ASSUME o.floor # None
        PROVE  o.floor \in Near
               /\ ss.stats.lost - o.stats.lost = Off(ss.floor) - Off(o.floor) - newGap
    <3>1. o.floor \in Near /\ ss.stats.lost - o.stats.lost = Off(st.floor) - Off(o.floor) - gap
      BY <2>3 DEF Told
    <3>2. Off(o.floor) \in Nat
      BY <3>1, OffFacts, SpanFacts
    <3>. QED
      BY <1>3, <2>2, <3>1, <3>2
  <2>. QED
    BY <1>3, <2>1, <2>3 DEF Told
<1>. QED
  BY <1>1, <1>2, <1>3

LEMMA ToldNothing ==
  ASSUME OneSpan, NEW o \in State, Placed(o)
  PROVE  Told(o, o, 0)
PROOF
<1>1. o.stats.lost \in Nat
  BY DEF State, Stats
<1>2. o.stats.lost - o.stats.lost = 0
  BY <1>1
<1>3. o.floor # None => o.floor \in Near
  BY DEF Placed, Above
<1>4. o.floor # None => Off(o.floor) - Off(o.floor) - 0 = 0
  <2>1. o.floor # None => Off(o.floor) \in Nat
    BY <1>3, OffFacts, SpanFacts
  <2>. QED
    BY <2>1
<1>. QED
  BY <1>2, <1>3, <1>4 DEF Told

LEMMA MakeRoomTold ==
  ASSUME OneSpan, NEW o \in State, NEW st \in State, Placed(st), Told(o, st, 0)
  PROVE  Told(o, MakeRoom(st), 0)
PROOF
<1>. DEFINE w == st.window
            cut == [st EXCEPT !.window = Tail(@)]
            index == Head(w).index
            first == IF st.floor = None THEN index ELSE WrapInc(st.floor)
            told == DeclareLost(cut, first, index)
<1>1. w \in Seq(Partial) /\ Len(w) \in Nat /\ WindowFrames \in Nat \ {0}
  BY LenProperties, SizeAssumption DEF State
<1>2. CASE Len(w) < WindowFrames
  BY <1>2 DEF MakeRoom
<1>3. CASE ~ (Len(w) < WindowFrames)
  <2>1. w # <<>> /\ Head(w) = w[1] /\ 1 \in 1 .. Len(w)
    BY <1>1, <1>3
  <2>2. index \in Near /\ (st.floor # None => st.floor \in Near /\ Off(st.floor) < Off(index))
    BY <2>1 DEF Placed, Ordered, Above
  <2>3. /\ cut \in State /\ cut.floor = st.floor /\ cut.stats = st.stats
        /\ cut.pending = st.pending
    <3>1. Tail(w) \in Seq(Partial)
      BY <1>1, <2>1, HeadTailProperties
    <3>2. cut = [st EXCEPT !.window = Tail(w)]
      OBVIOUS
    <3>. HIDE DEF cut, w
    <3>. QED
      BY <3>1, <3>2 DEF State
  <2>4. MakeRoom(st) = [told EXCEPT !.floor = index]
    <3>1. MakeRoom(st) = GiveUpThrough(cut, index)
      BY <1>3 DEF MakeRoom
    <3>. QED
      BY <2>3, <3>1 DEF GiveUpThrough
  <2>. HIDE DEF cut, index, w
  <2>5. /\ first \in Near /\ Off(first) <= Off(index)
        /\ st.floor # None => Off(first) = Off(st.floor) - 0 + 1
    <3>1. CASE st.floor = None
      <4>1. first = index /\ Off(index) \in Nat
        BY <2>2, <3>1, OffFacts, SpanFacts
      <4>. HIDE DEF first
      <4>. QED
        BY <2>2, <3>1, <4>1
    <3>2. CASE st.floor # None
      <4>1. first = WrapInc(st.floor) /\ Off(index) \in Nat /\ Off(st.floor) \in Nat
        BY <2>2, <3>2, OffFacts, SpanFacts
      <4>2. WrapInc(st.floor) \in Near /\ Off(WrapInc(st.floor)) = Off(st.floor) + 1
        BY <2>2, <3>2, OffNext
      <4>. HIDE DEF first
      <4>. QED
        BY <2>2, <3>2, <4>1, <4>2
    <3>. QED
      BY <3>1, <3>2
  <2>. HIDE DEF first
  <2>6. told \in State /\ told.stats.skipped = st.stats.skipped
        /\ told.stats.delivered = st.stats.delivered
    BY <2>2, <2>3, <2>5, DeclareLostShape
  <2>. HIDE DEF told
  <2>7. MakeRoom(st) \in State /\ MakeRoom(st).floor = index
        /\ MakeRoom(st).stats = told.stats /\ MakeRoom(st).pending = told.pending
    <3>1. index \in Index
      BY <2>2 DEF Near
    <3>. QED
      BY <2>4, <2>6, <3>1 DEF State
  <2>8. Told(o, cut, 0)
    BY <2>3, ToldSame
  <2>9. Off(index) = Off(MakeRoom(st).floor) - 0
    <3>1. Off(index) \in Nat
      BY <2>2, OffFacts, SpanFacts
    <3>. QED
      BY <2>7, <3>1
  <2>10. cut.floor # None => Off(first) = Off(cut.floor) - 0 + 1
    BY <2>3, <2>5
  <2>11. /\ MakeRoom(st).stats.lost = DeclareLost(cut, first, index).stats.lost
         /\ MakeRoom(st).stats.skipped = cut.stats.skipped
         /\ MakeRoom(st).stats.delivered = cut.stats.delivered
         /\ MakeRoom(st).pending = DeclareLost(cut, first, index).pending
    BY <2>3, <2>6, <2>7 DEF told
  <2>. DEFINE ss == MakeRoom(st)
  <2>12. ss \in State /\ ss.floor \in Near
    BY <2>2, <2>7
  <2>. QED
    BY <2>2, <2>3, <2>5, <2>8, <2>9, <2>10, <2>11, <2>12, ToldMore
<1>. QED
  BY <1>2, <1>3

LEMMA FilledTold ==
  ASSUME OneSpan, TypeOK, PlacedInv, NEW p \in Packet, Accepts(p)
  PROVE  Told(Entry(p), Filled(p), 0)
PROOF
<1>. DEFINE st == Entry(p)
            room == MakeRoom(st)
<1>1. /\ st \in State /\ Placed(st) /\ Waits(st.window) /\ Len(st.window) <= WindowFrames
  BY EntryFacts, EntryPlaced DEF Accepts
<1>. HIDE DEF st
<1>2. Told(st, room, 0) /\ Told(st, st, 0) /\ room \in State
  BY <1>1, ToldNothing, MakeRoomTold, MakeRoomFacts
<1>. HIDE DEF room
<1>3. Told(st, Opened(p), 0)
  <2>1. CASE Position(st, p) # 0
    BY <1>2, <2>1 DEF Opened, st
  <2>2. CASE Position(st, p) = 0
    <3>1. Opened(p) = Insert(room, p)
      BY <2>2 DEF Opened, st, room
    <3>2. Insert(room, p) \in State /\ Insert(room, p).floor = room.floor
          /\ Insert(room, p).stats = room.stats
      BY <1>2, InsertFacts
    <3>3. Insert(room, p).pending = room.pending
      BY <1>2 DEF Insert, State
    <3>. DEFINE ss == Insert(room, p)
    <3>4. ss \in State /\ ss.floor = room.floor /\ ss.stats = room.stats
          /\ ss.pending = room.pending
      BY <3>2, <3>3
    <3>. HIDE DEF ss
    <3>5. Told(st, ss, 0)
      BY <1>1, <1>2, <3>4, ToldSame
    <3>. QED
      BY <3>1, <3>5 DEF ss
  <2>. QED
    BY <2>1, <2>2
<1>4. /\ Filled(p) \in State /\ Opened(p) \in State
      /\ Filled(p).floor = Opened(p).floor /\ Filled(p).pending = Opened(p).pending
      /\ Filled(p).stats.lost = Opened(p).stats.lost
      /\ Filled(p).stats.skipped = Opened(p).stats.skipped
      /\ Filled(p).stats.delivered = Opened(p).stats.delivered
  BY FilledFacts, FilledPlaced, OpenedFacts
<1>. DEFINE a == Opened(p)
            z == Filled(p)
<1>5. /\ z \in State /\ a \in State /\ z.floor = a.floor /\ z.pending = a.pending
      /\ z.stats.lost = a.stats.lost /\ z.stats.skipped = a.stats.skipped
      /\ z.stats.delivered = a.stats.delivered /\ Told(st, a, 0)
  BY <1>3, <1>4
<1>. HIDE DEF a, z
<1>6. Told(st, z, 0)
  BY <1>1, <1>5, ToldSame
<1>. QED
  BY <1>6 DEF st, z

LEMMA FinishedTold ==
  ASSUME OneSpan, TypeOK, PlacedInv, NEW p \in Packet, Accepts(p)
  PROVE  Told(Entry(p), Finished(p), 1)
PROOF
<1>. DEFINE o == Entry(p)
            st == Filled(p)
            pos == Position(st, p)
            ss == Finished(p)
            index == st.window[pos].index
<1>1. /\ st \in State /\ pos \in 1 .. Len(st.window) /\ Placed(st)
      /\ Len(st.window) <= WindowFrames
      /\ \A i \in 1 .. Len(st.window) : i # pos => ~Whole(st.window[i])
  BY FilledFacts, FilledPlaced
<1>2. ss = Retire(st, pos)
  BY DEF Finished
<1>3. o \in State /\ Told(o, st, 0)
  BY EntryFacts, FilledTold
<1>. HIDE DEF o, st, pos, ss
<1>4. PICK first \in Near :
        /\ index \in Near /\ Off(first) <= Off(index)
        /\ st.floor # None => first = WrapInc(st.floor) /\ Off(st.floor) < Off(index)
        /\ Retire(st, pos).stats
             = (IF first = index THEN st ELSE DeclareLost(st, first, WrapDec(index))).stats
        /\ Retire(st, pos).pending
             = (IF first = index THEN st ELSE DeclareLost(st, first, WrapDec(index))).pending
  BY <1>1, RetirePlaced
<1>5. ss \in State /\ ss.floor = index
  BY <1>1, <1>2, RetireFacts
<1>. HIDE DEF index
<1>6. Off(index) \in Nat /\ Off(first) \in Nat
  BY <1>4, OffFacts, SpanFacts
<1>7. st.floor # None => st.floor \in Near /\ Off(st.floor) \in Nat /\ Off(first) = Off(st.floor) + 1
  <2>1. SUFFICES ASSUME st.floor # None
                 PROVE  st.floor \in Near /\ Off(st.floor) \in Nat /\ Off(first) = Off(st.floor) + 1
    OBVIOUS
  <2>2. st.floor \in Near
    BY <1>1, <2>1 DEF Placed, Above
  <2>. QED
    BY <1>4, <2>1, <2>2, OffNext, OffFacts, SpanFacts
<1>8. CASE first = index
  <2>1. ss.stats = st.stats /\ ss.pending = st.pending
    BY <1>2, <1>4, <1>8
  <2>2. st.floor # None => Off(ss.floor) - 1 = Off(st.floor) - 0
    BY <1>5, <1>6, <1>7, <1>8
  <2>3. ss.floor \in Near
    BY <1>4, <1>5
  <2>. QED
    BY <1>1, <1>3, <1>5, <2>1, <2>2, <2>3, ToldSame DEF o, ss
<1>9. CASE first # index
  <2>. DEFINE last == WrapDec(index)
  <2>1. Off(first) # Off(index)
    BY <1>4, <1>9, OffFacts
  <2>2. Off(index) > 0 /\ Off(first) <= Off(index) - 1
    BY <1>4, <1>6, <2>1
  <2>3. last \in Near /\ Off(last) = Off(index) - 1
    BY <1>4, <2>2, OffNext
  <2>. HIDE DEF last
  <2>4. ss.stats = DeclareLost(st, first, last).stats /\ ss.pending = DeclareLost(st, first, last).pending
    BY <1>2, <1>4, <1>9 DEF last
  <2>5. /\ DeclareLost(st, first, last).stats.skipped = st.stats.skipped
        /\ DeclareLost(st, first, last).stats.delivered = st.stats.delivered
        /\ Off(first) <= Off(last)
    BY <1>1, <2>2, <2>3, DeclareLostShape
  <2>6. ss.floor \in Near /\ Off(last) = Off(ss.floor) - 1
    BY <1>4, <1>5, <2>3
  <2>7. st.floor # None => Off(first) = Off(st.floor) - 0 + 1
    BY <1>7
  <2>8. /\ ss.stats.lost = DeclareLost(st, first, last).stats.lost
        /\ ss.stats.skipped = st.stats.skipped /\ ss.stats.delivered = st.stats.delivered
    BY <2>4, <2>5
  <2>9. Told(o, ss, 1)
    BY <1>1, <1>3, <1>4, <1>5, <2>3, <2>4, <2>5, <2>6, <2>7, <2>8, ToldMore
  <2>. QED
    BY <2>9 DEF o, ss
<1>. QED
  BY <1>8, <1>9

\* How a push that gets as far as the window ends: what was told on the way, and the
\* newest frame counted one way or the other.
LEMMA PushTold ==
  ASSUME OneSpan, TypeOK, PlacedInv, NEW p \in Packet,
         PushShard(p) \/ FinishUnrecoverable(p) \/ FinishRunt(p) \/ FinishSkip(p)
           \/ FinishKey(p) \/ FinishPredicted(p)
  PROVE  \E st \in State, gap \in {0, 1} :
           /\ Told(Entry(p), st, gap)
           /\ floor' = st.floor /\ pendingLoss' = st.pending /\ stats'.lost = st.stats.lost
           /\ SettledCount' = st.stats.delivered + st.stats.skipped + st.stats.lost + gap
           /\ gap = 1 => floor' # None
           /\ Accepts(p)
           /\ restarts' = IF HostRestart(p) THEN restarts + 1 ELSE restarts
PROOF
<1>. DEFINE st == Finished(p)
<1>1. ASSUME NEW ss \in State, NEW gap \in {0, 1}, Told(Entry(p), ss, gap),
             floor' = ss.floor, pendingLoss' = ss.pending, stats'.lost = ss.stats.lost,
             stats'.delivered + stats'.skipped = ss.stats.delivered + ss.stats.skipped + gap,
             gap = 1 => floor' # None, Accepts(p),
             restarts' = IF HostRestart(p) THEN restarts + 1 ELSE restarts
      PROVE  \E s \in State, g \in {0, 1} :
               /\ Told(Entry(p), s, g)
               /\ floor' = s.floor /\ pendingLoss' = s.pending /\ stats'.lost = s.stats.lost
               /\ SettledCount' = s.stats.delivered + s.stats.skipped + s.stats.lost + g
               /\ g = 1 => floor' # None
               /\ Accepts(p)
               /\ restarts' = IF HostRestart(p) THEN restarts + 1 ELSE restarts
  <2>1. SettledCount' = stats'.delivered + stats'.skipped + stats'.lost
    BY DEF SettledCount
  <2>2. ss.stats.delivered \in Nat /\ ss.stats.skipped \in Nat /\ ss.stats.lost \in Nat
    BY DEF State, Stats
  <2>3. SettledCount' = ss.stats.delivered + ss.stats.skipped + ss.stats.lost + gap
    BY <1>1, <2>1, <2>2
  <2>. QED
    BY <1>1, <2>3
<1>2. CASE PushShard(p)
  <2>. DEFINE ss == Filled(p)
  <2>1. /\ Accepts(p) /\ Become(ss)
        /\ restarts' = IF HostRestart(p) THEN restarts + 1 ELSE restarts
    BY <1>2 DEF PushShard, Restarting
  <2>2. ss \in State /\ Told(Entry(p), ss, 0)
    BY <2>1, FilledFacts, FilledTold
  <2>. HIDE DEF ss
  <2>3. /\ floor' = ss.floor /\ pendingLoss' = ss.pending /\ stats' = ss.stats
    BY <2>1 DEF Become
  <2>4. stats'.delivered + stats'.skipped = ss.stats.delivered + ss.stats.skipped + 0
    BY <2>2, <2>3 DEF State, Stats
  <2>. QED
    BY <1>1, <2>1, <2>2, <2>3, <2>4
<1>3. ASSUME Accepts(p)
      PROVE  /\ st \in State /\ Told(Entry(p), st, 1) /\ st.floor = p.index
             /\ p.index \in Near /\ p.index # None
             /\ st.stats.delivered \in Nat /\ st.stats.skipped \in Nat
  <2>1. st \in State /\ st.floor = p.index /\ Told(Entry(p), st, 1)
    BY <1>3, FinishedFacts, FinishedTold
  <2>2. p.index \in Near /\ p.index # None
    BY SpanFacts, NoneAssumption DEF Near
  <2>. HIDE DEF st
  <2>3. st.stats.delivered \in Nat /\ st.stats.skipped \in Nat
    BY <2>1 DEF State, Stats
  <2>. QED
    BY <2>1, <2>2, <2>3
<1>4. ASSUME Accepts(p), NEW ss \in State, ss.floor = st.floor, ss.pending = st.pending,
             ss.stats.lost = st.stats.lost, ss.stats.skipped = st.stats.skipped,
             ss.stats.delivered = st.stats.delivered,
             Become(DeclareLost(ss, p.index, p.index)),
             restarts' = IF HostRestart(p) THEN restarts + 1 ELSE restarts
      PROVE  \E s \in State, g \in {0, 1} :
               /\ Told(Entry(p), s, g)
               /\ floor' = s.floor /\ pendingLoss' = s.pending /\ stats'.lost = s.stats.lost
               /\ SettledCount' = s.stats.delivered + s.stats.skipped + s.stats.lost + g
               /\ g = 1 => floor' # None
               /\ Accepts(p)
               /\ restarts' = IF HostRestart(p) THEN restarts + 1 ELSE restarts
  <2>. DEFINE o == Entry(p)
              told == DeclareLost(ss, p.index, p.index)
  <2>1. st \in State /\ Told(o, st, 1) /\ st.floor = p.index /\ p.index \in Near
        /\ o \in State
    BY <1>3, <1>4, EntryFacts
  <2>. HIDE DEF st, o
  <2>2. Told(o, ss, 1)
    BY <1>4, <2>1, ToldSame
  <2>3. Off(p.index) \in Nat
    BY <2>1, OffFacts, SpanFacts
  <2>4. /\ told \in State /\ told.stats.skipped = ss.stats.skipped
        /\ told.stats.delivered = ss.stats.delivered /\ told.floor = ss.floor
    BY <2>1, <2>3, DeclareLostShape
  <2>5. Told(o, told, 0)
    <3>1. Off(p.index) <= Off(p.index) /\ Off(p.index) = Off(ss.floor) - 1 + 1
          /\ Off(p.index) = Off(told.floor) - 0 /\ told.floor \in Near
      BY <1>4, <2>1, <2>3, <2>4
    <3>2. \E t \in State : t = told
      BY <2>4
    <3>3. PICK t \in State : t = told
      BY <3>2
    <3>. HIDE DEF told
    <3>4. /\ t.stats.lost = DeclareLost(ss, p.index, p.index).stats.lost
          /\ t.pending = DeclareLost(ss, p.index, p.index).pending
      BY <3>3 DEF told
    <3>5. Told(o, t, 0)
      BY <2>1, <2>2, <2>4, <3>1, <3>3, <3>4, ToldMore
    <3>. QED
      BY <3>3, <3>5
  <2>. HIDE DEF told
  <2>6. floor' = told.floor /\ pendingLoss' = told.pending /\ stats' = told.stats
    BY <1>4 DEF Become, told
  <2>7. stats'.delivered + stats'.skipped = told.stats.delivered + told.stats.skipped + 0
    BY <2>4, <2>6, SMTT(30) DEF State, Stats
  <2>. QED
    BY <1>1, <1>4, <2>4, <2>5, <2>6, <2>7 DEF o
<1>5. CASE FinishUnrecoverable(p)
  <2>1. /\ Accepts(p) /\ Become(DeclareLost(st, p.index, p.index))
        /\ restarts' = IF HostRestart(p) THEN restarts + 1 ELSE restarts
    BY <1>5 DEF FinishUnrecoverable, Restarting
  <2>2. st \in State
    BY <1>3, <2>1
  <2>. QED
    BY <1>4, <2>1, <2>2
<1>6. CASE FinishRunt(p)
  <2>. DEFINE ss == [st EXCEPT !.stats.malformed = Bump(@)]
              sts == [st.stats EXCEPT !.malformed = Bump(@)]
  <2>1. /\ Accepts(p) /\ Become(DeclareLost(ss, p.index, p.index))
        /\ restarts' = IF HostRestart(p) THEN restarts + 1 ELSE restarts
    BY <1>6 DEF FinishRunt, Restarting
  <2>2. st \in State
    BY <1>3, <2>1
  <2>3. ss = [st EXCEPT !.stats = sts]
    OBVIOUS
  <2>. HIDE DEF st, ss
  <2>4. /\ sts \in Stats /\ sts.lost = st.stats.lost /\ sts.skipped = st.stats.skipped
        /\ sts.delivered = st.stats.delivered
    <3>1. st.stats \in Stats
      BY <2>2 DEF State
    <3>2. Bump(st.stats.malformed) \in Nat
      BY <3>1, BumpType DEF Stats
    <3>. QED
      BY <3>1, <3>2 DEF Stats
  <2>. HIDE DEF sts
  <2>5. ss \in State /\ ss.floor = st.floor /\ ss.pending = st.pending /\ ss.stats = sts
    BY <2>2, <2>3, <2>4 DEF State
  <2>. QED
    BY <1>4, <2>1, <2>4, <2>5
<1>7. CASE FinishSkip(p) \/ FinishKey(p) \/ FinishPredicted(p)
  <2>1. /\ Accepts(p)
        /\ restarts' = IF HostRestart(p) THEN restarts + 1 ELSE restarts
        /\ \/ Become([st EXCEPT !.stats.skipped = @ + 1])
           \/ Become([st EXCEPT !.awaiting = FALSE, !.stats.delivered = @ + 1,
                                !.stats.recovered = IF Rebuilt(FilledFrame(p)) THEN Bump(@) ELSE @])
    BY <1>7 DEF FinishSkip, FinishKey, FinishPredicted, Emit, Restarting
  <2>2. /\ st \in State /\ Told(Entry(p), st, 1) /\ st.floor # None
        /\ st.stats.delivered \in Nat /\ st.stats.skipped \in Nat
    BY <1>3, <2>1
  <2>. HIDE DEF st
  <2>3. /\ floor' = st.floor /\ pendingLoss' = st.pending /\ stats'.lost = st.stats.lost
        /\ stats'.delivered + stats'.skipped = st.stats.delivered + st.stats.skipped + 1
    <3>1. CASE Become([st EXCEPT !.stats.skipped = @ + 1])
      <4>. DEFINE sts == [st.stats EXCEPT !.skipped = @ + 1]
                  ss == [st EXCEPT !.stats = sts]
      <4>1. sts.skipped = st.stats.skipped + 1 /\ sts.delivered = st.stats.delivered
            /\ sts.lost = st.stats.lost
        BY <2>2 DEF State, Stats
      <4>2. Become(ss)
        BY <3>1
      <4>. HIDE DEF sts
      <4>3. ss.floor = st.floor /\ ss.pending = st.pending /\ ss.stats = sts
        BY <2>2 DEF State
      <4>. HIDE DEF ss
      <4>. QED
        BY <2>2, <4>1, <4>2, <4>3 DEF Become
    <3>2. CASE Become([st EXCEPT !.awaiting = FALSE, !.stats.delivered = @ + 1,
                         !.stats.recovered = IF Rebuilt(FilledFrame(p)) THEN Bump(@) ELSE @])
      <4>. DEFINE mended == IF Rebuilt(FilledFrame(p)) THEN Bump(st.stats.recovered)
                            ELSE st.stats.recovered
                  one == [st.stats EXCEPT !.delivered = @ + 1]
                  sts == [one EXCEPT !.recovered = mended]
      <4>1. one \in Stats /\ one.delivered = st.stats.delivered + 1
            /\ one.skipped = st.stats.skipped /\ one.lost = st.stats.lost
        BY <2>2, SMTT(30) DEF State, Stats
      <4>. DEFINE ss == [st EXCEPT !.awaiting = FALSE, !.stats = sts]
      <4>2. Become(ss)
        BY <3>2
      <4>. HIDE DEF one, mended
      <4>3. sts.delivered = one.delivered /\ sts.skipped = one.skipped /\ sts.lost = one.lost
        BY <4>1 DEF Stats
      <4>. HIDE DEF sts
      <4>4. ss.floor = st.floor /\ ss.pending = st.pending /\ ss.stats = sts
        BY <2>2 DEF State
      <4>. HIDE DEF ss
      <4>. QED
        BY <2>2, <4>1, <4>2, <4>3, <4>4 DEF Become
    <3>. QED
      BY <2>1, <3>1, <3>2
  <2>. QED
    BY <1>1, <2>1, <2>2, <2>3
<1>. QED
  BY <1>2, <1>5, <1>6, <1>7

\* The accounts are exact: every index the floor passes is counted once.
THEOREM EveryIndexCountedOnce ==
  ASSUME OneSpan
  PROVE  Spec => CountedOnce
PROOF
<1>1. GateInv /\ PlacedInv /\ [Next]_vars => PlacedInv'
  BY NextPlacedInv DEF GateInv
<1>2. ASSUME TypeOK, PlacedInv, [Next]_vars, floor # None, restarts' = restarts
      PROVE  SettledCount' - SettledCount = WrapSub(floor', floor)
  <2>1. /\ stats.delivered \in Nat /\ stats.skipped \in Nat /\ stats.lost \in Nat
        /\ SettledCount \in Nat /\ restarts \in Nat
    BY <1>2 DEF TypeOK, Stats, SettledCount
  <2>2. ASSUME SettledCount' = SettledCount, floor' = floor
        PROVE  SettledCount' - SettledCount = WrapSub(floor', floor)
    <3>1. floor \in Near /\ Off(floor) \in Nat
      BY <1>2, OffFacts, SpanFacts DEF PlacedInv, Above
    <3>2. WrapSub(floor, floor) = Off(floor) - Off(floor)
      BY <3>1, OffFacts
    <3>. QED
      BY <2>1, <2>2, <3>1, <3>2
  <2>3. ASSUME NEW p \in Packet, Push(p)
        PROVE  SettledCount' - SettledCount = WrapSub(floor', floor)
    <3>1. CASE SettledCount' = SettledCount /\ floor' = floor
      BY <2>2, <3>1
    <3>2. CASE PushShard(p) \/ FinishUnrecoverable(p) \/ FinishRunt(p) \/ FinishSkip(p)
                 \/ FinishKey(p) \/ FinishPredicted(p)
      <4>1. PICK st \in State, gap \in {0, 1} :
              /\ Told(Entry(p), st, gap)
              /\ floor' = st.floor /\ pendingLoss' = st.pending /\ stats'.lost = st.stats.lost
              /\ SettledCount' = st.stats.delivered + st.stats.skipped + st.stats.lost + gap
              /\ gap = 1 => floor' # None
              /\ Accepts(p)
              /\ restarts' = IF HostRestart(p) THEN restarts + 1 ELSE restarts
        BY <1>2, <3>2, PushTold
      <4>2. ~HostRestart(p)
        BY <1>2, <2>1, <4>1
      <4>3. Entry(p) = Now /\ Now.floor = floor /\ Now.stats = stats
        BY <1>2, <4>2, NowType DEF Entry
      <4>4. /\ floor \in Near /\ st.floor \in Near
            /\ st.stats.lost - stats.lost \in Nat
            /\ st.stats.lost - stats.lost = Off(st.floor) - Off(floor) - gap
            /\ st.stats.skipped = stats.skipped /\ st.stats.delivered = stats.delivered
        BY <1>2, <4>1, <4>3 DEF Told
      <4>5. Off(floor) \in Nat /\ Off(st.floor) \in Nat /\ st.stats.lost \in Nat
        BY <4>4, OffFacts, SpanFacts DEF State, Stats
      <4>6. SettledCount' - SettledCount = Off(st.floor) - Off(floor)
        BY <2>1, <4>1, <4>4, <4>5 DEF SettledCount
      <4>7. Off(floor) <= Off(st.floor)
        BY <4>4, <4>5
      <4>. QED
        BY <4>1, <4>4, <4>6, <4>7, OffFacts
    <3>. QED
      BY <1>2, <2>3, <3>1, <3>2, PushEnds
  <2>4. CASE TakeLoss \/ RequireKeyframe \/ UNCHANGED vars
    <3>1. SettledCount' = SettledCount /\ floor' = floor
      BY <2>4 DEF TakeLoss, RequireKeyframe, vars, SettledCount
    <3>. QED
      BY <2>2, <3>1
  <2>. QED
    BY <1>2, <2>3, <2>4 DEF Next
<1>3. GateInv /\ PlacedInv /\ [Next]_vars
      => [ floor # None /\ restarts' = restarts
           => SettledCount' - SettledCount = WrapSub(floor', floor) ]_vars
  BY <1>2 DEF GateInv
<1>. QED
  BY InitGateInv, NextGateInv, InitPlacedInv, <1>1, <1>3, PTL DEF Spec, CountedOnce

\* At most one report is waiting; until the host restarts its counter it covers frames
\* behind the floor.
PendInv ==
  /\ \A q, r \in pendingLoss : q = r
  /\ restarts = 0 =>
       \A r \in pendingLoss :
         /\ r.first \in Near /\ r.last \in Near /\ Off(r.first) <= Off(r.last)
         /\ floor # None /\ floor \in Near /\ Off(r.last) <= Off(floor)

LEMMA RunFrames ==
  ASSUME OneSpan, NEW r, r.first \in Near, r.last \in Near, Off(r.first) <= Off(r.last)
  PROVE  Frames(r) = Off(r.last) - Off(r.first) + 1
PROOF
<1>1. Frames([first |-> r.first, last |-> r.last]) = Off(r.last) - Off(r.first) + 1
  BY RunLength
<1>2. Frames([first |-> r.first, last |-> r.last]) = Frames(r)
  BY DEF Frames
<1>. QED
  BY <1>1, <1>2

\* What a step does to the report.
LEMMA ReportStep ==
  ASSUME OneSpan, TypeOK, PlacedInv, PendInv, [Next]_vars
  PROVE  PendInv' /\ NewLossReported /\ UnreadLossExtended
PROOF
<1>1. stats.lost \in Nat /\ restarts \in Nat
  BY DEF TypeOK, Stats
<1>2. ASSUME NEW r \in pendingLoss PROVE Frames(r) \in Int
  <2>1. r \in Run
    BY DEF TypeOK
  <2>2. r = [first |-> r.first, last |-> r.last] /\ r.first \in Index /\ r.last \in Index
    BY <2>1 DEF Run
  <2>. QED
    BY <2>2, WrapType
<1>3. ASSUME pendingLoss' = pendingLoss, stats'.lost = stats.lost, floor' = floor,
             restarts' = restarts
      PROVE  PendInv' /\ NewLossReported /\ UnreadLossExtended
  <2>1. PendInv'
    BY <1>3 DEF PendInv
  <2>2. NewLossReported
    BY <1>3 DEF NewLossReported
  <2>3. ASSUME NEW run \in pendingLoss, NEW now \in pendingLoss'
        PROVE  now.first = run.first /\ Frames(now) - Frames(run) >= stats'.lost - stats.lost
    <3>1. now = run
      BY <1>3 DEF PendInv
    <3>2. Frames(run) - Frames(run) >= stats.lost - stats.lost
      BY <1>1, <1>2
    <3>. QED
      BY <1>3, <3>1, <3>2
  <2>. QED
    BY <2>1, <2>2, <2>3 DEF UnreadLossExtended
<1>4. CASE TakeLoss
  <2>1. PendInv' /\ pendingLoss # {} /\ pendingLoss' = {}
    BY <1>4 DEF TakeLoss, PendInv
  <2>. QED
    BY <2>1 DEF NewLossReported, UnreadLossExtended
<1>5. CASE RequireKeyframe \/ UNCHANGED vars
  <2>1. pendingLoss' = pendingLoss /\ stats' = stats /\ floor' = floor /\ restarts' = restarts
    BY <1>5 DEF RequireKeyframe, vars
  <2>. QED
    BY <1>3, <2>1
<1>6. ASSUME NEW p \in Packet, Push(p) PROVE PendInv' /\ NewLossReported /\ UnreadLossExtended
  <2>1. CASE pendingLoss' = pendingLoss /\ stats'.lost = stats.lost /\ floor' = floor
               /\ restarts' = restarts
    BY <1>3, <2>1
  <2>2. CASE PushShard(p) \/ FinishUnrecoverable(p) \/ FinishRunt(p) \/ FinishSkip(p)
               \/ FinishKey(p) \/ FinishPredicted(p)
    <3>1. PICK st \in State, gap \in {0, 1} :
            /\ Told(Entry(p), st, gap)
            /\ floor' = st.floor /\ pendingLoss' = st.pending /\ stats'.lost = st.stats.lost
            /\ SettledCount' = st.stats.delivered + st.stats.skipped + st.stats.lost + gap
            /\ gap = 1 => floor' # None
            /\ Accepts(p)
            /\ restarts' = IF HostRestart(p) THEN restarts + 1 ELSE restarts
      BY <2>2, PushTold
    <3>2. /\ Entry(p).stats = stats /\ Entry(p).pending = pendingLoss
          /\ ~HostRestart(p) => Entry(p).floor = floor
          /\ ~Late(p)
      BY <3>1, EntryPlaced, NowType DEF Accepts
    <3>. DEFINE lost == st.stats.lost - stats.lost
    <3>3. /\ lost \in Nat
          /\ st.floor # None => st.floor \in Near
          /\ st.floor = None => lost = 0
          /\ ~HostRestart(p) /\ floor # None => lost = Off(st.floor) - Off(floor) - gap
                                                /\ floor \in Near /\ st.floor \in Near
          /\ lost = 0 => st.pending = pendingLoss
          /\ lost > 0 =>
               \E first, last \in Near :
                 /\ Off(first) <= Off(last) /\ Off(last) = Off(st.floor) - gap
                 /\ pendingLoss = {} => /\ st.pending = {[first |-> first, last |-> last]}
                                        /\ lost = Off(last) - Off(first) + 1
                 /\ pendingLoss # {} =>
                      st.pending = {[first |-> r.first, last |-> last] : r \in pendingLoss}
      BY <3>1, <3>2 DEF Told
    <3>4. st.stats.lost \in Nat
      BY DEF State, Stats
    <3>5. restarts' = 0 => restarts = 0 /\ ~HostRestart(p)
      BY <1>1, <3>1
    <3>6. stats'.lost - stats.lost = lost /\ (stats'.lost = stats.lost <=> lost = 0)
      BY <1>1, <3>1, <3>4
    <3>7. CASE lost = 0
      <4>1. pendingLoss' = pendingLoss
        BY <3>1, <3>3, <3>7
      <4>2. PendInv'
        <5>1. ASSUME restarts' = 0, NEW r \in pendingLoss'
              PROVE  /\ r.first \in Near /\ r.last \in Near /\ Off(r.first) <= Off(r.last)
                     /\ floor' # None /\ floor' \in Near /\ Off(r.last) <= Off(floor')
          <6>1. /\ r.first \in Near /\ r.last \in Near /\ Off(r.first) <= Off(r.last)
                /\ floor # None /\ floor \in Near /\ Off(r.last) <= Off(floor)
            BY <3>5, <4>1, <5>1 DEF PendInv
          <6>2. /\ lost = Off(st.floor) - Off(floor) - gap /\ st.floor \in Near
                /\ st.floor # None
            BY <3>3, <3>5, <5>1, <6>1, NoneAssumption DEF Near
          <6>3. Off(st.floor) \in Nat /\ Off(floor) \in Nat /\ Off(r.last) \in Nat
            BY <6>1, <6>2, OffFacts, SpanFacts
          <6>. HIDE DEF lost
          <6>4. Off(r.last) <= Off(st.floor)
            BY <3>7, <6>1, <6>2, <6>3
          <6>. QED
            BY <3>1, <6>1, <6>2, <6>4
        <5>. QED
          BY <4>1, <5>1 DEF PendInv
      <4>3. NewLossReported
        <5>. HIDE DEF lost
        <5>. QED
          BY <3>6, <3>7, <4>1 DEF NewLossReported
      <4>4. ASSUME NEW run \in pendingLoss, NEW now \in pendingLoss'
            PROVE  now.first = run.first /\ Frames(now) - Frames(run) >= stats'.lost - stats.lost
        <5>1. now = run
          BY <4>1 DEF PendInv
        <5>2. Frames(run) - Frames(run) >= lost
          BY <1>2, <3>7
        <5>. HIDE DEF lost
        <5>. QED
          BY <3>6, <5>1, <5>2
      <4>. QED
        BY <4>2, <4>3, <4>4 DEF UnreadLossExtended
    <3>8. CASE lost > 0
      <4>1. PICK first \in Near, last \in Near :
              /\ Off(first) <= Off(last) /\ Off(last) = Off(st.floor) - gap
              /\ pendingLoss = {} => /\ st.pending = {[first |-> first, last |-> last]}
                                     /\ lost = Off(last) - Off(first) + 1
              /\ pendingLoss # {} =>
                   st.pending = {[first |-> r.first, last |-> last] : r \in pendingLoss}
        BY <3>3, <3>8
      <4>2. st.floor # None /\ st.floor \in Near
        BY <3>3, <3>8
      <4>3. Off(first) \in Nat /\ Off(last) \in Nat /\ Off(st.floor) \in Nat
        BY <4>1, <4>2, OffFacts, SpanFacts
      <4>4. Off(last) <= Off(st.floor)
        BY <4>1, <4>3
      <4>5. last = st.floor \/ last = WrapDec(st.floor)
        <5>1. CASE gap = 0
          <6>1. Off(last) = Off(st.floor)
            BY <4>1, <4>3, <5>1
          <6>. QED
            BY <4>1, <4>2, <6>1, OffFacts
        <5>2. CASE gap = 1
          <6>1. Off(st.floor) > 0 /\ Off(last) = Off(st.floor) - 1
            BY <4>1, <4>3, <5>2
          <6>2. WrapDec(st.floor) \in Near /\ Off(WrapDec(st.floor)) = Off(st.floor) - 1
            BY <4>2, <6>1, OffNext
          <6>. QED
            BY <4>1, <6>1, <6>2, OffFacts
        <5>. QED
          BY <5>1, <5>2
      <4>6. CASE pendingLoss = {}
        <5>. DEFINE run == [first |-> first, last |-> last]
        <5>1. pendingLoss' = {run} /\ run.first = first /\ run.last = last
          BY <3>1, <4>1, <4>6
        <5>2. Frames(run) = lost
          BY <4>1, <4>6, RunLength
        <5>. HIDE DEF run, lost
        <5>3. PendInv'
          BY <3>1, <4>1, <4>2, <4>4, <5>1 DEF PendInv
        <5>4. NewLossReported
          BY <3>1, <3>6, <3>8, <4>5, <5>1, <5>2 DEF NewLossReported
        <5>5. UnreadLossExtended
          BY <4>6 DEF UnreadLossExtended
        <5>. QED
          BY <5>3, <5>4, <5>5
      <4>7. CASE pendingLoss # {}
        <5>1. PICK r \in pendingLoss : pendingLoss = {r}
          BY <4>7 DEF PendInv
        <5>. DEFINE run == [first |-> r.first, last |-> last]
        <5>2. pendingLoss' = {run} /\ run.first = r.first /\ run.last = last
          <6>1. st.pending = {[first |-> q.first, last |-> last] : q \in pendingLoss}
            BY <4>1, <4>7
          <6>2. st.pending = {run}
            BY <5>1, <6>1
          <6>. QED
            BY <3>1, <6>2
        <5>. HIDE DEF run
        <5>3. ASSUME restarts' = 0
              PROVE  /\ run.first \in Near /\ run.last \in Near /\ Off(run.first) <= Off(run.last)
                     /\ Frames(run) - Frames(r) >= lost
          <6>1. /\ r.first \in Near /\ r.last \in Near /\ Off(r.first) <= Off(r.last)
                /\ floor # None /\ floor \in Near /\ Off(r.last) <= Off(floor)
            BY <3>5, <5>3 DEF PendInv
          <6>2. lost = Off(st.floor) - Off(floor) - gap
            BY <3>3, <3>5, <5>3, <6>1
          <6>3. Off(r.first) \in Nat /\ Off(r.last) \in Nat /\ Off(floor) \in Nat
            BY <6>1, OffFacts, SpanFacts
          <6>. HIDE DEF lost
          <6>4. Off(last) = Off(floor) + lost /\ lost \in Nat
            BY <3>3, <4>1, <4>3, <6>2, <6>3
          <6>5. Off(r.last) + lost <= Off(last) /\ Off(r.first) <= Off(last)
            BY <6>1, <6>3, <6>4, <4>3
          <6>6. Frames(run) = Off(last) - Off(r.first) + 1
            BY <4>1, <5>2, <6>1, <6>5, RunFrames
          <6>7. Frames(r) = Off(r.last) - Off(r.first) + 1
            BY <6>1, RunFrames
          <6>8. Frames(run) - Frames(r) >= lost
            BY <4>3, <6>3, <6>4, <6>5, <6>6, <6>7
          <6>. QED
            BY <4>1, <5>2, <6>1, <6>5, <6>8
        <5>. HIDE DEF lost
        <5>4. PendInv'
          BY <3>1, <4>2, <4>4, <5>2, <5>3 DEF PendInv
        <5>5. UnreadLossExtended
          BY <3>6, <5>1, <5>2, <5>3 DEF UnreadLossExtended
        <5>6. NewLossReported
          BY <4>7 DEF NewLossReported
        <5>. QED
          BY <5>4, <5>5, <5>6
      <4>. QED
        BY <4>6, <4>7
    <3>9. lost = 0 \/ lost > 0
      <4>. HIDE DEF lost
      <4>. QED
        BY <3>3
    <3>. HIDE DEF lost
    <3>. QED
      BY <3>7, <3>8, <3>9
  <2>. QED
    BY <1>6, <2>1, <2>2, PushEnds
<1>. QED
  BY <1>4, <1>5, <1>6 DEF Next

\* Every loss is reported, and an unread report is extended.
THEOREM LossesReported ==
  ASSUME OneSpan
  PROVE  Spec => LossReported
PROOF
<1>. DEFINE Inv == GateInv /\ PlacedInv /\ PendInv
<1>1. Init => PendInv
  BY DEF Init, PendInv
<1>2. Inv /\ [Next]_vars => PendInv'
  <2>1. SUFFICES ASSUME TypeOK, PlacedInv, PendInv, [Next]_vars PROVE PendInv'
    BY DEF GateInv
  <2>. QED
    BY <2>1, ReportStep
<1>3. Inv /\ [Next]_vars => PlacedInv'
  BY NextPlacedInv DEF GateInv
<1>4. Inv /\ [Next]_vars => [NewLossReported /\ UnreadLossExtended]_vars
  BY ReportStep DEF GateInv
<1>. QED
  BY InitGateInv, NextGateInv, InitPlacedInv, <1>1, <1>2, <1>3, <1>4, PTL DEF Spec, LossReported

-----------------------------------------------------------------------------
(* The reassembler implements GatedStream. *)

\* Finding or making the packet's slot: nothing moves, or the oldest frame is given up on
\* and the gate closes.
LEMMA OpenedMoves ==
  ASSUME OneSpan, Gate, TypeOK, PlacedInv, NEW p \in Packet, Accepts(p)
  PROVE  \/ Opened(p).floor = Entry(p).floor /\ Opened(p).awaiting = Entry(p).awaiting
         \/ /\ Opened(p).floor \in Near /\ Opened(p).awaiting /\ ~HostRestart(p)
            /\ floor # None => Off(floor) < Off(Opened(p).floor)
PROOF
<1>. DEFINE st == Entry(p)
            room == MakeRoom(st)
<1>1. /\ st \in State /\ Placed(st) /\ Waits(st.window) /\ Len(st.window) <= WindowFrames
      /\ ~HostRestart(p) => st.floor = floor
      /\ HostRestart(p) => Len(st.window) = 0
  <2>1. HostRestart(p) => st.window = <<>>
    BY DEF Entry, Restarted, Now
  <2>. QED
    BY <2>1, EntryFacts, EntryPlaced, NowType DEF Accepts
<1>2. CASE Position(st, p) # 0
  BY <1>2 DEF Opened
<1>3. CASE Position(st, p) = 0
  <2>1. Opened(p) = Insert(room, p)
    BY <1>3 DEF Opened
  <2>. HIDE DEF st
  <2>2. /\ room \in State /\ Unbroken(room, st)
        /\ \/ room = st
           \/ /\ Len(st.window) >= WindowFrames /\ Head(st.window).index \in Near
              /\ room.floor = Head(st.window).index
              /\ st.floor # None => Off(st.floor) < Off(Head(st.window).index)
    BY <1>1, MakeRoomFacts, MakeRoomPlaced
  <2>. HIDE DEF room
  <2>3. Opened(p).floor = room.floor /\ Opened(p).awaiting = room.awaiting
    BY <2>1, <2>2, InsertFacts
  <2>4. CASE room = st
    BY <2>3, <2>4 DEF st
  <2>5. CASE /\ Len(st.window) >= WindowFrames /\ Head(st.window).index \in Near
             /\ room.floor = Head(st.window).index
             /\ st.floor # None => Off(st.floor) < Off(Head(st.window).index)
    <3>1. ~HostRestart(p)
      BY <1>1, <2>5, SizeAssumption
    <3>2. room.floor # st.floor
      <4>1. Off(room.floor) \in Nat /\ room.floor # None
        BY <2>5, OffFacts, SpanFacts
      <4>. QED
        BY <2>5, <4>1
    <3>3. room.awaiting
      BY <2>2, <3>2 DEF Unbroken
    <3>. QED
      BY <1>1, <2>3, <2>5, <3>1, <3>3
  <2>. QED
    BY <2>2, <2>4, <2>5
<1>. QED
  BY <1>2, <1>3

\* A whole frame that cannot be assembled moves the floor and closes the gate.
LEMMA FailEnds ==
  ASSUME TypeOK, Gate, NEW p \in Packet, FinishUnrecoverable(p) \/ FinishRunt(p)
  PROVE  floor' = p.index /\ awaiting' = TRUE
PROOF
<1>1. ASSUME NEW ss \in State, ss.floor = p.index, Become(DeclareLost(ss, p.index, p.index))
      PROVE  floor' = p.index /\ awaiting' = TRUE
  <2>1. p.index \in Index
    BY PacketAssumption
  <2>2. /\ DeclareLost(ss, p.index, p.index) \in State
        /\ DeclareLost(ss, p.index, p.index).floor = p.index
        /\ DeclareLost(ss, p.index, p.index).awaiting
    BY <1>1, <2>1, DeclareLostFacts
  <2>. QED
    BY <1>1, <2>2 DEF Become, State
<1>2. CASE FinishUnrecoverable(p)
  <2>1. Finished(p) \in State /\ Finished(p).floor = p.index
    BY <1>2, FinishedFacts DEF FinishUnrecoverable
  <2>. QED
    BY <1>1, <1>2, <2>1 DEF FinishUnrecoverable
<1>3. CASE FinishRunt(p)
  <2>. DEFINE ss == [Finished(p) EXCEPT !.stats.malformed = Bump(@)]
              sts == [Finished(p).stats EXCEPT !.malformed = Bump(@)]
  <2>1. Finished(p) \in State /\ Finished(p).floor = p.index
    BY <1>3, FinishedFacts DEF FinishRunt
  <2>2. sts \in Stats
    <3>1. Finished(p).stats \in Stats
      BY <2>1 DEF State
    <3>2. Bump(Finished(p).stats.malformed) \in Nat
      BY <3>1, BumpType DEF Stats
    <3>. QED
      BY <3>1, <3>2 DEF Stats
  <2>3. ss = [Finished(p) EXCEPT !.stats = sts]
    OBVIOUS
  <2>4. Become(DeclareLost(ss, p.index, p.index))
    BY <1>3 DEF FinishRunt
  <2>. HIDE DEF ss, sts
  <2>5. ss \in State /\ ss.floor = p.index
    BY <2>1, <2>2, <2>3 DEF State
  <2>. QED
    BY <1>1, <2>4, <2>5
<1>. QED
  BY <1>2, <1>3

\* A step of the reassembler is a step of the gated stream, or none.
LEMMA PromiseStep ==
  ASSUME OneSpan, Gate, GateInv, PlacedInv, [Next]_vars
  PROVE  [Promise!GNext]_(Promise!gvars)
PROOF
<1>. DEFINE given == {[index |-> au.index, key |-> au.key] : au \in lastOut}
<1>0. TypeOK
  BY DEF GateInv
<1>1. ASSUME UNCHANGED <<floor, awaiting, lastOut>>
      PROVE  UNCHANGED Promise!gvars
  BY <1>1 DEF Promise!gvars
<1>2. ASSUME NEW p \in Packet, Accepts(p)
      PROVE  /\ p.index \in Promise!Index
             /\ ~HostRestart(p) => Promise!Ahead(p.index)
             /\ HostRestart(p) => Promise!FarBehind(p.index)
  <2>1. p.index \in Promise!Index
    BY PacketAssumption DEF Promise!Index, Index
  <2>2. Promise!Ahead(p.index) <=> ~Behind(p)
    BY DEF Promise!Ahead, Promise!Gap, Behind, Newer, WrapSub
  <2>3. HostRestart(p) => Promise!FarBehind(p.index)
    BY <2>2 DEF HostRestart, Behind, Promise!FarBehind, Promise!Gap, WrapSub
  <2>4. ~Late(p)
    BY <1>2 DEF Accepts
  <2>. QED
    BY <2>1, <2>2, <2>3, <2>4 DEF Late
<1>3. ASSUME NEW p \in Packet, Accepts(p), floor' = p.index, awaiting' = TRUE,
             lastOut' = IF HostRestart(p) THEN {} ELSE lastOut
      PROVE  Promise!GNext
  <2>1. CASE HostRestart(p)
    <3>1. Promise!Resync(p.index)
      BY <1>2, <1>3, <2>1 DEF Promise!Resync
    <3>. QED
      BY <1>2, <1>3, <3>1 DEF Promise!GNext
  <2>2. CASE ~HostRestart(p)
    <3>1. Promise!Settle(p.index)
      BY <1>2, <1>3, <2>2 DEF Promise!Settle
    <3>. QED
      BY <1>2, <1>3, <3>1 DEF Promise!GNext
  <2>. QED
    BY <2>1, <2>2
<1>4. ASSUME NEW p \in Packet, PushShard(p)
      PROVE  [Promise!GNext]_(Promise!gvars)
  <2>1. /\ Accepts(p) /\ floor' = Filled(p).floor /\ awaiting' = Filled(p).awaiting
        /\ lastOut' = IF HostRestart(p) THEN {} ELSE lastOut
    BY <1>4 DEF PushShard, Become, Restarting
  <2>2. Filled(p).floor = Opened(p).floor /\ Filled(p).awaiting = Opened(p).awaiting
    BY <1>0, <2>1, FilledPlaced
  <2>3. CASE HostRestart(p)
    <3>1. Entry(p).floor = None /\ Entry(p).awaiting = TRUE
      BY <2>3 DEF Entry, Restarted, Now
    <3>2. floor' = None /\ awaiting' = TRUE /\ lastOut' = {}
      BY <1>0, <2>1, <2>2, <2>3, <3>1, OpenedMoves
    <3>3. Promise!Resync(p.index)
      BY <1>2, <2>1, <2>3, <3>2 DEF Promise!Resync
    <3>. QED
      BY <1>2, <2>1, <3>3 DEF Promise!GNext
  <2>4. CASE ~HostRestart(p)
    <3>1. Entry(p).floor = floor /\ Entry(p).awaiting = awaiting /\ lastOut' = lastOut
      BY <1>0, <2>1, <2>4, NowType DEF Entry
    <3>2. CASE Opened(p).floor = Entry(p).floor /\ Opened(p).awaiting = Entry(p).awaiting
      BY <1>1, <2>1, <2>2, <3>1, <3>2
    <3>3. CASE /\ Opened(p).floor \in Near /\ Opened(p).awaiting
               /\ floor # None => Off(floor) < Off(Opened(p).floor)
      <4>1. Opened(p).floor \in Promise!Index
        BY <3>3 DEF Near, Index, Promise!Index
      <4>2. PICK i \in Promise!Index : i = Opened(p).floor
        BY <4>1
      <4>3. Opened(p).awaiting \in BOOLEAN
        BY <1>0, <2>1, OpenedFacts DEF State
      <4>4. floor' = i /\ awaiting' = TRUE
        BY <2>1, <2>2, <3>3, <4>2, <4>3
      <4>5. floor # None => Newer(i, floor)
        <5>1. floor # None => floor \in Near
          BY DEF PlacedInv, Above
        <5>. QED
          BY <3>3, <4>2, <5>1, OffFacts
      <4>6. Promise!Ahead(i)
        BY <4>5 DEF Newer, WrapSub, Promise!Ahead, Promise!Gap
      <4>7. Promise!Settle(i)
        BY <3>1, <4>4, <4>6 DEF Promise!Settle
      <4>. QED
        BY <4>7 DEF Promise!GNext
    <3>. QED
      BY <1>0, <2>1, <3>2, <3>3, OpenedMoves
  <2>. QED
    BY <2>3, <2>4
<1>5. ASSUME NEW p \in Packet, FinishUnrecoverable(p) \/ FinishRunt(p)
      PROVE  Promise!GNext
  <2>1. Accepts(p) /\ lastOut' = IF HostRestart(p) THEN {} ELSE lastOut
    BY <1>5 DEF FinishUnrecoverable, FinishRunt, Restarting
  <2>2. floor' = p.index /\ awaiting' = TRUE
    BY <1>0, <1>5, FailEnds
  <2>. QED
    BY <1>3, <2>1, <2>2
<1>6. ASSUME NEW p \in Packet, FinishSkip(p)
      PROVE  Promise!GNext
  <2>. DEFINE st == Finished(p)
              sts == [st.stats EXCEPT !.skipped = @ + 1]
              ss == [st EXCEPT !.stats = sts]
  <2>1. /\ Accepts(p) /\ lastOut' = IF HostRestart(p) THEN {} ELSE lastOut
        /\ st.awaiting /\ Become(ss)
    BY <1>6 DEF FinishSkip, Restarting
  <2>2. st \in State /\ st.floor = p.index
    BY <1>0, <2>1, FinishedFacts
  <2>. HIDE DEF st, sts
  <2>3. ss.floor = p.index /\ ss.awaiting = TRUE
    BY <2>1, <2>2 DEF State
  <2>. HIDE DEF ss
  <2>4. floor' = p.index /\ awaiting' = TRUE
    BY <2>1, <2>3 DEF Become
  <2>. QED
    BY <1>3, <2>1, <2>4
<1>7. ASSUME NEW p \in Packet, NEW key \in BOOLEAN, Emit(p, key)
      PROVE  Promise!GNext
  <2>. DEFINE st == Finished(p)
              mended == IF Rebuilt(FilledFrame(p)) THEN Bump(st.stats.recovered)
                        ELSE st.stats.recovered
              sts == [st.stats EXCEPT !.delivered = @ + 1, !.recovered = mended]
              ss == [st EXCEPT !.awaiting = FALSE, !.stats = sts]
              from == SourcesOf(FilledFrame(p))
  <2>1. /\ Accepts(p) /\ Become(ss) /\ (st.awaiting => key)
        /\ lastOut' = {[index |-> p.index, key |-> key, from |-> from]}
    BY <1>7 DEF Emit
  <2>2. st \in State /\ st.floor = p.index
    BY <1>0, <2>1, FinishedFacts
  <2>3. ~key => ~HostRestart(p) /\ ~awaiting /\ \E au \in lastOut : p.index = WrapInc(au.index)
    BY <1>0, <2>1, RetiredStep, FinishedFacts
  <2>. HIDE DEF st, sts, from
  <2>4. ss.floor = p.index /\ ss.awaiting = FALSE
    BY <2>2 DEF State
  <2>. HIDE DEF ss
  <2>5. floor' = p.index /\ ~awaiting'
    BY <2>1, <2>4 DEF Become
  <2>6. {[index |-> au.index, key |-> au.key] : au \in lastOut'} = {[index |-> p.index, key |-> key]}
    BY <2>1
  <2>7. CASE key
    <3>1. Promise!GiveKey(p.index)
      BY <1>2, <2>1, <2>5, <2>6, <2>7 DEF Promise!GiveKey
    <3>. QED
      BY <1>2, <2>1, <3>1 DEF Promise!GNext
  <2>8. CASE ~key
    <3>1. PICK au \in lastOut : p.index = WrapInc(au.index)
      BY <2>3, <2>8
    <3>2. \E g \in given : p.index = Promise!After(g.index)
      <4>. DEFINE g == [index |-> au.index, key |-> au.key]
      <4>1. g \in given /\ g.index = au.index
        OBVIOUS
      <4>. HIDE DEF g, given
      <4>. QED
        BY <3>1, <4>1 DEF Promise!After, WrapInc
    <3>3. Promise!GivePredicted(p.index)
      BY <2>3, <2>5, <2>6, <2>8, <3>2 DEF Promise!GivePredicted
    <3>. QED
      BY <1>2, <2>1, <3>3 DEF Promise!GNext
  <2>. QED
    BY <2>7, <2>8
<1>8. CASE RequireKeyframe
  <2>1. Promise!Break
    BY <1>8 DEF RequireKeyframe, Promise!Break
  <2>. QED
    BY <2>1 DEF Promise!GNext
<1>9. CASE TakeLoss \/ UNCHANGED vars
  BY <1>1, <1>9 DEF TakeLoss, vars
<1>10. ASSUME NEW p \in Packet, Push(p)
       PROVE  [Promise!GNext]_(Promise!gvars)
  <2>1. CASE UNCHANGED <<floor, awaiting, lastOut>>
    BY <1>1, <2>1
  <2>2. CASE FinishUnrecoverable(p) \/ FinishRunt(p) \/ FinishSkip(p)
               \/ FinishKey(p) \/ FinishPredicted(p)
    BY <1>5, <1>6, <1>7, <2>2 DEF FinishKey, FinishPredicted
  <2>. QED
    BY <1>0, <1>4, <1>10, <2>1, <2>2, PushEnds
<1>. QED
  BY <1>8, <1>9, <1>10 DEF Next

\* Given that the frames of a session span less than half of the indices, the reassembler
\* with its gate on is the gated stream: packets, blocks and window are invisible.
THEOREM ImplementsGatedStream ==
  ASSUME OneSpan, Gate
  PROVE  Spec => KeepsPromise
PROOF
<1>1. Init => Promise!GInit
  BY DEF Init, Promise!GInit
<1>2. GateInv /\ PlacedInv /\ [Next]_vars => PlacedInv'
  BY NextPlacedInv DEF GateInv
<1>3. GateInv /\ PlacedInv /\ [Next]_vars => [Promise!GNext]_(Promise!gvars)
  BY PromiseStep
<1>. QED
  BY InitGateInv, NextGateInv, InitPlacedInv, <1>1, <1>2, <1>3, PTL
     DEF Spec, KeepsPromise, Promise!GSpec

-----------------------------------------------------------------------------
(* Behind a network.  While every restart of the host's counter has been  *)
(* followed, whatever the receiver holds was cut from frames of the        *)
(* host's present epoch, each frame of the window from one of them; so an  *)
(* index names one frame of the host, and what the gate says of indices    *)
(* holds of the frames.                                                    *)

\* The datagrams are those of the host's frames.
CutByHost ==
  /\ Source = DOMAIN HostFrame
  /\ \A p \in Packet : p.index = HostFrame[p.src].index

\* The host counts its frames, from wherever an epoch starts, and an epoch spans less
\* than half of the indices.
HostCountsUp ==
  \A s, t \in DOMAIN HostFrame : s <= t =>
    /\ HostFrame[s].epoch <= HostFrame[t].epoch
    /\ HostFrame[s].epoch = HostFrame[t].epoch =>
         t - s < Half /\ WrapSub(HostFrame[t].index, HostFrame[s].index) = t - s

\* No datagram is so late that it looks like a restart (RESTART_DISTANCE), and none crosses
\* a restart.
DelayBelowRestart == ~CrossSeam /\ MaxDelay <= RestartDistance

\* Frame f of the window has the host's frame s and nothing else in it.
CutFrom(f, s) ==
  /\ f.index = HostFrame[s].index
  /\ \A b \in DOMAIN f.blocks : \A h \in f.blocks[b].held : h.src = s

\* All that is held is of the host's frames S.
HeldOf(st, S) ==
  /\ \A i \in 1 .. Len(st.window) : \E s \in S : CutFrom(st.window[i], s)
  /\ st.floor # None => \E s \in S : st.floor = HostFrame[s].index

Epoch   == IF sent = 0 THEN 0 ELSE HostFrame[sent].epoch
Current == {s \in Source : s <= sent /\ HostFrame[s].epoch = Epoch}

SeamInv ==
  /\ sent \in 0 .. Len(HostFrame) /\ restarts <= Epoch
  /\ restarts = Epoch =>
       /\ HeldOf(Now, Current)
       /\ \A au \in lastOut : \E s \in Current : au.from = {s} /\ au.index = HostFrame[s].index

LEMMA DeclareLostHeld ==
  ASSUME NEW st \in State, NEW S, HeldOf(st, S), NEW first \in Index, NEW last \in Index
  PROVE  HeldOf(DeclareLost(st, first, last), S)
PROOF
<1>1. /\ DeclareLost(st, first, last).window = st.window
      /\ DeclareLost(st, first, last).floor = st.floor
  BY DeclareLostFacts
<1>. QED
  BY <1>1 DEF HeldOf

\* Room is made by giving up a frame, which is one of S.
LEMMA MakeRoomHeld ==
  ASSUME NEW st \in State, NEW S, HeldOf(st, S)
  PROVE  HeldOf(MakeRoom(st), S)
PROOF
<1>. DEFINE w == st.window
            cut == [st EXCEPT !.window = Tail(@)]
            first == Head(w).index
<1>1. w \in Seq(Partial) /\ Len(w) \in Nat
  BY LenProperties DEF State
<1>2. CASE Len(w) < WindowFrames
  BY <1>2 DEF MakeRoom
<1>3. CASE ~(Len(w) < WindowFrames)
  <2>1. w # <<>>
    BY <1>1, <1>3, SizeAssumption
  <2>2. /\ Head(w) = w[1] /\ Head(w) \in Partial /\ 1 \in 1 .. Len(w)
        /\ Tail(w) \in Seq(Partial) /\ Len(Tail(w)) = Len(w) - 1
        /\ \A i \in 1 .. Len(w) - 1 : Tail(w)[i] = w[i + 1]
    BY <1>1, <2>1, HeadTailProperties, EmptySeq
  <2>3. first \in Index
    BY <2>2 DEF Partial
  <2>4. cut \in State /\ cut.window = Tail(w)
    BY <2>2 DEF State
  <2>5. MakeRoom(st) = GiveUpThrough(cut, first)
    BY <1>3 DEF MakeRoom
  <2>6. \E s \in S : first = HostFrame[s].index
    BY <2>2 DEF HeldOf, CutFrom
  <2>7. \A i \in 1 .. Len(Tail(w)) : \E s \in S : CutFrom(Tail(w)[i], s)
    <3>1. \A i \in 1 .. Len(w) - 1 : i + 1 \in 1 .. Len(w)
      BY <1>1
    <3>. QED
      BY <2>2, <3>1 DEF HeldOf
  <2>. HIDE DEF cut, first, w
  <2>8. GiveUpThrough(cut, first) \in State /\ GiveUpThrough(cut, first).window = cut.window
    BY <2>3, <2>4, GiveUpFacts
  <2>9. GiveUpThrough(cut, first).floor = first
    <3>. DEFINE told == DeclareLost(cut, IF cut.floor = None THEN first ELSE WrapInc(cut.floor), first)
    <3>1. (IF cut.floor = None THEN first ELSE WrapInc(cut.floor)) \in Index
      BY <2>3, <2>4, WrapType DEF State
    <3>2. told \in State
      BY <2>3, <2>4, <3>1, DeclareLostFacts
    <3>3. GiveUpThrough(cut, first) = [told EXCEPT !.floor = first]
      BY DEF GiveUpThrough
    <3>. HIDE DEF told
    <3>. QED
      BY <3>2, <3>3 DEF State
  <2>. QED
    BY <2>4, <2>5, <2>6, <2>7, <2>8, <2>9 DEF HeldOf
<1>. QED
  BY <1>2, <1>3

\* A new frame holds nothing yet.
LEMMA InsertHeld ==
  ASSUME NEW st \in State, NEW S, HeldOf(st, S), NEW p \in Packet,
         p.src \in S, p.index = HostFrame[p.src].index
  PROVE  HeldOf(Insert(st, p), S)
PROOF
<1>. DEFINE w == st.window
            I == {i \in 1 .. Len(w) : Newer(w[i].index, p.index)}
            newerAt == SelectInSeq(w, LAMBDA f : Newer(f.index, p.index))
            at == IF newerAt = 0 THEN Len(w) + 1 ELSE newerAt
            blocks == [b \in 1 .. p.last + 1 |-> EmptyBlock]
            frame == [index |-> p.index, blocks |-> blocks]
            ww == InsertAt(w, at, frame)
<1>1. w \in Seq(Partial) /\ Len(w) \in Nat
  BY LenProperties DEF State
<1>2. newerAt = IF I # {} THEN Min(I) ELSE 0
  BY DEF SelectInSeq
<1>3. I # {} => Min(I) \in I
  BY <1>1, LeastPosition, I \in SUBSET (1 .. Len(w))
<1>4. at \in 1 .. Len(w) + 1
  BY <1>1, <1>2, <1>3
<1>5. frame \in Partial /\ CutFrom(frame, p.src)
  <2>1. p.index \in Index /\ p.last \in Nat
    BY PacketAssumption
  <2>2. EmptyBlock \in Block /\ EmptyBlock.held = {}
    BY DEF EmptyBlock, Block
  <2>3. blocks \in Seq(Block) /\ DOMAIN blocks = 1 .. p.last + 1 /\ \A b \in DOMAIN blocks : blocks[b] = EmptyBlock
    BY <2>1, <2>2
  <2>. HIDE DEF blocks
  <2>4. frame \in Partial
    BY <2>1, <2>3 DEF Partial
  <2>5. frame.index = p.index /\ frame.blocks = blocks
    OBVIOUS
  <2>. HIDE DEF frame
  <2>. QED
    BY <2>2, <2>3, <2>4, <2>5 DEF CutFrom
<1>6. Insert(st, p) = [st EXCEPT !.window = ww]
  BY DEF Insert
<1>. HIDE DEF w, at, frame
<1>7. /\ ww \in Seq(Partial) /\ Len(ww) = Len(w) + 1
      /\ \A j \in 1 .. Len(w) + 1 : ww[j] = IF j < at THEN w[j] ELSE IF j = at THEN frame ELSE w[j - 1]
  BY <1>1, <1>4, <1>5, InsertAtFacts
<1>. HIDE DEF ww
<1>8. Insert(st, p).window = ww /\ Insert(st, p).floor = st.floor
  BY <1>6 DEF State
<1>9. ASSUME NEW j \in 1 .. Len(w) + 1 PROVE \E s \in S : CutFrom(ww[j], s)
  <2>1. \A i \in 1 .. Len(w) : \E s \in S : CutFrom(w[i], s)
    BY DEF HeldOf, w
  <2>2. CASE j < at
    <3>1. j \in 1 .. Len(w)
      BY <1>1, <1>4, <2>2
    <3>. QED
      BY <1>7, <2>1, <2>2, <3>1
  <2>3. CASE j = at
    <3>1. ww[j] = frame
      BY <1>4, <1>7, <2>3
    <3>. QED
      BY <1>5, <3>1
  <2>4. CASE j > at
    <3>1. j - 1 \in 1 .. Len(w) /\ ~(j < at) /\ j # at
      BY <1>1, <1>4, <2>4
    <3>. QED
      BY <1>7, <2>1, <3>1
  <2>. QED
    BY <1>1, <1>4, <2>2, <2>3, <2>4
<1>. QED
  BY <1>7, <1>8, <1>9 DEF HeldOf

LEMMA OpenedHeld ==
  ASSUME TypeOK, NEW S, NEW p \in Packet, HostRestart(p) \/ HeldOf(Now, S),
         p.src \in S, p.index = HostFrame[p.src].index
  PROVE  HeldOf(Opened(p), S)
PROOF
<1>. DEFINE st == Entry(p)
            room == MakeRoom(st)
<1>1. st \in State
  BY EntryFacts
<1>2. HeldOf(st, S)
  <2>1. CASE HostRestart(p)
    <3>1. st.window = <<>> /\ st.floor = None
      BY <2>1 DEF Entry, Restarted, Now
    <3>. HIDE DEF st
    <3>. QED
      BY <3>1 DEF HeldOf
  <2>2. CASE ~HostRestart(p)
    BY <2>2 DEF Entry
  <2>. QED
    BY <2>1, <2>2
<1>3. room \in State /\ HeldOf(room, S)
  <2>. HIDE DEF st
  <2>. QED
    BY <1>1, <1>2, MakeRoomFacts, MakeRoomHeld
<1>4. CASE Position(st, p) # 0
  BY <1>2, <1>4 DEF Opened
<1>5. CASE Position(st, p) = 0
  <2>1. Opened(p) = Insert(room, p)
    BY <1>5 DEF Opened
  <2>. HIDE DEF room
  <2>. QED
    BY <1>3, <2>1, InsertHeld
<1>. QED
  BY <1>4, <1>5

\* An index names one frame of S.
Distinct(S) == \A s, t \in S : HostFrame[s].index = HostFrame[t].index => s = t

\* The shard joins shards of its own frame.
LEMMA FilledHeld ==
  ASSUME TypeOK, NEW S, Distinct(S), NEW p \in Packet, Accepts(p), HostRestart(p) \/ HeldOf(Now, S),
         p.src \in S, p.index = HostFrame[p.src].index
  PROVE  /\ HeldOf(Filled(p), S)
         /\ CutFrom(FilledFrame(p), p.src) /\ p.src \in SourcesOf(FilledFrame(p))
PROOF
<1>. DEFINE st == Opened(p)
            pos == Position(st, p)
            f == st.window[pos]
            c == p.block + 1
            b == f.blocks[c]
            bb == [f.blocks EXCEPT ![c] = Fill(b, p)]
            ff == [f EXCEPT !.blocks = bb]
            ww == [st.window EXCEPT ![pos] = ff]
            sts == [st.stats EXCEPT !.packets = Bump(@)]
<1>1. st \in State /\ pos \in 1 .. Len(st.window) /\ f.index = p.index /\ HeldOf(st, S)
  BY OpenedFacts, OpenedHeld
<1>2. p.block \in Nat /\ p.last \in Nat /\ p.src \in Source
  BY PacketAssumption
<1>3. Len(f.blocks) = p.last + 1 /\ p.block <= p.last
  BY DEF Accepts, Agrees, WellFormed
<1>4. Filled(p) = [st EXCEPT !.window = ww, !.stats = sts]
  BY DEF Filled
<1>. HIDE DEF st, pos
<1>5. st.window \in Seq(Partial) /\ f \in Partial /\ f.blocks \in Seq(Block) /\ DOMAIN f.blocks = 1 .. p.last + 1
  <2>1. st.window \in Seq(Partial)
    BY <1>1 DEF State
  <2>2. f \in Partial
    BY <1>1, <2>1, ElementOfSeq
  <2>3. f.blocks \in Seq(Block)
    BY <2>2 DEF Partial
  <2>. QED
    BY <1>3, <2>1, <2>2, <2>3, LenProperties
<1>6. CutFrom(f, p.src)
  <2>1. PICK s \in S : CutFrom(f, s)
    BY <1>1 DEF HeldOf
  <2>2. s = p.src
    BY <1>1, <2>1 DEF CutFrom, Distinct
  <2>. QED
    BY <2>1, <2>2
<1>. HIDE DEF f
<1>7. c \in 1 .. p.last + 1
  BY <1>2, <1>3
<1>. HIDE DEF c
<1>8. /\ DOMAIN bb = 1 .. p.last + 1 /\ bb[c] = Fill(b, p)
      /\ \A a \in 1 .. p.last + 1 : a # c => bb[a] = f.blocks[a]
  BY <1>5, <1>7
<1>9. ff.index = f.index /\ ff.blocks = bb
  BY <1>5 DEF Partial
<1>10. \A h \in Fill(b, p).held : h.src = p.src
  <2>1. \A h \in b.held : h.src = p.src
    BY <1>5, <1>6, <1>7 DEF CutFrom
  <2>. HIDE DEF b
  <2>. QED
    BY <2>1 DEF Fill
<1>11. \E h \in Fill(b, p).held : h.src = p.src
  <2>. DEFINE h == [slot |-> p.slot, len |-> p.len, src |-> p.src]
  <2>1. h \in Fill(b, p).held
    BY DEF Fill
  <2>2. h.src = p.src
    OBVIOUS
  <2>. HIDE DEF h
  <2>. QED
    BY <2>1, <2>2
<1>. HIDE DEF b, bb, ff
<1>12. CutFrom(ff, p.src)
  <2>1. \A a \in 1 .. p.last + 1 : \A h \in bb[a].held : h.src = p.src
    BY <1>5, <1>6, <1>8, <1>10 DEF CutFrom
  <2>. QED
    BY <1>6, <1>8, <1>9, <2>1 DEF CutFrom
<1>13. p.src \in SourcesOf(ff)
  BY <1>7, <1>8, <1>9, <1>11 DEF SourcesOf
<1>14. /\ DOMAIN ww = DOMAIN st.window /\ Len(ww) = Len(st.window) /\ ww[pos] = ff
       /\ \A i \in 1 .. Len(st.window) : i # pos => ww[i] = st.window[i]
  BY <1>1, <1>5, LenProperties
<1>. HIDE DEF ww, sts
<1>15. Filled(p).window = ww /\ Filled(p).floor = st.floor
  BY <1>1, <1>4 DEF State
<1>16. HeldOf(Filled(p), S)
  <2>1. \A i \in 1 .. Len(ww) : \E s \in S : CutFrom(ww[i], s)
    BY <1>1, <1>12, <1>14 DEF HeldOf
  <2>. QED
    BY <1>1, <1>15, <2>1 DEF HeldOf
<1>17. FilledFrame(p) = ff
  <2>. DEFINE I(w) == {i \in 1 .. Len(w) : w[i].index = p.index}
              At(w) == IF I(w) = {} THEN 0 ELSE Min(I(w))
  <2>1. \A w : SelectInSeq(w, LAMBDA g : g.index = p.index) = At(w)
    BY DEF SelectInSeq
  <2>2. Position(st, p) = At(st.window) /\ Position(Filled(p), p) = At(ww)
    BY <1>15, <2>1 DEF Position
  <2>3. \A i \in 1 .. Len(st.window) : ww[i].index = st.window[i].index
    BY <1>1, <1>9, <1>14 DEF f
  <2>4. I(ww) = I(st.window)
    BY <1>14, <2>3
  <2>. HIDE DEF I
  <2>5. Position(Filled(p), p) = pos
    BY <2>2, <2>4 DEF pos
  <2>. QED
    BY <1>14, <1>15, <2>5 DEF FilledFrame
<1>. QED
  BY <1>12, <1>13, <1>16, <1>17

\* What is left once a frame is retired was there before.
LEMMA RetireHeld ==
  ASSUME NEW st \in State, NEW S, HeldOf(st, S), NEW pos \in 1 .. Len(st.window)
  PROVE  HeldOf(Retire(st, pos), S)
PROOF
<1>. DEFINE w == st.window
            index == w[pos].index
            rest == RemoveAt(w, pos)
            keepAt == SelectInSeq(rest, LAMBDA f : ~Newer(index, f.index))
            I == {i \in 1 .. Len(rest) : ~Newer(index, rest[i].index)}
            keep == IF keepAt = 0 THEN Len(rest) + 1 ELSE keepAt
            ww == SubSeq(rest, keep, Len(rest))
<1>1. /\ Retire(st, pos) \in State /\ Retire(st, pos).floor = index
  BY RetireFacts
<1>2. Retire(st, pos).window = ww
  <2>. DEFINE first == IF st.floor # None THEN WrapInc(st.floor)
                       ELSE IF keep > 1 THEN rest[1].index ELSE index
              told == IF first = index THEN st ELSE DeclareLost(st, first, WrapDec(index))
  <2>1. Retire(st, pos) = [told EXCEPT !.window = ww, !.floor = index]
    BY DEF Retire
  <2>2. "window" \in DOMAIN told
    BY DEF DeclareLost, State
  <2>. HIDE DEF told, ww, index
  <2>. QED
    BY <2>1, <2>2
<1>3. w \in Seq(Partial) /\ Len(w) \in Nat
  BY LenProperties DEF State
<1>4. keepAt = IF I # {} THEN Min(I) ELSE 0
  BY DEF SelectInSeq
<1>5. /\ rest \in Seq(Partial) /\ Len(rest) = Len(w) - 1
      /\ \A j \in 1 .. Len(w) - 1 : rest[j] = IF j < pos THEN w[j] ELSE w[j + 1]
  BY <1>3, RemoveAtFacts
<1>6. \A i \in 1 .. Len(w) : \E s \in S : CutFrom(w[i], s)
  BY DEF HeldOf
<1>7. \E s \in S : index = HostFrame[s].index
  BY <1>6 DEF CutFrom
<1>0. Len(rest) \in Nat
  BY <1>5, LenProperties
<1>. HIDE DEF w, index, rest, keepAt
<1>8. I # {} => Min(I) \in I
  BY <1>0, LeastPosition, I \in SUBSET (1 .. Len(rest))
<1>9. keep \in 1 .. Len(rest) + 1
  BY <1>3, <1>4, <1>5, <1>8
<1>. HIDE DEF I, keep
<1>10. \A j \in 1 .. Len(rest) : \E s \in S : CutFrom(rest[j], s)
  <2>1. pos \in 1 .. Len(w)
    BY DEF w
  <2>2. \A j \in 1 .. Len(w) - 1 : j \in 1 .. Len(w) /\ j + 1 \in 1 .. Len(w)
    BY <1>3
  <2>. QED
    BY <1>5, <1>6, <2>2
<1>11. /\ Len(ww) = Len(rest) - keep + 1
       /\ \A i \in 1 .. Len(ww) : ww[i] = rest[keep + i - 1] /\ keep + i - 1 \in 1 .. Len(rest)
  BY <1>5, <1>9, SuffixThinned
<1>. HIDE DEF ww
<1>12. \A i \in 1 .. Len(ww) : \E s \in S : CutFrom(ww[i], s)
  BY <1>10, <1>11
<1>. QED
  BY <1>1, <1>2, <1>7, <1>12 DEF HeldOf

\* A push keeps what is held of S, and hands out a frame of S.
LEMMA PushHeld ==
  ASSUME TypeOK, NEW S, Distinct(S), NEW p \in Packet, Push(p), HostRestart(p) \/ HeldOf(Now, S),
         p.src \in S, p.index = HostFrame[p.src].index
  PROVE  \/ UNCHANGED <<window, floor, restarts, lastOut>>
         \/ /\ Accepts(p)
            /\ HeldOf([window |-> window', floor |-> floor'], S)
            /\ restarts' = IF HostRestart(p) THEN restarts + 1 ELSE restarts
            /\ \/ lastOut' = IF HostRestart(p) THEN {} ELSE lastOut
               \/ \E key \in BOOLEAN : Emit(p, key)
PROOF
<1>1. CASE UNCHANGED <<window, floor, restarts, lastOut>>
  BY <1>1
<1>2. CASE PushShard(p)
  <2>1. Accepts(p) /\ window' = Filled(p).window /\ floor' = Filled(p).floor /\ Restarting(p)
    BY <1>2 DEF PushShard, Become
  <2>2. HeldOf(Filled(p), S)
    BY <2>1, FilledHeld
  <2>. QED
    BY <2>1, <2>2 DEF HeldOf, Restarting
<1>3. CASE /\ Accepts(p)
           /\ window' = Finished(p).window /\ floor' = Finished(p).floor
           /\ FinishUnrecoverable(p) \/ FinishRunt(p) \/ FinishSkip(p)
                \/ FinishKey(p) \/ FinishPredicted(p)
  <2>1. HeldOf(Finished(p), S)
    <3>. DEFINE st == Filled(p)
                pos == Position(st, p)
    <3>1. st \in State /\ pos \in 1 .. Len(st.window) /\ HeldOf(st, S)
      BY <1>3, FilledFacts, FilledHeld
    <3>2. Finished(p) = Retire(st, pos)
      BY DEF Finished
    <3>. HIDE DEF st, pos
    <3>. QED
      BY <3>1, <3>2, RetireHeld
  <2>2. HeldOf([window |-> window', floor |-> floor'], S)
    BY <1>3, <2>1 DEF HeldOf
  <2>3. CASE FinishUnrecoverable(p) \/ FinishRunt(p) \/ FinishSkip(p)
    <3>1. Restarting(p)
      BY <2>3 DEF FinishUnrecoverable, FinishRunt, FinishSkip
    <3>. QED
      BY <1>3, <2>2, <3>1 DEF Restarting
  <2>4. CASE FinishKey(p) \/ FinishPredicted(p)
    <3>1. PICK key \in BOOLEAN : Emit(p, key)
      BY <2>4 DEF FinishKey, FinishPredicted
    <3>2. restarts' = IF HostRestart(p) THEN restarts + 1 ELSE restarts
      BY <3>1 DEF Emit
    <3>. QED
      BY <1>3, <2>2, <3>1, <3>2
  <2>. QED
    BY <1>3, <2>3, <2>4
<1>. QED
  BY <1>1, <1>2, <1>3, PushEnds

\* The unit that is handed out is of the packet's frame.
LEMMA EmitsFrame ==
  ASSUME TypeOK, NEW S, Distinct(S), NEW p \in Packet, NEW key \in BOOLEAN, Emit(p, key),
         HostRestart(p) \/ HeldOf(Now, S), p.src \in S, p.index = HostFrame[p.src].index
  PROVE  lastOut' = {[index |-> p.index, key |-> key, from |-> {p.src}]}
PROOF
<1>1. Accepts(p) /\ lastOut' = {[index |-> p.index, key |-> key, from |-> SourcesOf(FilledFrame(p))]}
  BY DEF Emit
<1>2. CutFrom(FilledFrame(p), p.src) /\ p.src \in SourcesOf(FilledFrame(p))
  BY <1>1, FilledHeld
<1>3. SourcesOf(FilledFrame(p)) = {p.src}
  BY <1>2 DEF CutFrom, SourcesOf
<1>. QED
  BY <1>1, <1>3

\* The frames of the present epoch: consecutive indices are consecutive frames.
LEMMA EpochFacts ==
  ASSUME CutByHost, HostCountsUp, sent \in 0 .. Len(HostFrame)
  PROVE  /\ Distinct(Current) /\ Epoch \in Nat
         /\ \A s, t \in Current : HostFrame[t].index = WrapInc(HostFrame[s].index) => s = t - 1
PROOF
<1>1. /\ DOMAIN HostFrame = 1 .. Len(HostFrame) /\ Len(HostFrame) \in Nat
      /\ \A s \in DOMAIN HostFrame : HostFrame[s].index \in Index /\ HostFrame[s].epoch \in Nat
  <2>1. /\ DOMAIN HostFrame = 1 .. Len(HostFrame) /\ Len(HostFrame) \in Nat
    BY HostAssumption, LenProperties
  <2>2. \A s \in DOMAIN HostFrame : HostFrame[s] \in [index : Index, key : BOOLEAN, epoch : Nat]
    BY <2>1, HostAssumption, ElementOfSeq
  <2>. QED
    BY <2>1, <2>2
<1>2. \A s \in Current : s \in DOMAIN HostFrame /\ s \in Nat /\ HostFrame[s].epoch = Epoch
  BY <1>1 DEF Current, CutByHost
<1>3. \A s, t \in Current : s <= t => /\ t - s < Half
                                      /\ WrapSub(HostFrame[t].index, HostFrame[s].index) = t - s
  BY <1>2 DEF HostCountsUp
<1>4. \A x \in Index : /\ WrapSub(x, x) = 0 /\ WrapSub(WrapInc(x), x) = 1
                       /\ WrapSub(x, WrapInc(x)) >= Half
  <2>1. /\ IndexMod \in Nat /\ IndexMod >= 4 /\ Half \in Nat /\ IndexMod = Half + Half
    BY SizeAssumption DEF Half
  <2>. TAKE x \in Index
  <2>2. x \in 0 .. IndexMod - 1
    BY DEF Index
  <2>3. CASE x = IndexMod - 1
    <3>1. WrapInc(x) = 0
      BY <2>3 DEF WrapInc
    <3>. QED
      BY <2>1, <2>2, <2>3, <3>1 DEF WrapSub
  <2>4. CASE x # IndexMod - 1
    <3>1. WrapInc(x) = x + 1
      BY <2>4 DEF WrapInc
    <3>. QED
      BY <2>1, <2>2, <2>4, <3>1 DEF WrapSub
  <2>. QED
    BY <2>3, <2>4
<1>5. ASSUME NEW s \in Current, NEW t \in Current, HostFrame[s].index = HostFrame[t].index
      PROVE  s = t
  <2>1. s \in Nat /\ t \in Nat /\ HostFrame[s].index \in Index
    BY <1>1, <1>2
  <2>2. CASE s <= t
    <3>1. t - s = 0
      BY <1>3, <1>4, <1>5, <2>1, <2>2
    <3>. QED
      BY <2>1, <3>1
  <2>3. CASE t <= s
    <3>1. s - t = 0
      BY <1>3, <1>4, <1>5, <2>1, <2>3
    <3>. QED
      BY <2>1, <3>1
  <2>. QED
    BY <2>1, <2>2, <2>3
<1>6. ASSUME NEW s \in Current, NEW t \in Current, HostFrame[t].index = WrapInc(HostFrame[s].index)
      PROVE  s = t - 1
  <2>1. s \in Nat /\ t \in Nat /\ HostFrame[s].index \in Index /\ Half \in Nat
    BY <1>1, <1>2, SizeAssumption DEF Half
  <2>2. CASE s <= t
    <3>1. t - s = 1
      BY <1>3, <1>4, <1>6, <2>1, <2>2
    <3>. QED
      BY <2>1, <3>1
  <2>3. CASE t <= s
    <3>1. s - t < Half /\ s - t >= Half
      BY <1>3, <1>4, <1>6, <2>1, <2>3
    <3>. QED
      BY <2>1, <3>1
  <2>. QED
    BY <2>1, <2>2, <2>3
<1>7. Epoch \in Nat
  BY <1>1 DEF Epoch
<1>. QED
  BY <1>5, <1>6, <1>7 DEF Distinct

\* A datagram on its way is of the present epoch, and looks like a restart only to a receiver
\* that has not followed one.
LEMMA OnItsWay ==
  ASSUME CutByHost, HostCountsUp, DelayBelowRestart, TypeOK, SeamInv, NEW p \in InFlight
  PROVE  /\ p \in Packet /\ p.src \in Current /\ p.index = HostFrame[p.src].index
         /\ restarts = Epoch => ~HostRestart(p)
PROOF
<1>1. /\ p \in Packet /\ p.src <= sent /\ sent <= p.src + MaxDelay
      /\ HostFrame[p.src].epoch = HostFrame[sent].epoch
  BY DEF InFlight, DelayBelowRestart
<1>2. p.src \in Source /\ p.src \in DOMAIN HostFrame /\ p.index = HostFrame[p.src].index
  BY <1>1, PacketAssumption DEF CutByHost
<1>3. /\ DOMAIN HostFrame = 1 .. Len(HostFrame) /\ Len(HostFrame) \in Nat
      /\ MaxDelay \in Nat /\ RestartDistance \in Nat /\ MaxDelay <= RestartDistance
  BY HostAssumption, SizeAssumption, LenProperties DEF DelayBelowRestart
<1>4. p.src \in Nat /\ sent \in Nat /\ sent # 0
  BY <1>1, <1>2, <1>3 DEF SeamInv
<1>5. p.src \in Current
  BY <1>1, <1>2, <1>4 DEF Current, Epoch
<1>6. ASSUME restarts = Epoch, HostRestart(p) PROVE FALSE
  <2>1. floor # None /\ ~Newer(p.index, floor) /\ WrapSub(floor, p.index) > RestartDistance
    BY <1>6 DEF HostRestart, Behind
  <2>2. PICK s \in Current : floor = HostFrame[s].index
    BY <1>6, <2>1 DEF SeamInv, HeldOf, Now
  <2>3. s \in DOMAIN HostFrame /\ s \in Nat /\ s <= sent /\ HostFrame[s].epoch = HostFrame[p.src].epoch
    BY <1>1, <1>3, <1>4, <2>2 DEF Current, Epoch, CutByHost
  <2>4. CASE p.src <= s
    <3>1. WrapSub(floor, p.index) = s - p.src
      BY <1>2, <2>2, <2>3, <2>4 DEF HostCountsUp
    <3>. QED
      BY <1>1, <1>3, <1>4, <2>1, <2>3, <3>1
  <2>5. CASE s < p.src
    <3>1. WrapSub(p.index, floor) = p.src - s /\ p.src - s < Half
      BY <1>2, <1>4, <2>2, <2>3, <2>5 DEF HostCountsUp
    <3>2. p.index = floor
      BY <2>1, <3>1 DEF Newer, Half
    <3>3. floor \in Index
      BY <1>2, <3>2, PacketAssumption, <1>1
    <3>4. WrapSub(p.index, floor) = 0
      BY <3>2, <3>3, SizeAssumption DEF WrapSub, Index
    <3>. QED
      BY <1>4, <2>3, <2>5, <3>1, <3>4
  <2>. QED
    BY <1>4, <2>3, <2>4, <2>5
<1>. QED
  BY <1>1, <1>2, <1>5, <1>6

LEMMA SeamStep ==
  ASSUME CutByHost, HostCountsUp, DelayBelowRestart, GateInv, SeamInv, [SNext]_svars
  PROVE  SeamInv'
PROOF
<1>0. TypeOK /\ restarts \in Nat
  BY DEF GateInv, TypeOK
<1>1. /\ sent \in 0 .. Len(HostFrame) /\ Len(HostFrame) \in Nat /\ restarts <= Epoch
      /\ DOMAIN HostFrame = 1 .. Len(HostFrame)
  BY HostAssumption, LenProperties DEF SeamInv
<1>2. Distinct(Current) /\ Epoch \in Nat
  BY <1>1, EpochFacts
<1>3. ASSUME UNCHANGED <<window, floor, restarts, lastOut, sent>>
      PROVE  SeamInv'
  BY <1>3 DEF SeamInv, Epoch, Current, HeldOf, Now
<1>4. CASE HostSend
  <2>1. sent' = sent + 1 /\ sent' \in 1 .. Len(HostFrame) /\ UNCHANGED <<window, floor, restarts, lastOut>>
    BY <1>1, <1>4 DEF HostSend, vars
  <2>2. Epoch' = HostFrame[sent + 1].epoch /\ Epoch' \in Nat
    <3>1. HostFrame[sent + 1] \in [index : Index, key : BOOLEAN, epoch : Nat]
      BY <1>1, <2>1, HostAssumption, ElementOfSeq
    <3>. QED
      BY <1>1, <2>1, <3>1 DEF Epoch
  <2>3. Epoch <= Epoch'
    <3>1. CASE sent = 0
      BY <2>2, <3>1 DEF Epoch
    <3>2. CASE sent # 0
      <4>1. sent \in DOMAIN HostFrame /\ sent + 1 \in DOMAIN HostFrame /\ sent <= sent + 1
        BY <1>1, <2>1, <3>2
      <4>. QED
        BY <2>2, <3>2, <4>1 DEF Epoch, HostCountsUp
    <3>. QED
      BY <3>1, <3>2
  <2>4. ASSUME restarts = Epoch'
        PROVE  /\ HeldOf(Now, Current')
               /\ \A au \in lastOut : \E s \in Current' : au.from = {s} /\ au.index = HostFrame[s].index
    <3>1. restarts = Epoch /\ Epoch = Epoch'
      BY <1>0, <1>1, <1>2, <2>2, <2>3, <2>4
    <3>2. \A s \in Current : s \in Current'
      <4>1. \A s \in Current : s \in Nat
        BY <1>1 DEF Current, CutByHost
      <4>. QED
        BY <1>1, <2>1, <3>1, <4>1 DEF Current
    <3>3. /\ HeldOf(Now, Current)
          /\ \A au \in lastOut : \E s \in Current : au.from = {s} /\ au.index = HostFrame[s].index
      BY <3>1 DEF SeamInv
    <3>. QED
      BY <3>2, <3>3 DEF HeldOf
  <2>5. Now'.window = Now.window /\ Now'.floor = Now.floor
    BY <2>1 DEF Now
  <2>6. HeldOf(Now, Current') => HeldOf(Now, Current)'
    BY <2>5 DEF HeldOf
  <2>7. restarts' = restarts /\ lastOut' = lastOut /\ sent' \in 0 .. Len(HostFrame) /\ restarts' <= Epoch'
    BY <1>0, <1>1, <1>2, <2>1, <2>2, <2>3
  <2>. QED
    BY <2>4, <2>6, <2>7 DEF SeamInv
<1>5. CASE Receive
  <2>1. PICK p \in InFlight : Push(p)
    BY <1>5 DEF Receive
  <2>2. sent' = sent /\ Epoch' = Epoch /\ Current' = Current
    BY <1>5 DEF Receive, Epoch, Current
  <2>3. /\ p \in Packet /\ p.src \in Current /\ p.index = HostFrame[p.src].index
        /\ restarts = Epoch => ~HostRestart(p)
    BY <1>0, OnItsWay
  <2>4. CASE UNCHANGED <<window, floor, restarts, lastOut>>
    BY <1>3, <2>2, <2>4
  <2>5. CASE ~UNCHANGED <<window, floor, restarts, lastOut>>
    <3>1. CASE ~HostRestart(p) /\ restarts # Epoch
      <4>1. restarts' = restarts
        <5>1. CASE PushShard(p) \/ FinishUnrecoverable(p) \/ FinishRunt(p) \/ FinishSkip(p)
          BY <3>1, <5>1 DEF PushShard, FinishUnrecoverable, FinishRunt, FinishSkip, Restarting
        <5>2. CASE FinishKey(p) \/ FinishPredicted(p)
          BY <3>1, <5>2 DEF FinishKey, FinishPredicted, Emit
        <5>. QED
          BY <1>0, <2>1, <2>3, <2>5, <5>1, <5>2, PushEnds
      <4>. QED
        BY <1>1, <2>2, <3>1, <4>1 DEF SeamInv
    <3>2. CASE HostRestart(p) \/ restarts = Epoch
      <4>1. HostRestart(p) \/ HeldOf(Now, Current)
        BY <3>2 DEF SeamInv
      <4>2. /\ HeldOf([window |-> window', floor |-> floor'], Current)
            /\ restarts' = IF HostRestart(p) THEN restarts + 1 ELSE restarts
            /\ \/ lastOut' = IF HostRestart(p) THEN {} ELSE lastOut
               \/ \E key \in BOOLEAN : Emit(p, key)
        BY <1>0, <1>2, <2>1, <2>3, <2>5, <4>1, PushHeld
      <4>3. restarts' <= Epoch
        BY <1>0, <1>1, <1>2, <2>3, <4>2
      <4>4. HeldOf(Now, Current)'
        BY <2>2, <4>2 DEF HeldOf, Now
      <4>5. \A au \in lastOut' : \E s \in Current : au.from = {s} /\ au.index = HostFrame[s].index
        <5>1. CASE \E key \in BOOLEAN : Emit(p, key)
          <6>1. PICK key \in BOOLEAN : Emit(p, key)
            BY <5>1
          <6>2. lastOut' = {[index |-> p.index, key |-> key, from |-> {p.src}]}
            BY <1>0, <1>2, <2>3, <4>1, <6>1, EmitsFrame
          <6>. QED
            BY <2>3, <6>2
        <5>2. CASE lastOut' = IF HostRestart(p) THEN {} ELSE lastOut
          <6>1. CASE HostRestart(p)
            BY <5>2, <6>1
          <6>2. CASE ~HostRestart(p)
            BY <3>2, <5>2, <6>2 DEF SeamInv
          <6>. QED
            BY <6>1, <6>2
        <5>. QED
          BY <4>2, <5>1, <5>2
      <4>. QED
        BY <1>1, <2>2, <4>3, <4>4, <4>5 DEF SeamInv
    <3>. QED
      BY <3>1, <3>2
  <2>. QED
    BY <2>4, <2>5
<1>6. CASE Report
  BY <1>3, <1>6 DEF Report, TakeLoss
<1>7. CASE DecoderFailed
  BY <1>3, <1>7 DEF DecoderFailed, RequireKeyframe
<1>8. CASE UNCHANGED svars
  BY <1>3, <1>8 DEF svars, vars
<1>. QED
  BY <1>4, <1>5, <1>6, <1>7, <1>8 DEF SNext

\* A frame that is handed out is put together from one frame of the host and follows its
\* reference.
LEMMA DeliversWhole ==
  ASSUME Gate, CutByHost, HostCountsUp, DelayBelowRestart, GateInv, SeamInv, [SNext]_svars,
         Delivers, Followed'
  PROVE  WholeChain
PROOF
<1>0. TypeOK /\ restarts \in Nat
  BY DEF GateInv, TypeOK
<1>1. /\ sent \in 0 .. Len(HostFrame) /\ Distinct(Current)
      /\ \A s, t \in Current : HostFrame[t].index = WrapInc(HostFrame[s].index) => s = t - 1
  BY EpochFacts DEF SeamInv
<1>2. PICK p \in InFlight : Push(p) /\ sent' = sent
  BY DEF SNext, svars, vars, HostSend, Receive, Report, DecoderFailed, TakeLoss, RequireKeyframe, Delivers
<1>3. /\ p \in Packet /\ p.src \in Current /\ p.index = HostFrame[p.src].index
  BY <1>0, OnItsWay
<1>4. PICK key \in BOOLEAN : Emit(p, key)
  BY <1>2, <1>3, PushDelivers DEF Delivers
<1>5. HostRestart(p) \/ restarts = Epoch
  <2>1. restarts' = Epoch
    BY <1>2 DEF Followed, Epoch
  <2>2. ~HostRestart(p) => restarts' = restarts
    BY <1>4 DEF Emit
  <2>. QED
    BY <2>1, <2>2
<1>6. lastOut' = {[index |-> p.index, key |-> key, from |-> {p.src}]}
  <2>1. HostRestart(p) \/ HeldOf(Now, Current)
    BY <1>5 DEF SeamInv
  <2>. QED
    BY <1>0, <1>1, <1>3, <1>4, <2>1, EmitsFrame
<1>7. p.src \in Source
  BY <1>3 DEF Current
<1>8. key \/ \E prev \in lastOut : prev.from = {p.src - 1}
  <2>. SUFFICES ASSUME ~key PROVE \E prev \in lastOut : prev.from = {p.src - 1}
    OBVIOUS
  <2>1. Accepts(p) /\ ~Finished(p).awaiting
    BY <1>4 DEF Emit
  <2>2. ~HostRestart(p) /\ \E prev \in lastOut : p.index = WrapInc(prev.index)
    BY <1>3, <2>1, RetiredStep
  <2>3. PICK prev \in lastOut : p.index = WrapInc(prev.index)
    BY <2>2
  <2>4. PICK s \in Current : prev.from = {s} /\ prev.index = HostFrame[s].index
    BY <1>5, <2>2 DEF SeamInv
  <2>5. s = p.src - 1
    BY <1>1, <1>3, <2>3, <2>4
  <2>. QED
    BY <2>4, <2>5
<1>. QED
  BY <1>6, <1>7, <1>8 DEF WholeChain

\* While every restart of the host's counter has been followed and no datagram is later
\* than the receiver allows for, an access unit is put together from the shards of one
\* frame of the host, and a predicted one is handed out right after the very frame it was
\* encoded against (Depacketizer, "the decoder is never handed a frame whose reference is
\* missing").
THEOREM ReferencesAreHeld ==
  ASSUME Gate, CutByHost, HostCountsUp, DelayBelowRestart
  PROVE  SSpec => ReferenceHeldIfFollowed
PROOF
<1>1. SInit => GateInv /\ SeamInv
  <2>. SUFFICES ASSUME SInit PROVE GateInv /\ SeamInv
    OBVIOUS
  <2>1. GateInv
    BY InitGateInv DEF SInit
  <2>2. Len(HostFrame) \in Nat
    BY HostAssumption, LenProperties
  <2>. QED
    BY <2>1, <2>2 DEF SInit, Init, SeamInv, Epoch, HeldOf, Now
<1>2. [SNext]_svars => [Next]_vars
  BY DEF SNext, svars, HostSend, Receive, Report, DecoderFailed, Next, InFlight
<1>3. GateInv /\ [SNext]_svars => GateInv'
  BY <1>2, NextGateInv
<1>4. GateInv /\ SeamInv /\ [SNext]_svars => SeamInv'
  BY SeamStep
<1>5. GateInv /\ SeamInv /\ [SNext]_svars => [Delivers /\ Followed' => WholeChain]_svars
  BY DeliversWhole
<1>. QED
  BY <1>1, <1>3, <1>4, <1>5, PTL DEF SSpec, ReferenceHeldIfFollowed
=============================================================================
