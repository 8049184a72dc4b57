----------------------------- MODULE LifetimeProofs -----------------------------
(***************************************************************************)
(* Proofs about Lifetime: the teardown of a session, its buffers, and what *)
(* is so once the handshake is over, however often the client is started   *)
(* and whatever is lost on the way.                                        *)
(***************************************************************************)
EXTENDS Lifetime, FiniteSetTheorems, SequenceTheorems, TLAPS

-----------------------------------------------------------------------------
(* The steps, as the session sees them. *)

\* Setup, host and network leave a session alone, or end it.
LEMMA SessionSteps ==
  ASSUME [LNext]_lvars
  PROVE  \/ UNCHANGED vars \/ NoSession \/ Begin \/ Cancel
         \/ Owner \/ Control \/ (\E s \in Streams : Rx(s)) \/ AskToStop
<1>1. CASE UNCHANGED lvars
  BY <1>1 DEF lvars
<1>2. CASE LNext
  <2>1. ASSUME NEW Step, SetUp(Step) PROVE UNCHANGED vars \/ NoSession
    BY <2>1 DEF SetUp
  <2> QED BY <1>2, <2>1 DEF LNext, World, CancelOnHost, Again
<1> QED BY <1>1, <1>2

-----------------------------------------------------------------------------
(* Teardown. *)

\* A control thread that is connecting, or gave up, is waited for; the owner joins
\* before it goes on.
ThreadsInv ==
  /\ owner = "launch" => control = "none" /\ ready = "none"
  /\ ready = "none" => owner \in {"launch", "ready"}
  /\ control = "connecting" => ready = "none"
  /\ TornDown

LEMMA ThreadsStep ==
  ASSUME ThreadsInv, [LNext]_lvars
  PROVE  ThreadsInv'
<1> USE DEF ThreadsInv, TornDown
<1>1. CASE UNCHANGED vars
  BY <1>1 DEF vars
<1>2. CASE NoSession
  BY <1>2 DEF NoSession
<1>3. CASE Begin
  BY <1>3 DEF Begin
<1>4. CASE Cancel
  BY <1>4 DEF Cancel
<1>5. CASE Owner
  BY <1>5 DEF Owner, Ready, MakeDecoder, Turn, Pushed, DropFlag, DropTell, Join
<1>6. CASE Control
  BY <1>6 DEF Control, Connect, Leave, ServeStop, ServeLost
<1>7. ASSUME NEW s \in Streams, Rx(s) PROVE ThreadsInv'
  BY <1>7 DEF Rx, RxTop, RxDatagram, RxNothing, RxEnd
<1>8. CASE AskToStop
  BY <1>8 DEF AskToStop
<1> QED BY <1>1, <1>2, <1>3, <1>4, <1>5, <1>6, <1>7, <1>8, SessionSteps

\* A session that was up ends with all its threads gone, and then the host is told,
\* however many receive threads there are and whichever of them is slow
\* (session.rs Drop for StreamSession).
THEOREM SessionTornDown == LSpec => []TornDown
<1>1. LInit => ThreadsInv
  BY DEF LInit, Init, ThreadsInv, TornDown
<1>2. ThreadsInv /\ [LNext]_lvars => ThreadsInv'
  BY ThreadsStep
<1>3. ThreadsInv => TornDown
  BY DEF ThreadsInv
<1> QED BY <1>1, <1>2, <1>3, PTL DEF LSpec

-----------------------------------------------------------------------------
(* Buffers. *)

\* The end of the control channel waits for the pipeline thread.
EndQueued == \E i \in DOMAIN events : events[i] = "disconnected"

\* The datagrams that wait for the pipeline thread.
Backlog == Len(events) - (IF EndQueued THEN 1 ELSE 0)

BeingRead == IF pushing THEN 1 ELSE 0

\* The end is queued once.  As long as the pool takes back everything that is in use,
\* every buffer ever made is in it, held, queued, being read or gone with an audio datagram.
BuffersInv ==
  /\ pool \in Nat /\ made \in Nat /\ peak \in Nat /\ gone \in Nat /\ pushing \in BOOLEAN
  /\ holding \subseteq Streams
  /\ events \in Seq({"video", "audio", "disconnected"})
  /\ \A i, j \in DOMAIN events :
       events[i] = "disconnected" => control = "gone" /\ (events[j] = "disconnected" => j = i)
  /\ Backlog <= peak
  /\ InUse <= PoolLimit =>
       /\ made = pool + Cardinality(holding) + Backlog + BeingRead + gone
       /\ made <= InUse + gone

LEMMA HoldersCounted ==
  ASSUME NEW H \in SUBSET Streams
  PROVE  /\ IsFiniteSet(H) /\ Cardinality(H) \in Nat /\ Cardinality(Streams) \in Nat
         /\ Cardinality(H) <= Cardinality(Streams)
         /\ \A s \in Streams \ H : Cardinality(H \cup {s}) = Cardinality(H) + 1
         /\ \A s \in H : Cardinality(H \ {s}) = Cardinality(H) - 1
BY StreamsAssumption, FS_Subset, FS_CardinalityType, FS_AddElement, FS_RemoveElement

\* One more thing is queued.
LEMMA QueuedOneMore ==
  ASSUME BuffersInv, NEW e \in {"video", "audio", "disconnected"}, events' = Append(events, e),
         e = "disconnected" => ~EndQueued
  PROVE  /\ events' \in Seq({"video", "audio", "disconnected"})
         /\ Len(events') = Len(events) + 1
         /\ EndQueued' <=> EndQueued \/ e = "disconnected"
         /\ Backlog' = Backlog + (IF e = "disconnected" THEN 0 ELSE 1)
         /\ \A i \in DOMAIN events' :
              \/ i \in DOMAIN events /\ events'[i] = events[i]
              \/ i = Len(events) + 1 /\ events'[i] = e
<1>1. events \in Seq({"video", "audio", "disconnected"})
  BY DEF BuffersInv
<1>2. /\ events' \in Seq({"video", "audio", "disconnected"})
      /\ Len(events') = Len(events) + 1
      /\ \A i \in 1 .. Len(events) : events'[i] = events[i]
      /\ events'[Len(events) + 1] = e
      /\ Len(events) \in Nat
      /\ DOMAIN events = 1 .. Len(events) /\ DOMAIN events' = 1 .. Len(events) + 1
  BY <1>1, AppendProperties, LenProperties
<1>3. \A i \in DOMAIN events' :
              \/ i \in DOMAIN events /\ events'[i] = events[i]
              \/ i = Len(events) + 1 /\ events'[i] = e
  BY <1>2
<1>4. EndQueued' <=> EndQueued \/ e = "disconnected"
  BY <1>2, <1>3 DEF EndQueued
<1>5. Backlog' = Backlog + (IF e = "disconnected" THEN 0 ELSE 1)
  <2>1. CASE e # "disconnected"
    BY <1>2, <1>4, <2>1 DEF Backlog
  <2>2. CASE e = "disconnected"
    BY <1>2, <1>4, <2>2 DEF Backlog
  <2> QED BY <2>1, <2>2
<1> QED BY <1>2, <1>3, <1>4, <1>5

\* The first thing is taken off the queue.
LEMMA QueuedOneLess ==
  ASSUME BuffersInv, events # <<>>, events' = Tail(events)
  PROVE  /\ events' \in Seq({"video", "audio", "disconnected"})
         /\ \A i \in DOMAIN events' : i + 1 \in DOMAIN events /\ events'[i] = events[i + 1]
         /\ Backlog' = Backlog - (IF Head(events) = "disconnected" THEN 0 ELSE 1)
<1>1. events \in Seq({"video", "audio", "disconnected"})
  BY DEF BuffersInv
<1>2. /\ events' \in Seq({"video", "audio", "disconnected"})
      /\ Len(events') = Len(events) - 1
      /\ \A i \in 1 .. Len(events) - 1 : events'[i] = events[i + 1]
      /\ Len(events) \in Nat /\ Len(events) > 0
      /\ DOMAIN events = 1 .. Len(events) /\ DOMAIN events' = 1 .. Len(events) - 1
      /\ Head(events) = events[1] /\ events[1] \in {"video", "audio", "disconnected"}
  BY <1>1, HeadTailProperties, LenProperties, EmptySeq, ElementOfSeq
<1>3. \A i \in DOMAIN events' : i + 1 \in DOMAIN events /\ events'[i] = events[i + 1]
  BY <1>2
<1>4. CASE Head(events) # "disconnected"
  <2>1. EndQueued' <=> EndQueued
    <3>1. ASSUME NEW i \in DOMAIN events, events[i] = "disconnected"
          PROVE  i - 1 \in DOMAIN events' /\ events'[i - 1] = "disconnected"
      BY <1>2, <1>4, <3>1
    <3> QED BY <1>3, <3>1 DEF EndQueued
  <2> QED BY <1>2, <1>4, <2>1 DEF Backlog
<1>5. CASE Head(events) = "disconnected"
  <2>1. EndQueued /\ 1 \in DOMAIN events
    BY <1>2, <1>5 DEF EndQueued
  <2>2. ~EndQueued'
    <3>1. ASSUME NEW i \in DOMAIN events', events'[i] = "disconnected" PROVE FALSE
      <4>1. events[i + 1] = "disconnected" /\ i + 1 \in DOMAIN events /\ i + 1 # 1
        BY <1>2, <1>3, <3>1
      <4> QED BY <1>2, <1>5, <2>1, <4>1 DEF BuffersInv
    <3> QED BY <3>1 DEF EndQueued
  <2>3. Backlog = Len(events) - 1 /\ Backlog' = Len(events) - 1
    BY <1>2, <2>1, <2>2 DEF Backlog
  <2>4. Backlog' = Backlog - 0
    BY <1>2, <2>3
  <2>5. (IF Head(events) = "disconnected" THEN 0 ELSE 1) = 0
    BY <1>5
  <2> QED BY <1>2, <1>3, <2>4, <2>5
<1> QED BY <1>2, <1>3, <1>4, <1>5

\* A step that leaves the queue alone, and the control thread where it is or gone.
LEMMA QueueKept ==
  ASSUME BuffersInv, UNCHANGED <<events, peak>>, control' = control \/ control' = "gone" \/ ~EndQueued
  PROVE  /\ events' \in Seq({"video", "audio", "disconnected"}) /\ peak' \in Nat
         /\ \A i, j \in DOMAIN events' :
              events'[i] = "disconnected"
              => control' = "gone" /\ (events'[j] = "disconnected" => j = i)
         /\ Backlog' = Backlog /\ Backlog' <= peak' /\ InUse' = InUse
BY DEF BuffersInv, Backlog, EndQueued, InUse

\* The numbers as the proofs use them.
LEMMA BacklogIs ==
  ASSUME BuffersInv
  PROVE  Backlog \in Int /\ BeingRead \in {0, 1} /\ Cardinality(holding) \in Nat
         /\ Cardinality(Streams) \in Nat /\ InUse = Cardinality(Streams) + peak + 1
<1>1. Len(events) \in Nat
  BY LenProperties DEF BuffersInv
<1> QED BY <1>1, HoldersCounted DEF BuffersInv, Backlog, BeingRead, InUse

LEMMA TakeKeepsBuffers ==
  ASSUME BuffersInv, NEW s \in Streams, Take(s), control' = control
  PROVE  BuffersInv'
<1>1. Backlog' = Backlog /\ InUse' = InUse /\ BeingRead' = BeingRead
  BY QueueKept DEF Take, BeingRead
<1>2. Cardinality(holding') = Cardinality(holding) + 1
      /\ Cardinality(holding') <= Cardinality(Streams) /\ holding' \subseteq Streams
  <2>1. holding \subseteq Streams /\ s \in Streams \ holding /\ holding' = holding \cup {s}
    BY DEF Take, BuffersInv
  <2>2. holding' \in SUBSET Streams
    BY <2>1
  <2>3. Cardinality(holding') <= Cardinality(Streams)
    BY <2>2, HoldersCounted
  <2>4. Cardinality(holding \cup {s}) = Cardinality(holding) + 1
    BY <2>1, HoldersCounted
  <2> QED BY <2>1, <2>2, <2>3, <2>4
<1>3. pool' \in Nat /\ made' \in Nat /\ pushing' = pushing /\ peak' = peak /\ gone' = gone
      /\ \/ pool' = pool - 1 /\ made' = made
         \/ pool = 0 /\ pool' = 0 /\ made' = made + 1
  BY DEF Take, BuffersInv
<1>4. InUse' <= PoolLimit => made' = pool' + Cardinality(holding') + Backlog' + BeingRead' + gone'
      /\ made' <= InUse' + gone'
  <2>1. SUFFICES ASSUME InUse <= PoolLimit
        PROVE made' = pool' + Cardinality(holding') + Backlog' + BeingRead' + gone'
              /\ made' <= InUse' + gone'
    BY <1>1
  <2>2. made = pool + Cardinality(holding) + Backlog + BeingRead + gone
        /\ made <= InUse + gone /\ gone \in Nat /\ Backlog <= peak /\ pool \in Nat /\ made \in Nat /\ peak \in Nat
    BY <2>1 DEF BuffersInv
  <2>3. made' = pool' + Cardinality(holding') + Backlog' + BeingRead' + gone'
    BY <1>1, <1>2, <1>3, <2>2, BacklogIs
  <2>4. made' <= InUse' + gone'
    BY <1>1, <1>2, <1>3, <2>2, <2>3, BacklogIs
  <2> QED BY <2>3, <2>4
<1> QED BY <1>1, <1>2, <1>3, <1>4, QueueKept DEF Take, BuffersInv

\* A buffer that comes back finds room, as long as the pool can hold what is in use.
LEMMA BackInThePool ==
  ASSUME BuffersInv, holding # {} \/ pushing
  PROVE  /\ Recycled \in Nat
         /\ InUse <= PoolLimit => Recycled = pool + 1
<1>1. Recycled \in Nat
  BY LimitAssumption DEF Recycled, BuffersInv
<1>2. ASSUME InUse <= PoolLimit PROVE pool < PoolLimit
  <2>1. made = pool + Cardinality(holding) + Backlog + BeingRead + gone
        /\ made <= InUse + gone /\ gone \in Nat /\ pool \in Nat /\ made \in Nat /\ peak \in Nat
    BY <1>2 DEF BuffersInv
  <2>2. Backlog >= 0
    <3>1. Len(events) \in Nat
      BY LenProperties DEF BuffersInv
    <3>2. EndQueued => Len(events) >= 1
      BY <3>1, LenProperties DEF EndQueued, BuffersInv
    <3> QED BY <3>1, <3>2 DEF Backlog
  <2>3. Cardinality(holding) + BeingRead >= 1
    <3>1. CASE pushing
      BY <3>1, BacklogIs DEF BeingRead
    <3>2. CASE holding # {}
      <4>1. Cardinality(holding) # 0
        BY <3>2, HoldersCounted, FS_EmptySet DEF BuffersInv
      <4> QED BY <4>1, BacklogIs
    <3> QED BY <3>1, <3>2
  <2> QED BY <1>2, <2>1, <2>2, <2>3, BacklogIs, LimitAssumption
<1> QED BY <1>1, <1>2 DEF Recycled

LEMMA NothingKeepsBuffers ==
  ASSUME BuffersInv, NEW s \in Streams, Nothing(s), control' = control
  PROVE  BuffersInv'
<1>1. Backlog' = Backlog /\ InUse' = InUse /\ BeingRead' = BeingRead
  BY QueueKept DEF Nothing, BeingRead
<1>2. Cardinality(holding') = Cardinality(holding) - 1 /\ holding' \subseteq Streams
  BY HoldersCounted DEF Nothing, BuffersInv
<1>3. pool' = Recycled /\ made' = made /\ pushing' = pushing /\ peak' = peak /\ gone' = gone
      /\ holding # {}
  BY DEF Nothing
<1>4. InUse' <= PoolLimit => made' = pool' + Cardinality(holding') + Backlog' + BeingRead' + gone'
      /\ made' <= InUse' + gone'
  <2>1. SUFFICES ASSUME InUse <= PoolLimit
        PROVE made' = pool' + Cardinality(holding') + Backlog' + BeingRead' + gone'
              /\ made' <= InUse' + gone'
    BY <1>1
  <2>2. made = pool + Cardinality(holding) + Backlog + BeingRead + gone
        /\ made <= InUse + gone /\ gone \in Nat /\ pool \in Nat /\ made \in Nat
    BY <2>1 DEF BuffersInv
  <2>3. pool' = pool + 1
    BY <1>3, <2>1, BackInThePool
  <2> QED BY <1>1, <1>2, <1>3, <2>2, <2>3, BacklogIs
<1>5. pool' \in Nat
  BY <1>3, BackInThePool
<1> QED BY <1>1, <1>2, <1>3, <1>4, <1>5, QueueKept DEF Nothing, BuffersInv

LEMMA GiveBackKeepsBuffers ==
  ASSUME BuffersInv, GiveBack, control' = control
  PROVE  BuffersInv'
<1>1. Backlog' = Backlog /\ InUse' = InUse /\ BeingRead = 1 /\ BeingRead' = 0
  BY QueueKept DEF GiveBack, BeingRead
<1>3. pool' = Recycled /\ made' = made /\ pushing' = FALSE /\ peak' = peak /\ gone' = gone
      /\ holding' = holding /\ pushing
  BY DEF GiveBack
<1>4. InUse' <= PoolLimit => made' = pool' + Cardinality(holding') + Backlog' + BeingRead' + gone'
      /\ made' <= InUse' + gone'
  <2>1. SUFFICES ASSUME InUse <= PoolLimit
        PROVE made' = pool' + Cardinality(holding') + Backlog' + BeingRead' + gone'
              /\ made' <= InUse' + gone'
    BY <1>1
  <2>2. made = pool + Cardinality(holding) + Backlog + BeingRead + gone
        /\ made <= InUse + gone /\ gone \in Nat /\ pool \in Nat /\ made \in Nat
    BY <2>1 DEF BuffersInv
  <2>3. pool' = pool + 1
    BY <1>3, <2>1, BackInThePool
  <2> QED BY <1>1, <1>3, <2>2, <2>3, BacklogIs
<1>5. pool' \in Nat
  BY <1>3, BackInThePool
<1> QED BY <1>1, <1>3, <1>4, <1>5, QueueKept DEF GiveBack, BuffersInv

LEMMA ConsumeKeepsBuffers ==
  ASSUME BuffersInv, Consume, control' = control
  PROVE  BuffersInv'
<1>1. /\ events # <<>> /\ events' = Tail(events)
      /\ pushing' = (Head(events) = "video") /\ ~pushing
      /\ pool' = pool /\ holding' = holding /\ made' = made /\ peak' = peak
      /\ gone' = (IF Head(events) = "audio" THEN gone + 1 ELSE gone)
  BY DEF Consume
<1>2. /\ events' \in Seq({"video", "audio", "disconnected"})
      /\ \A i \in DOMAIN events' : i + 1 \in DOMAIN events /\ events'[i] = events[i + 1]
      /\ Backlog' = Backlog - (IF Head(events) = "disconnected" THEN 0 ELSE 1)
  BY <1>1, QueuedOneLess
<1>3. BeingRead = 0 /\ BeingRead' = (IF Head(events) = "video" THEN 1 ELSE 0)
  BY <1>1 DEF BeingRead
<1>4. Backlog' + BeingRead' + gone' = Backlog + BeingRead + gone
      /\ Backlog' <= Backlog /\ Backlog' \in Int /\ gone' \in Nat /\ gone' >= gone
  <2>1. gone \in Nat /\ Backlog \in Int
    BY BacklogIs DEF BuffersInv
  <2>2. CASE Head(events) = "video"
    BY <1>1, <1>2, <1>3, <2>1, <2>2
  <2>3. CASE Head(events) = "audio"
    BY <1>1, <1>2, <1>3, <2>1, <2>3
  <2>4. CASE Head(events) \notin {"video", "audio"}
    <3>1. Head(events) = "disconnected"
      BY <1>1, <2>4, HeadTailProperties DEF BuffersInv
    <3> QED BY <1>1, <1>2, <1>3, <2>1, <3>1
  <2> QED BY <2>2, <2>3, <2>4
<1>5. InUse' = InUse
  BY <1>1 DEF InUse
<1>6. InUse' <= PoolLimit => made' = pool' + Cardinality(holding') + Backlog' + BeingRead' + gone'
      /\ made' <= InUse' + gone'
  <2>1. SUFFICES ASSUME InUse <= PoolLimit
        PROVE made' = pool' + Cardinality(holding') + Backlog' + BeingRead' + gone'
              /\ made' <= InUse' + gone'
    BY <1>5
  <2>2. made = pool + Cardinality(holding) + Backlog + BeingRead + gone
        /\ made <= InUse + gone /\ gone \in Nat /\ pool \in Nat /\ made \in Nat
    BY <2>1 DEF BuffersInv
  <2>3. BeingRead' \in Int /\ BeingRead \in Int
    BY DEF BeingRead
  <2>4. made' = made /\ pool' = pool /\ Cardinality(holding') = Cardinality(holding)
    BY <1>1
  <2>5. Cardinality(holding) \in Nat /\ Backlog \in Int /\ InUse \in Int
    BY BacklogIs DEF BuffersInv
  <2>6. made' = pool' + Cardinality(holding') + Backlog' + BeingRead' + gone'
    <3> DEFINE was == Backlog + BeingRead + gone
               is  == Backlog' + BeingRead' + gone'
    <3>1. made = pool + Cardinality(holding) + was /\ was \in Int
      BY <2>2, <2>3, <2>5
    <3>2. is = was
      BY <1>4
    <3>3. pool' + Cardinality(holding') + Backlog' + BeingRead' + gone'
          = pool' + Cardinality(holding') + is
      BY <1>4, <2>2, <2>3, <2>4, <2>5
    <3> HIDE DEF is, was
    <3> QED BY <2>4, <3>1, <3>2, <3>3
  <2>7. made' <= InUse' + gone'
    BY <1>4, <1>5, <2>2, <2>4, <2>5
  <2> QED BY <2>6, <2>7
<1>7. \A i, j \in DOMAIN events' :
        events'[i] = "disconnected"
        => control' = "gone" /\ (events'[j] = "disconnected" => j = i)
  <2>1. SUFFICES ASSUME NEW i \in DOMAIN events', NEW j \in DOMAIN events',
                        events'[i] = "disconnected"
                 PROVE  control' = "gone" /\ (events'[j] = "disconnected" => j = i)
    OBVIOUS
  <2>2. i + 1 \in DOMAIN events /\ j + 1 \in DOMAIN events
        /\ events[i + 1] = "disconnected" /\ events'[j] = events[j + 1]
    BY <1>2, <2>1
  <2>3. control = "gone" /\ (events[j + 1] = "disconnected" => j + 1 = i + 1)
    BY <2>2 DEF BuffersInv
  <2>4. i \in Nat /\ j \in Nat
    BY <1>2, LenProperties
  <2> QED BY <2>2, <2>3, <2>4
<1>8. pushing' \in BOOLEAN /\ Backlog' <= peak'
  BY <1>1, <1>4, BacklogIs DEF BuffersInv
<1> QED BY <1>1, <1>2, <1>6, <1>7, <1>8 DEF BuffersInv

LEMMA SayKeepsBuffers ==
  ASSUME BuffersInv, Say("disconnected"), ~EndQueued, control' = "gone"
  PROVE  BuffersInv'
<1>1. events' = Append(events, "disconnected")
      /\ pool' = pool /\ holding' = holding /\ made' = made /\ peak' = peak /\ pushing' = pushing
      /\ gone' = gone
  BY DEF Say
<1>2. /\ events' \in Seq({"video", "audio", "disconnected"})
      /\ Backlog' = Backlog + 0
      /\ \A i \in DOMAIN events' :
              \/ i \in DOMAIN events /\ events'[i] = events[i]
              \/ i = Len(events) + 1 /\ events'[i] = "disconnected"
  <2>1. /\ events' \in Seq({"video", "audio", "disconnected"})
        /\ Backlog' = Backlog + (IF "disconnected" = "disconnected" THEN 0 ELSE 1)
        /\ \A i \in DOMAIN events' :
              \/ i \in DOMAIN events /\ events'[i] = events[i]
              \/ i = Len(events) + 1 /\ events'[i] = "disconnected"
    BY <1>1, QueuedOneMore
  <2> QED BY <2>1
<1>3. \A i, j \in DOMAIN events' :
        events'[i] = "disconnected"
        => control' = "gone" /\ (events'[j] = "disconnected" => j = i)
  BY <1>2 DEF EndQueued
<1>4. BeingRead' = BeingRead /\ InUse' = InUse /\ Backlog' = Backlog
  BY <1>1, <1>2, BacklogIs DEF BeingRead, InUse
<1> QED BY <1>1, <1>2, <1>3, <1>4 DEF BuffersInv

LEMMA DatagramKeepsBuffers ==
  ASSUME BuffersInv, NEW s \in Streams, NEW kind \in Kinds, Datagram(s, kind), control' = control
  PROVE  BuffersInv'
<1>0. kind \in {"video", "audio", "disconnected"} /\ kind # "disconnected"
  BY DEF Kinds
<1>1. events' = Append(events, kind) /\ s \in holding
      /\ pool' = pool /\ holding' = holding \ {s} /\ made' = made /\ pushing' = pushing
      /\ gone' = gone
      /\ peak' = (IF Len(events') > peak THEN Len(events') ELSE peak)
  BY DEF Datagram
<1>2. /\ events' \in Seq({"video", "audio", "disconnected"})
      /\ Len(events') = Len(events) + 1
      /\ EndQueued' <=> EndQueued
      /\ Backlog' = Backlog + 1
      /\ \A i \in DOMAIN events' :
              \/ i \in DOMAIN events /\ events'[i] = events[i]
              \/ i = Len(events) + 1 /\ events'[i] = kind
  <2>1. /\ events' \in Seq({"video", "audio", "disconnected"})
        /\ Len(events') = Len(events) + 1
        /\ EndQueued' <=> EndQueued \/ kind = "disconnected"
        /\ Backlog' = Backlog + (IF kind = "disconnected" THEN 0 ELSE 1)
        /\ \A i \in DOMAIN events' :
              \/ i \in DOMAIN events /\ events'[i] = events[i]
              \/ i = Len(events) + 1 /\ events'[i] = kind
    BY <1>0, <1>1, QueuedOneMore
  <2> QED BY <1>0, <2>1
<1>3. \A i, j \in DOMAIN events' :
        events'[i] = "disconnected"
        => control' = "gone" /\ (events'[j] = "disconnected" => j = i)
  BY <1>0, <1>2 DEF BuffersInv
<1>4. Cardinality(holding') = Cardinality(holding) - 1 /\ holding' \subseteq Streams
  BY <1>1, HoldersCounted DEF BuffersInv
<1>5. Len(events) \in Nat /\ Len(events') \in Nat
  BY <1>2, LenProperties DEF BuffersInv
<1>6. peak' \in Nat /\ peak' >= peak /\ Len(events') <= peak' /\ Backlog' <= Len(events')
  BY <1>1, <1>2, <1>5 DEF BuffersInv, Backlog
<1>7. BeingRead' = BeingRead /\ InUse' = Cardinality(Streams) + peak' + 1
  BY <1>1 DEF BeingRead, InUse
<1>8. InUse' <= PoolLimit => made' = pool' + Cardinality(holding') + Backlog' + BeingRead' + gone'
      /\ made' <= InUse' + gone'
  <2>1. SUFFICES ASSUME InUse' <= PoolLimit
        PROVE made' = pool' + Cardinality(holding') + Backlog' + BeingRead' + gone'
              /\ made' <= InUse' + gone'
    OBVIOUS
  <2>2. InUse <= InUse' /\ InUse \in Int /\ InUse' \in Int
    BY <1>6, <1>7, BacklogIs, SMTT(30) DEF BuffersInv
  <2>3. InUse <= PoolLimit
    BY <2>1, <2>2, LimitAssumption
  <2>4. made = pool + Cardinality(holding) + Backlog + BeingRead + gone
        /\ made <= InUse + gone /\ gone \in Nat /\ pool \in Nat /\ made \in Nat
    BY <2>3 DEF BuffersInv
  <2>5. made' = made /\ pool' = pool /\ BeingRead' = BeingRead /\ Backlog' = Backlog + 1 /\ gone' = gone
        /\ Cardinality(holding') = Cardinality(holding) - 1
    BY <1>1, <1>2, <1>4, <1>7
  <2>6. made' = pool' + Cardinality(holding') + Backlog' + BeingRead' + gone'
    BY <2>4, <2>5, BacklogIs
  <2>7. made' <= InUse' + gone'
    BY <2>2, <2>4, <2>5
  <2> QED BY <2>6, <2>7
<1>9. Backlog' <= peak'
  BY <1>2, <1>5, <1>6, BacklogIs
<1> QED BY <1>1, <1>2, <1>3, <1>4, <1>6, <1>8, <1>9 DEF BuffersInv

LEMMA BuffersStep ==
  ASSUME ThreadsInv, BuffersInv, [LNext]_lvars
  PROVE  BuffersInv'
<1>a. ASSUME UNCHANGED pathVars, control' = control \/ control' = "gone" \/ ~EndQueued
      PROVE  BuffersInv'
  BY <1>a, QueueKept DEF pathVars, BuffersInv, BeingRead
<1>b. EndQueued => control = "gone"
  BY DEF BuffersInv, EndQueued
<1>1. CASE UNCHANGED vars
  BY <1>1, <1>a DEF vars
<1>2. CASE NoSession
  <2>1. /\ pool' = 0 /\ holding' = {} /\ events' = <<>> /\ pushing' = FALSE
        /\ made' = 0 /\ peak' = 0 /\ gone' = 0
    BY <1>2 DEF NoSession
  <2>2. events' \in Seq({"video", "audio", "disconnected"}) /\ Len(events') = 0 /\ DOMAIN events' = {}
    BY <2>1, EmptySeq, LenProperties
  <2>3. Backlog' = 0 /\ BeingRead' = 0 /\ Cardinality(holding') = 0
    BY <2>1, <2>2, FS_EmptySet DEF Backlog, EndQueued, BeingRead
  <2>4. InUse' = Cardinality(Streams) + 0 + 1 /\ Cardinality(Streams) \in Nat
    BY <2>1, HoldersCounted DEF InUse
  <2>5. Backlog' <= peak' /\ made' <= InUse' + gone'
        /\ made' = pool' + Cardinality(holding') + Backlog' + BeingRead' + gone'
    BY <2>1, <2>3, <2>4
  <2>6. pool' \in Nat /\ made' \in Nat /\ peak' \in Nat /\ gone' \in Nat /\ pushing' \in BOOLEAN
        /\ holding' \subseteq Streams
    BY <2>1
  <2> QED BY <2>2, <2>5, <2>6 DEF BuffersInv
<1>3. CASE Begin
  BY <1>3, <1>a, <1>b DEF Begin, ThreadsInv
<1>4. CASE Cancel
  BY <1>4, <1>a DEF Cancel
<1>5. CASE Owner
  BY <1>5, <1>a, ConsumeKeepsBuffers, GiveBackKeepsBuffers
     DEF Owner, Ready, MakeDecoder, Turn, Pushed, DropFlag, DropTell, Join
<1>6. CASE Control
  <2>1. CASE ServeLost
    BY <2>1, <1>b, SayKeepsBuffers DEF ServeLost
  <2>2. CASE Connect \/ Leave \/ ServeStop
    BY <2>2, <1>a, <1>b DEF Connect, Leave, ServeStop
  <2> QED BY <1>6, <2>1, <2>2 DEF Control
<1>7. ASSUME NEW s \in Streams, Rx(s) PROVE BuffersInv'
  <2>1. CASE RxTop(s)
    BY <2>1, <1>a, TakeKeepsBuffers DEF RxTop
  <2>2. ASSUME NEW kind \in Kinds, RxEnd(s), Datagram(s, kind) PROVE BuffersInv'
    <3>1. control' = control
      BY <2>2 DEF RxEnd
    <3> QED BY <2>2, <3>1, DatagramKeepsBuffers
  <2>3. CASE RxNothing(s)
    BY <2>3, NothingKeepsBuffers DEF RxNothing, RxEnd
  <2> QED BY <1>7, <2>1, <2>2, <2>3 DEF Rx, RxDatagram
<1>8. CASE AskToStop
  BY <1>8, <1>a DEF AskToStop
<1> QED BY <1>1, <1>2, <1>3, <1>4, <1>5, <1>6, <1>7, <1>8, SessionSteps

\* Whatever the host sends, receiving allocates at most one buffer for each thread, one
\* for each datagram of the longest backlog, one for the datagram being read and one for
\* each audio datagram, as long as the pool can hold what is in use (session.rs recv_loop,
\* recycle_into; lib.rs stream).
THEOREM OnlyAudioBuffersAreLost == LSpec => []OnlyAudioTakesBuffers
<1> DEFINE Both == ThreadsInv /\ BuffersInv
<1>1. LInit => Both
  <2> SUFFICES ASSUME LInit PROVE ThreadsInv /\ BuffersInv
    OBVIOUS
  <2>1. /\ pool = 0 /\ holding = {} /\ events = <<>> /\ pushing = FALSE
        /\ made = 0 /\ peak = 0 /\ gone = 0
    BY DEF LInit, Init, PathInit
  <2>2. events \in Seq({"video", "audio", "disconnected"}) /\ Len(events) = 0 /\ DOMAIN events = {}
    BY <2>1, EmptySeq, LenProperties
  <2>3. Backlog = 0 /\ BeingRead = 0 /\ Cardinality(holding) = 0
    BY <2>1, <2>2, FS_EmptySet DEF Backlog, EndQueued, BeingRead
  <2>4. InUse = Cardinality(Streams) + 0 + 1 /\ Cardinality(Streams) \in Nat
    BY <2>1, HoldersCounted DEF InUse
  <2>5. BuffersInv
    <3>1. Backlog <= peak /\ made <= InUse + gone
          /\ made = pool + Cardinality(holding) + Backlog + BeingRead + gone
      BY <2>1, <2>3, <2>4
    <3>2. pool \in Nat /\ made \in Nat /\ peak \in Nat /\ gone \in Nat /\ pushing \in BOOLEAN
          /\ holding \subseteq Streams
      BY <2>1
    <3> QED BY <2>2, <3>1, <3>2 DEF BuffersInv
  <2> QED BY <2>5 DEF LInit, Init, ThreadsInv, TornDown
<1>2. Both /\ [LNext]_lvars => Both'
  BY ThreadsStep, BuffersStep
<1>3. Both => OnlyAudioTakesBuffers
  BY DEF BuffersInv, OnlyAudioTakesBuffers
<1> QED BY <1>1, <1>2, <1>3, PTL DEF LSpec

-----------------------------------------------------------------------------
(* The steps of a setup. *)

LadderIs ==
  /\ S!Ladder[1] = "getservercert" /\ S!Ladder[2] = "clientchallenge"
  /\ S!Ladder[3] = "serverchallengeresp" /\ S!Ladder[4] = "clientpairingsecret"
  /\ S!Ladder[5] = "pairchallenge"

\* The number of each request.
LEMMA StepNames ==
  /\ Len(S!Ladder) = 5 /\ Len(S!Steps) = 16 /\ S!Playing = 17
  /\ LadderIs
  /\ \A i \in 1 .. 5 : S!Steps[i] = S!Ladder[i]
  /\ S!Steps[6] = "applist" /\ S!Steps[7] = "serverinfo" /\ S!Steps[8] = "cancel"
  /\ S!Steps[9] = "launch" /\ S!Steps[10] = "OPTIONS" /\ S!Steps[11] = "DESCRIBE"
  /\ S!Steps[12] = "video" /\ S!Steps[13] = "audio" /\ S!Steps[14] = "control"
  /\ S!Steps[15] = "ANNOUNCE" /\ S!Steps[16] = "PLAY"
<1> DEFINE rest == <<"applist", "serverinfo", "cancel", "launch", "OPTIONS", "DESCRIBE",
                     "video", "audio", "control", "ANNOUNCE", "PLAY">>
           names == {"getservercert", "clientchallenge", "serverchallengeresp",
                     "clientpairingsecret", "pairchallenge", "applist", "serverinfo",
                     "cancel", "launch", "OPTIONS", "DESCRIBE", "video", "audio",
                     "control", "ANNOUNCE", "PLAY"}
<1>1. S!Ladder \in Seq(names) /\ Len(S!Ladder) = 5 /\ LadderIs
  BY DEF S!Ladder, LadderIs
<1>2. rest \in Seq(names) /\ Len(rest) = 11
  OBVIOUS
<1>3. /\ rest[1] = "applist" /\ rest[2] = "serverinfo" /\ rest[3] = "cancel"
      /\ rest[4] = "launch" /\ rest[5] = "OPTIONS" /\ rest[6] = "DESCRIBE"
      /\ rest[7] = "video" /\ rest[8] = "audio" /\ rest[9] = "control"
      /\ rest[10] = "ANNOUNCE" /\ rest[11] = "PLAY"
  OBVIOUS
<1>4. S!Steps = S!Ladder \o rest
  BY DEF S!Steps
<1> HIDE DEF rest, names
<1>5. /\ Len(S!Steps) = Len(S!Ladder) + Len(rest)
      /\ \A i \in 1 .. Len(S!Ladder) + Len(rest) :
           S!Steps[i] = (IF i <= Len(S!Ladder) THEN S!Ladder[i] ELSE rest[i - Len(S!Ladder)])
  BY <1>1, <1>2, <1>4, ConcatProperties
<1>6. /\ Len(S!Steps) = 16
      /\ \A i \in 1 .. 5 : S!Steps[i] = S!Ladder[i]
      /\ \A i \in 6 .. 16 : S!Steps[i] = rest[i - 5]
  BY <1>1, <1>2, <1>5
<1>7. /\ S!Steps[6] = rest[1] /\ S!Steps[7] = rest[2] /\ S!Steps[8] = rest[3]
      /\ S!Steps[9] = rest[4] /\ S!Steps[10] = rest[5] /\ S!Steps[11] = rest[6]
      /\ S!Steps[12] = rest[7] /\ S!Steps[13] = rest[8] /\ S!Steps[14] = rest[9]
      /\ S!Steps[15] = rest[10] /\ S!Steps[16] = rest[11]
  BY <1>6
<1> QED BY <1>1, <1>3, <1>6, <1>7 DEF S!Playing

\* No request is made twice in a run.
LEMMA StepsDiffer ==
  ASSUME NEW i \in 1 .. 16, NEW j \in 1 .. 16, S!Steps[i] = S!Steps[j]
  PROVE  i = j
BY StepNames DEF LadderIs

-----------------------------------------------------------------------------
(* What is so between the steps of a setup. *)

Requests == {S!Steps[i] : i \in 1 .. 16}
Answers  == [says : {"whole", "bare", "refused"}, port : Nat]

SetupTypes ==
  /\ run \in Nat \ {0} /\ step \in 0 .. 17 /\ waiting \in BOOLEAN
  /\ waiting => step \in 1 .. 16
  /\ ~waiting => answer = {}
  /\ answer \subseteq Answers
  /\ ports \in [S!MediaStreams -> Nat]
  /\ wire \subseteq [by : 1 .. run, what : Requests]
  /\ app \in 0 .. run
  /\ rtsp \in [setups : Seq(S!MediaStreams), announced : BOOLEAN, armed : BOOLEAN]
  /\ faults \in Nat

\* The host trusts the run from the answer to its secret on.
Trusting ==
  /\ step > 4 => run \in trusted
  /\ step = 4 => \A a \in answer : a.says # "refused" => run \in trusted

OnItsWay(i) == [by |-> run, what |-> S!Steps[i]] \in wire

\* The launch and the SETUPs, which must not be repeated, are on their way only while
\* they are waited for.
NotTwice ==
  step > 0 => \A i \in {9, 12, 13, 14} : OnItsWay(i) => step = i /\ waiting /\ answer = {}

\* The host has handed out n ports, or has just answered the next SETUP.
Handed(n) ==
  \/ Len(rtsp.setups) = n /\ answer = {}
  \/ Len(rtsp.setups) = n + 1 /\ waiting /\ ~OnItsWay(step)

\* How far the host is with the run's own app, as long as that runs.
OwnApp ==
  step > 0 /\ app = run =>
    /\ step > 8 /\ ~OnItsWay(9)
    /\ step = 9 => waiting
    /\ step \in 9 .. 11 => Len(rtsp.setups) = 0
    /\ step \in 12 .. 14 => Handed(step - 12)
    /\ step = 15 => \A a \in answer : a.says # "refused" => rtsp.announced
    /\ step > 15 => rtsp.announced
    /\ step = 16 => \A a \in answer : a.says # "refused" => rtsp.armed
    /\ step = 17 => rtsp.armed

\* Each stream got the port the host keeps for it.
OwnPorts ==
  /\ step \in 12 .. 14 => \A a \in answer : a.says = "whole" => a.port = step - 11
  /\ step > 12 => ports["video"] = 1
  /\ step > 13 => ports["audio"] = 2
  /\ step > 14 => ports["control"] = 3

\* As long as nothing goes wrong the codec is the host's.
CodecKnown ==
  faults = 0 =>
    /\ step = 7 /\ waiting => answer # {} \/ OnItsWay(7)
    /\ step = 7 => \A a \in answer : a.says = "whole"
    /\ step > 7 => codec = HostCodec

SetupInv == SetupTypes /\ Trusting /\ NotTwice /\ OwnApp /\ OwnPorts /\ CodecKnown

\* What the request under way is.
LEMMA AtIs ==
  ASSUME step \in 1 .. 16
  PROVE  /\ S!At = S!Steps[step] /\ S!At \in Requests
         /\ S!At = "getservercert" <=> step = 1
         /\ S!At = "clientpairingsecret" <=> step = 4
         /\ S!At = "serverinfo" <=> step = 7
         /\ S!At = "cancel" <=> step = 8
         /\ S!At = "launch" <=> step = 9
         /\ S!At = "video" <=> step = 12
         /\ S!At = "audio" <=> step = 13
         /\ S!At = "control" <=> step = 14
         /\ S!At = "ANNOUNCE" <=> step = 15
         /\ S!At = "PLAY" <=> step = 16
         /\ S!At \in S!MediaStreams <=> step \in 12 .. 14
         /\ S!At \in {"OPTIONS", "DESCRIBE"} <=> step \in 10 .. 11
<1>1. S!At = S!Steps[step] /\ S!At \in Requests
  BY DEF S!At, Requests
<1>2. \A i \in 1 .. 16 : S!Steps[step] = S!Steps[i] <=> step = i
  BY StepsDiffer
<1>3. /\ S!Steps[1] = "getservercert" /\ S!Steps[4] = "clientpairingsecret"
      /\ S!Steps[7] = "serverinfo" /\ S!Steps[8] = "cancel"
      /\ S!Steps[9] = "launch" /\ S!Steps[10] = "OPTIONS" /\ S!Steps[11] = "DESCRIBE"
      /\ S!Steps[12] = "video" /\ S!Steps[13] = "audio" /\ S!Steps[14] = "control"
      /\ S!Steps[15] = "ANNOUNCE" /\ S!Steps[16] = "PLAY"
  BY StepNames DEF LadderIs
<1>4. S!At \in S!MediaStreams <=> step \in 12 .. 14
  <2>1. S!At \in S!MediaStreams <=> S!At = "video" \/ S!At = "audio" \/ S!At = "control"
    BY DEF S!MediaStreams
  <2>2. step \in 12 .. 14 <=> step = 12 \/ step = 13 \/ step = 14
    OBVIOUS
  <2> QED BY <1>1, <1>2, <1>3, <2>1, <2>2
<1>5. S!At \in {"OPTIONS", "DESCRIBE"} <=> step \in 10 .. 11
  <2>1. step \in 10 .. 11 <=> step = 10 \/ step = 11
    OBVIOUS
  <2> QED BY <1>1, <1>2, <1>3, <2>1
<1> QED BY <1>1, <1>2, <1>3, <1>4, <1>5

\* What a request is, that reached the host.
LEMMA RequestIs ==
  ASSUME SetupTypes, NEW r \in wire
  PROVE  /\ r = [by |-> r.by, what |-> r.what] /\ r.by \in 1 .. run
         /\ r.what \in Requests
         /\ r.by = run /\ r.what = "launch" => OnItsWay(9)
         /\ \A i \in 1 .. 16 : r.by = run /\ r.what = S!Steps[i] => OnItsWay(i)
<1>1. r = [by |-> r.by, what |-> r.what] /\ r.by \in 1 .. run /\ r.what \in Requests
  BY DEF SetupTypes
<1>2. \A i \in 1 .. 16 : r.by = run /\ r.what = S!Steps[i] => OnItsWay(i)
  BY <1>1 DEF OnItsWay
<1>3. S!Steps[9] = "launch"
  BY StepNames
<1> QED BY <1>1, <1>2, <1>3

LEMMA FailKeeps ==
  ASSUME SetupInv, S!Fail, UNCHANGED <<wire, S!hostVars>>, faults' \in Nat
  PROVE  SetupInv'
<1>1. /\ \/ run' = run + 1 /\ step' = 1
         \/ run' = run /\ step' = 0
      /\ waiting' = FALSE /\ answer' = {} /\ ports' = [s \in S!MediaStreams |-> 0]
  BY DEF S!Fail
<1>2. UNCHANGED <<wire, trusted, app, rtsp>>
  BY DEF S!hostVars
<1>3. run \in Nat \ {0} /\ run <= run' /\ run' \in Nat \ {0}
  BY <1>1 DEF SetupInv, SetupTypes
<1>4. SetupTypes'
  <2>1. wire' \subseteq [by : 1 .. run', what : Requests]
    <3>1. 1 .. run \subseteq 1 .. run'
      BY <1>3
    <3> QED BY <1>2, <3>1 DEF SetupInv, SetupTypes
  <2>2. app' \in 0 .. run'
    BY <1>2, <1>3 DEF SetupInv, SetupTypes
  <2>3. /\ run' \in Nat \ {0} /\ step' \in 0 .. 17 /\ waiting' = FALSE
        /\ answer' = {} /\ faults' \in Nat
    BY <1>1, <1>3
  <2>4. ports' \in [S!MediaStreams -> Nat] /\ rtsp' = rtsp
    BY <1>1, <1>2
  <2> QED BY <2>1, <2>2, <2>3, <2>4 DEF SetupInv, SetupTypes
<1>5. step' > 0 => run' = run + 1 /\ app' # run' /\ \A i \in 1 .. 16 : ~OnItsWay(i)'
  BY <1>1, <1>2, <1>3, SMTT(30) DEF SetupInv, SetupTypes, OnItsWay
<1>6. step' \in {0, 1}
  BY <1>1
<1>7. NotTwice'
  BY <1>5 DEF NotTwice
<1>8. OwnApp'
  BY <1>5 DEF OwnApp
<1>9. Trusting' /\ OwnPorts' /\ CodecKnown'
  BY <1>6 DEF Trusting, OwnPorts, CodecKnown
<1> QED BY <1>4, <1>7, <1>8, <1>9 DEF SetupInv

LEMMA SendKeeps ==
  ASSUME SetupInv, S!Send
  PROVE  SetupInv'
<1>1. /\ step \in 1 .. 16 /\ ~waiting
      /\ wire' = wire \cup {[by |-> run, what |-> S!At]}
      /\ waiting' = TRUE
      /\ UNCHANGED <<run, step, answer, codec, ports, pairing, trusted, app, rtsp, faults>>
  BY StepNames DEF S!Send, S!HttpGet, S!TlsGet, S!RtspRequest, S!Request, S!hostVars
<1>2. S!At = S!Steps[step] /\ S!At \in Requests /\ answer = {}
  BY <1>1, AtIs DEF SetupInv, SetupTypes
<1>3. SetupTypes'
  <2>1. wire' \subseteq [by : 1 .. run', what : Requests]
    <3>1. run \in 1 .. run /\ run' = run
      BY <1>1 DEF SetupInv, SetupTypes
    <3> QED BY <1>1, <1>2, <3>1 DEF SetupInv, SetupTypes
  <2> QED BY <1>1, <1>2, <2>1 DEF SetupInv, SetupTypes
<1>4. \A i \in 1 .. 16 : OnItsWay(i)' <=> OnItsWay(i) \/ i = step
  <2>1. \A i \in 1 .. 16 : S!Steps[i] = S!Steps[step] => i = step
    BY <1>1, StepsDiffer
  <2> QED BY <1>1, <1>2, <2>1 DEF OnItsWay
<1>5. NotTwice'
  BY <1>1, <1>2, <1>4 DEF SetupInv, NotTwice
<1>6. Trusting' /\ OwnPorts'
  BY <1>1 DEF SetupInv, Trusting, OwnPorts
<1>7. CodecKnown'
  BY <1>1, <1>2, <1>4 DEF SetupInv, CodecKnown
<1>8. OwnApp'
  <2>1. SUFFICES ASSUME app = run PROVE OwnApp'
    BY <1>1 DEF OwnApp
  <2>2. step > 8 /\ step # 9 /\ ~OnItsWay(9)'
    BY <1>1, <1>4, <2>1 DEF SetupInv, OwnApp
  <2>3. step \in 12 .. 14 => Handed(step - 12)'
    BY <1>1, <1>2, <2>1 DEF SetupInv, OwnApp, Handed
  <2> QED BY <1>1, <1>2, <2>1, <2>2, <2>3 DEF SetupInv, OwnApp
<1> QED BY <1>3, <1>5, <1>6, <1>7, <1>8 DEF SetupInv

\* On to the next request: what is so of the run from now on.
LEMMA AdvanceKeeps ==
  ASSUME SetupInv, waiting, S!Advance,
         UNCHANGED <<wire, trusted, app, rtsp, faults>>,
         ports' \in [S!MediaStreams -> Nat],
         answer = {} => step \in 7 .. 8,
         step = 4 => run \in trusted,
         step = 15 /\ app = run => rtsp.announced,
         step = 16 /\ app = run => rtsp.armed,
         step' > 12 => ports'["video"] = 1,
         step' > 13 => ports'["audio"] = 2,
         step' > 14 => ports'["control"] = 3,
         faults = 0 /\ step' > 7 => codec' = HostCodec
  PROVE  SetupInv'
<1>1. /\ step \in 1 .. 16 /\ step' = step + 1 /\ waiting' = FALSE /\ answer' = {} /\ run' = run
      /\ run \in Nat \ {0}
  BY DEF SetupInv, SetupTypes, S!Advance
<1>2. \A i \in 1 .. 16 : OnItsWay(i)' <=> OnItsWay(i)
  BY <1>1 DEF OnItsWay
<1>3. SetupTypes'
  <2>1. step' \in 0 .. 17
    BY <1>1
  <2>2. UNCHANGED <<run, wire, app, rtsp, faults>>
    BY <1>1
  <2>3. ports' \in [S!MediaStreams -> Nat]
    OBVIOUS
  <2> QED BY <1>1, <2>1, <2>2, <2>3 DEF SetupInv, SetupTypes
<1>4. Trusting'
  BY <1>1 DEF SetupInv, Trusting
<1>5. NotTwice'
  BY <1>1, <1>2 DEF SetupInv, NotTwice
<1>6. OwnPorts'
  BY <1>1 DEF OwnPorts
<1>7. CodecKnown'
  BY <1>1 DEF CodecKnown
<1>8. OwnApp'
  <2>1. SUFFICES ASSUME app = run PROVE OwnApp'
    BY <1>1 DEF OwnApp
  <2>2. step > 8 /\ ~OnItsWay(9)'
    BY <1>1, <1>2, <2>1 DEF SetupInv, OwnApp
  <2>3. step' \in 12 .. 14 => Len(rtsp.setups) = step' - 12
    <3>1. step = 11 => Len(rtsp.setups) = 0
      BY <1>1, <2>1 DEF SetupInv, OwnApp
    <3>2. step \in 12 .. 13 => Handed(step - 12) /\ answer # {}
      BY <1>1, <2>1 DEF SetupInv, OwnApp
    <3>3. step \in 12 .. 13 => Len(rtsp.setups) = step - 12 + 1
      BY <3>2 DEF Handed
    <3> QED BY <1>1, <3>1, <3>3
  <2>4. step \in 9 .. 10 => Len(rtsp.setups) = 0
    BY <1>1, <2>1 DEF SetupInv, OwnApp
  <2>5. step > 15 => rtsp.announced
    BY <1>1, <2>1 DEF SetupInv, OwnApp
  <2>6. step' \in 12 .. 14 => Handed(step - 12)'
    BY <1>1, <2>3 DEF Handed
  <2> QED BY <1>1, <2>1, <2>2, <2>4, <2>5, <2>6 DEF OwnApp
<1> QED BY <1>3, <1>4, <1>5, <1>6, <1>7, <1>8 DEF SetupInv

LEMMA TakeKeeps ==
  ASSUME SetupInv, S!Take
  PROVE  SetupInv'
<1>1. UNCHANGED <<wire, pairing, trusted, app, rtsp, faults>> /\ waiting /\ step \in 1 .. 16
      /\ UNCHANGED S!hostVars /\ faults' \in Nat
  BY DEF S!Take, S!hostVars, SetupInv, SetupTypes
<1>2. CASE S!Fail
  BY <1>1, <1>2, FailKeeps
<1>3. ASSUME NEW a \in answer, S!Accepted(a.says), S!Advance,
             codec' = IF S!At = "serverinfo" THEN S!Negotiated(a.says) ELSE codec,
             ports' = S!PortsFrom(a)
      PROVE  SetupInv'
  <2>1. a \in Answers /\ a.says \in {"whole", "bare", "refused"} /\ a.port \in Nat
    BY DEF SetupInv, SetupTypes, Answers
  <2>2. step = 4 => a.says # "refused"
    <3>1. SUFFICES ASSUME step = 4 PROVE a.says # "refused"
      OBVIOUS
    <3>2. S!At = "clientpairingsecret"
      BY <1>1, <3>1, AtIs
    <3> QED BY <1>3, <3>2 DEF S!Accepted, S!Spared, S!PairAccepted, S!AppFound, S!Launched,
                              S!RtspAccepted, S!MediaStreams
  <2>3. step \in 12 .. 14 => a.says = "whole"
    <3>1. SUFFICES ASSUME step \in 12 .. 14 PROVE a.says = "whole"
      OBVIOUS
    <3>2. S!At = "video" \/ S!At = "audio" \/ S!At = "control"
      BY <1>1, <3>1, AtIs
    <3> QED BY <1>3, <3>2 DEF S!Accepted, S!Spared, S!PairAccepted, S!AppFound, S!Launched,
                              S!RtspAccepted, S!MediaStreams
  <2>4. step \in 15 .. 16 => a.says # "refused"
    <3>1. SUFFICES ASSUME step \in 15 .. 16 PROVE a.says # "refused"
      OBVIOUS
    <3>2. S!At = "ANNOUNCE" \/ S!At = "PLAY"
      BY <1>1, <3>1, AtIs
    <3> QED BY <1>3, <3>2 DEF S!Accepted, S!Spared, S!PairAccepted, S!AppFound, S!Launched,
                              S!RtspAccepted, S!MediaStreams
  <2>5. step' = step + 1
    BY <1>3 DEF S!Advance
  <2>6. ports \in [S!MediaStreams -> Nat]
    BY DEF SetupInv, SetupTypes
  <2>7. /\ ports' \in [S!MediaStreams -> Nat]
        /\ step = 12 => ports'["video"] = a.port
        /\ step = 13 => ports'["audio"] = a.port
        /\ step = 14 => ports'["control"] = a.port
        /\ step # 12 => ports'["video"] = ports["video"]
        /\ step # 13 => ports'["audio"] = ports["audio"]
        /\ step # 14 => ports'["control"] = ports["control"]
    <3>1. CASE S!At \notin S!MediaStreams
      BY <1>1, <1>3, <2>6, <3>1, AtIs DEF S!PortsFrom
    <3>2. CASE S!At \in S!MediaStreams
      <4>1. ports' = [ports EXCEPT ![S!At] = a.port]
        BY <1>3, <3>2 DEF S!PortsFrom
      <4> QED BY <1>1, <2>1, <2>6, <3>2, <4>1, AtIs DEF S!MediaStreams
    <3> QED BY <3>1, <3>2
  <2>8. /\ step \in 12 .. 14 => a.port = step - 11
        /\ step > 12 => ports["video"] = 1
        /\ step > 13 => ports["audio"] = 2
        /\ step > 14 => ports["control"] = 3
    BY <2>3 DEF SetupInv, OwnPorts
  <2>9. /\ step' > 12 => ports'["video"] = 1
        /\ step' > 13 => ports'["audio"] = 2
        /\ step' > 14 => ports'["control"] = 3
    BY <1>1, <2>5, <2>7, <2>8
  <2>10. faults = 0 /\ step' > 7 => codec' = HostCodec
    <3>1. SUFFICES ASSUME faults = 0, step' > 7 PROVE codec' = HostCodec
      OBVIOUS
    <3>2. CASE step = 7
      BY <1>1, <1>3, <3>1, <3>2, AtIs DEF SetupInv, CodecKnown, S!Negotiated
    <3>3. CASE step > 7
      BY <1>1, <1>3, <3>1, <3>3, AtIs DEF SetupInv, CodecKnown
    <3> QED BY <1>1, <2>5, <3>1, <3>2, <3>3
  <2>11. step = 4 => run \in trusted
    BY <2>2 DEF SetupInv, Trusting
  <2>12. /\ step = 15 /\ app = run => rtsp.announced
         /\ step = 16 /\ app = run => rtsp.armed
    BY <2>4 DEF SetupInv, OwnApp
  <2>13. answer # {}
    OBVIOUS
  <2> QED BY <1>1, <1>3, <2>7, <2>9, <2>10, <2>11, <2>12, <2>13, AdvanceKeeps
<1> QED BY <1>2, <1>3 DEF S!Take

\* A request that is passed over, or ends the run.
LEMMA AbandonKeeps ==
  ASSUME SetupInv, waiting, S!Abandon, UNCHANGED <<wire, S!hostVars>>,
         \/ faults' \in Nat \ {0}
         \/ faults' = faults /\ (step = 7 => faults # 0)
  PROVE  SetupInv'
<1>1. UNCHANGED <<wire, pairing, trusted, app, rtsp>> /\ step \in 1 .. 16 /\ faults' \in Nat
  BY DEF S!hostVars, SetupInv, SetupTypes
<1>2. CASE S!Fail
  BY <1>1, <1>2, FailKeeps
<1>3. ASSUME S!At \in S!Spared, S!Advance, UNCHANGED ports,
             codec' = IF S!At = "serverinfo" THEN S!Negotiated("refused") ELSE codec
      PROVE  SetupInv'
  <2>1. step \in 7 .. 8
    BY <1>1, <1>3, AtIs DEF S!Spared
  <2>2. /\ step' = step + 1 /\ waiting' = FALSE /\ answer' = {} /\ run' = run
        /\ run \in Nat \ {0}
    BY <1>3 DEF SetupInv, SetupTypes, S!Advance
  <2>3. \A i \in 1 .. 16 : OnItsWay(i)' <=> OnItsWay(i)
    BY <1>1, <2>2 DEF OnItsWay
  <2>4. SetupTypes'
    <3>1. step' \in 0 .. 17
      BY <2>1, <2>2
    <3>2. UNCHANGED <<run, wire, app, rtsp, ports>>
      BY <1>1, <1>3, <2>2
    <3> QED BY <1>1, <2>2, <3>1, <3>2 DEF SetupInv, SetupTypes
  <2>5. Trusting' /\ OwnPorts'
    BY <1>1, <2>1, <2>2 DEF SetupInv, Trusting, OwnPorts
  <2>6. NotTwice' /\ OwnApp'
    BY <1>1, <2>1, <2>2, <2>3, SMTT(30) DEF SetupInv, NotTwice, OwnApp
  <2>7. CodecKnown'
    <3>1. SUFFICES ASSUME faults' = 0 PROVE codec' = HostCodec
      BY <2>1, <2>2 DEF CodecKnown
    <3>2. faults = 0 /\ step = 8
      BY <2>1, <3>1
    <3> QED BY <1>1, <1>3, <3>2, AtIs DEF SetupInv, CodecKnown
  <2> QED BY <2>4, <2>5, <2>6, <2>7 DEF SetupInv
<1> QED BY <1>2, <1>3 DEF S!Abandon

LEMMA GiveUpKeeps ==
  ASSUME SetupInv, S!GiveUp
  PROVE  SetupInv'
<1>1. waiting /\ answer = {} /\ ~S!Pending /\ S!Abandon
      /\ UNCHANGED <<wire, S!hostVars>> /\ faults' = faults /\ step \in 1 .. 16
  BY DEF S!GiveUp, SetupInv, SetupTypes
<1>2. step = 7 => ~OnItsWay(7)
  BY <1>1, AtIs DEF S!Pending, OnItsWay
<1>3. step = 7 => faults # 0
  BY <1>1, <1>2 DEF SetupInv, CodecKnown
<1> QED BY <1>1, <1>3, AbandonKeeps

LEMMA TimeOutKeeps ==
  ASSUME SetupInv, S!TimeOut
  PROVE  SetupInv'
BY AbandonKeeps DEF S!TimeOut, S!Fault, SetupInv, SetupTypes

LEMMA CrashKeeps ==
  ASSUME SetupInv, S!Crash
  PROVE  SetupInv'
BY FailKeeps DEF S!Crash, S!Fault, SetupInv, SetupTypes

-----------------------------------------------------------------------------
(* The host and the network. *)

\* What a reply does to the run: to one that does not wait for it nothing, else the
\* answer is as good as the host's at best.
LEMMA ReplyIs ==
  ASSUME SetupInv, NEW r, NEW ok \in BOOLEAN, NEW port \in Nat, S!Reply(r, ok, port)
  PROVE  /\ answer' \subseteq Answers /\ faults' \in Nat /\ (faults' = 0 => faults = 0)
         /\ ~S!Awaited(r) => answer' = answer
         /\ \A a \in answer' :
              \/ a \in answer
              \/ /\ a.says # "refused" => ok
                 /\ a.says = "whole" => a.port = port
         /\ S!Awaited(r) /\ faults' = 0 /\ ok =>
              answer' # {} /\ \A a \in answer' : a.says = "whole"
<1>1. answer \subseteq Answers /\ faults \in Nat
  BY DEF SetupInv, SetupTypes
<1>2. /\ [says |-> "whole", port |-> port] \in Answers
      /\ [says |-> "refused", port |-> 0] \in Answers
      /\ [says |-> "bare", port |-> 0] \in Answers
  BY DEF Answers
<1>3. CASE ~S!Awaited(r) /\ UNCHANGED <<answer, faults>>
  BY <1>1, <1>3
<1>4. CASE S!Awaited(r) /\ UNCHANGED faults
           /\ answer' = IF ok THEN S!Says("whole", port) ELSE S!Says("refused", 0)
  <2>1. CASE ok
    <3>1. answer' = {[says |-> "whole", port |-> port]}
      BY <1>4, <2>1 DEF S!Says
    <3> QED BY <1>1, <1>2, <1>4, <2>1, <3>1
  <2>2. CASE ~ok
    <3>1. answer' = {[says |-> "refused", port |-> 0]}
      BY <1>4, <2>2 DEF S!Says
    <3> QED BY <1>1, <1>2, <1>4, <2>2, <3>1
  <2> QED BY <2>1, <2>2
<1>5. CASE S!Awaited(r) /\ S!Fault
           /\ answer' \in {answer} \cup (IF ok THEN {S!Says("bare", 0)} ELSE {})
  <2>1. faults' \in Nat /\ faults' # 0
    BY <1>1, <1>5 DEF S!Fault
  <2>2. CASE answer' = answer
    BY <1>1, <1>5, <2>1, <2>2
  <2>3. CASE ok /\ answer' = {[says |-> "bare", port |-> 0]}
    BY <1>1, <1>2, <1>5, <2>1, <2>3
  <2>4. answer' = answer \/ (ok /\ answer' = S!Says("bare", 0))
    BY <1>5
  <2> QED BY <2>2, <2>3, <2>4 DEF S!Says
<1> QED BY <1>3, <1>4, <1>5 DEF S!Reply

RtspStates == [setups : Seq(S!MediaStreams), announced : BOOLEAN, armed : BOOLEAN]

\* What the host does, unless it is to the run's own app.
LEMMA HeardKeeps ==
  ASSUME SetupInv, wire' \subseteq wire,
         UNCHANGED <<run, step, waiting, codec, ports>>,
         trusted \subseteq trusted',
         app' \in 0 .. run, app' = run => app = run /\ rtsp' = rtsp,
         rtsp' \in RtspStates,
         answer' \subseteq Answers, faults' \in Nat, faults' = 0 => faults = 0,
         \/ answer' = answer
         \/ /\ waiting
            /\ step \in {9, 12, 13, 14} => ~OnItsWay(step)'
            /\ step = 4 => \A a \in answer' : a.says # "refused" => run \in trusted'
            /\ step \in 12 .. 16 =>
                 app' # run /\ \A a \in answer' : a \in answer \/ a.says = "refused",
         faults' = 0 /\ step = 7 =>
           /\ \A a \in answer' : a.says = "whole"
           /\ waiting => answer' # {} \/ OnItsWay(7)'
  PROVE  SetupInv'
<1>1. \A i \in 1 .. 16 : OnItsWay(i)' => OnItsWay(i)
  BY DEF OnItsWay
<1>2. /\ run' = run /\ step' = step /\ waiting' = waiting /\ codec' = codec /\ ports' = ports
      /\ waiting => step \in 1 .. 16
      /\ ~waiting => answer' = {}
      /\ step \in 0 .. 17
  BY DEF SetupInv, SetupTypes
<1>3. SetupTypes'
  <2>1. wire' \subseteq [by : 1 .. run', what : Requests]
    BY <1>2 DEF SetupInv, SetupTypes
  <2> QED BY <1>2, <2>1 DEF SetupInv, SetupTypes, RtspStates
<1>4. Trusting'
  BY <1>2 DEF SetupInv, Trusting
<1>5. NotTwice'
  <2>1. SUFFICES ASSUME step > 0, NEW i \in {9, 12, 13, 14}, OnItsWay(i)'
                 PROVE  step = i /\ waiting /\ answer' = {}
    BY <1>2 DEF NotTwice
  <2>2. step = i /\ waiting /\ answer = {}
    BY <1>1, <2>1 DEF SetupInv, NotTwice
  <2> QED BY <2>1, <2>2
<1>6. OwnPorts'
  <2>1. step \in 12 .. 14 => \A a \in answer' : a \in answer \/ a.says = "refused"
    OBVIOUS
  <2>2. step \in 12 .. 14 => \A a \in answer' : a.says = "whole" => a.port = step - 11
    BY <2>1 DEF SetupInv, OwnPorts
  <2> QED BY <1>2, <2>2 DEF SetupInv, OwnPorts
<1>7. CodecKnown'
  BY <1>2 DEF SetupInv, CodecKnown
<1>8. OwnApp'
  <2>1. SUFFICES ASSUME step > 0, app' = run PROVE OwnApp'
    BY <1>2 DEF OwnApp
  <2>2. app = run /\ rtsp' = rtsp
    BY <2>1
  <2>3. step \in 12 .. 16 => answer' = answer
    BY <2>1
  <2>4. step > 8 /\ ~OnItsWay(9)'
    BY <1>1, <2>1, <2>2 DEF SetupInv, OwnApp
  <2>5. step \in 12 .. 14 => Handed(step - 12)'
    <3>1. SUFFICES ASSUME step \in 12 .. 14 PROVE Handed(step - 12)'
      OBVIOUS
    <3>2. Handed(step - 12)
      BY <2>1, <2>2, <3>1 DEF SetupInv, OwnApp
    <3>3. ~OnItsWay(step) => ~OnItsWay(step)'
      BY <1>1, <3>1
    <3> QED BY <1>2, <2>2, <2>3, <3>1, <3>2, <3>3 DEF Handed
  <2> QED BY <1>2, <2>1, <2>2, <2>3, <2>4, <2>5 DEF SetupInv, OwnApp
<1> QED BY <1>3, <1>4, <1>5, <1>6, <1>7, <1>8 DEF SetupInv

LEMMA LoseKeeps ==
  ASSUME SetupInv, S!Lose
  PROVE  SetupInv'
<1>1. /\ wire' \subseteq wire /\ UNCHANGED <<run, step, waiting, answer, codec, ports>>
      /\ UNCHANGED <<trusted, app, rtsp>> /\ faults' \in Nat /\ faults' # 0
  BY DEF S!Lose, S!clientVars, S!hostVars, S!Fault, SetupInv, SetupTypes
<1> QED BY <1>1, HeardKeeps DEF SetupInv, SetupTypes, RtspStates

LEMMA TypePinKeeps ==
  ASSUME SetupInv, S!TypePin
  PROVE  SetupInv'
<1> DEFINE r == [by |-> pairing.by, what |-> "getservercert"]
<1>1. UNCHANGED <<run, step, waiting, codec, ports, trusted, app, rtsp, wire>>
  BY DEF S!TypePin
<1>2. S!Awaited(r) => waiting /\ step = 1
  BY AtIs DEF S!Awaited, SetupInv, SetupTypes
<1>3. answer' \subseteq Answers /\ faults' \in Nat /\ (faults' = 0 => faults = 0)
      /\ (~S!Awaited(r) => answer' = answer)
  <2>1. CASE S!Reply(r, TRUE, 0)
    <3> HIDE DEF r
    <3> QED BY <2>1, ReplyIs
  <2>2. CASE S!Fault /\ answer' = IF S!Awaited(r) THEN S!Says("whole", 0) ELSE answer
    BY <2>2 DEF S!Fault, S!Says, SetupInv, SetupTypes, Answers
  <2> QED BY <2>1, <2>2 DEF S!TypePin
<1>4. answer' = answer \/ (waiting /\ step = 1)
  BY <1>2, <1>3
<1>5. faults' = 0 /\ step = 7 =>
           /\ \A a \in answer' : a.says = "whole"
           /\ waiting => answer' # {} \/ OnItsWay(7)'
  BY <1>1, <1>3, <1>4 DEF SetupInv, CodecKnown, OnItsWay
<1> QED BY <1>1, <1>3, <1>4, <1>5, HeardKeeps, SMTT(30) DEF SetupInv, SetupTypes, RtspStates

\* The host takes a request up.
TakesUp(r) ==
  /\ r \in wire /\ wire' = wire \ {r}
  /\ UNCHANGED <<run, step, waiting, codec, ports>>

LEMMA TakenUp ==
  ASSUME SetupInv, NEW r, TakesUp(r)
  PROVE  /\ r = [by |-> r.by, what |-> r.what] /\ r.by \in 1 .. run /\ r.what \in Requests
         /\ wire' \subseteq wire
         /\ S!Awaited(r) => waiting /\ step \in 1 .. 16 /\ r.by = run /\ r.what = S!At
                            /\ OnItsWay(step) /\ ~OnItsWay(step)'
         /\ \A i \in 1 .. 16 :
              /\ r.by = run /\ r.what = S!Steps[i] => OnItsWay(i) /\ ~OnItsWay(i)'
              /\ r.by # run \/ r.what # S!Steps[i] => (OnItsWay(i)' <=> OnItsWay(i))
<1>1. r \in wire /\ wire' = wire \ {r} /\ run' = run /\ step' = step
  BY DEF TakesUp
<1>2. r = [by |-> r.by, what |-> r.what] /\ r.by \in 1 .. run /\ r.what \in Requests
  BY <1>1, RequestIs DEF SetupInv
<1>3. \A i \in 1 .. 16 :
        /\ r.by = run /\ r.what = S!Steps[i] => OnItsWay(i) /\ ~OnItsWay(i)'
        /\ r.by # run \/ r.what # S!Steps[i] => (OnItsWay(i)' <=> OnItsWay(i))
  BY <1>1, <1>2 DEF OnItsWay
<1>4. ASSUME S!Awaited(r)
      PROVE  waiting /\ step \in 1 .. 16 /\ r.by = run /\ r.what = S!At
             /\ OnItsWay(step) /\ ~OnItsWay(step)'
  <2>1. waiting /\ step \in 1 .. 16 /\ r.by = run /\ r.what = S!At
    BY <1>4 DEF S!Awaited, SetupInv, SetupTypes
  <2>2. r.what = S!Steps[step] /\ OnItsWay(step)
    BY <1>3, <2>1, AtIs
  <2>3. ~([by |-> run', what |-> S!Steps[step']] \in wire')
    BY <1>1, <1>2, <2>1, <2>2
  <2> QED BY <2>1, <2>2, <2>3 DEF OnItsWay
<1> QED BY <1>1, <1>2, <1>3, <1>4

\* What does not change the host's app or session, and is no SETUP, ANNOUNCE or PLAY.
LEMMA OtherKeeps ==
  ASSUME SetupInv, NEW r, TakesUp(r),
         trusted \subseteq trusted', app' \in {0, app}, rtsp' = rtsp,
         answer' \subseteq Answers, faults' \in Nat, faults' = 0 => faults = 0,
         ~S!Awaited(r) => answer' = answer,
         S!Awaited(r) => step \notin 12 .. 16,
         S!Awaited(r) /\ step = 4 => \A a \in answer' : a.says # "refused" => run \in trusted',
         S!Awaited(r) /\ step = 7 /\ faults' = 0 =>
           answer' # {} /\ \A a \in answer' : a.says = "whole"
  PROVE  SetupInv'
<1>1. /\ wire' \subseteq wire /\ UNCHANGED <<run, step, waiting, codec, ports>>
      /\ S!Awaited(r) => waiting /\ step \in 1 .. 16
      /\ S!Awaited(r) => ~OnItsWay(step)'
  BY TakenUp DEF TakesUp
<1>2. faults' = 0 /\ step = 7 =>
           /\ \A a \in answer' : a.says = "whole"
           /\ waiting => answer' # {} \/ OnItsWay(7)'
  <2>1. SUFFICES ASSUME faults' = 0, step = 7, ~S!Awaited(r)
                 PROVE  /\ \A a \in answer' : a.says = "whole"
                        /\ waiting => answer' # {} \/ OnItsWay(7)'
    OBVIOUS
  <2>2. waiting => (OnItsWay(7)' <=> OnItsWay(7))
    <3>1. waiting => r.by # run \/ r.what # S!Steps[7]
      <4>1. S!At = S!Steps[7]
        BY <2>1, AtIs
      <4> QED BY <2>1, <4>1, TakenUp DEF S!Awaited
    <3> QED BY <3>1, TakenUp
  <2> QED BY <2>1, <2>2 DEF SetupInv, CodecKnown
<1>3. app' \in 0 .. run /\ (app' = run => app = run) /\ rtsp' \in RtspStates
  BY DEF SetupInv, SetupTypes, RtspStates
<1> QED BY <1>1, <1>2, <1>3, HeardKeeps

LEMMA CertificateKeeps ==
  ASSUME SetupInv, NEW r, TakesUp(r), S!HostCertificate(r)
  PROVE  SetupInv'
<1>1. UNCHANGED <<trusted, app, rtsp>> /\ r.what = "getservercert"
  BY DEF S!HostCertificate
<1>2. S!Awaited(r) => step = 1
  BY <1>1, TakenUp, AtIs
<1>3. answer' \subseteq Answers /\ faults' \in Nat /\ (faults' = 0 => faults = 0)
      /\ (~S!Awaited(r) => answer' = answer)
  BY DEF S!HostCertificate, S!Fault, S!Says, SetupInv, SetupTypes, Answers
<1> QED BY <1>1, <1>2, <1>3, OtherKeeps

LEMMA ChallengesKeep ==
  ASSUME SetupInv, NEW r, TakesUp(r), S!HostChallenges(r)
  PROVE  SetupInv'
<1>1. UNCHANGED <<trusted, app, rtsp>>
      /\ r.what \in {"clientchallenge", "serverchallengeresp"}
  BY DEF S!HostChallenges, S!hostVars
<1>2. S!Awaited(r) => step \notin {4, 7} \cup 12 .. 16
  <2>1. SUFFICES ASSUME S!Awaited(r) PROVE step \notin {4, 7} \cup 12 .. 16
    OBVIOUS
  <2>2. step \in 1 .. 16 /\ S!At \in {"clientchallenge", "serverchallengeresp"}
    BY <1>1, <2>1, TakenUp
  <2> QED BY <2>2, AtIs
<1>3. PICK ok \in BOOLEAN : S!Reply(r, ok, 0)
  BY DEF S!HostChallenges
<1> QED BY <1>1, <1>2, <1>3, ReplyIs, OtherKeeps

LEMMA SecretKeeps ==
  ASSUME SetupInv, NEW r, TakesUp(r), S!HostSecret(r)
  PROVE  SetupInv'
<1> DEFINE proven == pairing = [by |-> r.by, pin |-> "right"]
<1>1. /\ UNCHANGED <<app, rtsp>> /\ r.what = "clientpairingsecret"
      /\ trusted' = IF proven THEN trusted \cup {r.by} ELSE trusted
      /\ S!Reply(r, proven, 0) /\ proven \in BOOLEAN
  BY DEF S!HostSecret
<1> HIDE DEF proven
<1>2. S!Awaited(r) => step = 4
  BY <1>1, TakenUp, AtIs
<1>3. S!Awaited(r) => \A a \in answer' : a.says # "refused" => run \in trusted'
  <2>1. SUFFICES ASSUME S!Awaited(r), NEW a \in answer', a.says # "refused"
                 PROVE  run \in trusted'
    OBVIOUS
  <2>2. a \in answer \/ proven
    BY <1>1, <2>1, ReplyIs
  <2>3. CASE a \in answer
    BY <1>1, <1>2, <2>1, <2>3 DEF SetupInv, Trusting
  <2>4. CASE proven
    BY <1>1, <2>1, <2>4, TakenUp
  <2> QED BY <2>2, <2>3, <2>4
<1> QED BY <1>1, <1>2, <1>3, ReplyIs, OtherKeeps

LEMMA TrustsKeeps ==
  ASSUME SetupInv, NEW r, TakesUp(r), S!HostTrusts(r)
  PROVE  SetupInv'
<1>1. UNCHANGED <<trusted, app, rtsp>>
      /\ r.what \in {"pairchallenge", "applist", "serverinfo"}
      /\ S!Reply(r, r.by \in trusted, 0)
  BY DEF S!HostTrusts, S!hostVars
<1>2. S!Awaited(r) => step \notin {4} \cup 12 .. 16
  <2>1. SUFFICES ASSUME S!Awaited(r) PROVE step \notin {4} \cup 12 .. 16
    OBVIOUS
  <2>2. step \in 1 .. 16 /\ S!At \in {"pairchallenge", "applist", "serverinfo"}
    BY <1>1, <2>1, TakenUp
  <2> QED BY <2>2, AtIs
<1>3. S!Awaited(r) /\ step = 7 => r.by \in trusted
  BY TakenUp DEF SetupInv, Trusting
<1>4. (r.by \in trusted) \in BOOLEAN
  OBVIOUS
<1> QED BY <1>1, <1>2, <1>3, <1>4, ReplyIs, OtherKeeps

LEMMA HostCancelsKeeps ==
  ASSUME SetupInv, NEW r, TakesUp(r), S!HostCancels(r)
  PROVE  SetupInv'
<1>1. UNCHANGED <<trusted, rtsp>> /\ app' \in {0, app} /\ r.what = "cancel"
      /\ S!Reply(r, r.by \in trusted, 0)
  BY DEF S!HostCancels
<1>2. S!Awaited(r) => step = 8
  BY <1>1, TakenUp, AtIs
<1>3. (r.by \in trusted) \in BOOLEAN
  OBVIOUS
<1>4. /\ answer' \subseteq Answers /\ faults' \in Nat /\ (faults' = 0 => faults = 0)
      /\ ~S!Awaited(r) => answer' = answer
  BY <1>1, <1>3, ReplyIs
<1>5. trusted \subseteq trusted' /\ rtsp' = rtsp /\ app' \in {0, app}
  BY <1>1
<1> QED BY <1>2, <1>4, <1>5, OtherKeeps

\* A client that is out of runs waits for nothing.
LEMMA OverKeeps ==
  ASSUME SetupTypes', step' = 0
  PROVE  SetupInv'
BY DEF SetupInv, Trusting, NotTwice, OwnApp, OwnPorts, CodecKnown

\* The types after the host has dealt with a request.
LEMMA TypesAfter ==
  ASSUME SetupInv, NEW r, TakesUp(r), app' \in 0 .. run, rtsp' \in RtspStates,
         answer' \subseteq Answers, faults' \in Nat, ~S!Awaited(r) => answer' = answer
  PROVE  SetupTypes'
<1>1. wire' \subseteq wire /\ UNCHANGED <<run, step, waiting, ports>>
  BY TakenUp DEF TakesUp
<1>2. ~waiting => answer' = {}
  BY TakenUp DEF SetupInv, SetupTypes
<1> QED BY <1>1, <1>2 DEF SetupInv, SetupTypes, RtspStates

\* Its own launch reaches the host while the run waits for it, and nothing is set up yet.
LEMMA OwnLaunchKeeps ==
  ASSUME SetupInv, NEW r, TakesUp(r), S!HostLaunches(r), r.by \in trusted, app = 0,
         r.by = run, step > 0
  PROVE  SetupInv'
<1>1. /\ r.what = "launch" /\ app' = run /\ trusted' = trusted
      /\ rtsp' = [setups |-> <<>>, announced |-> FALSE, armed |-> FALSE]
      /\ S!Reply(r, TRUE, 0)
  BY DEF S!HostLaunches
<1>2. r.what = S!Steps[9] /\ step = 9 /\ waiting /\ answer = {}
      /\ ~OnItsWay(9)' /\ run \in Nat \ {0}
  <2>1. r.what = S!Steps[9]
    BY <1>1, StepNames
  <2>2. OnItsWay(9) /\ ~OnItsWay(9)'
    BY <2>1, TakenUp
  <2> QED BY <2>1, <2>2 DEF SetupInv, SetupTypes, NotTwice
<1>3. /\ answer' \subseteq Answers /\ faults' \in Nat /\ (faults' = 0 => faults = 0)
      /\ ~S!Awaited(r) => answer' = answer
  BY <1>1, ReplyIs
<1>4. Len(rtsp'.setups) = 0 /\ rtsp' \in RtspStates
  BY <1>1, EmptySeq, LenProperties DEF RtspStates
<1>5. SetupTypes'
  BY <1>1, <1>2, <1>3, <1>4, TypesAfter
<1>6. UNCHANGED <<run, step, waiting, codec, ports>> /\ step = 9
  BY <1>2 DEF TakesUp
<1>7. \A i \in {12, 13, 14} : ~OnItsWay(i)'
  <2>1. \A i \in {12, 13, 14} : ~OnItsWay(i)
    BY <1>2 DEF SetupInv, NotTwice
  <2> QED BY <2>1, <1>6 DEF TakesUp, OnItsWay
<1>8. Trusting' /\ OwnPorts' /\ CodecKnown'
  BY <1>1, <1>3, <1>6 DEF SetupInv, Trusting, OwnPorts, CodecKnown
<1>9. NotTwice'
  BY <1>2, <1>7 DEF NotTwice
<1>10. OwnApp'
  BY <1>2, <1>4, <1>6 DEF OwnApp
<1> QED BY <1>5, <1>8, <1>9, <1>10 DEF SetupInv

LEMMA LaunchesKeep ==
  ASSUME SetupInv, NEW r, TakesUp(r), S!HostLaunches(r)
  PROVE  SetupInv'
<1> DEFINE free == r.by \in trusted /\ app = 0
<1>1. /\ r.what = "launch" /\ trusted' = trusted
      /\ app' = IF free THEN r.by ELSE app
      /\ rtsp' = IF free THEN [setups |-> <<>>, announced |-> FALSE, armed |-> FALSE] ELSE rtsp
      /\ S!Reply(r, free, 0) /\ free \in BOOLEAN
  BY DEF S!HostLaunches
<1>2. <<>> \in Seq(S!MediaStreams)
  BY EmptySeq
<1>3. app' \in 0 .. run /\ rtsp' \in RtspStates
  BY <1>1, <1>2, TakenUp DEF SetupInv, SetupTypes, RtspStates
<1>4. free /\ r.by = run /\ step > 0 => SetupInv'
  BY OwnLaunchKeeps
<1> HIDE DEF free
<1>5. /\ answer' \subseteq Answers /\ faults' \in Nat /\ (faults' = 0 => faults = 0)
      /\ ~S!Awaited(r) => answer' = answer
  BY <1>1, ReplyIs
<1>6. CASE step = 0
  BY <1>3, <1>5, <1>6, TypesAfter, OverKeeps DEF TakesUp
<1>7. CASE ~free \/ r.by # run
  <2>1. app' = run => app = run /\ rtsp' = rtsp
    BY <1>1, <1>7
  <2>2. S!Awaited(r) => waiting /\ step = 9 /\ ~OnItsWay(step)'
    BY <1>1, TakenUp, AtIs
  <2>3. faults' = 0 /\ step = 7 =>
           /\ \A a \in answer' : a.says = "whole"
           /\ waiting => answer' # {} \/ OnItsWay(7)'
    <3>1. r.what # S!Steps[7]
      BY <1>1, StepNames
    <3>2. OnItsWay(7)' <=> OnItsWay(7)
      BY <3>1, TakenUp
    <3> QED BY <1>5, <2>2, <3>2 DEF SetupInv, CodecKnown
  <2>4. wire' \subseteq wire /\ UNCHANGED <<run, step, waiting, codec, ports>>
    BY TakenUp DEF TakesUp
  <2>5. \/ answer' = answer
        \/ /\ waiting
           /\ step \in {9, 12, 13, 14} => ~OnItsWay(step)'
           /\ step = 4 => \A a \in answer' : a.says # "refused" => run \in trusted'
           /\ step \in 12 .. 16 =>
                app' # run /\ \A a \in answer' : a \in answer \/ a.says = "refused"
    BY <1>5, <2>2
  <2>6. trusted \subseteq trusted'
    BY <1>1
  <2> QED BY <1>3, <1>5, <2>1, <2>3, <2>4, <2>5, <2>6, HeardKeeps
<1>8. step \in 0 .. 17
  BY DEF SetupInv, SetupTypes
<1> QED BY <1>4, <1>6, <1>7, <1>8

\* What the host keeps of a session after an RTSP request.
LEMMA RtspIs ==
  ASSUME SetupInv, NEW r, TakesUp(r), S!HostRtsp(r)
  PROVE  /\ UNCHANGED <<trusted, app>> /\ rtsp' \in RtspStates
         /\ S!Reply(r, app = r.by, Len(rtsp.setups) + 1)
         /\ answer' \subseteq Answers /\ faults' \in Nat /\ (faults' = 0 => faults = 0)
         /\ ~S!Awaited(r) => answer' = answer
         /\ app # r.by \/ r.what \in {"OPTIONS", "DESCRIBE"} => rtsp' = rtsp
         /\ app = r.by /\ r.what \in S!MediaStreams =>
              /\ Len(rtsp'.setups) = Len(rtsp.setups) + 1
              /\ rtsp'.announced = rtsp.announced /\ rtsp'.armed = rtsp.armed
         /\ app = r.by /\ r.what = "ANNOUNCE" =>
              /\ rtsp'.setups = rtsp.setups /\ rtsp'.announced /\ rtsp'.armed = rtsp.armed
         /\ app = r.by /\ r.what = "PLAY" =>
              /\ rtsp'.setups = rtsp.setups /\ rtsp'.announced = rtsp.announced
              /\ rtsp'.armed = rtsp.announced
         /\ r.what \in S!MediaStreams \cup {"OPTIONS", "DESCRIBE", "ANNOUNCE", "PLAY"}
<1> DEFINE here  == app = r.by
           added == [rtsp EXCEPT !.setups = Append(@, r.what)]
<1>1. /\ UNCHANGED <<trusted, app>>
      /\ S!Reply(r, app = r.by, Len(rtsp.setups) + 1)
      /\ r.what \in S!MediaStreams \cup {"OPTIONS", "DESCRIBE", "ANNOUNCE", "PLAY"}
      /\ rtsp' = CASE here /\ r.what \in S!MediaStreams -> added
                   [] here /\ r.what = "ANNOUNCE" -> [rtsp EXCEPT !.announced = TRUE]
                   [] here /\ r.what = "PLAY" -> [rtsp EXCEPT !.armed = rtsp.announced]
                   [] OTHER -> rtsp
  BY DEF S!HostRtsp
<1>2. /\ rtsp \in RtspStates /\ rtsp.setups \in Seq(S!MediaStreams)
      /\ Len(rtsp.setups) \in Nat /\ rtsp.announced \in BOOLEAN /\ rtsp.armed \in BOOLEAN
  <2>1. rtsp \in RtspStates
    BY DEF SetupInv, SetupTypes, RtspStates
  <2>2. rtsp.setups \in Seq(S!MediaStreams) /\ rtsp.announced \in BOOLEAN /\ rtsp.armed \in BOOLEAN
    BY <2>1 DEF RtspStates
  <2> QED BY <2>1, <2>2, LenProperties
<1>3. /\ answer' \subseteq Answers /\ faults' \in Nat /\ (faults' = 0 => faults = 0)
      /\ ~S!Awaited(r) => answer' = answer
  <2>1. (app = r.by) \in BOOLEAN /\ Len(rtsp.setups) + 1 \in Nat
    BY <1>2
  <2> QED BY <1>1, <2>1, ReplyIs
<1>4. "ANNOUNCE" \notin S!MediaStreams /\ "PLAY" \notin S!MediaStreams
      /\ "OPTIONS" \notin S!MediaStreams /\ "DESCRIBE" \notin S!MediaStreams
  BY DEF S!MediaStreams
<1>5. CASE ~here \/ r.what \in {"OPTIONS", "DESCRIBE"}
  <2>1. rtsp' = rtsp
    BY <1>1, <1>4, <1>5
  <2> QED BY <1>1, <1>2, <1>3, <1>4, <1>5, <2>1
<1>6. CASE here /\ r.what \in S!MediaStreams
  <2> DEFINE next == Append(rtsp.setups, r.what)
  <2>1. rtsp' = [rtsp EXCEPT !.setups = next]
    <3>1. rtsp' = added
      <4> HIDE DEF added
      <4> QED BY <1>1, <1>4, <1>6
    <3> QED BY <3>1
  <2>2. next \in Seq(S!MediaStreams) /\ Len(next) = Len(rtsp.setups) + 1
    BY <1>2, <1>6, AppendProperties
  <2> HIDE DEF next
  <2>3. /\ rtsp' \in RtspStates /\ rtsp'.setups = next
        /\ rtsp'.announced = rtsp.announced /\ rtsp'.armed = rtsp.armed
    BY <1>2, <2>1, <2>2 DEF RtspStates
  <2> QED BY <1>1, <1>3, <1>4, <1>6, <2>2, <2>3
<1>7. CASE here /\ r.what = "ANNOUNCE"
  <2>1. rtsp' = [rtsp EXCEPT !.announced = TRUE]
    BY <1>1, <1>4, <1>7
  <2>2. /\ rtsp' \in RtspStates /\ rtsp'.setups = rtsp.setups
        /\ rtsp'.announced /\ rtsp'.armed = rtsp.armed
    BY <1>2, <2>1 DEF RtspStates
  <2> QED BY <1>1, <1>3, <1>4, <1>7, <2>2
<1>8. CASE here /\ r.what = "PLAY"
  <2>1. rtsp' = [rtsp EXCEPT !.armed = rtsp.announced]
    BY <1>1, <1>4, <1>8
  <2>2. /\ rtsp' \in RtspStates /\ rtsp'.setups = rtsp.setups
        /\ rtsp'.announced = rtsp.announced /\ rtsp'.armed = rtsp.announced
    BY <1>2, <2>1 DEF RtspStates
  <2> QED BY <1>1, <1>3, <1>4, <1>8, <2>2
<1> QED BY <1>1, <1>5, <1>6, <1>7, <1>8

\* A request for an app that is not the run's own, or one that changes nothing.
LEMMA ForeignRtspKeeps ==
  ASSUME SetupInv, NEW r, TakesUp(r), S!HostRtsp(r),
         r.by # run \/ app # r.by \/ r.what \in {"OPTIONS", "DESCRIBE"}
  PROVE  SetupInv'
<1>1. /\ UNCHANGED <<trusted, app>> /\ rtsp' \in RtspStates
      /\ S!Reply(r, app = r.by, Len(rtsp.setups) + 1)
      /\ answer' \subseteq Answers /\ faults' \in Nat /\ (faults' = 0 => faults = 0)
      /\ ~S!Awaited(r) => answer' = answer
      /\ app # r.by \/ r.what \in {"OPTIONS", "DESCRIBE"} => rtsp' = rtsp
      /\ r.what \in S!MediaStreams \cup {"OPTIONS", "DESCRIBE", "ANNOUNCE", "PLAY"}
  BY RtspIs
<1>2. app' \in 0 .. run /\ (app' = run => app = run /\ rtsp' = rtsp)
  BY <1>1 DEF SetupInv, SetupTypes
<1>3. S!Awaited(r) => waiting /\ step \in 10 .. 16 /\ ~OnItsWay(step)' /\ r.by = run
  <2>1. SUFFICES ASSUME S!Awaited(r) PROVE step \in 10 .. 16
    BY TakenUp
  <2>2. step \in 1 .. 16 /\ S!At \in S!MediaStreams \cup {"OPTIONS", "DESCRIBE", "ANNOUNCE", "PLAY"}
    BY <1>1, <2>1, TakenUp
  <2> QED BY <2>2, AtIs
<1>4. S!Awaited(r) /\ step \in 12 .. 16 =>
        app' # run /\ \A a \in answer' : a \in answer \/ a.says = "refused"
  <2>1. SUFFICES ASSUME S!Awaited(r), step \in 12 .. 16
                 PROVE  app' # run /\ \A a \in answer' : a \in answer \/ a.says = "refused"
    OBVIOUS
  <2>2. r.by = run /\ r.what = S!At /\ r.what \notin {"OPTIONS", "DESCRIBE"}
    BY <2>1, TakenUp, AtIs
  <2>3. app # r.by
    BY <2>2
  <2>4. (app = r.by) \in BOOLEAN /\ Len(rtsp.setups) + 1 \in Nat
    BY LenProperties DEF SetupInv, SetupTypes
  <2>5. \A a \in answer' : a \in answer \/ (a.says # "refused" => app = r.by)
    BY <1>1, <2>4, ReplyIs
  <2> QED BY <1>1, <2>2, <2>3, <2>5
<1>5. faults' = 0 /\ step = 7 =>
        /\ \A a \in answer' : a.says = "whole"
        /\ waiting => answer' # {} \/ OnItsWay(7)'
  <2>1. r.what # S!Steps[7]
    BY <1>1, StepNames DEF S!MediaStreams
  <2>2. OnItsWay(7)' <=> OnItsWay(7)
    BY <2>1, TakenUp
  <2> QED BY <1>1, <1>3, <2>2 DEF SetupInv, CodecKnown
<1>6. wire' \subseteq wire /\ UNCHANGED <<run, step, waiting, codec, ports>>
      /\ trusted \subseteq trusted'
  BY <1>1, TakenUp DEF TakesUp
<1>7. \/ answer' = answer
      \/ /\ waiting
         /\ step \in {9, 12, 13, 14} => ~OnItsWay(step)'
         /\ step = 4 => \A a \in answer' : a.says # "refused" => run \in trusted'
         /\ step \in 12 .. 16 =>
              app' # run /\ \A a \in answer' : a \in answer \/ a.says = "refused"
  BY <1>1, <1>3, <1>4
<1> QED BY <1>1, <1>2, <1>5, <1>6, <1>7, HeardKeeps

\* A request of the run's own for its own app.
LEMMA OwnRtspKeeps ==
  ASSUME SetupInv, NEW r, TakesUp(r), S!HostRtsp(r), step > 0,
         r.by = run, app = run, r.what \notin {"OPTIONS", "DESCRIBE"}
  PROVE  SetupInv'
<1>1. /\ UNCHANGED <<trusted, app>> /\ rtsp' \in RtspStates
      /\ S!Reply(r, TRUE, Len(rtsp.setups) + 1)
      /\ answer' \subseteq Answers /\ faults' \in Nat /\ (faults' = 0 => faults = 0)
      /\ ~S!Awaited(r) => answer' = answer
      /\ r.what \in S!MediaStreams =>
              /\ Len(rtsp'.setups) = Len(rtsp.setups) + 1
              /\ rtsp'.announced = rtsp.announced /\ rtsp'.armed = rtsp.armed
      /\ r.what = "ANNOUNCE" =>
              /\ rtsp'.setups = rtsp.setups /\ rtsp'.announced /\ rtsp'.armed = rtsp.armed
      /\ r.what = "PLAY" =>
              /\ rtsp'.setups = rtsp.setups /\ rtsp'.announced = rtsp.announced
              /\ rtsp'.armed = rtsp.announced
      /\ r.what \in S!MediaStreams \cup {"ANNOUNCE", "PLAY"}
  <2>1. app = r.by <=> TRUE
    OBVIOUS
  <2> QED BY <2>1, RtspIs
<1>2. UNCHANGED <<run, step, waiting, codec, ports>>
  BY DEF TakesUp
<1>3. SetupTypes'
  <2>1. app' \in 0 .. run
    BY <1>1 DEF SetupInv, SetupTypes
  <2> QED BY <1>1, <2>1, TypesAfter
<1>4. \A i \in 1 .. 16 : OnItsWay(i)' => OnItsWay(i)
  BY TakenUp
<1>5. S!Awaited(r) => /\ waiting /\ step \in 1 .. 16 /\ ~OnItsWay(step)'
                      /\ r.what = S!Steps[step]
                      /\ r.what \in S!MediaStreams <=> step \in 12 .. 14
                      /\ r.what = "ANNOUNCE" <=> step = 15
                      /\ r.what = "PLAY" <=> step = 16
  BY TakenUp, AtIs
<1>6. S!Awaited(r) => step \in 12 .. 16
  <2>1. SUFFICES ASSUME S!Awaited(r) PROVE step \in 12 .. 16
    OBVIOUS
  <2>2. step \in 12 .. 14 \/ step = 15 \/ step = 16
    BY <1>1, <1>5, <2>1
  <2> QED BY <2>2
<1>7. r.what \in S!MediaStreams =>
        /\ S!Awaited(r) /\ answer = {} /\ waiting /\ step \in 12 .. 14
        /\ Len(rtsp.setups) = step - 12
  <2>1. SUFFICES ASSUME r.what \in S!MediaStreams
                 PROVE  /\ S!Awaited(r) /\ answer = {} /\ waiting /\ step \in 12 .. 14
                        /\ Len(rtsp.setups) = step - 12
    OBVIOUS
  <2>2. PICK i \in {12, 13, 14} : r.what = S!Steps[i]
    BY <2>1, StepNames DEF S!MediaStreams
  <2>3. OnItsWay(i)
    BY <2>2, TakenUp
  <2>4. step = i /\ waiting /\ answer = {}
    BY <2>3 DEF SetupInv, NotTwice
  <2>5. S!Awaited(r)
    <3>1. r = [by |-> run, what |-> S!Steps[step]]
      BY <2>2, <2>4, TakenUp
    <3>2. S!At = S!Steps[step]
      BY DEF S!At
    <3> QED BY <2>4, <3>1, <3>2 DEF S!Awaited
  <2>6. step \in 12 .. 14
    BY <2>4
  <2>7. Handed(step - 12)
    BY <2>6 DEF SetupInv, OwnApp
  <2> QED BY <2>3, <2>4, <2>5, <2>6, <2>7 DEF Handed
<1>8. Trusting' /\ CodecKnown'
  <2>1. step = 4 => answer' = answer
    BY <1>1, <1>6
  <2>2. step = 7 => answer' = answer /\ (OnItsWay(7)' <=> OnItsWay(7))
    <3>1. r.what # S!Steps[7]
      BY <1>1, StepNames DEF S!MediaStreams
    <3> QED BY <1>1, <1>6, <3>1, TakenUp
  <2> QED BY <1>1, <1>2, <2>1, <2>2 DEF SetupInv, Trusting, CodecKnown
<1>9. NotTwice'
  <2>1. SUFFICES ASSUME NEW i \in {9, 12, 13, 14}, OnItsWay(i)'
                 PROVE  step = i /\ waiting /\ answer' = {}
    BY <1>2 DEF NotTwice
  <2>2. step = i /\ waiting /\ answer = {}
    BY <1>4, <2>1 DEF SetupInv, NotTwice
  <2>3. ~S!Awaited(r)
    BY <1>2, <1>5, <2>1, <2>2
  <2> QED BY <1>1, <2>2, <2>3
<1>10. OwnPorts'
  <2>1. step \in 12 .. 14 => \A a \in answer' : a.says = "whole" => a.port = step - 11
    <3>1. SUFFICES ASSUME step \in 12 .. 14, NEW a \in answer', a.says = "whole"
                   PROVE  a.port = step - 11
      OBVIOUS
    <3>2. CASE a \in answer
      BY <3>1, <3>2 DEF SetupInv, OwnPorts
    <3>3. CASE a \notin answer
      <4>1. S!Awaited(r)
        BY <1>1, <3>3
      <4>2. Len(rtsp.setups) = step - 12
        BY <1>5, <1>7, <3>1, <4>1
      <4>3. Len(rtsp.setups) + 1 \in Nat
        BY <3>1, <4>2
      <4>4. a.port = Len(rtsp.setups) + 1
        BY <1>1, <3>1, <3>3, <4>3, ReplyIs
      <4> QED BY <3>1, <4>2, <4>4
    <3> QED BY <3>2, <3>3
  <2> QED BY <1>2, <2>1 DEF SetupInv, OwnPorts
<1>11. OwnApp'
  <2>1. app' = run /\ run' = run /\ step' = step /\ waiting' = waiting
    BY <1>1, <1>2
  <2>2. step > 8 /\ ~OnItsWay(9)'
    BY <1>4 DEF SetupInv, OwnApp
  <2>3. step = 9 => waiting
    BY DEF SetupInv, OwnApp
  <2>4. step \in 9 .. 11 => Len(rtsp'.setups) = 0
    BY <1>1, <1>7 DEF SetupInv, OwnApp
  <2>5. step \in 12 .. 14 => Handed(step - 12)'
    <3>1. SUFFICES ASSUME step \in 12 .. 14 PROVE Handed(step - 12)'
      OBVIOUS
    <3>2. CASE r.what \in S!MediaStreams
      <4>1. Len(rtsp'.setups) = step - 12 + 1 /\ waiting /\ ~OnItsWay(step)'
        BY <1>1, <1>5, <1>7, <3>2
      <4> QED BY <2>1, <4>1 DEF Handed
    <3>3. CASE r.what \notin S!MediaStreams
      <4>1. ~S!Awaited(r) /\ answer' = answer
        BY <1>1, <1>5, <3>1, <3>3
      <4>2. Len(rtsp'.setups) = Len(rtsp.setups)
        BY <1>1, <3>3
      <4>3. Handed(step - 12)
        BY <3>1 DEF SetupInv, OwnApp
      <4>4. ~OnItsWay(step) => ~OnItsWay(step)'
        BY <1>2, <1>4, <3>1
      <4> QED BY <2>1, <4>1, <4>2, <4>3, <4>4 DEF Handed
    <3> QED BY <3>2, <3>3
  <2>6. rtsp.announced => rtsp'.announced
    BY <1>1
  <2>7. step = 15 => \A a \in answer' : a.says # "refused" => rtsp'.announced
    <3>1. CASE S!Awaited(r) /\ step = 15
      <4>1. r.what = "ANNOUNCE"
        BY <1>5, <3>1
      <4> QED BY <1>1, <4>1
    <3>2. CASE ~S!Awaited(r)
      BY <1>1, <2>6, <3>2 DEF SetupInv, OwnApp
    <3> QED BY <3>1, <3>2
  <2>8. step > 15 => rtsp'.announced
    BY <2>6 DEF SetupInv, OwnApp
  <2>9. step > 15 /\ rtsp.armed => rtsp'.armed
    BY <1>1 DEF SetupInv, OwnApp
  <2>10. step = 16 => \A a \in answer' : a.says # "refused" => rtsp'.armed
    <3>1. CASE S!Awaited(r) /\ step = 16
      <4>1. r.what = "PLAY" /\ rtsp.announced
        BY <1>5, <3>1 DEF SetupInv, OwnApp
      <4> QED BY <1>1, <4>1
    <3>2. CASE ~S!Awaited(r)
      BY <1>1, <2>9, <3>2 DEF SetupInv, OwnApp
    <3> QED BY <3>1, <3>2
  <2>11. step = 17 => rtsp'.armed
    BY <2>9 DEF SetupInv, OwnApp
  <2> QED BY <2>1, <2>2, <2>3, <2>4, <2>5, <2>7, <2>8, <2>10, <2>11 DEF OwnApp
<1> QED BY <1>3, <1>8, <1>9, <1>10, <1>11 DEF SetupInv

LEMMA RtspKeeps ==
  ASSUME SetupInv, NEW r, TakesUp(r), S!HostRtsp(r)
  PROVE  SetupInv'
<1>1. CASE step = 0
  <2>1. UNCHANGED app /\ rtsp' \in RtspStates /\ answer' \subseteq Answers /\ faults' \in Nat
        /\ (~S!Awaited(r) => answer' = answer) /\ app \in 0 .. run
    BY RtspIs DEF SetupInv, SetupTypes
  <2>2. SetupTypes'
    BY <2>1, TypesAfter
  <2>3. step' = 0
    BY <1>1 DEF TakesUp
  <2> QED BY <2>2, <2>3, OverKeeps
<1>2. CASE r.by # run \/ app # r.by \/ r.what \in {"OPTIONS", "DESCRIBE"}
  BY <1>2, ForeignRtspKeeps
<1>3. CASE step > 0 /\ r.by = run /\ app = run /\ r.what \notin {"OPTIONS", "DESCRIBE"}
  BY <1>3, OwnRtspKeeps
<1>4. step \in 0 .. 17
  BY DEF SetupInv, SetupTypes
<1> QED BY <1>1, <1>2, <1>3, <1>4

LEMMA HandleKeeps ==
  ASSUME SetupInv, S!Handle
  PROVE  SetupInv'
<1>1. PICK r \in wire :
        /\ wire' = wire \ {r}
        /\ \/ S!HostCertificate(r) \/ S!HostChallenges(r) \/ S!HostSecret(r) \/ S!HostTrusts(r)
           \/ S!HostCancels(r) \/ S!HostLaunches(r) \/ S!HostRtsp(r)
        /\ UNCHANGED <<run, step, waiting, codec, ports>>
  BY DEF S!Handle
<1>2. TakesUp(r)
  BY <1>1 DEF TakesUp
<1> QED BY <1>1, <1>2, CertificateKeeps, ChallengesKeep, SecretKeeps, TrustsKeeps,
           HostCancelsKeeps, LaunchesKeep, RtspKeeps

\* The session's own /cancel, which may be late: a request that is nobody's launch or SETUP.
LEMMA CancelOnHostKeeps ==
  ASSUME SetupInv, CancelOnHost
  PROVE  SetupInv'
<1>1. /\ UNCHANGED <<run, step, waiting, answer, codec, ports, trusted, rtsp>>
      /\ \/ app' = 0 /\ UNCHANGED <<wire, faults>>
         \/ /\ faults' = faults + 1 /\ UNCHANGED app
            /\ wire' \in {wire, wire \cup {[by |-> run, what |-> "cancel"]}}
  BY DEF CancelOnHost, S!Fault
<1>2. run \in Nat \ {0} /\ faults \in Nat /\ rtsp \in RtspStates /\ answer \subseteq Answers
      /\ app \in 0 .. run /\ step \in 0 .. 17
  BY DEF SetupInv, SetupTypes, RtspStates
<1>3. CASE wire' = wire
  <2>1. faults' \in Nat /\ (faults' = 0 => faults = 0)
    BY <1>1, <1>2
  <2>2. app' \in 0 .. run /\ (app' = run => app = run /\ rtsp' = rtsp)
    BY <1>1, <1>2
  <2>3. faults' = 0 /\ step = 7 =>
           /\ \A a \in answer' : a.says = "whole"
           /\ waiting => answer' # {} \/ OnItsWay(7)'
    BY <1>1, <1>3, <2>1 DEF SetupInv, CodecKnown, OnItsWay
  <2> QED BY <1>1, <1>2, <1>3, <2>1, <2>2, <2>3, HeardKeeps
<1>4. CASE wire' = wire \cup {[by |-> run, what |-> "cancel"]} /\ UNCHANGED app
           /\ faults' = faults + 1
  <2>1. S!Steps[8] = "cancel" /\ "cancel" \in Requests
    BY StepNames DEF Requests
  <2>2. \A i \in 1 .. 16 : i # 8 => (OnItsWay(i)' <=> OnItsWay(i))
    <3>1. \A i \in 1 .. 16 : i # 8 => S!Steps[i] # "cancel"
      BY <2>1, StepsDiffer
    <3> QED BY <1>1, <1>4, <3>1 DEF OnItsWay
  <2>3. SetupTypes'
    <3>1. wire' \subseteq [by : 1 .. run', what : Requests]
      <4>1. run \in 1 .. run /\ run' = run
        BY <1>1, <1>2
      <4> QED BY <1>4, <2>1, <4>1 DEF SetupInv, SetupTypes
    <3>2. faults' \in Nat
      BY <1>2, <1>4
    <3> QED BY <1>1, <1>4, <3>1, <3>2 DEF SetupInv, SetupTypes
  <2>4. Trusting' /\ OwnPorts' /\ CodecKnown'
    BY <1>1, <1>2, <1>4 DEF SetupInv, Trusting, OwnPorts, CodecKnown
  <2>5. NotTwice'
    BY <1>1, <2>2 DEF SetupInv, NotTwice
  <2>6. OwnApp'
    <3>1. SUFFICES ASSUME step > 0, app = run PROVE OwnApp'
      BY <1>1, <1>4 DEF OwnApp
    <3>2. step \in 12 .. 14 => Handed(step - 12)'
      <4>1. SUFFICES ASSUME step \in 12 .. 14 PROVE Handed(step - 12)'
        OBVIOUS
      <4>2. Handed(step - 12)
        BY <3>1, <4>1 DEF SetupInv, OwnApp
      <4>3. OnItsWay(step)' <=> OnItsWay(step)
        BY <1>1, <2>2, <4>1
      <4> QED BY <1>1, <4>2, <4>3 DEF Handed
    <3> QED BY <1>1, <1>4, <2>2, <3>1, <3>2 DEF SetupInv, OwnApp
  <2> QED BY <2>3, <2>4, <2>5, <2>6 DEF SetupInv
<1> QED BY <1>1, <1>3, <1>4

LEMMA SetupStep ==
  ASSUME SetupInv, [LNext]_lvars
  PROVE  SetupInv'
<1>1. CASE UNCHANGED setupVars
  <2>1. UNCHANGED <<run, step, waiting, answer, codec, ports, wire, trusted, app, rtsp, faults>>
    BY <1>1 DEF setupVars
  <2>2. \A i \in 1 .. 16 : OnItsWay(i)' <=> OnItsWay(i)
    BY <2>1 DEF OnItsWay
  <2>3. faults' = 0 /\ step = 7 =>
           /\ \A a \in answer' : a.says = "whole"
           /\ waiting => answer' # {} \/ OnItsWay(7)'
    BY <2>1, <2>2 DEF SetupInv, CodecKnown
  <2> QED BY <2>1, <2>3, HeardKeeps DEF SetupInv, SetupTypes, RtspStates
<1>2. CASE SetUp(S!Send)
  BY <1>2, SendKeeps DEF SetUp
<1>3. CASE SetUp(S!Take)
  BY <1>3, TakeKeeps DEF SetUp
<1>4. CASE SetUp(S!GiveUp)
  BY <1>4, GiveUpKeeps DEF SetUp
<1>5. CASE SetUp(S!TimeOut)
  BY <1>5, TimeOutKeeps DEF SetUp
<1>6. CASE World
  BY <1>6, LoseKeeps, TypePinKeeps, HandleKeeps DEF World
<1>7. CASE CancelOnHost
  BY <1>7, CancelOnHostKeeps
<1>8. CASE Again
  BY <1>8, CrashKeeps DEF Again
<1>9. CASE UNCHANGED lvars \/ Begin
  BY <1>1, <1>9 DEF lvars, Begin
<1> QED BY <1>1, <1>2, <1>3, <1>4, <1>5, <1>6, <1>7, <1>8, <1>9 DEF LNext

LEMMA SetupInit ==
  ASSUME LInit
  PROVE  SetupInv
<1>1. /\ run = 1 /\ step = 1 /\ waiting = FALSE /\ answer = {}
      /\ ports = [s \in S!MediaStreams |-> 0]
      /\ wire = {} /\ app = 0 /\ faults = 0
      /\ rtsp = [setups |-> <<>>, announced |-> FALSE, armed |-> FALSE]
  BY DEF LInit, S!Init
<1>2. <<>> \in Seq(S!MediaStreams)
  BY EmptySeq
<1>3. rtsp \in [setups : Seq(S!MediaStreams), announced : BOOLEAN, armed : BOOLEAN]
  BY <1>1, <1>2
<1>4. SetupTypes
  <2>1. ports \in [S!MediaStreams -> Nat] /\ wire \subseteq [by : 1 .. run, what : Requests]
    BY <1>1
  <2>2. answer \subseteq Answers /\ (waiting => step \in 1 .. 16) /\ (~waiting => answer = {})
    BY <1>1
  <2>3. run \in Nat \ {0} /\ step \in 0 .. 17 /\ app \in 0 .. run /\ faults \in Nat
    BY <1>1
  <2>4. waiting \in BOOLEAN
    BY <1>1
  <2> QED BY <1>3, <2>1, <2>2, <2>3, <2>4 DEF SetupTypes
<1>5. Trusting /\ NotTwice /\ OwnPorts /\ CodecKnown
  BY <1>1 DEF Trusting, NotTwice, OnItsWay, OwnPorts, CodecKnown
<1>6. OwnApp
  BY <1>1 DEF OwnApp
<1> QED BY <1>4, <1>5, <1>6 DEF SetupInv

LEMMA SetupHolds == LSpec => []SetupInv
<1>1. LInit => SetupInv
  BY SetupInit
<1>2. SetupInv /\ [LNext]_lvars => SetupInv'
  BY SetupStep
<1> QED BY <1>1, <1>2, PTL DEF LSpec

\* Past the ladder the host trusts the run, whatever was lost, refused, late or typed wrong
\* and however many runs there were before (session.rs pair, ladder.rs).
THEOREM PastTheLadderTrusted == LSpec => []PairedIsTrusted
<1>1. SetupInv => PairedIsTrusted
  <2>1. Len(S!Ladder) = 5
    BY StepNames
  <2> QED BY <2>1 DEF SetupInv, SetupTypes, Trusting, PairedIsTrusted
<1> QED BY <1>1, SetupHolds, PTL

\* When the handshake is over each socket has its stream's port, a host that still runs
\* the app was told the parameters first, and without a fault the decoder fits what it
\* sends, whatever earlier runs left on the host or on the way to it (rtsp.rs handshake,
\* launch.rs, lib.rs stream).
THEOREM HandshakeIsComplete == LSpec => []ReadyToStream
<1>1. SetupInv => ReadyToStream
  <2>1. SUFFICES ASSUME SetupInv, step = 17 PROVE ReadyToStream
    BY StepNames DEF ReadyToStream
  <2>2. ports["video"] = 1 /\ ports["audio"] = 2 /\ ports["control"] = 3
    BY <2>1 DEF SetupInv, OwnPorts
  <2>3. S!Ports[1] = "video" /\ S!Ports[2] = "audio" /\ S!Ports[3] = "control"
    BY DEF S!Ports
  <2>4. \A s \in S!MediaStreams : S!Ports[ports[s]] = s
    BY <2>2, <2>3 DEF S!MediaStreams
  <2>5. app = run => rtsp.armed
    BY <2>1 DEF SetupInv, OwnApp
  <2>6. faults = 0 => codec = HostCodec
    BY <2>1 DEF SetupInv, CodecKnown
  <2> QED BY <2>4, <2>5, <2>6 DEF ReadyToStream
<1> QED BY <1>1, SetupHolds, PTL
=============================================================================
