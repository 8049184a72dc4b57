------------------------------ MODULE ClientProofs ------------------------------
(***************************************************************************)
(* Proofs about the embedded client.  Client: the wake-up channel never    *)
(* holds two frame wake-ups and never loses the one the embedder needs,    *)
(* however many frames.  ClientStats, with AudioPath: what the client      *)
(* measures of itself, however long it runs and however often it is reset. *)
(* Pipeline: when a keyframe is wanted, and the timing of the requests,    *)
(* for every round trip, frame interval and idle tick.                     *)
(***************************************************************************)
EXTENDS Client, ClientStats, Pipeline, DataLemmas

FrameQueued == events \in {<<"frame">>, <<"frame", "stopped">>}
StopQueued  == events \in {<<"stopped">>, <<"frame", "stopped">>}

\* frame_pending is set exactly while one wake-up is being sent, queued, or taken
\* and not yet cleared; and never by two of them.
WakeInv ==
  /\ TypeOK
  /\ StopQueued => pipeline = "done"
  /\ FrameQueued => pending /\ embedder # "taken" /\ pipeline # "announcing"
  /\ embedder = "taken" => pending /\ pipeline # "announcing"
  /\ pipeline = "announcing" => pending
  /\ pending => FrameQueued \/ embedder = "taken" \/ pipeline = "announcing" \/ ~listening
  /\ ~listening => embedder = "gone"
  /\ shown < latest /\ listening
     => \/ FrameQueued
        \/ pipeline \in {"published", "announcing"}
        \/ embedder \in {"taken", "look"}

LEMMA PairIs ==
  ASSUME NEW S, NEW a \in S, NEW b \in S
  PROVE  Append(<<a>>, b) = <<a, b>>
<1> DEFINE one == <<a>>
           both == <<a, b>>
           two == Append(one, b)
<1>0. one \in Seq(S)
  OBVIOUS
<1>1. Len(one) = 1 /\ one[1] = a
  OBVIOUS
<1>2. both \in Seq(S) /\ Len(both) = 2 /\ both[1] = a /\ both[2] = b
  OBVIOUS
<1> HIDE DEF one, both
<1>3. two \in Seq(S) /\ Len(two) = Len(one) + 1
      /\ (\A i \in 1 .. Len(one) : two[i] = one[i]) /\ two[Len(one) + 1] = b
  BY <1>0, AppendProperties
<1> HIDE DEF two
<1>4. 1 \in 1 .. Len(one) /\ Len(one) + 1 = 2
  BY <1>1
<1>5. Len(two) = 2 /\ two[1] = a /\ two[2] = b
  BY <1>1, <1>3, <1>4
<1>6. \A i \in 1 .. 2 : i = 1 \/ i = 2
  OBVIOUS
<1>7. two = both
  BY <1>2, <1>3, <1>5, <1>6, SeqEqual
<1> QED BY <1>7 DEF one, both, two

LEMMA BothQueued == Append(<<"frame">>, "stopped") = <<"frame", "stopped">>
<1>1. "frame" \in {"frame", "stopped"} /\ "stopped" \in {"frame", "stopped"}
  OBVIOUS
<1> QED BY <1>1, PairIs

LEMMA ThreadKeepsWake == WakeInv /\ Thread => WakeInv'
<1> SUFFICES ASSUME WakeInv, Thread PROVE WakeInv'
  OBVIOUS
<1> USE DEF WakeInv, TypeOK, Contents, FrameQueued, StopQueued, ThreadStates, EmbedderStates
<1>1. CASE Started
  BY <1>1 DEF Started
<1>2. CASE LoopHead
  BY <1>2 DEF LoopHead
<1>3. CASE NoFrame
  BY <1>3 DEF NoFrame
<1>4. CASE Publish
  BY <1>4, BoundAssumption DEF Publish
<1>5. CASE SwapPending
  BY <1>5 DEF SwapPending
<1>6. CASE SendFrame
  <2>1. CASE listening
    <3>1. events = <<>>
      BY <1>6 DEF SendFrame
    <3>2. events' = <<"frame">>
      BY <2>1, <3>1, <1>6 DEF SendFrame
    <3> QED BY <2>1, <3>2, <1>6 DEF SendFrame
  <2>2. CASE ~listening
    BY <2>2, <1>6 DEF SendFrame
  <2> QED BY <2>1, <2>2
<1>7. CASE SessionEnds
  BY <1>7 DEF SessionEnds
<1>8. CASE Finish
  <2>1. CASE failed /\ listening
    <3>1. events \in {<<>>, <<"frame">>} /\ events' = Append(events, "stopped")
      BY <2>1, <1>8 DEF Finish
    <3>2. CASE events = <<>>
      <4>1. events' = <<"stopped">>
        BY <3>1, <3>2
      <4> QED BY <3>2, <4>1, <1>8 DEF Finish
    <3>3. CASE events = <<"frame">>
      <4>1. events' = <<"frame", "stopped">>
        BY <3>1, <3>3, BothQueued, Zenon
      <4> QED BY <3>3, <4>1, <1>8 DEF Finish
    <3> QED BY <3>1, <3>2, <3>3
  <2>2. CASE ~(failed /\ listening)
    <3>1. events' = events
      BY <2>2, <1>8 DEF Finish
    <3> QED BY <3>1, <1>8 DEF Finish
  <2> QED BY <2>1, <2>2
<1> QED BY <1>1, <1>2, <1>3, <1>4, <1>5, <1>6, <1>7, <1>8 DEF Thread

LEMMA EmbedderKeepsWake == WakeInv /\ Embedder => WakeInv'
<1> SUFFICES ASSUME WakeInv, Embedder PROVE WakeInv'
  OBVIOUS
<1> USE DEF WakeInv, TypeOK, Contents, FrameQueued, StopQueued, ThreadStates, EmbedderStates
<1>1. CASE Poll
  <2>1. CASE events = <<"frame">>
    <3>1. Head(events) = "frame" /\ events' = <<>>
      BY <2>1, <1>1 DEF Poll
    <3> QED BY <2>1, <3>1, <1>1 DEF Poll
  <2>2. CASE events = <<"frame", "stopped">>
    <3>1. Head(events) = "frame" /\ events' = <<"stopped">>
      BY <2>2, <1>1 DEF Poll
    <3> QED BY <2>2, <3>1, <1>1 DEF Poll
  <2>3. CASE events = <<"stopped">>
    <3>1. Head(events) = "stopped" /\ events' = <<>>
      BY <2>3, <1>1 DEF Poll
    <3> QED BY <2>3, <3>1, <1>1 DEF Poll
  <2> QED BY <1>1, <2>1, <2>2, <2>3 DEF Poll
<1>2. CASE ClearPending
  BY <1>2 DEF ClearPending
<1>3. CASE Show
  BY <1>3 DEF Show
<1>4. CASE StopClient
  BY <1>4 DEF StopClient
<1>5. CASE StopJoins
  BY <1>5 DEF StopJoins
<1>6. CASE Drop
  BY <1>6 DEF Drop
<1>7. CASE DropFields
  BY <1>7 DEF DropFields
<1> QED BY <1>1, <1>2, <1>3, <1>4, <1>5, <1>6, <1>7 DEF Embedder

LEMMA WakeInvariant == Spec => []WakeInv
<1>1. Init => WakeInv
  <2> SUFFICES ASSUME Init PROVE WakeInv
    OBVIOUS
  <2>1. events = <<>> /\ events \in Contents
    BY DEF Init, Contents
  <2>2. ~FrameQueued /\ ~StopQueued
    BY <2>1, Zenon DEF FrameQueued, StopQueued
  <2>3. ~pending /\ listening /\ shown = 0 /\ latest = 0 /\ embedder = "idle"
        /\ pipeline = "starting" /\ ~failed /\ ~stop /\ ~told
    BY DEF Init
  <2>4. 0 \in 0 .. MaxFrames
    BY BoundAssumption
  <2>5. /\ pipeline \in ThreadStates /\ failed \in BOOLEAN /\ embedder \in EmbedderStates
        /\ listening \in BOOLEAN /\ pending \in BOOLEAN /\ stop \in BOOLEAN /\ told \in BOOLEAN
    BY DEF Init, ThreadStates, EmbedderStates
  <2> QED BY <2>1, <2>2, <2>3, <2>4, <2>5 DEF WakeInv, TypeOK
<1>2. WakeInv /\ [Next]_vars => WakeInv'
  <2>1. WakeInv /\ UNCHANGED vars => WakeInv'
    BY DEF WakeInv, TypeOK, FrameQueued, StopQueued, vars
  <2> QED BY <2>1, ThreadKeepsWake, EmbedderKeepsWake DEF Next
<1> QED BY <1>1, <1>2, PTL DEF Spec

\* Whatever the two threads do, one frame wake-up is queued at most (Notify::frame).
THEOREM OneWakeUpAlways == Spec => []OneWakeUp
<1>1. WakeInv => OneWakeUp
  <2> SUFFICES ASSUME WakeInv PROVE Cardinality(Queued("frame")) <= 1
    BY DEF OneWakeUp
  <2>1. CASE FrameQueued
    <3>1. Queued("frame") = {1}
      BY <2>1 DEF FrameQueued, Queued
    <3> QED BY <3>1, FS_Singleton
  <2>2. CASE ~FrameQueued
    <3>1. Queued("frame") = {}
      BY <2>2 DEF FrameQueued, Queued, WakeInv, TypeOK, Contents
    <3> QED BY <3>1, FS_EmptySet
  <2> QED BY <2>1, <2>2
<1> QED BY <1>1, WakeInvariant, PTL

\* A published frame the embedder has not shown is always announced (Notify::frame
\* against Client::poll_event).
THEOREM WakeUpNeverLost == Spec => []NoLostWakeUp
<1>1. WakeInv => NoLostWakeUp
  <2> SUFFICES ASSUME WakeInv, FrameQueued PROVE Queued("frame") # {}
    BY DEF NoLostWakeUp, WakeInv
  <2>1. 1 \in Queued("frame")
    BY DEF FrameQueued, Queued
  <2> QED BY <2>1
<1> QED BY <1>1, WakeInvariant, PTL
-----------------------------------------------------------------------------
(* What the client measures of itself. *)

\* Nothing the thread took is in the queue any more, nothing in the ring is newer than
\* what is in the queue, and the ring holds samples of whole channel pairs.
AudioInv ==
  /\ datagrams \in Nat /\ refused \in Nat /\ unheard \in Nat /\ taken \in Nat /\ last \in Nat
  /\ queue \in Seq(Nat) /\ ring \in Seq([from : Nat, channel : {"left", "right"}])
  /\ AudioAccounted /\ ChannelsAligned
  /\ Len(ring) % 2 = 0
  /\ last <= datagrams /\ \A i \in 1 .. Len(ring) : ring[i].from <= datagrams
  /\ \A j \in 1 .. Len(queue) :
       /\ queue[j] <= datagrams /\ last <= queue[j]
       /\ \A i \in 1 .. Len(ring) : ring[i].from <= queue[j]
       /\ \A i \in 1 .. j : queue[i] <= queue[j]

Submission == [pts : Nat, first : Nat, complete : Nat, at : Nat]
Entry      == [pts : Int, first : Nat, published : Nat]

SeriesType == [Series -> [count : Nat, sum : Nat]]

StatsRecord ==
  [decoded : Nat, errors : Nat, lag : [0 .. 3 -> Nat], lost : Nat, base : Nat, audioDropped : Nat,
   series : SeriesType, lastPublish : SUBSET Nat, recent : Seq(Entry)]

StatsTyped ==
  /\ clock \in Nat /\ frames \in Nat /\ lost \in Nat
  /\ stage \in {"wait", "receive", "complete", "decode", "publish"}
  /\ meta \in [pts : Nat, first : Nat, complete : Nat]
  /\ submitted \in Seq(Submission)
  /\ output \in [pts : Int, source : SUBSET Submission, decoded : Nat, published : Nat]
  /\ st \in StatsRecord

\* The stamps of a frame are in the order of the stages, and none is of the future.
StampsInOrder ==
  /\ meta.first <= meta.complete /\ meta.complete <= clock
  /\ \A i \in 1 .. Len(submitted) :
       /\ submitted[i].first <= submitted[i].complete /\ submitted[i].complete <= submitted[i].at
       /\ submitted[i].at <= clock
  /\ output.decoded = output.published /\ output.published <= clock
  /\ \A src \in output.source :
       /\ src.first <= src.complete /\ src.complete <= src.at /\ src.at <= output.decoded
  /\ \A i \in 1 .. Len(st.recent) :
       /\ st.recent[i].first <= st.recent[i].published /\ st.recent[i].published <= clock

\* The frames are in order: those remembered for presentation, the one being recorded,
\* those the decoder still has, the newest.
FramesInOrder ==
  /\ \A i, j \in 1 .. Len(submitted) : i < j => submitted[i].pts < submitted[j].pts
  /\ \A i, j \in 1 .. Len(st.recent) : i < j => st.recent[i].pts < st.recent[j].pts
  /\ \A i \in 1 .. Len(st.recent), j \in 1 .. Len(submitted) : st.recent[i].pts < submitted[j].pts
  /\ \A i \in 1 .. Len(st.recent) : st.recent[i].pts <= frames
  /\ \A i \in 1 .. Len(submitted) : submitted[i].pts <= frames
  /\ stage \in {"receive", "complete"} =>
       /\ meta.pts = frames
       /\ \A i \in 1 .. Len(st.recent) : st.recent[i].pts < frames
       /\ \A i \in 1 .. Len(submitted) : submitted[i].pts < frames
  /\ stage = "decode" => submitted # <<>>
  /\ stage = "publish" /\ output.source # {} =>
       /\ output.pts <= frames
       /\ \A i \in 1 .. Len(st.recent) : st.recent[i].pts < output.pts
       /\ \A i \in 1 .. Len(submitted) : output.pts < submitted[i].pts

Unpresented == Sum("total") - Sum("present")

Span(entry) == entry.published - entry.first

\* c[i] is what pipeline's sum was when the i-th frame that is still remembered was
\* recorded: whichever of them is presented next, what it adds to total beyond present,
\* which is d so far, was in that sum already.
HasCover(recent, d, sum) ==
  \E c \in [1 .. Len(recent) -> 0 .. sum] :
    \A i \in 1 .. Len(recent) :
      /\ d + Span(recent[i]) <= c[i]
      /\ \A j \in 1 .. i - 1 : c[j] + Span(recent[i]) <= c[i]

\* What TimelineAdds and the cover say of any series, remembered frames and count.
Balanced(m, recent, decoded) ==
  /\ m["receive"].count = m["pipeline"].count /\ m["queue"].count = m["pipeline"].count
  /\ m["decode"].count = m["pipeline"].count /\ m["pipeline"].count <= decoded
  /\ m["receive"].sum + m["queue"].sum + m["decode"].sum <= m["pipeline"].sum
  /\ m["present"].count = m["total"].count /\ m["present"].count + Len(recent) <= m["pipeline"].count
  /\ m["total"].sum - m["present"].sum \in 0 .. m["pipeline"].sum
  /\ \A i, j \in 1 .. Len(recent) : i < j => recent[i].pts < recent[j].pts
  /\ HasCover(recent, m["total"].sum - m["present"].sum, m["pipeline"].sum)

TimelineInv == TimelineAdds /\ HasCover(st.recent, Unpresented, Sum("pipeline"))

CounterInv ==
  /\ st.base <= st.lost /\ st.lost <= lost /\ st.base <= atReset /\ atReset \in Nat
  /\ refreshed \subseteq 0 .. st.lost

StatsInv == StatsTyped /\ StampsInOrder /\ FramesInOrder /\ TimelineInv /\ CounterInv

Sample == [from : Nat, channel : {"left", "right"}]

\* Whole pairs of samples, left before right, oldest first.
Placed(r) ==
  /\ r \in Seq(Sample) /\ Len(r) % 2 = 0
  /\ \A i \in 1 .. Len(r) : r[i].channel = Channels[1 + ((i - 1) % 2)]
  /\ \A i \in 1 .. Len(r) : \A j \in 1 .. i : r[j].from <= r[i].from

LEMMA PcmFacts ==
  ASSUME NEW d \in Nat, NEW n \in Nat
  PROVE  Placed(Pcm(d, n)) /\ Len(Pcm(d, n)) = 2 * n /\ \A i \in 1 .. 2 * n : Pcm(d, n)[i].from = d
<1> DEFINE p == Pcm(d, n)
           w == 2 * n
<1>1. w \in Nat /\ w % 2 = 0
  OBVIOUS
<1>2. \A i \in 1 .. w : Channels[1 + ((i - 1) % 2)] \in {"left", "right"}
  <2>1. \A i \in 1 .. w : (i - 1) % 2 = 0 \/ (i - 1) % 2 = 1
    BY <1>1
  <2>2. Channels[1] = "left" /\ Channels[2] = "right" /\ 1 + 0 = 1 /\ 1 + 1 = 2
    BY DEF Channels
  <2> QED BY <2>1, <2>2
<1>3. /\ p \in [1 .. w -> Sample]
      /\ \A i \in 1 .. w : p[i].from = d /\ p[i].channel = Channels[1 + ((i - 1) % 2)]
  BY <1>2 DEF Pcm, Sample
<1> HIDE DEF p, w
<1>4. p \in Seq(Sample) /\ Len(p) = w
  BY <1>1, <1>3, LenProperties, SeqDef
<1>5. Placed(p)
  <2>1. \A i \in 1 .. Len(p) : i \in 1 .. w /\ p[i].from = d /\ p[i].channel = Channels[1 + ((i - 1) % 2)]
    BY <1>3, <1>4
  <2>2. \A i \in 1 .. Len(p) : \A j \in 1 .. i : p[j].from <= p[i].from
    <3> TAKE i \in 1 .. Len(p)
    <3> TAKE j \in 1 .. i
    <3>1. j \in 1 .. Len(p)
      BY <1>1, <1>4
    <3>2. p[i].from = d /\ p[j].from = d
      BY <2>1, <3>1
    <3> QED BY <3>2
  <2> QED BY <1>1, <1>4, <2>1, <2>2 DEF Placed
<1> QED BY <1>3, <1>4, <1>5 DEF p, w

\* What is left once whole pairs are gone from the front.
LEMMA PlacedSuffix ==
  ASSUME NEW r, Placed(r), NEW k \in 0 .. Len(r), k % 2 = 0
  PROVE  /\ Placed(SubSeq(r, k + 1, Len(r))) /\ Len(SubSeq(r, k + 1, Len(r))) = Len(r) - k
         /\ \A i \in 1 .. Len(r) - k : SubSeq(r, k + 1, Len(r))[i] = r[k + i]
<1> DEFINE s == SubSeq(r, k + 1, Len(r))
           n == Len(r)
<1>1. r \in Seq(Sample) /\ n \in Nat /\ n % 2 = 0
  BY LenProperties DEF Placed
<1>2. /\ s \in Seq(Sample) /\ Len(s) = n - k
      /\ \A i \in 1 .. n - k : s[i] = r[k + i]
  BY <1>1, SuffixFacts
<1> HIDE DEF s
<1>3. (n - k) % 2 = 0
  BY <1>1
<1>4. ASSUME NEW i \in 1 .. n - k PROVE s[i].channel = Channels[1 + ((i - 1) % 2)]
  <2>1. k + i \in 1 .. n /\ ((k + i) - 1) % 2 = (i - 1) % 2
    BY <1>1
  <2>2. r[k + i].channel = Channels[1 + (((k + i) - 1) % 2)]
    BY <2>1 DEF Placed
  <2> QED BY <1>2, <2>1, <2>2
<1>5. ASSUME NEW i \in 1 .. n - k, NEW j \in 1 .. i PROVE s[j].from <= s[i].from
  <2>1. k + i \in 1 .. n /\ k + j \in 1 .. k + i /\ j \in 1 .. n - k
    BY <1>1
  <2>2. r[k + j].from <= r[k + i].from
    BY <2>1 DEF Placed
  <2> QED BY <1>2, <2>1, <2>2
<1>6. Placed(s)
  BY <1>2, <1>3, <1>4, <1>5 DEF Placed
<1> QED BY <1>2, <1>6 DEF s

LEMMA BeyondFirst ==
  ASSUME NEW n \in Nat, NEW m \in Nat, NEW i \in 1 .. n + m, i > n
  PROVE  i - n \in 1 .. m /\ ~(i <= n)
OBVIOUS

LEMMA PlacedConcat ==
  ASSUME NEW r, Placed(r), NEW p, Placed(p),
         \A i \in 1 .. Len(r), j \in 1 .. Len(p) : r[i].from <= p[j].from
  PROVE  /\ Placed(r \o p) /\ Len(r \o p) = Len(r) + Len(p)
         /\ \A i \in 1 .. Len(r) + Len(p) : (r \o p)[i] = IF i <= Len(r) THEN r[i] ELSE p[i - Len(r)]
<1> DEFINE t == r \o p
           n == Len(r)
           m == Len(p)
<1>1. r \in Seq(Sample) /\ p \in Seq(Sample) /\ n \in Nat /\ m \in Nat /\ n % 2 = 0 /\ m % 2 = 0
  BY LenProperties DEF Placed
<1>2. /\ t \in Seq(Sample) /\ Len(t) = n + m
      /\ \A i \in 1 .. n + m : t[i] = IF i <= n THEN r[i] ELSE p[i - n]
  BY <1>1, ConcatProperties
<1> HIDE DEF t
<1>3. (n + m) % 2 = 0
  BY <1>1
<1>4. ASSUME NEW i \in 1 .. n + m PROVE t[i].channel = Channels[1 + ((i - 1) % 2)]
  <2>1. CASE i <= n
    BY <1>1, <1>2, <2>1 DEF Placed
  <2>2. CASE i > n
    <3>1. i - n \in 1 .. m /\ ((i - n) - 1) % 2 = (i - 1) % 2
      <4> DEFINE k == i - n
      <4>1. k \in 1 .. m /\ i = n + k
        BY <1>1, <2>2
      <4> HIDE DEF k
      <4>2. (k - 1) % 2 = ((n + k) - 1) % 2
        BY <1>1, <4>1
      <4>3. ((n + k) - 1) % 2 = (i - 1) % 2
        BY <4>1
      <4> QED BY <4>1, <4>2, <4>3 DEF k
    <3>2. p[i - n].channel = Channels[1 + (((i - n) - 1) % 2)]
      BY <3>1 DEF Placed
    <3>3. ~(i <= n)
      BY <1>1, <2>2, BeyondFirst
    <3>4. t[i] = p[i - n]
      BY ONLY <1>2, <3>3
    <3> QED BY <3>1, <3>2, <3>4
  <2> QED BY <1>1, <2>1, <2>2
<1>5. ASSUME NEW i \in 1 .. n + m, NEW j \in 1 .. i PROVE t[j].from <= t[i].from
  <2>0. j \in 1 .. n + m
    BY <1>1
  <2>1. CASE i <= n
    <3>1. i \in 1 .. n /\ j <= n
      BY <1>1, <2>1
    <3>2. r[j].from <= r[i].from
      BY <3>1 DEF Placed
    <3> QED BY <1>2, <2>0, <2>1, <3>1, <3>2
  <2>2. CASE i > n /\ j <= n
    <3>1. i - n \in 1 .. m /\ ~(i <= n)
      BY <1>1, <2>2
    <3>3. j \in 1 .. n
      BY <1>1, <2>0, <2>2
    <3> QED BY <1>2, <2>0, <2>2, <3>1, <3>3
  <2>3. CASE i > n /\ j > n
    <3>1. i - n \in 1 .. m /\ j - n \in 1 .. i - n /\ ~(i <= n) /\ ~(j <= n)
      BY <1>1, <2>3
    <3>2. p[j - n].from <= p[i - n].from
      BY <3>1 DEF Placed
    <3> QED BY <1>2, <2>0, <3>1, <3>2
  <2> QED BY <1>1, <2>0, <2>1, <2>2, <2>3, SMTT(30)
<1>6. Placed(t)
  BY <1>2, <1>3, <1>4, <1>5 DEF Placed
<1> QED BY <1>2, <1>6 DEF t

LEMMA AudioTypes == AudioInv => Len(queue) \in Nat /\ Len(ring) \in Nat /\ Placed(ring)
<1> SUFFICES ASSUME AudioInv PROVE Len(queue) \in Nat /\ Len(ring) \in Nat /\ Placed(ring)
  OBVIOUS
<1>1. Len(queue) \in Nat /\ Len(ring) \in Nat /\ DOMAIN ring = 1 .. Len(ring)
  BY LenProperties DEF AudioInv
<1>2. Placed(ring)
  BY <1>1 DEF AudioInv, ChannelsAligned, Placed, Sample
<1> QED BY <1>1, <1>2

\* A ring of whole pairs, not older than what was played, is aligned.
LEMMA PlacedIsAligned ==
  ASSUME Placed(ring)', \A i \in 1 .. Len(ring') : ring'[i].from >= last'
  PROVE  ChannelsAligned' /\ ring' \in Seq(Sample) /\ Len(ring') % 2 = 0
<1>1. ring' \in Seq(Sample) /\ DOMAIN ring' = 1 .. Len(ring')
  BY LenProperties DEF Placed
<1> QED BY <1>1 DEF Placed, ChannelsAligned

LEMMA OfferKeeps == AudioInv /\ Offer => AudioInv'
<1> SUFFICES ASSUME AudioInv, Offer PROVE AudioInv'
  OBVIOUS
<1>0. /\ Len(queue) \in Nat /\ datagrams' = datagrams + 1 /\ datagrams \in Nat
      /\ taken' = taken /\ ring' = ring /\ last' = last /\ QueueLimit \in Nat
  BY AudioTypes, AudioAssumption DEF Offer, AudioInv
<1>1. Len(ring) \in Nat /\ \A i \in 1 .. Len(ring) : ring[i].from \in Nat
  <2>1. ring \in Seq([from : Nat, channel : {"left", "right"}]) /\ Len(ring) \in Nat
    BY AudioTypes DEF AudioInv
  <2>2. \A i \in 1 .. Len(ring) : ring[i] \in [from : Nat, channel : {"left", "right"}]
    BY <2>1, ElementOfSeq
  <2> QED BY <2>1, <2>2
<1>2. CASE queue' = queue /\ refused' + unheard' = refused + unheard + 1 /\ refused' \in Nat /\ unheard' \in Nat
  <2>1. \A j \in 1 .. Len(queue) : queue[j] \in Nat
    BY ElementOfSeq DEF AudioInv
  <2>2. AudioAccounted'
    <3>1. /\ datagrams = Len(queue) + taken + refused + unheard /\ Len(queue) <= QueueLimit
          /\ taken \in Nat /\ refused \in Nat /\ unheard \in Nat
      BY DEF AudioInv, AudioAccounted
    <3>2. /\ datagrams' = datagrams + 1 /\ Len(queue') = Len(queue) /\ taken' = taken
          /\ refused' + unheard' = refused + unheard + 1 /\ refused' \in Nat /\ unheard' \in Nat
          /\ Len(queue) \in Nat /\ datagrams \in Nat
      BY <1>0, <1>2
    <3> DEFINE d == datagrams
               q == Len(queue)
               k == taken
               r == refused
               u == unheard
               s == refused'
               v == unheard'
    <3>3. /\ d \in Nat /\ q \in Nat /\ k \in Nat /\ r \in Nat /\ u \in Nat /\ s \in Nat /\ v \in Nat
          /\ d = q + k + r + u /\ s + v = r + u + 1
      BY <3>1, <3>2
    <3> HIDE DEF d, q, k, r, u, s, v
    <3>4. d + 1 = q + k + s + v
      BY <3>3
    <3> QED BY <3>1, <3>2, <3>4 DEF AudioAccounted, d, q, k, s, v
  <2>3. ChannelsAligned'
    BY <1>0 DEF AudioInv, ChannelsAligned
  <2> QED BY <1>0, <1>1, <1>2, <2>1, <2>2, <2>3, SMTT(30) DEF AudioInv
<1>3. CASE /\ queue' = Append(queue, datagrams + 1) /\ Len(queue) < QueueLimit
           /\ refused' = refused /\ unheard' = unheard
  <2> DEFINE q == Append(queue, datagrams + 1)
  <2>1. queue \in Seq(Nat) /\ datagrams + 1 \in Nat
    BY <1>0 DEF AudioInv
  <2>2. /\ q \in Seq(Nat) /\ Len(q) = Len(queue) + 1 /\ q[Len(queue) + 1] = datagrams + 1
        /\ \A j \in 1 .. Len(queue) : q[j] = queue[j]
    BY <2>1, AppendProperties
  <2> HIDE DEF q
  <2>3. queue' = q
    BY <1>3 DEF q
  <2>4. AudioAccounted'
    BY <1>0, <1>3, <2>2, <2>3 DEF AudioInv, AudioAccounted
  <2>5. ChannelsAligned'
    BY <1>0 DEF AudioInv, ChannelsAligned
  <2>6. ASSUME NEW j \in 1 .. Len(q)
        PROVE  /\ q[j] <= datagrams + 1 /\ last <= q[j]
               /\ \A i \in 1 .. Len(ring) : ring[i].from <= q[j]
               /\ \A i \in 1 .. j : q[i] <= q[j]
    <3>1. \A i \in 1 .. Len(queue) : queue[i] \in Nat /\ queue[i] <= datagrams
      BY <2>1, ElementOfSeq DEF AudioInv
    <3>2. CASE j \in 1 .. Len(queue)
      <4>1. q[j] = queue[j] /\ \A i \in 1 .. j : i \in 1 .. Len(queue) /\ q[i] = queue[i]
        <5>1. Len(queue) \in Nat
          BY <2>1
        <5>2. \A i \in 1 .. j : i \in 1 .. Len(queue)
          BY <3>2, <5>1
        <5> QED BY <2>2, <3>2, <5>2
      <4>2. /\ queue[j] <= datagrams /\ last <= queue[j] /\ \A i \in 1 .. Len(ring) : ring[i].from <= queue[j]
            /\ \A i \in 1 .. j : queue[i] <= queue[j]
        BY <3>2 DEF AudioInv
      <4>3. queue[j] \in Nat /\ datagrams \in Nat
        BY <3>1, <3>2 DEF AudioInv
      <4>4. q[j] <= datagrams + 1
        BY <4>1, <4>2, <4>3
      <4> QED BY <4>1, <4>2, <4>4
    <3>3. CASE j = Len(queue) + 1
      <4>1. q[j] = datagrams + 1
        BY <2>2, <3>3
      <4>2. \A i \in 1 .. j : i \in 1 .. Len(queue) \/ i = j
        BY <1>0, <3>3
      <4>3. ASSUME NEW i \in 1 .. j PROVE q[i] <= q[j]
        <5>1. CASE i = j
          BY <1>0, <4>1, <5>1
        <5>2. CASE i \in 1 .. Len(queue)
          <6>1. q[i] = queue[i] /\ queue[i] \in Nat /\ queue[i] <= datagrams
            BY <2>2, <3>1, <5>2
          <6> QED BY <1>0, <4>1, <6>1
        <5> QED BY <4>2, <5>1, <5>2
      <4>4. last \in Nat /\ last <= datagrams /\ \A i \in 1 .. Len(ring) : ring[i].from <= datagrams
        BY DEF AudioInv
      <4> QED BY <1>0, <1>1, <4>1, <4>3, <4>4
    <3> QED BY <1>0, <2>2, <3>2, <3>3
  <2>7. last <= datagrams + 1 /\ \A i \in 1 .. Len(ring) : ring[i].from <= datagrams + 1
    BY <1>0, <1>1 DEF AudioInv
  <2> QED BY <1>0, <1>3, <2>2, <2>3, <2>4, <2>5, <2>6, <2>7, SMTT(30) DEF AudioInv
<1>4. \/ listener = "gone" /\ unheard' = unheard + 1 /\ queue' = queue /\ refused' = refused
      \/ Len(queue) < QueueLimit /\ queue' = Append(queue, datagrams + 1) /\ refused' = refused /\ unheard' = unheard
      \/ refused' = refused + 1 /\ queue' = queue /\ unheard' = unheard
  <2>1. listener = "gone" \/ (listener # "gone" /\ Len(queue) < QueueLimit) \/ (listener # "gone" /\ Len(queue) >= QueueLimit)
    BY <1>0
  <2> QED BY <1>0, <2>1 DEF Offer
<1>5. refused \in Nat /\ unheard \in Nat
  BY DEF AudioInv
<1> QED BY <1>2, <1>3, <1>4, <1>5

\* What is taken from the front of the queue is no older than anything in the ring.
LEMMA QueueShortens ==
  ASSUME AudioInv, queue # <<>>
  PROVE  /\ Head(queue) \in Nat /\ Head(queue) <= datagrams /\ last <= Head(queue)
         /\ \A i \in 1 .. Len(ring) : ring[i].from <= Head(queue)
         /\ Tail(queue) \in Seq(Nat) /\ Len(Tail(queue)) = Len(queue) - 1
         /\ \A j \in 1 .. Len(queue) - 1 :
              /\ Tail(queue)[j] <= datagrams /\ last <= Tail(queue)[j]
              /\ \A i \in 1 .. Len(ring) : ring[i].from <= Tail(queue)[j]
              /\ \A i \in 1 .. j : Tail(queue)[i] <= Tail(queue)[j]
              /\ Head(queue) <= Tail(queue)[j]
<1>1. queue \in Seq(Nat) /\ Len(queue) \in Nat \ {0}
  BY EmptySeq DEF AudioInv
<1>2. /\ Head(queue) = queue[1] /\ Tail(queue) \in Seq(Nat) /\ Len(Tail(queue)) = Len(queue) - 1
      /\ \A j \in 1 .. Len(queue) - 1 : Tail(queue)[j] = queue[j + 1]
  BY <1>1, HeadTailProperties
<1>3. 1 \in 1 .. Len(queue) /\ queue[1] \in Nat
  BY <1>1, ElementOfSeq
<1>4. ASSUME NEW j \in 1 .. Len(queue) - 1
      PROVE  /\ Tail(queue)[j] <= datagrams /\ last <= Tail(queue)[j]
             /\ \A i \in 1 .. Len(ring) : ring[i].from <= Tail(queue)[j]
             /\ \A i \in 1 .. j : Tail(queue)[i] <= Tail(queue)[j]
             /\ Head(queue) <= Tail(queue)[j]
  <2>1. j + 1 \in 1 .. Len(queue) /\ Tail(queue)[j] = queue[j + 1] /\ 1 \in 1 .. j + 1
    BY <1>1, <1>2
  <2>2. ASSUME NEW i \in 1 .. j PROVE Tail(queue)[i] <= Tail(queue)[j]
    <3>1. i + 1 \in 1 .. j + 1 /\ Tail(queue)[i] = queue[i + 1]
      BY <1>1, <1>2
    <3> QED BY <2>1, <3>1 DEF AudioInv
  <2> QED BY <1>2, <2>1, <2>2 DEF AudioInv
<1> QED BY <1>2, <1>3, <1>4 DEF AudioInv

\* Samples that come behind what the ring holds.
LEMMA PushKeeps ==
  ASSUME Placed(ring), NEW d \in Nat, NEW n \in Nat,
         \A i \in 1 .. Len(ring) : ring[i].from <= d
  PROVE  /\ Placed(KeptWithinCap(ring \o Pcm(d, n)))
         /\ \A i \in 1 .. Len(KeptWithinCap(ring \o Pcm(d, n))) :
              LET s == KeptWithinCap(ring \o Pcm(d, n))[i]
              IN  s.from = d \/ \E j \in 1 .. Len(ring) : s.from = ring[j].from
<1> DEFINE p == Pcm(d, n)
           r == ring
           t == r \o p
           s == KeptWithinCap(t)
<1>1. Placed(p) /\ \A i \in 1 .. Len(p) : p[i].from = d
  BY PcmFacts
<1>2. Placed(r) /\ \A i \in 1 .. Len(r) : r[i].from <= d
  OBVIOUS
<1>3. Len(r) \in Nat /\ Len(p) \in Nat
  BY <1>1, <1>2, LenProperties DEF Placed
<1> HIDE DEF p, r
<1>4. /\ Placed(t) /\ Len(t) = Len(r) + Len(p)
      /\ \A i \in 1 .. Len(r) + Len(p) : t[i] = IF i <= Len(r) THEN r[i] ELSE p[i - Len(r)]
  <2>1. \A i \in 1 .. Len(r), j \in 1 .. Len(p) : r[i].from <= p[j].from
    BY <1>1, <1>2
  <2> QED BY <1>1, <1>2, <2>1, PlacedConcat
<1>5. ASSUME NEW i \in 1 .. Len(t)
      PROVE  t[i].from = d \/ \E j \in 1 .. Len(r) : t[i].from = r[j].from
  <2>1. CASE i <= Len(r)
    BY <1>3, <1>4, <2>1
  <2>2. CASE ~(i <= Len(r))
    <3>1. i - Len(r) \in 1 .. Len(p) /\ t[i] = p[i - Len(r)]
      BY <1>3, <1>4, <2>2
    <3> QED BY <1>1, <3>1
  <2> QED BY <2>1, <2>2
<1>6. Len(t) \in Nat /\ Len(t) % 2 = 0
  <2>1. Len(t) \in Nat
    BY <1>3, <1>4
  <2>2. Placed(t)
    BY <1>4
  <2> HIDE DEF t
  <2> QED BY <2>1, <2>2 DEF Placed
<1>t. Placed(t)
  BY <1>4
<1> HIDE DEF t
<1>7. CASE Len(t) <= RingCap
  <2>1. s = t
    BY <1>7 DEF KeptWithinCap
  <2> QED BY <1>5, <1>t, <2>1 DEF t, r, p
<1>8. CASE ~(Len(t) <= RingCap)
  <2> DEFINE k == Len(t) - RingCap
             u == SubSeq(t, k + 1, Len(t))
  <2>1. k \in 0 .. Len(t) /\ k % 2 = 0
    BY <1>6, <1>8, AudioAssumption
  <2>2. s = u
    BY <1>8 DEF KeptWithinCap
  <2> HIDE DEF k, s
  <2>3. /\ Placed(u) /\ Len(u) = Len(t) - k
        /\ \A i \in 1 .. Len(t) - k : u[i] = t[k + i]
    BY <1>t, <2>1, PlacedSuffix
  <2>4. ASSUME NEW i \in 1 .. Len(u)
        PROVE  u[i].from = d \/ \E j \in 1 .. Len(r) : u[i].from = r[j].from
    <3>1. u[i] = t[k + i] /\ k + i \in 1 .. Len(t)
      BY <1>6, <2>1, <2>3
    <3> QED BY <1>5, <3>1
  <2> QED BY <2>2, <2>3, <2>4 DEF s, t, r, p
<1> QED BY <1>7, <1>8

\* The receiver takes what is first in the queue.
LEMMA TakeKeeps ==
  ASSUME AudioInv, queue # <<>>, queue' = Tail(queue), taken' = taken + 1,
         UNCHANGED <<datagrams, refused, unheard, last>>,
         Placed(ring)',
         \A i \in 1 .. Len(ring') :
           \/ ring'[i].from = Head(queue)
           \/ \E j \in 1 .. Len(ring) : ring'[i].from = ring[j].from
  PROVE  AudioInv'
<1> DEFINE q == Tail(queue)
           h == Head(queue)
<1>1. Len(queue) \in Nat \ {0} /\ Len(ring) \in Nat /\ queue \in Seq(Nat)
  BY AudioTypes, EmptySeq DEF AudioInv
<1>2. /\ h \in Nat /\ h <= datagrams /\ last <= h
      /\ \A i \in 1 .. Len(ring) : ring[i].from <= h
      /\ q \in Seq(Nat) /\ Len(q) = Len(queue) - 1
      /\ \A j \in 1 .. Len(queue) - 1 :
           /\ q[j] <= datagrams /\ last <= q[j]
           /\ \A i \in 1 .. Len(ring) : ring[i].from <= q[j]
           /\ \A i \in 1 .. j : q[i] <= q[j]
           /\ h <= q[j]
  BY QueueShortens
<1>3. queue' = q /\ \A i \in 1 .. Len(ring') : ring'[i].from = h \/ \E j \in 1 .. Len(ring) : ring'[i].from = ring[j].from
  OBVIOUS
<1> HIDE DEF q, h
<1>4. /\ datagrams \in Nat /\ refused \in Nat /\ unheard \in Nat /\ taken \in Nat /\ last \in Nat
      /\ datagrams = Len(queue) + taken + refused + unheard /\ Len(queue) <= QueueLimit
      /\ last <= datagrams /\ QueueLimit \in Nat
      /\ \A i \in 1 .. Len(ring) : ring[i].from <= datagrams /\ ring[i].from >= last
  BY LenProperties, AudioAssumption DEF AudioInv, AudioAccounted, ChannelsAligned
<1>5. \A i \in 1 .. Len(ring') :
        /\ ring'[i].from >= last /\ ring'[i].from <= datagrams
        /\ \A j \in 1 .. Len(q) : ring'[i].from <= q[j]
  BY <1>2, <1>3, <1>4
<1>6. ChannelsAligned' /\ ring' \in Seq([from : Nat, channel : {"left", "right"}]) /\ Len(ring') % 2 = 0
  BY <1>5, PlacedIsAligned DEF Sample
<1>7. AudioAccounted'
  <2>1. datagrams' = Len(queue') + taken' + refused' + unheard' /\ Len(queue') <= QueueLimit
    BY <1>1, <1>2, <1>3, <1>4
  <2> QED BY <2>1 DEF AudioAccounted
<1>8. \A j \in 1 .. Len(q) :
        /\ q[j] <= datagrams /\ last <= q[j] /\ \A i \in 1 .. j : q[i] <= q[j]
  BY <1>2
<1>9. taken' \in Nat
  BY <1>4
<1> QED BY <1>2, <1>3, <1>4, <1>5, <1>6, <1>7, <1>8, <1>9 DEF AudioInv

LEMMA LeaveKeeps ==
  ASSUME AudioInv, Leave, UNCHANGED <<datagrams, refused, taken, ring, last>>
  PROVE  AudioInv'
<1>1. /\ Len(queue) \in Nat /\ queue' = <<>> /\ unheard' = unheard + Len(queue)
      /\ <<>> \in Seq(Nat) /\ Len(<<>>) = 0
  BY AudioTypes DEF Leave
<1>2. /\ datagrams = Len(queue) + taken + refused + unheard /\ Len(queue) <= QueueLimit
      /\ datagrams \in Nat /\ taken \in Nat /\ refused \in Nat /\ unheard \in Nat
  BY DEF AudioInv, AudioAccounted
<1>3. unheard' \in Nat /\ datagrams' = Len(queue') + taken' + refused' + unheard' /\ Len(queue') <= QueueLimit
  <2>1. \A d, q, k, r, u \in Nat : d = q + k + r + u => u + q \in Nat /\ d = 0 + k + r + (u + q)
    OBVIOUS
  <2>2. unheard + Len(queue) \in Nat /\ datagrams = 0 + taken + refused + (unheard + Len(queue))
    BY <1>1, <1>2, <2>1
  <2>3. Len(queue') = 0 /\ 0 <= QueueLimit
    BY <1>1, AudioAssumption
  <2> QED BY <1>1, <2>2, <2>3
<1>4. AudioAccounted'
  BY <1>3 DEF AudioAccounted
<1>5. ChannelsAligned'
  BY DEF AudioInv, ChannelsAligned
<1>6. \A j \in 1 .. Len(queue') : FALSE
  BY <1>1
<1>7. queue' \in Seq(Nat)
  BY <1>1
<1> QED BY <1>3, <1>4, <1>5, <1>6, <1>7 DEF AudioInv

LEMMA CallbackKeeps ==
  ASSUME AudioInv, NEW n \in Callbacks, Callback(n)
  PROVE  AudioInv'
<1> DEFINE k == IF 2 * n <= Len(ring) THEN 2 * n ELSE Len(ring)
           r == SubSeq(ring, k + 1, Len(ring))
<1>1. /\ Len(ring) \in Nat /\ Len(ring) % 2 = 0 /\ Placed(ring) /\ n \in Nat /\ Len(queue) \in Nat
  BY AudioTypes, AudioAssumption DEF AudioInv
<1>2. k \in 0 .. Len(ring) /\ k % 2 = 0
  <2> DEFINE w == 2 * n
  <2>1. w % 2 = 0 /\ w \in Nat
    BY <1>1
  <2>2. k = IF w <= Len(ring) THEN w ELSE Len(ring)
    OBVIOUS
  <2> HIDE DEF w, k
  <2>3. CASE w <= Len(ring)
    <3>1. k = w
      BY <2>2, <2>3
    <3> QED BY <1>1, <2>1, <2>3, <3>1
  <2>4. CASE ~(w <= Len(ring))
    <3>1. k = Len(ring)
      BY <2>2, <2>4
    <3> QED BY <1>1, <3>1
  <2> QED BY <2>3, <2>4
<1>3. /\ ring' = r /\ last' = IF k = 0 THEN last ELSE ring[k].from
      /\ UNCHANGED <<datagrams, queue, refused, unheard, taken>>
  BY DEF Callback
<1> HIDE DEF k
<1>4. /\ Placed(r) /\ Len(r) = Len(ring) - k /\ \A i \in 1 .. Len(ring) - k : r[i] = ring[k + i]
  BY <1>1, <1>2, PlacedSuffix
<1> HIDE DEF r
<1>5. \A i \in 1 .. Len(ring) : ring[i].from \in Nat
  <2>1. ring \in Seq(Sample)
    BY <1>1 DEF Placed
  <2>2. \A i \in 1 .. Len(ring) : ring[i] \in Sample
    BY <2>1, ElementOfSeq
  <2> QED BY <2>2 DEF Sample
<1>6. /\ last' \in Nat /\ last' <= datagrams
      /\ \A i \in 1 .. Len(r) : last' <= r[i].from /\ r[i].from <= datagrams
      /\ \A j \in 1 .. Len(queue) : last' <= queue[j] /\ \A i \in 1 .. Len(r) : r[i].from <= queue[j]
  <2>1. \A i \in 1 .. Len(r) : k + i \in 1 .. Len(ring) /\ r[i] = ring[k + i]
    BY <1>1, <1>2, <1>4
  <2>2. \A i \in 1 .. Len(ring) : last <= ring[i].from /\ ring[i].from <= datagrams
    BY LenProperties DEF AudioInv, ChannelsAligned
  <2>3. CASE k = 0
    BY <1>3, <2>1, <2>2, <2>3 DEF AudioInv
  <2>4. CASE k # 0
    <3>1. k \in 1 .. Len(ring) /\ last' = ring[k].from
      BY <1>1, <1>2, <1>3, <2>4
    <3>2. \A i \in 1 .. Len(r) : ring[k].from <= ring[k + i].from
      <4>1. \A i \in 1 .. Len(r) : k \in 1 .. k + i
        BY <1>1, <3>1
      <4> QED BY <1>1, <2>1, <4>1 DEF Placed
    <3> QED BY <1>5, <2>1, <2>2, <3>1, <3>2 DEF AudioInv
  <2> QED BY <2>3, <2>4
<1>7. ChannelsAligned' /\ ring' \in Seq([from : Nat, channel : {"left", "right"}]) /\ Len(ring') % 2 = 0
  <2>1. Placed(ring)' /\ \A i \in 1 .. Len(ring') : ring'[i].from >= last'
    <3>1. \A i \in 1 .. Len(r) : r[i].from \in Nat /\ r[i].from >= last'
      BY <1>1, <1>2, <1>4, <1>5, <1>6
    <3> QED BY <1>3, <1>4, <3>1
  <2> QED BY <2>1, PlacedIsAligned DEF Sample
<1>8. AudioAccounted'
  BY <1>3 DEF AudioInv, AudioAccounted
<1> QED BY <1>3, <1>6, <1>7, <1>8 DEF AudioInv

LEMMA ListeningKeeps == AudioInv /\ Listening => AudioInv'
<1> SUFFICES ASSUME AudioInv, Listening PROVE AudioInv'
  OBVIOUS
<1>0. Placed(ring) /\ Len(ring) \in Nat
  BY AudioTypes
<1>1. CASE StartAudio
  BY <1>1 DEF StartAudio, AudioInv, AudioAccounted, ChannelsAligned
<1>2. CASE OpenOutput
  <2>1. CASE UNCHANGED <<queue, unheard>>
    BY <1>2, <2>1 DEF OpenOutput, AudioInv, AudioAccounted, ChannelsAligned
  <2>2. CASE Leave
    BY <1>2, <2>2, LeaveKeeps DEF OpenOutput
  <2> QED BY <1>2, <2>1, <2>2 DEF OpenOutput
<1>3. CASE PassOver
  <2>1. /\ queue # <<>> /\ queue' = Tail(queue) /\ taken' = taken + 1
        /\ UNCHANGED <<datagrams, refused, unheard, last>> /\ ring' = ring
    BY <1>3 DEF PassOver
  <2>2. Placed(ring)'
    BY <1>0, <2>1
  <2> QED BY <2>1, <2>2, TakeKeeps
<1>4. CASE Play
  <2>1. PICK n \in Lengths : ring' = KeptWithinCap(ring \o Pcm(Head(queue), n))
    BY <1>4 DEF Play, PushPcm
  <2>2. /\ queue # <<>> /\ queue' = Tail(queue) /\ taken' = taken + 1
        /\ UNCHANGED <<datagrams, refused, unheard, last>> /\ n \in Nat
    BY <1>4, AudioAssumption DEF Play
  <2>3. Head(queue) \in Nat /\ \A i \in 1 .. Len(ring) : ring[i].from <= Head(queue)
    BY <2>2, QueueShortens
  <2>4. /\ Placed(KeptWithinCap(ring \o Pcm(Head(queue), n)))
        /\ \A i \in 1 .. Len(KeptWithinCap(ring \o Pcm(Head(queue), n))) :
             LET s == KeptWithinCap(ring \o Pcm(Head(queue), n))[i]
             IN  s.from = Head(queue) \/ \E j \in 1 .. Len(ring) : s.from = ring[j].from
    BY <1>0, <2>2, <2>3, PushKeeps
  <2>5. /\ Placed(ring)'
        /\ \A i \in 1 .. Len(ring') :
             ring'[i].from = Head(queue) \/ \E j \in 1 .. Len(ring) : ring'[i].from = ring[j].from
    BY <2>1, <2>4
  <2> QED BY <2>2, <2>5, TakeKeeps
<1>5. CASE Write
  <2>1. CASE taken < FixtureLimit
    <3>1. /\ queue # <<>> /\ queue' = Tail(queue) /\ taken' = taken + 1
          /\ UNCHANGED <<datagrams, refused, unheard, last>> /\ ring' = ring
      BY <1>5, <2>1 DEF Write
    <3>2. Placed(ring)'
      BY <1>0, <3>1
    <3> QED BY <3>1, <3>2, TakeKeeps
  <2>2. CASE ~(taken < FixtureLimit)
    BY <1>5, <2>2, LeaveKeeps DEF Write
  <2> QED BY <2>1, <2>2
<1>6. CASE \E n \in Callbacks : Callback(n)
  BY <1>6, CallbackKeeps
<1> QED BY <1>1, <1>2, <1>3, <1>4, <1>5, <1>6 DEF Listening

\* Nothing but the queue's and the player's own steps touches the audio path.
LEMMA AudioStepKeeps == AudioInv /\ [StatsNext]_statsVars => AudioInv'
<1> SUFFICES ASSUME AudioInv, [StatsNext]_statsVars PROVE AudioInv'
  OBVIOUS
<1>1. CASE Offer
  BY <1>1, OfferKeeps
<1>2. CASE Listening
  BY <1>2, ListeningKeeps
<1>3. CASE UNCHANGED audioVars
  BY <1>3 DEF audioVars, AudioInv, AudioAccounted, ChannelsAligned
<1>4. Offer \/ Listening \/ UNCHANGED audioVars
  <2>1. CASE StatsNext
    <3>1. CASE FirstPacket \/ LastPacket \/ FrameLost \/ AudioDatagram \/ Submit \/ NothingOut
      BY <3>1 DEF FirstPacket, LastPacket, FrameLost, AudioDatagram, Submit, NothingOut
    <3>2. CASE \E pts \in {s.pts : s \in Range(submitted)} \cup {LostStamp} : FrameOut(pts)
      BY <3>2 DEF FrameOut
    <3>3. CASE RecordFrame \/ Refresh \/ Redraw \/ TickReporter \/ EmbedderResets \/ Tick
      BY <3>3 DEF RecordFrame, Refresh, Redraw, TickReporter, EmbedderResets, Tick
    <3>4. CASE Listening
      BY <3>4
    <3> QED BY <2>1, <3>1, <3>2, <3>3, <3>4 DEF StatsNext
  <2>2. CASE UNCHANGED statsVars
    BY <2>2 DEF statsVars
  <2> QED BY <2>1, <2>2
<1> QED BY <1>1, <1>2, <1>3, <1>4

LEMMA AudioInvHolds == StatsSpec => []AudioInv
<1>1. StatsInit => AudioInv
  <2> SUFFICES ASSUME StatsInit PROVE AudioInv
    OBVIOUS
  <2>1. /\ datagrams = 0 /\ refused = 0 /\ unheard = 0 /\ taken = 0 /\ last = 0
        /\ queue = <<>> /\ ring = <<>>
    BY DEF StatsInit, AudioInit
  <2>2. /\ <<>> \in Seq(Nat) /\ <<>> \in Seq([from : Nat, channel : {"left", "right"}])
        /\ Len(<<>>) = 0 /\ 0 % 2 = 0 /\ DOMAIN <<>> = {}
    OBVIOUS
  <2>3. AudioAccounted
    BY <2>1, <2>2, AudioAssumption DEF AudioAccounted
  <2>4. ChannelsAligned
    BY <2>1, <2>2 DEF ChannelsAligned
  <2>5. \A i \in 1 .. 0 : FALSE
    OBVIOUS
  <2> QED BY <2>1, <2>2, <2>3, <2>4, <2>5 DEF AudioInv
<1> QED BY <1>1, AudioStepKeeps, PTL DEF StatsSpec

\* Every datagram is waiting, taken, counted as dropped, or was for nobody, however long
\* the client runs and whenever its reader comes and goes (Pipeline::stream's try_send).
THEOREM AudioIsAccounted == StatsSpec => []AudioAccounted
<1>1. AudioInv => AudioAccounted
  BY DEF AudioInv
<1> QED BY <1>1, AudioInvHolds, PTL

\* Left stays left and right stays right, in the order of the datagrams, for every even
\* size of the ring, every size of a packet and of the device's callback (CpalPlayer).
THEOREM ChannelsStayAligned == StatsSpec => []ChannelsAligned
<1>1. AudioInv => ChannelsAligned
  BY DEF AudioInv
<1> QED BY <1>1, AudioInvHolds, PTL

-----------------------------------------------------------------------------
(* The frames remembered for presentation. *)

LEMMA CoverEmpty == ASSUME NEW d, NEW sum PROVE HasCover(<<>>, d, sum)
<1>1. Len(<<>>) = 0 /\ 1 .. 0 = {}
  OBVIOUS
<1>2. [i \in {} |-> 0] \in [{} -> 0 .. sum]
  OBVIOUS
<1> QED BY <1>1, <1>2 DEF HasCover

\* A frame is recorded.
LEMMA CoverAppend ==
  ASSUME NEW r \in Seq(Entry), NEW d \in Nat, NEW sum \in Nat, d <= sum, HasCover(r, d, sum),
         NEW e \in Entry, Span(e) \in Nat
  PROVE  HasCover(Append(r, e), d, sum + Span(e))
<1> DEFINE n == Len(r)
           t == Append(r, e)
<1>1. n \in Nat
  BY LenProperties
<1>2. t \in Seq(Entry) /\ Len(t) = n + 1 /\ t[n + 1] = e /\ \A i \in 1 .. n : t[i] = r[i]
  BY AppendProperties
<1>3. PICK c \in [1 .. n -> 0 .. sum] :
        \A i \in 1 .. n : d + Span(r[i]) <= c[i] /\ \A j \in 1 .. i - 1 : c[j] + Span(r[i]) <= c[i]
  BY DEF HasCover
<1> HIDE DEF n, t
<1> DEFINE s == sum + Span(e)
           b == [i \in 1 .. n + 1 |-> IF i \in 1 .. n THEN c[i] ELSE s]
<1>4. s \in Nat /\ s >= sum /\ s = sum + Span(e)
  OBVIOUS
<1> HIDE DEF s
<1>5. /\ b \in [1 .. n + 1 -> 0 .. s] /\ b[n + 1] = s
      /\ \A i \in 1 .. n : b[i] = c[i] /\ c[i] \in 0 .. sum
  <2>1. \A i \in 1 .. n : c[i] \in 0 .. sum /\ c[i] \in 0 .. s
    BY <1>4
  <2>2. n + 1 \notin 1 .. n /\ n + 1 \in 1 .. n + 1 /\ s \in 0 .. s /\ \A i \in 1 .. n : i \in 1 .. n + 1
    BY <1>1, <1>4
  <2> QED BY <2>1, <2>2
<1> HIDE DEF b
<1>6. ASSUME NEW i \in 1 .. n + 1
      PROVE  d + Span(t[i]) <= b[i] /\ \A j \in 1 .. i - 1 : b[j] + Span(t[i]) <= b[i]
  <2>1. CASE i \in 1 .. n
    <3>1. t[i] = r[i] /\ b[i] = c[i] /\ \A j \in 1 .. i - 1 : j \in 1 .. n /\ b[j] = c[j]
      BY <1>1, <1>2, <1>5, <2>1
    <3> QED BY <1>3, <2>1, <3>1
  <2>2. CASE i = n + 1
    <3>1. t[i] = e /\ b[i] = s /\ \A j \in 1 .. i - 1 : j \in 1 .. n /\ b[j] = c[j] /\ c[j] \in 0 .. sum
      BY <1>1, <1>2, <1>5, <2>2
    <3>2. d + Span(e) <= s
      BY <1>4
    <3>3. \A j \in 1 .. i - 1 : b[j] + Span(e) <= s
      BY <1>4, <3>1
    <3> QED BY <3>1, <3>2, <3>3
  <2> QED BY <1>1, <2>1, <2>2
<1> QED BY <1>2, <1>5, <1>6 DEF HasCover, t, s

\* The k oldest are given up.
LEMMA CoverSuffix ==
  ASSUME NEW r \in Seq(Entry), NEW d \in Nat, NEW sum \in Nat, HasCover(r, d, sum),
         NEW k \in 0 .. Len(r)
  PROVE  HasCover(SubSeq(r, k + 1, Len(r)), d, sum)
<1> DEFINE n == Len(r)
           t == SubSeq(r, k + 1, Len(r))
<1>1. n \in Nat /\ k \in 0 .. n
  BY LenProperties
<1>2. t \in Seq(Entry) /\ Len(t) = n - k /\ \A i \in 1 .. n - k : t[i] = r[k + i]
  BY SuffixFacts
<1>3. PICK c \in [1 .. n -> 0 .. sum] :
        \A i \in 1 .. n : d + Span(r[i]) <= c[i] /\ \A j \in 1 .. i - 1 : c[j] + Span(r[i]) <= c[i]
  BY DEF HasCover
<1> HIDE DEF n, t
<1> DEFINE b == [i \in 1 .. n - k |-> c[k + i]]
<1>4. \A i \in 1 .. n - k : k + i \in 1 .. n /\ k \in Nat /\ \A j \in 1 .. i - 1 : j \in 1 .. n - k /\ k + j \in 1 .. (k + i) - 1
  BY <1>1
<1>5. b \in [1 .. n - k -> 0 .. sum] /\ \A i \in 1 .. n - k : b[i] = c[k + i]
  BY <1>4
<1> HIDE DEF b
<1>6. ASSUME NEW i \in 1 .. n - k
      PROVE  d + Span(t[i]) <= b[i] /\ \A j \in 1 .. i - 1 : b[j] + Span(t[i]) <= b[i]
  <2>1. k + i \in 1 .. n /\ t[i] = r[k + i] /\ b[i] = c[k + i]
    BY <1>2, <1>4, <1>5
  <2>2. d + Span(t[i]) <= b[i]
    BY <1>3, <2>1
  <2>3. ASSUME NEW j \in 1 .. i - 1 PROVE b[j] + Span(t[i]) <= b[i]
    <3>1. k + j \in 1 .. (k + i) - 1 /\ b[j] = c[k + j]
      BY <1>4, <1>5
    <3> QED BY <1>3, <2>1, <3>1
  <2> QED BY <2>2, <2>3
<1> QED BY <1>2, <1>5, <1>6 DEF HasCover, t

\* One is presented: the ones behind it are still covered.
LEMMA CoverPresents ==
  ASSUME NEW r \in Seq(Entry), NEW d \in Nat, NEW sum \in Nat, HasCover(r, d, sum),
         NEW k \in 1 .. Len(r)
  PROVE  d + Span(r[k]) <= sum /\ HasCover(SubSeq(r, k + 1, Len(r)), d + Span(r[k]), sum)
<1> DEFINE n == Len(r)
           t == SubSeq(r, k + 1, Len(r))
           x == Span(r[k])
<1>1. n \in Nat /\ k \in 0 .. n /\ k \in 1 .. n
  BY LenProperties
<1>2. t \in Seq(Entry) /\ Len(t) = n - k /\ \A i \in 1 .. n - k : t[i] = r[k + i]
  <2>1. k \in 0 .. Len(r)
    BY <1>1
  <2> QED BY <2>1, SuffixFacts
<1>3. PICK c \in [1 .. n -> 0 .. sum] :
        \A i \in 1 .. n : d + Span(r[i]) <= c[i] /\ \A j \in 1 .. i - 1 : c[j] + Span(r[i]) <= c[i]
  BY DEF HasCover
<1>9. \A i \in 1 .. n : Span(r[i]) \in Int
  <2>1. \A i \in 1 .. n : r[i] \in Entry
    BY ElementOfSeq
  <2>2. \A e \in Entry : e.published - e.first \in Int
    <3> SUFFICES ASSUME NEW e \in Entry PROVE e.published - e.first \in Int
      OBVIOUS
    <3>1. e.published \in Nat /\ e.first \in Nat
      BY DEF Entry
    <3> QED BY <3>1
  <2> QED BY <2>1, <2>2 DEF Span
<1>0. x \in Int /\ x = Span(r[k])
  BY <1>1, <1>9
<1> HIDE DEF n, t, x
<1> DEFINE b == [i \in 1 .. n - k |-> c[k + i]]
<1>4. \A i \in 1 .. n - k : k + i \in 1 .. n /\ k \in 1 .. (k + i) - 1 /\ \A j \in 1 .. i - 1 : j \in 1 .. n - k /\ k + j \in 1 .. (k + i) - 1
  BY <1>1
<1>5. b \in [1 .. n - k -> 0 .. sum] /\ \A i \in 1 .. n - k : b[i] = c[k + i]
  BY <1>4
<1> HIDE DEF b
<1>6. d + x <= c[k] /\ c[k] \in 0 .. sum
  BY <1>0, <1>1, <1>3
<1>7. ASSUME NEW i \in 1 .. n - k
      PROVE  (d + x) + Span(t[i]) <= b[i] /\ \A j \in 1 .. i - 1 : b[j] + Span(t[i]) <= b[i]
  <2>1. k + i \in 1 .. n /\ t[i] = r[k + i] /\ b[i] = c[k + i] /\ b[i] \in 0 .. sum
    BY <1>2, <1>4, <1>5
  <2>2. (d + x) + Span(t[i]) <= b[i]
    <3> DEFINE y == Span(t[i])
    <3>1. c[k] + Span(r[k + i]) <= c[k + i]
      BY <1>3, <1>4, <2>1
    <3>2. y \in Int /\ c[k] + y <= b[i]
      BY <1>9, <2>1, <3>1
    <3> HIDE DEF y
    <3>3. (d + x) + y <= b[i]
      BY <1>0, <1>6, <2>1, <3>2, SMTT(30)
    <3> QED BY <3>3 DEF y
  <2>3. ASSUME NEW j \in 1 .. i - 1 PROVE b[j] + Span(t[i]) <= b[i]
    <3>1. k + j \in 1 .. (k + i) - 1 /\ b[j] = c[k + j]
      BY <1>4, <1>5
    <3> QED BY <1>3, <2>1, <3>1
  <2> QED BY <2>2, <2>3
<1>8. d + x <= sum
  BY <1>0, <1>6
<1> QED BY <1>2, <1>5, <1>7, <1>8 DEF HasCover, t, x

-----------------------------------------------------------------------------
(* A series with a sample more. *)

LEMMA WithFacts ==
  ASSUME NEW m \in SeriesType, NEW s \in Series, NEW span \in Nat
  PROVE  /\ With(m, s, span) \in SeriesType
         /\ With(m, s, span)[s].count = m[s].count + 1
         /\ With(m, s, span)[s].sum = m[s].sum + span
         /\ \A o \in Series \ {s} : With(m, s, span)[o] = m[o]
<1> DEFINE x == [count |-> m[s].count + 1, sum |-> m[s].sum + span]
<1>1. m[s] \in [count : Nat, sum : Nat]
  BY DEF SeriesType
<1>2. x \in [count : Nat, sum : Nat] /\ x.count = m[s].count + 1 /\ x.sum = m[s].sum + span
  BY <1>1
<1>3. (IF span > 0 THEN span ELSE 0) = span
  OBVIOUS
<1>4. With(m, s, span) = [m EXCEPT ![s] = x]
  BY <1>3 DEF With
<1> HIDE DEF x
<1> QED BY <1>2, <1>4 DEF SeriesType

\* The timeline of a frame, when its stamps are in order.
LEMMA TimelineFacts ==
  ASSUME NEW m \in SeriesType, NEW src \in Submission,
         output.decoded \in Nat, output.published = output.decoded,
         src.first <= src.complete, src.complete <= src.at, src.at <= output.decoded
  PROVE  LET t == Timeline(m, src)
         IN  /\ t \in SeriesType
             /\ t["present"] = m["present"] /\ t["total"] = m["total"]
             /\ t["receive"].count = m["receive"].count + 1
             /\ t["queue"].count = m["queue"].count + 1
             /\ t["decode"].count = m["decode"].count + 1
             /\ t["pipeline"].count = m["pipeline"].count + 1
             /\ t["receive"].sum = m["receive"].sum + (src.complete - src.first)
             /\ t["queue"].sum = m["queue"].sum + (src.at - src.complete)
             /\ t["decode"].sum = m["decode"].sum + (output.decoded - src.at)
             /\ t["pipeline"].sum = m["pipeline"].sum + (output.published - src.first)
<1> DEFINE dec == output.decoded - src.at
           rec == src.complete - src.first
           que == src.at - src.complete
           pip == output.published - src.first
           a == With(m, "host", 0)
           b == With(a, "decode", dec)
           c == With(b, "receive", rec)
           d == With(c, "queue", que)
           e == With(d, "pipeline", pip)
<1>0. dec \in Nat /\ rec \in Nat /\ que \in Nat /\ pip \in Nat /\ 0 \in Nat
  BY DEF Submission
<1>7. Timeline(m, src) = e
  BY DEF Timeline
<1>s. {"host", "decode", "receive", "queue", "pipeline", "present", "total"} \subseteq Series
  BY DEF Series
<1> HIDE DEF dec, rec, que, pip
<1>1. /\ a \in SeriesType
      /\ \A o \in Series \ {"host"} : a[o] = m[o]
  <2>1. "host" \in Series
    BY <1>s
  <2> QED BY <1>0, <2>1, WithFacts
<1> HIDE DEF a
<1>2. /\ b \in SeriesType
      /\ b["decode"].count = a["decode"].count + 1
      /\ b["decode"].sum = a["decode"].sum + dec
      /\ \A o \in Series \ {"decode"} : b[o] = a[o]
  <2>1. "decode" \in Series
    BY <1>s
  <2> QED BY <1>0, <1>1, <2>1, WithFacts
<1> HIDE DEF b
<1>3. /\ c \in SeriesType
      /\ c["receive"].count = b["receive"].count + 1
      /\ c["receive"].sum = b["receive"].sum + rec
      /\ \A o \in Series \ {"receive"} : c[o] = b[o]
  <2>1. "receive" \in Series
    BY <1>s
  <2> QED BY <1>0, <1>2, <2>1, WithFacts, SMTT(30)
<1> HIDE DEF c
<1>4. /\ d \in SeriesType
      /\ d["queue"].count = c["queue"].count + 1
      /\ d["queue"].sum = c["queue"].sum + que
      /\ \A o \in Series \ {"queue"} : d[o] = c[o]
  <2>1. "queue" \in Series
    BY <1>s
  <2> QED BY <1>0, <1>3, <2>1, WithFacts, SMTT(30)
<1> HIDE DEF d
<1>5. /\ e \in SeriesType
      /\ e["pipeline"].count = d["pipeline"].count + 1
      /\ e["pipeline"].sum = d["pipeline"].sum + pip
      /\ \A o \in Series \ {"pipeline"} : e[o] = d[o]
  <2>1. "pipeline" \in Series
    BY <1>s
  <2> QED BY <1>0, <1>4, <2>1, WithFacts, SMTT(30)
<1> HIDE DEF e
<1>6. /\ e["present"] = m["present"] /\ e["total"] = m["total"]
      /\ e["receive"] = c["receive"] /\ e["queue"] = d["queue"] /\ e["decode"] = b["decode"]
      /\ d["pipeline"] = m["pipeline"] /\ c["queue"] = m["queue"] /\ b["receive"] = m["receive"]
      /\ a["decode"] = m["decode"]
  BY <1>1, <1>2, <1>3, <1>4, <1>5 DEF Series
<1> QED BY <1>2, <1>3, <1>4, <1>5, <1>6, <1>7 DEF dec, rec, que, pip

-----------------------------------------------------------------------------
(* What a step does to the measurements. *)

LEMMA StatsFacts ==
  ASSUME StatsInv
  PROVE  /\ Len(submitted) \in Nat /\ submitted \in Seq(Submission)
         /\ \A i \in 1 .. Len(submitted) : submitted[i] \in Submission
         /\ Len(st.recent) \in Nat /\ st.recent \in Seq(Entry)
         /\ \A i \in 1 .. Len(st.recent) : st.recent[i] \in Entry
         /\ st \in StatsRecord /\ st.series \in SeriesType
         /\ \A s \in Series : Count(s) \in Nat /\ Sum(s) \in Nat
         /\ \A i \in 1 .. Len(submitted) :
              /\ submitted[i].pts \in Nat /\ submitted[i].first \in Nat
              /\ submitted[i].complete \in Nat /\ submitted[i].at \in Nat
         /\ \A i \in 1 .. Len(st.recent) :
              st.recent[i].pts \in Int /\ st.recent[i].first \in Nat /\ st.recent[i].published \in Nat
<1>1. submitted \in Seq(Submission) /\ st \in StatsRecord
  BY DEF StatsInv, StatsTyped
<1>2. st.recent \in Seq(Entry) /\ st.series \in SeriesType
  BY <1>1 DEF StatsRecord
<1>3. /\ Len(submitted) \in Nat /\ \A i \in 1 .. Len(submitted) : submitted[i] \in Submission
      /\ Len(st.recent) \in Nat /\ \A i \in 1 .. Len(st.recent) : st.recent[i] \in Entry
  BY <1>1, <1>2, LenProperties, ElementOfSeq
<1>4. \A s \in Series : Count(s) \in Nat /\ Sum(s) \in Nat
  BY <1>2 DEF SeriesType, Count, Sum
<1>5. \A i \in 1 .. Len(submitted) :
        /\ submitted[i].pts \in Nat /\ submitted[i].first \in Nat
        /\ submitted[i].complete \in Nat /\ submitted[i].at \in Nat
  BY <1>3 DEF Submission
<1>6. \A i \in 1 .. Len(st.recent) :
        st.recent[i].pts \in Int /\ st.recent[i].first \in Nat /\ st.recent[i].published \in Nat
  BY <1>3 DEF Entry
<1> QED BY <1>1, <1>2, <1>3, <1>4, <1>5, <1>6

LEMMA TimelineSame ==
  ASSUME TimelineInv, st'.series = st.series, st'.recent = st.recent, st'.decoded = st.decoded
  PROVE  TimelineInv'
<1>1. Unpresented' = Unpresented /\ Sum("pipeline")' = Sum("pipeline")
  BY DEF Unpresented, Sum
<1>2. HasCover(st.recent, Unpresented, Sum("pipeline"))'
  BY <1>1 DEF TimelineInv
<1>3. TimelineAdds'
  BY DEF TimelineInv, TimelineAdds, Count, Sum
<1> QED BY <1>2, <1>3 DEF TimelineInv

LEMMA FirstPacketKeeps == ASSUME StatsInv, FirstPacket PROVE StatsInv'
<1>1. /\ frames' = frames + 1 /\ stage' = "receive"
      /\ meta' = [pts |-> frames + 1, first |-> clock, complete |-> clock]
      /\ UNCHANGED <<clock, submitted, output, lost, st, atReset, refreshed>>
  BY DEF FirstPacket, truthVars
<1>2. frames \in Nat /\ clock \in Nat
  BY DEF StatsInv, StatsTyped
<1>3. StatsTyped'
  BY <1>1, <1>2 DEF StatsInv, StatsTyped
<1>4. StampsInOrder'
  BY <1>1, <1>2 DEF StatsInv, StampsInOrder
<1>5. FramesInOrder'
  <2>1. /\ \A i \in 1 .. Len(st.recent) : st.recent[i].pts <= frames /\ st.recent[i].pts \in Int
        /\ \A i \in 1 .. Len(submitted) : submitted[i].pts <= frames /\ submitted[i].pts \in Int
    <3>1. /\ \A i \in 1 .. Len(st.recent) : st.recent[i].pts <= frames
          /\ \A i \in 1 .. Len(submitted) : submitted[i].pts <= frames
      BY DEF StatsInv, FramesInOrder
    <3> QED BY <3>1, StatsFacts
  <2>2. /\ \A i \in 1 .. Len(st.recent) : st.recent[i].pts <= frames + 1 /\ st.recent[i].pts < frames + 1
        /\ \A i \in 1 .. Len(submitted) : submitted[i].pts <= frames + 1 /\ submitted[i].pts < frames + 1
    BY <1>2, <2>1
  <2>3. /\ \A i, j \in 1 .. Len(submitted) : i < j => submitted[i].pts < submitted[j].pts
        /\ \A i, j \in 1 .. Len(st.recent) : i < j => st.recent[i].pts < st.recent[j].pts
        /\ \A i \in 1 .. Len(st.recent), j \in 1 .. Len(submitted) : st.recent[i].pts < submitted[j].pts
    BY DEF StatsInv, FramesInOrder
  <2>4. meta'.pts = frames' /\ stage' # "decode" /\ stage' # "publish"
    BY <1>1
  <2> QED BY <1>1, <2>2, <2>3, <2>4 DEF FramesInOrder
<1>6. TimelineInv'
  BY <1>1, TimelineSame DEF StatsInv
<1>7. CounterInv'
  BY <1>1 DEF StatsInv, CounterInv
<1> QED BY <1>3, <1>4, <1>5, <1>6, <1>7 DEF StatsInv

LEMMA LastPacketKeeps == ASSUME StatsInv, LastPacket PROVE StatsInv'
<1>1. /\ stage = "receive" /\ stage' = "complete" /\ meta' = [meta EXCEPT !.complete = clock]
      /\ UNCHANGED <<clock, frames, submitted, output, lost, st, atReset, refreshed>>
  BY DEF LastPacket, truthVars
<1>2. /\ meta \in [pts : Nat, first : Nat, complete : Nat] /\ clock \in Nat
      /\ meta.first <= meta.complete /\ meta.complete <= clock
  BY DEF StatsInv, StatsTyped, StampsInOrder
<1>3. meta' \in [pts : Nat, first : Nat, complete : Nat] /\ meta'.pts = meta.pts /\ meta'.first = meta.first /\ meta'.complete = clock
  BY <1>1, <1>2
<1>4. StatsTyped'
  BY <1>1, <1>3 DEF StatsInv, StatsTyped
<1>5. StampsInOrder'
  BY <1>1, <1>2, <1>3 DEF StatsInv, StampsInOrder
<1>6. FramesInOrder'
  BY <1>1, <1>3 DEF StatsInv, FramesInOrder
<1>7. TimelineInv'
  BY <1>1, TimelineSame DEF StatsInv
<1>8. CounterInv'
  BY <1>1 DEF StatsInv, CounterInv
<1> QED BY <1>4, <1>5, <1>6, <1>7, <1>8 DEF StatsInv

\* Steps that count a loss, or take none of the client's own state.
LEMMA OthersKeep ==
  ASSUME StatsInv, lost' \in {lost, lost + 1}, clock' \in {clock, clock + 1},
         UNCHANGED <<frames, stage, meta, submitted, output, st, atReset, refreshed>>
  PROVE  StatsInv'
<1>1. clock \in Nat /\ lost \in Nat /\ meta \in [pts : Nat, first : Nat, complete : Nat]
      /\ output \in [pts : Int, source : SUBSET Submission, decoded : Nat, published : Nat]
      /\ st \in StatsRecord
  BY DEF StatsInv, StatsTyped
<1>2. StatsTyped'
  BY <1>1 DEF StatsInv, StatsTyped
<1>3. StampsInOrder'
  <2>1. \A x \in Nat : x <= clock => x <= clock'
    BY <1>1
  <2>2. /\ \A i \in 1 .. Len(submitted) : submitted[i].at \in Nat
        /\ \A i \in 1 .. Len(st.recent) : st.recent[i].published \in Nat
        /\ meta.complete \in Nat /\ output.published \in Nat
    BY <1>1, StatsFacts
  <2> QED BY <2>1, <2>2 DEF StatsInv, StampsInOrder
<1>4. FramesInOrder'
  BY DEF StatsInv, FramesInOrder
<1>5. TimelineInv'
  BY TimelineSame DEF StatsInv
<1>6. CounterInv'
  <2>1. st.lost \in Nat
    BY <1>1 DEF StatsRecord
  <2> QED BY <1>1, <2>1 DEF StatsInv, CounterInv
<1> QED BY <1>2, <1>3, <1>4, <1>5, <1>6 DEF StatsInv

\* The newest frame joins the submissions.
LEMMA SubmitKeeps == ASSUME StatsInv, Submit PROVE StatsInv'
<1> DEFINE k == IF Len(submitted) >= SubmittedLimit THEN 1 ELSE 0
           r == SubSeq(submitted, k + 1, Len(submitted))
           e == [pts |-> meta.pts, first |-> meta.first, complete |-> meta.complete, at |-> clock]
           t == Append(r, e)
<1>0. /\ Len(submitted) \in Nat /\ submitted \in Seq(Submission) /\ clock \in Nat /\ frames \in Nat
      /\ meta \in [pts : Nat, first : Nat, complete : Nat]
      /\ meta.first <= meta.complete /\ meta.complete <= clock
  BY StatsFacts DEF StatsInv, StatsTyped, StampsInOrder
<1>1. k \in 0 .. Len(submitted)
  BY <1>0, StatsAssumption
<1>2. (IF Len(submitted) >= SubmittedLimit THEN Tail(submitted) ELSE submitted) = r
  <2>1. CASE Len(submitted) >= SubmittedLimit
    <3>1. submitted # <<>>
      BY <1>0, <2>1, StatsAssumption
    <3>2. Tail(submitted) = SubSeq(submitted, 2, Len(submitted))
      BY <1>0, <3>1, TailIsSubSeq
    <3> QED BY <2>1, <3>2
  <2>2. CASE ~(Len(submitted) >= SubmittedLimit)
    BY <1>0, <2>2, SubSeqFull
  <2> QED BY <2>1, <2>2
<1>3. /\ stage = "complete" /\ stage' = "decode" /\ submitted' = t
      /\ UNCHANGED <<clock, frames, meta, output, lost, st, atReset, refreshed>>
  BY <1>2 DEF Submit, truthVars
<1>4. e \in Submission /\ e.pts = meta.pts /\ e.first = meta.first /\ e.complete = meta.complete /\ e.at = clock
  BY <1>0 DEF Submission
<1> HIDE DEF k
<1>5. /\ r \in Seq(Submission) /\ Len(r) = Len(submitted) - k
      /\ \A i \in 1 .. Len(submitted) - k : r[i] = submitted[k + i]
  BY <1>0, <1>1, SuffixFacts
<1> HIDE DEF r, e
<1>6. /\ t \in Seq(Submission) /\ Len(t) = Len(r) + 1 /\ t[Len(r) + 1] = e
      /\ \A i \in 1 .. Len(r) : t[i] = r[i]
  BY <1>4, <1>5, AppendProperties
<1> HIDE DEF t
<1>7. Len(r) \in Nat /\ k \in Nat
  BY <1>0, <1>1, <1>5
<1>8. \A i \in 1 .. Len(t) :
        (i = Len(r) + 1 /\ t[i] = e) \/ (i \in 1 .. Len(r) /\ k + i \in 1 .. Len(submitted) /\ t[i] = submitted[k + i])
  <2> TAKE i \in 1 .. Len(t)
  <2>1. CASE i = Len(r) + 1
    BY <1>6, <2>1
  <2>2. CASE i # Len(r) + 1
    <3>1. i \in 1 .. Len(r)
      BY <1>6, <1>7, <2>2
    <3>2. k + i \in 1 .. Len(submitted) /\ i \in 1 .. Len(submitted) - k
      BY <1>0, <1>1, <1>5, <1>7, <3>1
    <3>3. t[i] = r[i] /\ r[i] = submitted[k + i]
      BY <1>5, <1>6, <3>1, <3>2
    <3> QED BY <3>1, <3>2, <3>3
  <2> QED BY <2>1, <2>2
<1>9. StatsTyped'
  BY <1>3, <1>6 DEF StatsInv, StatsTyped
<1>10. StampsInOrder'
  <2>1. \A i \in 1 .. Len(t) : t[i].first <= t[i].complete /\ t[i].complete <= t[i].at /\ t[i].at <= clock
    BY <1>0, <1>4, <1>8, SMTT(30) DEF StatsInv, StampsInOrder
  <2> QED BY <1>3, <2>1 DEF StatsInv, StampsInOrder
<1>11. FramesInOrder'
  <2>1. /\ meta.pts = frames
        /\ \A i \in 1 .. Len(st.recent) : st.recent[i].pts < frames
        /\ \A i \in 1 .. Len(submitted) : submitted[i].pts < frames
        /\ \A i, j \in 1 .. Len(submitted) : i < j => submitted[i].pts < submitted[j].pts
        /\ \A i \in 1 .. Len(st.recent), j \in 1 .. Len(submitted) : st.recent[i].pts < submitted[j].pts
    BY <1>3 DEF StatsInv, FramesInOrder
  <2>2. \A i, j \in 1 .. Len(t) : i < j => t[i].pts < t[j].pts
    <3> SUFFICES ASSUME NEW i \in 1 .. Len(t), NEW j \in 1 .. Len(t), i < j PROVE t[i].pts < t[j].pts
      OBVIOUS
    <3>1. i \in 1 .. Len(r) /\ k + i \in 1 .. Len(submitted) /\ t[i] = submitted[k + i]
      BY <1>6, <1>7, <1>8
    <3>2. CASE j = Len(r) + 1 /\ t[j] = e
      BY <1>4, <2>1, <3>1, <3>2
    <3>3. CASE k + j \in 1 .. Len(submitted) /\ t[j] = submitted[k + j]
      <4>1. k + i < k + j
        BY <1>7
      <4> QED BY <2>1, <3>1, <3>3, <4>1
    <3> QED BY <1>8, <3>2, <3>3
  <2>3. \A i \in 1 .. Len(st.recent), j \in 1 .. Len(t) : st.recent[i].pts < t[j].pts
    BY <1>4, <1>8, <2>1
  <2>4. \A i \in 1 .. Len(t) : t[i].pts <= frames
    <3>1. \A i \in 1 .. Len(submitted) : submitted[i].pts <= frames
      BY DEF StatsInv, FramesInOrder
    <3>2. e.pts <= frames
      BY <1>0, <1>4, <2>1
    <3> QED BY <1>8, <3>1, <3>2
  <2>5. t # <<>>
    BY <1>6, <1>7
  <2> QED BY <1>3, <2>2, <2>3, <2>4, <2>5 DEF StatsInv, FramesInOrder
<1>12. TimelineInv'
  BY <1>3, TimelineSame DEF StatsInv
<1>13. CounterInv'
  BY <1>3 DEF StatsInv, CounterInv
<1> QED BY <1>9, <1>10, <1>11, <1>12, <1>13 DEF StatsInv

\* The decoder fails, or keeps what it was given.
LEMMA NothingOutKeeps == ASSUME StatsInv, NothingOut PROVE StatsInv'
<1>0. /\ Len(submitted) \in Nat /\ submitted \in Seq(Submission) /\ submitted # <<>> /\ st \in StatsRecord
      /\ stage = "decode" /\ stage' = "wait"
      /\ UNCHANGED <<clock, frames, meta, output, lost, atReset, refreshed>>
  BY StatsFacts DEF NothingOut, truthVars, StatsInv, FramesInOrder
<1>1. /\ submitted' \in Seq(Submission) /\ Len(submitted') <= Len(submitted) /\ Len(submitted') \in Nat
      /\ \A i \in 1 .. Len(submitted') : i \in 1 .. Len(submitted) /\ submitted'[i] = submitted[i]
  <2>1. CASE submitted' = Front(submitted)
    <3>1. /\ Front(submitted) \in Seq(Submission) /\ Len(Front(submitted)) = Len(submitted) - 1
          /\ \A i \in 1 .. Len(submitted) - 1 : Front(submitted)[i] = submitted[i]
      BY <1>0, FrontFacts
    <3>2. Len(submitted) # 0
      BY <1>0, EmptySeq
    <3> QED BY <1>0, <2>1, <3>1, <3>2
  <2>2. CASE submitted' = submitted
    BY <1>0, <2>2
  <2> QED BY <2>1, <2>2 DEF NothingOut
<1>2. /\ st' \in StatsRecord /\ st'.series = st.series /\ st'.recent = st.recent /\ st'.decoded = st.decoded
      /\ st'.lost = st.lost /\ st'.base = st.base
  <2>1. CASE st' = [st EXCEPT !.errors = @ + 1]
    <3> DEFINE x == st.errors + 1
    <3>1. x \in Nat
      BY <1>0 DEF StatsRecord
    <3>2. st' = [st EXCEPT !.errors = x]
      BY <2>1
    <3> HIDE DEF x
    <3>3. st' \in StatsRecord
      BY <1>0, <3>1, <3>2 DEF StatsRecord
    <3> QED BY <1>0, <3>2, <3>3 DEF StatsRecord
  <2>2. CASE st' = st
    BY <1>0, <2>2
  <2> QED BY <2>1, <2>2 DEF NothingOut
<1>3. StatsTyped'
  BY <1>0, <1>1, <1>2 DEF StatsInv, StatsTyped
<1>4. StampsInOrder'
  BY <1>0, <1>1, <1>2 DEF StatsInv, StampsInOrder
<1>5. FramesInOrder'
  BY <1>0, <1>1, <1>2 DEF StatsInv, FramesInOrder
<1>6. TimelineInv'
  BY <1>2, TimelineSame DEF StatsInv
<1>7. CounterInv'
  BY <1>0, <1>2 DEF StatsInv, CounterInv
<1> QED BY <1>3, <1>4, <1>5, <1>6, <1>7 DEF StatsInv

LEMMA NotBeforeFacts ==
  ASSUME NEW pts, submitted \in Seq(Submission)
  PROVE  \E k \in 0 .. Len(submitted) :
           /\ NotBefore(pts) \in Seq(Submission) /\ Len(NotBefore(pts)) = Len(submitted) - k
           /\ \A i \in 1 .. Len(submitted) - k : NotBefore(pts)[i] = submitted[k + i]
<1> DEFINE I == {i \in 1 .. Len(submitted) : submitted[i].pts >= pts}
           first == IF I # {} THEN Min(I) ELSE 0
           rest == NotBefore(pts)
<1>0. Len(submitted) \in Nat
  BY LenProperties
<1>1. rest = IF first = 0 THEN <<>> ELSE SubSeq(submitted, first, Len(submitted))
  BY DEF NotBefore, SelectInSeq
<1>2. first \in 0 .. Len(submitted)
  <2>1. CASE I # {}
    <3>1. I \in SUBSET (1 .. Len(submitted))
      OBVIOUS
    <3>2. first = Min(I)
      BY <2>1
    <3> HIDE DEF I, first
    <3>3. Min(I) \in I
      BY <1>0, <2>1, <3>1, LeastPosition
    <3>4. first \in 1 .. Len(submitted)
      BY <3>1, <3>2, <3>3
    <3> QED BY <1>0, <3>4
  <2>2. CASE I = {}
    BY <1>0, <2>2
  <2> QED BY <2>1, <2>2
<1> HIDE DEF I, first, rest
<1>3. CASE first = 0
  <2>1. rest = <<>> /\ <<>> \in Seq(Submission) /\ Len(<<>>) = 0
    BY <1>1, <1>3
  <2>2. Len(submitted) \in 0 .. Len(submitted) /\ Len(submitted) - Len(submitted) = 0 /\ 1 .. 0 = {}
    BY <1>0
  <2> QED BY <2>1, <2>2 DEF rest
<1>4. CASE first # 0
  <2> DEFINE k == first - 1
  <2>1. k \in 0 .. Len(submitted) /\ k + 1 = first
    BY <1>0, <1>2, <1>4
  <2> HIDE DEF k
  <2>2. rest = SubSeq(submitted, k + 1, Len(submitted))
    BY <1>1, <1>4, <2>1
  <2> QED BY <2>1, <2>2, SuffixFacts DEF rest
<1> QED BY <1>3, <1>4

\* The decoder gives a frame.
LEMMA FrameOutKeeps == ASSUME StatsInv, NEW pts \in Int, FrameOut(pts) PROVE StatsInv'
<1> DEFINE rest  == NotBefore(pts)
           found == rest # <<>> /\ Head(rest).pts = pts
<1>0. /\ Len(submitted) \in Nat /\ submitted \in Seq(Submission) /\ clock \in Nat /\ frames \in Nat
      /\ st \in StatsRecord
  BY StatsFacts DEF StatsInv, StatsTyped
<1>1. /\ stage = "decode" /\ stage' = "publish"
      /\ submitted' = (IF found THEN Tail(rest) ELSE rest)
      /\ output' = [pts |-> pts, source |-> IF found THEN {Head(rest)} ELSE {},
                    decoded |-> clock, published |-> clock]
      /\ UNCHANGED <<clock, frames, meta, lost, st, atReset, refreshed>>
  BY DEF FrameOut, truthVars
<1>2. PICK k \in 0 .. Len(submitted) :
        /\ rest \in Seq(Submission) /\ Len(rest) = Len(submitted) - k
        /\ \A i \in 1 .. Len(submitted) - k : rest[i] = submitted[k + i]
  BY <1>0, NotBeforeFacts
<1> HIDE DEF rest
<1>3. /\ \A i \in 1 .. Len(submitted) :
           /\ submitted[i].first <= submitted[i].complete /\ submitted[i].complete <= submitted[i].at
           /\ submitted[i].at <= clock /\ submitted[i].pts <= frames /\ submitted[i].pts \in Nat
      /\ \A i, j \in 1 .. Len(submitted) : i < j => submitted[i].pts < submitted[j].pts
      /\ \A i \in 1 .. Len(st.recent), j \in 1 .. Len(submitted) : st.recent[i].pts < submitted[j].pts
  BY StatsFacts DEF StatsInv, StampsInOrder, FramesInOrder
<1>4. CASE found
  <2> DEFINE h == Head(rest)
             r == Tail(rest)
  <2>1. /\ submitted' = r /\ rest # <<>> /\ h.pts = pts
        /\ output' = [pts |-> pts, source |-> {h}, decoded |-> clock, published |-> clock]
    BY <1>1, <1>4
  <2>2. /\ h = rest[1] /\ r \in Seq(Submission) /\ Len(r) = Len(rest) - 1
        /\ \A i \in 1 .. Len(rest) - 1 : r[i] = rest[i + 1]
    BY <1>2, <2>1, HeadTailProperties
  <2>3. Len(rest) \in Nat /\ Len(rest) # 0
    BY <1>2, <2>1, EmptySeq, LenProperties
  <2>4. k + 1 \in 1 .. Len(submitted) /\ h = submitted[k + 1]
    BY <1>0, <1>2, <2>2, <2>3
  <2>5. \A i \in 1 .. Len(r) : (k + 1) + i \in 1 .. Len(submitted) /\ k + 1 < (k + 1) + i /\ r[i] = submitted[(k + 1) + i]
    <3> TAKE i \in 1 .. Len(r)
    <3>1. i + 1 \in 1 .. Len(submitted) - k /\ r[i] = rest[i + 1] /\ k + (i + 1) = (k + 1) + i
      BY <1>0, <1>2, <2>2, <2>3
    <3> QED BY <1>0, <1>2, <3>1
  <2> HIDE DEF h, r
  <2>6. h \in Submission /\ h \in {h}
    BY <1>0, <2>4, StatsFacts
  <2>7. StatsTyped'
    <3>1. output' \in [pts : Int, source : SUBSET Submission, decoded : Nat, published : Nat]
      BY <1>0, <2>1, <2>6
    <3> QED BY <1>1, <2>1, <2>2, <3>1 DEF StatsInv, StatsTyped
  <2>8. StampsInOrder'
    <3>1. \A i \in 1 .. Len(r) :
            r[i].first <= r[i].complete /\ r[i].complete <= r[i].at /\ r[i].at <= clock
      BY <1>3, <2>5
    <3>2. h.first <= h.complete /\ h.complete <= h.at /\ h.at <= clock
      BY <1>3, <2>4
    <3>3. output'.decoded = clock /\ output'.published = clock /\ output'.source = {h} /\ clock <= clock
      BY <1>0, <2>1
    <3> QED BY <1>1, <2>1, <3>1, <3>2, <3>3 DEF StatsInv, StampsInOrder
  <2>9. FramesInOrder'
    <3>1. \A i, j \in 1 .. Len(r) : i < j => r[i].pts < r[j].pts
      <4> SUFFICES ASSUME NEW i \in 1 .. Len(r), NEW j \in 1 .. Len(r), i < j PROVE r[i].pts < r[j].pts
        OBVIOUS
      <4>1. (k + 1) + i < (k + 1) + j
        BY <1>0
      <4> QED BY <1>3, <2>5, <4>1
    <3>2. \A i \in 1 .. Len(st.recent), j \in 1 .. Len(r) : st.recent[i].pts < r[j].pts
      BY <1>3, <2>5
    <3>3. \A i \in 1 .. Len(r) : r[i].pts <= frames /\ pts < r[i].pts
      BY <1>3, <2>1, <2>4, <2>5
    <3>4. pts <= frames /\ \A i \in 1 .. Len(st.recent) : st.recent[i].pts < pts
      BY <1>3, <2>1, <2>4
    <3>5. output'.pts = pts /\ stage' = "publish"
      BY <1>1, <2>1
    <3> QED BY <1>1, <2>1, <3>1, <3>2, <3>3, <3>4, <3>5 DEF StatsInv, FramesInOrder
  <2> QED BY <1>1, <2>7, <2>8, <2>9, TimelineSame DEF StatsInv, CounterInv
<1>5. CASE ~found
  <2>1. /\ submitted' = rest
        /\ output' = [pts |-> pts, source |-> {}, decoded |-> clock, published |-> clock]
    BY <1>1, <1>5
  <2>2. \A i \in 1 .. Len(rest) : k + i \in 1 .. Len(submitted) /\ rest[i] = submitted[k + i]
    BY <1>0, <1>2
  <2>3. StatsTyped'
    <3>1. output' \in [pts : Int, source : SUBSET Submission, decoded : Nat, published : Nat]
      BY <1>0, <2>1
    <3> QED BY <1>1, <1>2, <2>1, <3>1 DEF StatsInv, StatsTyped
  <2>4. StampsInOrder'
    <3>1. \A i \in 1 .. Len(rest) :
            rest[i].first <= rest[i].complete /\ rest[i].complete <= rest[i].at /\ rest[i].at <= clock
      BY <1>3, <2>2
    <3>2. output'.decoded = clock /\ output'.published = clock /\ output'.source = {} /\ clock <= clock
      BY <1>0, <2>1
    <3> QED BY <1>1, <2>1, <3>1, <3>2 DEF StatsInv, StampsInOrder
  <2>5. FramesInOrder'
    <3>1. \A i, j \in 1 .. Len(rest) : i < j => rest[i].pts < rest[j].pts
      <4> SUFFICES ASSUME NEW i \in 1 .. Len(rest), NEW j \in 1 .. Len(rest), i < j
                   PROVE  rest[i].pts < rest[j].pts
        OBVIOUS
      <4>1. k + i < k + j
        BY <1>0
      <4> QED BY <1>3, <2>2, <4>1
    <3>2. \A i \in 1 .. Len(st.recent), j \in 1 .. Len(rest) : st.recent[i].pts < rest[j].pts
      BY <1>3, <2>2
    <3>3. \A i \in 1 .. Len(rest) : rest[i].pts <= frames
      BY <1>3, <2>2
    <3>4. output'.source = {} /\ stage' = "publish"
      BY <1>1, <2>1
    <3> QED BY <1>1, <2>1, <3>1, <3>2, <3>3, <3>4 DEF StatsInv, FramesInOrder
  <2> QED BY <1>1, <2>3, <2>4, <2>5, TimelineSame DEF StatsInv, CounterInv
<1> QED BY <1>4, <1>5

\* A frame's timeline is recorded: its span is in pipeline before it can be in total.
LEMMA RecordedTimeline ==
  ASSUME NEW m \in SeriesType, NEW old \in Seq(Entry), NEW decoded \in Nat,
         NEW src \in Submission, NEW pts \in Int,
         output.decoded \in Nat, output.published = output.decoded,
         src.first <= src.complete, src.complete <= src.at, src.at <= output.decoded,
         Balanced(m, old, decoded), \A i \in 1 .. Len(old) : old[i].pts < pts,
         st'.series = Timeline(m, src), st'.decoded = decoded + 1,
         st'.recent = Remembered(old, [pts |-> pts, first |-> src.first,
                                       published |-> output.published])
  PROVE  /\ TimelineInv' /\ st'.series \in SeriesType /\ st'.recent \in Seq(Entry)
         /\ Len(st'.recent) \in Nat
         /\ \A i \in 1 .. Len(st'.recent) :
              \/ st'.recent[i] = [pts |-> pts, first |-> src.first, published |-> output.published]
              \/ \E j \in 1 .. Len(old) : st'.recent[i] = old[j]
<1> DEFINE e == [pts |-> pts, first |-> src.first, published |-> output.published]
           k == IF Len(old) >= RecentLimit THEN 1 ELSE 0
           r == SubSeq(old, k + 1, Len(old))
           s == Append(r, e)
           t == Timeline(m, src)
           d == m["total"].sum - m["present"].sum
           sum == m["pipeline"].sum
           n == Len(old)
<1>b. /\ m["receive"].count = m["pipeline"].count /\ m["queue"].count = m["pipeline"].count
      /\ m["decode"].count = m["pipeline"].count /\ m["pipeline"].count <= decoded
      /\ m["receive"].sum + m["queue"].sum + m["decode"].sum <= sum
      /\ m["present"].count = m["total"].count /\ m["present"].count + n <= m["pipeline"].count
      /\ d \in 0 .. sum
      /\ \A i, j \in 1 .. n : i < j => old[i].pts < old[j].pts
      /\ HasCover(old, d, sum)
  BY DEF Balanced
<1>0. n \in Nat /\ k \in 0 .. n /\ k \in {0, 1}
  BY LenProperties, StatsAssumption
<1>1. (IF Len(old) >= RecentLimit THEN Tail(old) ELSE old) = r
  <2>1. CASE Len(old) >= RecentLimit
    <3>1. old # <<>>
      BY <1>0, <2>1, StatsAssumption
    <3>2. Tail(old) = SubSeq(old, 2, Len(old))
      BY <3>1, TailIsSubSeq
    <3> QED BY <2>1, <3>2
  <2>2. CASE ~(Len(old) >= RecentLimit)
    BY <2>2, SubSeqFull
  <2> QED BY <2>1, <2>2
<1>2. st'.recent = s /\ st'.series = t
  BY <1>1 DEF Remembered
<1>3. e \in Entry /\ Span(e) \in Nat /\ Span(e) = output.published - src.first /\ e.pts = pts
  BY DEF Entry, Span, Submission
<1>4. /\ m["receive"] \in [count : Nat, sum : Nat] /\ m["queue"] \in [count : Nat, sum : Nat]
      /\ m["decode"] \in [count : Nat, sum : Nat] /\ m["pipeline"] \in [count : Nat, sum : Nat]
      /\ m["present"] \in [count : Nat, sum : Nat] /\ m["total"] \in [count : Nat, sum : Nat]
  BY DEF SeriesType, Series
<1>5. /\ t \in SeriesType
      /\ t["present"] = m["present"] /\ t["total"] = m["total"]
      /\ t["receive"].count = m["receive"].count + 1
      /\ t["queue"].count = m["queue"].count + 1
      /\ t["decode"].count = m["decode"].count + 1
      /\ t["pipeline"].count = m["pipeline"].count + 1
      /\ t["receive"].sum = m["receive"].sum + (src.complete - src.first)
      /\ t["queue"].sum = m["queue"].sum + (src.at - src.complete)
      /\ t["decode"].sum = m["decode"].sum + (output.decoded - src.at)
      /\ t["pipeline"].sum = m["pipeline"].sum + (output.published - src.first)
  BY TimelineFacts
<1> HIDE DEF t, k
<1>6. /\ r \in Seq(Entry) /\ Len(r) = n - k /\ \A i \in 1 .. n - k : r[i] = old[k + i]
  BY <1>0, SuffixFacts
<1>7. d \in Nat /\ sum \in Nat /\ d <= sum /\ HasCover(r, d, sum)
  <2>1. d \in Nat /\ sum \in Nat /\ d <= sum
    BY <1>4, <1>b
  <2> HIDE DEF d, r, sum
  <2> QED BY <1>0, <1>b, <2>1, CoverSuffix DEF r
<1>s. sum = m["pipeline"].sum
  OBVIOUS
<1> HIDE DEF r, e, d, sum
<1>8. /\ s \in Seq(Entry) /\ Len(s) = Len(r) + 1 /\ s[Len(r) + 1] = e
      /\ \A i \in 1 .. Len(r) : s[i] = r[i]
  BY <1>3, <1>6, AppendProperties
<1>9. HasCover(s, d, sum + Span(e))
  BY <1>3, <1>6, <1>7, CoverAppend
<1> HIDE DEF s, n
<1>10. \A i \in 1 .. Len(s) :
         (i = Len(r) + 1 /\ s[i] = e) \/ (i \in 1 .. Len(r) /\ k + i \in 1 .. n /\ s[i] = old[k + i])
  <2> TAKE i \in 1 .. Len(s)
  <2>1. CASE i = Len(r) + 1
    BY <1>8, <2>1
  <2>2. CASE i # Len(r) + 1
    <3>1. i \in 1 .. Len(r)
      BY <1>0, <1>6, <1>8, <2>2, SMTT(30)
    <3>2. k + i \in 1 .. n /\ i \in 1 .. n - k
      BY <1>0, <1>6, <3>1, SMTT(30)
    <3> QED BY <1>6, <1>8, <3>1, <3>2
  <2> QED BY <2>1, <2>2
<1>11. \A i, j \in 1 .. Len(s) : i < j => s[i].pts < s[j].pts
  <2> SUFFICES ASSUME NEW i \in 1 .. Len(s), NEW j \in 1 .. Len(s), i < j PROVE s[i].pts < s[j].pts
    OBVIOUS
  <2>1. k + i \in 1 .. n /\ s[i] = old[k + i]
    BY <1>0, <1>6, <1>8, <1>10
  <2>2. CASE j = Len(r) + 1 /\ s[j] = e
    BY <1>3, <2>1, <2>2 DEF n
  <2>3. CASE k + j \in 1 .. n /\ s[j] = old[k + j]
    <3>1. k + i < k + j
      BY <1>0
    <3> QED BY <1>b, <2>1, <2>3, <3>1
  <2> QED BY <1>10, <2>2, <2>3
<1>12. Unpresented' = d /\ Sum("pipeline")' = sum + Span(e)
  BY <1>2, <1>3, <1>5, <1>s DEF Unpresented, Sum, d
<1>13. HasCover(st.recent, Unpresented, Sum("pipeline"))'
  BY <1>2, <1>9, <1>12
<1>14. TimelineAdds'
  <2>1. /\ Count("receive")' = Count("pipeline")' /\ Count("queue")' = Count("pipeline")'
        /\ Count("decode")' = Count("pipeline")' /\ Count("pipeline")' <= st'.decoded
        /\ Count("present")' = Count("total")'
    BY <1>2, <1>4, <1>5, <1>b DEF Count
  <2>2. Sum("receive")' + Sum("queue")' + Sum("decode")' <= Sum("pipeline")'
    <3>1. /\ src.first \in Nat /\ src.complete \in Nat /\ src.at \in Nat
          /\ output.published \in Nat
      BY DEF Submission
    <3>2. /\ t["receive"].sum = m["receive"].sum + (src.complete - src.first)
          /\ t["queue"].sum = m["queue"].sum + (src.at - src.complete)
          /\ t["decode"].sum = m["decode"].sum + (output.published - src.at)
          /\ t["pipeline"].sum = m["pipeline"].sum + (output.published - src.first)
      BY <1>5
    <3> DEFINE mr == m["receive"].sum
               mq == m["queue"].sum
               md == m["decode"].sum
               mp == m["pipeline"].sum
               x == src.first
               y == src.complete
               z == src.at
               w == output.published
    <3>4. /\ mr \in Nat /\ mq \in Nat /\ md \in Nat /\ mp \in Nat
          /\ x \in Nat /\ y \in Nat /\ z \in Nat /\ w \in Nat /\ mr + mq + md <= mp
      BY <1>4, <1>b, <1>s, <3>1
    <3>5. /\ t["receive"].sum = mr + (y - x) /\ t["queue"].sum = mq + (z - y)
          /\ t["decode"].sum = md + (w - z) /\ t["pipeline"].sum = mp + (w - x)
      BY <3>2
    <3> HIDE DEF mr, mq, md, mp, x, y, z, w
    <3>6. (mr + (y - x)) + (mq + (z - y)) + (md + (w - z)) <= mp + (w - x)
      <4> DEFINE a == y - x
                 b == z - y
                 c == w - z
                 g == w - x
      <4>1. a \in Int /\ b \in Int /\ c \in Int /\ g \in Int /\ a + b + c = g
        BY <3>4
      <4> HIDE DEF a, b, c, g
      <4>2. (mr + a) + (mq + b) + (md + c) <= mp + g
        BY <3>4, <4>1
      <4> QED BY <4>2 DEF a, b, c, g
    <3>3. t["receive"].sum + t["queue"].sum + t["decode"].sum <= t["pipeline"].sum
      BY <3>5, <3>6
    <3> QED BY <1>2, <3>3 DEF Sum
  <2>3. Count("present")' + Len(st'.recent) <= Count("pipeline")'
    <3>1. Len(s) <= n + 1 /\ Len(s) \in Nat
      BY <1>0, <1>6, <1>8
    <3>2. m["present"].count + n <= m["pipeline"].count
      BY <1>b
    <3> DEFINE mp == m["present"].count
               mq == m["pipeline"].count
    <3>4. mp \in Nat /\ mq \in Nat /\ mp + n <= mq /\ t["present"].count = mp /\ t["pipeline"].count = mq + 1
      BY <1>4, <1>5, <3>2
    <3> HIDE DEF mp, mq
    <3>3. t["present"].count + Len(s) <= t["pipeline"].count
      BY <1>0, <3>1, <3>4
    <3> QED BY <1>2, <3>3 DEF Count
  <2>4. (Sum("total") - Sum("present"))' \in 0 .. Sum("pipeline")'
    BY <1>3, <1>7, <1>12 DEF Unpresented
  <2>5. DOMAIN s = 1 .. Len(s)
    BY <1>8, LenProperties
  <2> QED BY <1>2, <1>11, <2>1, <2>2, <2>3, <2>4, <2>5 DEF TimelineAdds
<1>15. Len(s) \in Nat
  BY <1>8, LenProperties
<1> QED BY <1>2, <1>5, <1>8, <1>10, <1>13, <1>14, <1>15 DEF TimelineInv, e, n

LEMMA PacedFacts ==
  ASSUME NEW m \in SeriesType, NEW span \in Int
  PROVE  /\ With(m, "interval", span) \in SeriesType
         /\ \A o \in Series \ {"interval"} : With(m, "interval", span)[o] = m[o]
<1> DEFINE x == IF span > 0 THEN span ELSE 0
<1>1. x \in Nat /\ (IF x > 0 THEN x ELSE 0) = x
  OBVIOUS
<1> HIDE DEF x
<1>2. With(m, "interval", span) = With(m, "interval", x)
  BY <1>1 DEF With, x
<1>3. "interval" \in Series
  BY DEF Series
<1> QED BY <1>1, <1>2, <1>3, WithFacts

LEMMA RecordFrameKeeps == ASSUME StatsInv, RecordFrame PROVE StatsInv'
<1> DEFINE late  == CHOOSE t \in st.lastPublish : TRUE
           paced == IF st.lastPublish = {} THEN st.series
                    ELSE With(st.series, "interval", output.published - late)
           more  == st.decoded + 1
           lag   == IF output.pts >= 0 THEN Counted(st.lag, Lag) ELSE st.lag
           base  == [st EXCEPT !.decoded = more, !.lag = lag, !.lastPublish = {output.published}, !.series = paced]
<1>0. /\ st \in StatsRecord /\ st.series \in SeriesType /\ st.recent \in Seq(Entry) /\ Len(st.recent) \in Nat
      /\ frames \in Nat /\ clock \in Nat
      /\ output.pts \in Int /\ output.source \in SUBSET Submission /\ output.decoded \in Nat
      /\ output.published \in Nat
  BY StatsFacts DEF StatsInv, StatsTyped
<1>1. /\ stage = "publish" /\ stage' = "wait"
      /\ UNCHANGED <<clock, frames, meta, submitted, output, lost, atReset, refreshed>>
      /\ \/ output.source = {} /\ st' = base
         \/ \E src \in output.source :
              st' = [base EXCEPT !.series = Timeline(paced, src),
                                 !.recent = Remembered(@, [pts |-> output.pts, first |-> src.first,
                                                           published |-> output.published])]
  <2>1. /\ stage = "publish" /\ stage' = "wait"
        /\ UNCHANGED <<clock, frames, meta, submitted, output, lost, atReset, refreshed>>
    BY DEF RecordFrame, truthVars
  <2>2. IF output.source = {} THEN st' = base
        ELSE \E src \in output.source :
               st' = [base EXCEPT !.series = Timeline(paced, src),
                                  !.recent = Remembered(@, [pts |-> output.pts, first |-> src.first,
                                                            published |-> output.published])]
    BY Zenon DEF RecordFrame
  <2> HIDE DEF base
  <2>3. CASE output.source = {}
    BY <2>1, <2>2, <2>3
  <2>4. CASE output.source # {}
    BY <2>1, <2>2, <2>4
  <2> QED BY <2>3, <2>4
<1>2. paced \in SeriesType /\ \A o \in Series \ {"interval"} : paced[o] = st.series[o]
  <2>1. CASE st.lastPublish = {}
    BY <1>0, <2>1
  <2>2. CASE st.lastPublish # {}
    <3>1. st.lastPublish \in SUBSET Nat
      BY <1>0 DEF StatsRecord
    <3>2. late \in Nat
      BY <2>2, <3>1
    <3>3. output.published - late \in Int
      BY <1>0, <3>2
    <3> QED BY <1>0, <2>2, <3>3, PacedFacts
  <2> QED BY <2>1, <2>2
<1>3. lag \in [0 .. 3 -> Nat]
  <2>1. st.lag \in [0 .. 3 -> Nat]
    BY <1>0 DEF StatsRecord
  <2> DEFINE l == st.lag
             x == Lag
  <2>2. lag = IF output.pts >= 0 THEN [l EXCEPT ![x] = l[x] + 1] ELSE l
    BY DEF Counted
  <2> HIDE DEF l, x
  <2>3. l \in [0 .. 3 -> Nat]
    BY <2>1 DEF l
  <2>4. [l EXCEPT ![x] = l[x] + 1] \in [0 .. 3 -> Nat]
    <3>1. CASE x \in 0 .. 3
      <4> DEFINE y == l[x] + 1
      <4>1. y \in Nat
        BY <2>3, <3>1
      <4> HIDE DEF y
      <4>2. [l EXCEPT ![x] = y] \in [0 .. 3 -> Nat]
        BY <2>3, <4>1
      <4> QED BY <4>2 DEF y
    <3>2. CASE x \notin 0 .. 3
      <4>1. [l EXCEPT ![x] = l[x] + 1] = l
        BY <2>3, <3>2
      <4> QED BY <2>3, <4>1
    <3> QED BY <3>1, <3>2
  <2> QED BY <2>2, <2>3, <2>4
<1>4. more \in Nat /\ more = st.decoded + 1 /\ st.decoded \in Nat /\ more >= st.decoded
  BY <1>0, SMTT(30) DEF StatsRecord
<1> HIDE DEF paced, more, lag
<1>5. /\ base \in StatsRecord /\ base.series = paced /\ base.recent = st.recent /\ base.decoded = more
      /\ base.lost = st.lost /\ base.base = st.base
  BY <1>0, <1>2, <1>3, <1>4 DEF StatsRecord
<1> HIDE DEF base
<1>6. /\ {"receive", "queue", "decode", "pipeline", "present", "total"} \subseteq Series \ {"interval"}
      /\ \A s \in Series : Count(s) \in Nat /\ Sum(s) \in Nat
  BY StatsFacts DEF Series
<1>7. CASE output.source = {} /\ st' = base
  <2>1. TimelineInv'
    <3>1. \A o \in Series \ {"interval"} : Count(o)' = Count(o) /\ Sum(o)' = Sum(o)
      BY <1>2, <1>5, <1>7 DEF Count, Sum
    <3>2. Unpresented' = Unpresented /\ Sum("pipeline")' = Sum("pipeline")
      BY <1>6, <3>1 DEF Unpresented
    <3>3. HasCover(st.recent, Unpresented, Sum("pipeline"))'
      BY <1>5, <1>7, <3>2 DEF StatsInv, TimelineInv
    <3>4. Count("pipeline")' <= st'.decoded
      <4>1. Count("pipeline") <= st.decoded /\ Count("pipeline") \in Nat
        BY <1>6 DEF StatsInv, TimelineInv, TimelineAdds
      <4>2. Count("pipeline")' = Count("pipeline") /\ st'.decoded = more
        BY <1>5, <1>6, <1>7, <3>1
      <4> QED BY <1>4, <4>1, <4>2
    <3>5. TimelineAdds'
      BY <1>5, <1>6, <1>7, <3>1, <3>4 DEF StatsInv, TimelineInv, TimelineAdds
    <3> QED BY <3>3, <3>5 DEF TimelineInv
  <2>2. StatsTyped'
    BY <1>1, <1>5, <1>7 DEF StatsInv, StatsTyped
  <2>3. StampsInOrder'
    BY <1>1, <1>5, <1>7 DEF StatsInv, StampsInOrder
  <2>4. FramesInOrder'
    BY <1>1, <1>5, <1>7 DEF StatsInv, FramesInOrder
  <2>5. CounterInv'
    BY <1>1, <1>5, <1>7 DEF StatsInv, CounterInv
  <2> QED BY <2>1, <2>2, <2>3, <2>4, <2>5 DEF StatsInv
<1>8. ASSUME NEW src \in output.source,
             st' = [base EXCEPT !.series = Timeline(paced, src),
                                !.recent = Remembered(@, [pts |-> output.pts, first |-> src.first,
                                                          published |-> output.published])]
      PROVE  StatsInv'
  <2> DEFINE e == [pts |-> output.pts, first |-> src.first, published |-> output.published]
             line == Timeline(paced, src)
             kept == Remembered(st.recent, e)
  <2>1. st' = [base EXCEPT !.series = line, !.recent = kept]
    BY <1>5, <1>8
  <2> HIDE DEF line, kept
  <2>2. /\ st'.series = line /\ st'.recent = kept /\ st'.decoded = more
        /\ st'.lost = st.lost /\ st'.base = st.base
    BY <1>5, <2>1 DEF StatsRecord
  <2>3. /\ src \in Submission
        /\ output.published = output.decoded
        /\ src.first <= src.complete /\ src.complete <= src.at /\ src.at <= output.decoded
        /\ output.published <= clock
    BY <1>0 DEF StatsInv, StampsInOrder
  <2>4. /\ \A i, j \in 1 .. Len(st.recent) : i < j => st.recent[i].pts < st.recent[j].pts
        /\ \A i \in 1 .. Len(st.recent) : st.recent[i].pts < output.pts
        /\ \A i \in 1 .. Len(submitted) : output.pts < submitted[i].pts
        /\ output.pts <= frames
    BY <1>1 DEF StatsInv, FramesInOrder
  <2>5. /\ paced["receive"] = st.series["receive"] /\ paced["queue"] = st.series["queue"]
        /\ paced["decode"] = st.series["decode"] /\ paced["pipeline"] = st.series["pipeline"]
        /\ paced["present"] = st.series["present"] /\ paced["total"] = st.series["total"]
    BY <1>2, <1>6
  <2>6. /\ TimelineInv' /\ st'.series \in SeriesType /\ st'.recent \in Seq(Entry)
        /\ Len(st'.recent) \in Nat
        /\ \A i \in 1 .. Len(st'.recent) :
             st'.recent[i] = e \/ \E j \in 1 .. Len(st.recent) : st'.recent[i] = st.recent[j]
    <3>1. Balanced(paced, st.recent, st.decoded)
      <4>1. DOMAIN st.recent = 1 .. Len(st.recent)
        BY <1>0, LenProperties
      <4> QED BY <2>4, <2>5, <4>1
              DEF Balanced, StatsInv, TimelineInv, TimelineAdds, Count, Sum, Unpresented
    <3>2. /\ st'.series = Timeline(paced, src) /\ st'.decoded = st.decoded + 1
          /\ st'.recent = Remembered(st.recent, [pts |-> output.pts, first |-> src.first,
                                                 published |-> output.published])
      BY <1>4, <2>2 DEF line, kept
    <3> DEFINE old == st.recent
               decoded == st.decoded
               pts == output.pts
    <3> HIDE DEF old, decoded, pts
    <3>3. /\ paced \in SeriesType /\ old \in Seq(Entry) /\ decoded \in Nat
          /\ src \in Submission /\ pts \in Int
      BY <1>0, <1>2, <1>4, <2>3 DEF old, decoded, pts
    <3>4. /\ output.decoded \in Nat /\ output.published = output.decoded
          /\ src.first <= src.complete /\ src.complete <= src.at /\ src.at <= output.decoded
      BY <1>0, <2>3
    <3>5. Balanced(paced, old, decoded) /\ \A i \in 1 .. Len(old) : old[i].pts < pts
      BY <2>4, <3>1 DEF old, decoded, pts
    <3>6. /\ st'.series = Timeline(paced, src) /\ st'.decoded = decoded + 1
          /\ st'.recent = Remembered(old, [pts |-> pts, first |-> src.first,
                                           published |-> output.published])
      BY <3>2 DEF old, decoded, pts
    <3>7. /\ TimelineInv' /\ st'.series \in SeriesType /\ st'.recent \in Seq(Entry)
          /\ Len(st'.recent) \in Nat
          /\ \A i \in 1 .. Len(st'.recent) :
               \/ st'.recent[i] = [pts |-> pts, first |-> src.first, published |-> output.published]
               \/ \E j \in 1 .. Len(old) : st'.recent[i] = old[j]
      BY <3>3, <3>4, <3>5, <3>6, RecordedTimeline
    <3> QED BY <3>7 DEF old, decoded, pts
  <2>7. e.pts = output.pts /\ e.first = src.first /\ e.published = output.published
    OBVIOUS
  <2> HIDE DEF e
  <2>8. st' \in StatsRecord
    BY <1>5, <2>1, <2>2, <2>6 DEF StatsRecord
  <2>9. StatsTyped'
    BY <1>1, <2>8 DEF StatsInv, StatsTyped
  <2>10. StampsInOrder'
    <3>1. \A i \in 1 .. Len(st'.recent) :
            st'.recent[i].first <= st'.recent[i].published /\ st'.recent[i].published <= clock
      <4>1. e.first <= e.published /\ e.published <= clock
        BY <1>0, <2>3, <2>7 DEF Submission
      <4>2. \A i \in 1 .. Len(st.recent) :
              st.recent[i].first <= st.recent[i].published /\ st.recent[i].published <= clock
        BY DEF StatsInv, StampsInOrder
      <4> QED BY <2>6, <4>1, <4>2
    <3> QED BY <1>1, <3>1 DEF StatsInv, StampsInOrder
  <2>11. FramesInOrder'
    <3>1. \A i, j \in 1 .. Len(st'.recent) : i < j => st'.recent[i].pts < st'.recent[j].pts
      BY <2>6, LenProperties DEF TimelineInv, TimelineAdds
    <3>2. \A i \in 1 .. Len(st'.recent), j \in 1 .. Len(submitted) : st'.recent[i].pts < submitted[j].pts
      <4>1. \A i \in 1 .. Len(st.recent), j \in 1 .. Len(submitted) : st.recent[i].pts < submitted[j].pts
        BY DEF StatsInv, FramesInOrder
      <4> QED BY <2>4, <2>6, <2>7, <4>1
    <3>3. \A i \in 1 .. Len(st'.recent) : st'.recent[i].pts <= frames
      <4>1. \A i \in 1 .. Len(st.recent) : st.recent[i].pts <= frames
        BY DEF StatsInv, FramesInOrder
      <4> QED BY <2>4, <2>6, <2>7, <4>1
    <3> QED BY <1>1, <3>1, <3>2, <3>3 DEF StatsInv, FramesInOrder
  <2>12. CounterInv'
    BY <1>1, <2>2 DEF StatsInv, CounterInv
  <2> QED BY <2>6, <2>9, <2>10, <2>11, <2>12 DEF StatsInv
<1> QED BY <1>1, <1>7, <1>8

LEMMA RefreshKeeps == ASSUME StatsInv, refused \in Nat, Refresh PROVE StatsInv'
<1>1. /\ st' = [st EXCEPT !.lost = lost, !.audioDropped = refused] /\ refreshed' = {lost}
      /\ UNCHANGED <<clock, frames, stage, meta, submitted, output, lost, atReset>>
  BY DEF Refresh, pipeVars
<1>2. st \in StatsRecord /\ lost \in Nat
  BY DEF StatsInv, StatsTyped
<1>3. /\ st' \in StatsRecord /\ st'.lost = lost /\ st'.base = st.base
      /\ st'.series = st.series /\ st'.recent = st.recent /\ st'.decoded = st.decoded
  BY <1>1, <1>2 DEF StatsRecord
<1>4. StatsTyped'
  BY <1>1, <1>3 DEF StatsInv, StatsTyped
<1>5. StampsInOrder'
  BY <1>1, <1>3 DEF StatsInv, StampsInOrder
<1>6. FramesInOrder'
  BY <1>1, <1>3 DEF StatsInv, FramesInOrder
<1>7. TimelineInv'
  BY <1>3, TimelineSame DEF StatsInv
<1>8. CounterInv'
  <2>1. st.base \in Nat /\ st.lost \in Nat /\ st.base <= st.lost /\ st.lost <= lost
    BY <1>2 DEF StatsRecord, StatsInv, CounterInv
  <2>2. st.base <= lost /\ lost <= lost /\ lost \in 0 .. lost
    BY <1>2, <2>1
  <2> QED BY <1>1, <1>3, <2>2 DEF StatsInv, CounterInv
<1> QED BY <1>4, <1>5, <1>6, <1>7, <1>8 DEF StatsInv

LEMMA ResetKeeps ==
  ASSUME StatsInv, ResetStats, UNCHANGED <<clock, frames, stage, meta, submitted, output, lost>>
  PROVE  StatsInv'
<1>1. st' = AfterReset /\ atReset' = lost /\ refreshed' = {}
  BY DEF ResetStats
<1>2. lost \in Nat /\ st.lost \in Nat /\ st.lost <= lost
  BY DEF StatsInv, StatsTyped, StatsRecord, CounterInv
<1> DEFINE none == [s \in Series |-> Empty]
           lag  == [late \in 0 .. 3 |-> 0]
<1>3. none \in SeriesType /\ \A s \in Series : none[s] = Empty
  BY DEF SeriesType, Empty
<1>4. lag \in [0 .. 3 -> Nat] /\ <<>> \in Seq(Entry) /\ Len(<<>>) = 0 /\ {} \in SUBSET Nat /\ DOMAIN <<>> = {}
  OBVIOUS
<1>5. st' = [[decoded |-> 0, errors |-> 0, lag |-> lag, lost |-> 0, base |-> 0, audioDropped |-> 0,
              series |-> none, lastPublish |-> {}, recent |-> <<>>]
             EXCEPT !.lost = st.lost, !.base = st.lost]
  BY <1>1 DEF AfterReset, NewStats
<1> HIDE DEF none, lag
<1>6. /\ st' \in StatsRecord /\ st'.lost = st.lost /\ st'.base = st.lost
      /\ st'.series = none /\ st'.recent = <<>> /\ st'.decoded = 0
  BY <1>2, <1>3, <1>4, <1>5 DEF StatsRecord
<1>7. StatsTyped'
  BY <1>6 DEF StatsInv, StatsTyped
<1>8. \A i \in 1 .. Len(st'.recent) : FALSE
  BY <1>4, <1>6
<1>9. StampsInOrder'
  BY <1>8 DEF StatsInv, StampsInOrder
<1>10. FramesInOrder'
  BY <1>8 DEF StatsInv, FramesInOrder
<1>11. TimelineInv'
  <2>1. \A s \in Series : Count(s)' = 0 /\ Sum(s)' = 0
    BY <1>3, <1>6 DEF Count, Sum, Empty
  <2>2. {"receive", "queue", "decode", "pipeline", "present", "total"} \subseteq Series
    BY DEF Series
  <2>3. TimelineAdds'
    BY <1>4, <1>6, <2>1, <2>2 DEF TimelineAdds
  <2>4. HasCover(st.recent, Unpresented, Sum("pipeline"))'
    BY <1>6, CoverEmpty
  <2> QED BY <2>3, <2>4 DEF TimelineInv
<1>12. CounterInv'
  <2>1. st'.base <= st'.lost /\ st'.lost <= lost /\ st'.base <= lost /\ lost \in Nat
    BY <1>2, <1>6
  <2> QED BY <1>1, <2>1 DEF CounterInv
<1> QED BY <1>7, <1>9, <1>10, <1>11, <1>12 DEF StatsInv

\* A frame is presented: what it adds was covered, and it is not remembered any more.
LEMMA DrawnKeeps ==
  ASSUME StatsInv, NEW i \in 1 .. Len(st.recent), st' = Drawn(i, i + 1),
         UNCHANGED <<clock, frames, stage, meta, submitted, output, lost, atReset, refreshed>>
  PROVE  StatsInv'
<1> DEFINE old  == st.recent
           n    == Len(old)
           left == SubSeq(old, i + 1, n)
           pub  == clock - old[i].published
           all  == clock - old[i].first
           a    == With(st.series, "present", pub)
           m    == With(a, "total", all)
           d    == Unpresented
           sum  == Sum("pipeline")
<1>0. /\ st \in StatsRecord /\ st.series \in SeriesType /\ old \in Seq(Entry) /\ n \in Nat /\ i \in 1 .. n
      /\ clock \in Nat
  BY StatsFacts DEF StatsInv, StatsTyped
<1>1. st' = [st EXCEPT !.series = m, !.recent = left]
  BY DEF Drawn
<1>2. /\ old[i].first \in Nat /\ old[i].published \in Nat
      /\ old[i].first <= old[i].published /\ old[i].published <= clock
  BY StatsFacts DEF StatsInv, StampsInOrder
<1>3. pub \in Nat /\ all \in Nat /\ Span(old[i]) \in Nat /\ all = pub + Span(old[i])
  <2> DEFINE f == old[i].first
             p == old[i].published
  <2>1. f \in Nat /\ p \in Nat /\ f <= p /\ p <= clock /\ clock \in Nat
    BY <1>0, <1>2
  <2>2. pub = clock - p /\ all = clock - f /\ Span(old[i]) = p - f
    BY DEF Span
  <2> HIDE DEF f, p, pub, all
  <2>3. clock - p \in Nat /\ clock - f \in Nat /\ p - f \in Nat /\ clock - f = (clock - p) + (p - f)
    BY <2>1
  <2> QED BY <2>2, <2>3
<1>4. "present" \in Series /\ "total" \in Series
  BY DEF Series
<1> HIDE DEF pub, all
<1>5. /\ a \in SeriesType /\ a["present"].count = st.series["present"].count + 1
      /\ a["present"].sum = st.series["present"].sum + pub
      /\ \A o \in Series \ {"present"} : a[o] = st.series[o]
  <2>1. st.series \in SeriesType /\ "present" \in Series /\ pub \in Nat
    BY <1>0, <1>3, <1>4
  <2> QED BY <2>1, WithFacts, ZenonT(40)
<1> HIDE DEF a
<1>6. /\ m \in SeriesType /\ m["total"].count = a["total"].count + 1
      /\ m["total"].sum = a["total"].sum + all
      /\ \A o \in Series \ {"total"} : m[o] = a[o]
  <2>1. a \in SeriesType /\ "total" \in Series /\ all \in Nat
    BY <1>3, <1>4, <1>5
  <2> QED BY <2>1, WithFacts
<1> HIDE DEF m
<1>7. /\ left \in Seq(Entry) /\ Len(left) = n - i
      /\ \A j \in 1 .. n - i : left[j] = old[i + j]
  <2>1. i \in 0 .. Len(old)
    BY <1>0
  <2> QED BY <1>0, <2>1, SuffixFacts
<1>8. /\ st' \in StatsRecord /\ st'.series = m /\ st'.recent = left /\ st'.decoded = st.decoded
      /\ st'.lost = st.lost /\ st'.base = st.base
  <2> HIDE DEF left
  <2> QED BY <1>0, <1>1, <1>6, <1>7 DEF StatsRecord
<1>9. /\ Count("present")' = Count("present") + 1 /\ Count("total")' = Count("total") + 1
      /\ Sum("present")' = Sum("present") + pub /\ Sum("total")' = Sum("total") + all
      /\ \A o \in Series \ {"present", "total"} : Count(o)' = Count(o) /\ Sum(o)' = Sum(o)
  BY <1>4, <1>5, <1>6, <1>8 DEF Count, Sum, Series
<1>10. /\ \A s \in Series : Count(s) \in Nat /\ Sum(s) \in Nat
       /\ {"receive", "queue", "decode", "pipeline"} \subseteq Series \ {"present", "total"}
  BY StatsFacts DEF Series
<1>11. d \in Nat /\ d \in 0 .. sum /\ sum \in Nat /\ HasCover(old, d, sum) /\ Count("present") + n <= Count("pipeline")
       /\ Count("present") = Count("total") /\ d = Sum("total") - Sum("present")
  <2>1. TimelineInv
    BY DEF StatsInv
  <2>2. d \in 0 .. sum /\ Count("present") + n <= Count("pipeline") /\ Count("present") = Count("total")
    BY <2>1 DEF TimelineInv, TimelineAdds, Unpresented
  <2>3. sum \in Nat
    BY <1>10
  <2> QED BY <2>1, <2>2, <2>3 DEF TimelineInv, Unpresented
<1>12. Unpresented' = d + Span(old[i]) /\ Sum("pipeline")' = sum
  <2>1. Sum("present") \in Nat /\ Sum("total") \in Nat
    BY <1>4, <1>10
  <2>2. Unpresented' = (Sum("total") + all) - (Sum("present") + pub)
    BY <1>9 DEF Unpresented
  <2> DEFINE x == Sum("total")
             y == Sum("present")
             z == Span(old[i])
  <2>3. x \in Nat /\ y \in Nat /\ z \in Nat /\ pub \in Nat /\ all = pub + z
    BY <1>3, <2>1
  <2>4. Unpresented' = (x + all) - (y + pub) /\ d = x - y
    BY <1>11, <2>2
  <2> HIDE DEF x, y, z, d
  <2>5. Unpresented' = d + z
    BY <2>3, <2>4
  <2> QED BY <1>9, <1>10, <2>5 DEF z
<1> HIDE DEF d, sum
<1>13. d + Span(old[i]) <= sum /\ HasCover(left, d + Span(old[i]), sum)
  BY <1>0, <1>11, CoverPresents
<1> HIDE DEF left, old, n
<1>20. \A j, k \in 1 .. Len(left) : j < k => left[j].pts < left[k].pts
  <2> SUFFICES ASSUME NEW j \in 1 .. Len(left), NEW k \in 1 .. Len(left), j < k
               PROVE  left[j].pts < left[k].pts
    OBVIOUS
  <2>2. j \in 1 .. n - i /\ k \in 1 .. n - i
    BY <1>7
  <2>3. i + j \in 1 .. n /\ i + k \in 1 .. n /\ i + j < i + k
    BY <1>0, <2>2
  <2>1. i + j \in 1 .. n /\ i + k \in 1 .. n /\ i + j < i + k /\ left[j] = old[i + j] /\ left[k] = old[i + k]
    BY <1>7, <2>2, <2>3
  <2> QED BY <2>1 DEF StatsInv, FramesInOrder, old, n
<1>14. TimelineInv'
  <2>1. HasCover(st.recent, Unpresented, Sum("pipeline"))'
    BY <1>8, <1>12, <1>13
  <2>3. DOMAIN left = 1 .. Len(left)
    BY <1>7, LenProperties
  <2>4. Count("present")' = Count("total")' /\ Count("present")' + Len(left) <= Count("pipeline")'
    <3>1. Count("present") \in Nat /\ Count("pipeline") \in Nat /\ Len(left) <= n - 1 /\ Len(left) \in Nat
      BY <1>0, <1>4, <1>7, <1>10
    <3>2. Count("pipeline")' = Count("pipeline")
      BY <1>9, <1>10
    <3> QED BY <1>0, <1>9, <1>11, <3>1, <3>2
  <2>5. (Sum("total") - Sum("present"))' \in 0 .. Sum("pipeline")'
    <3>1. d + Span(old[i]) \in 0 .. sum
      BY <1>3, <1>11, <1>13
    <3> QED BY <1>12, <3>1 DEF Unpresented
  <2>6. /\ Count("receive")' = Count("pipeline")' /\ Count("queue")' = Count("pipeline")'
        /\ Count("decode")' = Count("pipeline")' /\ Count("pipeline")' <= st'.decoded
        /\ Sum("receive")' + Sum("queue")' + Sum("decode")' <= Sum("pipeline")'
    <3>1. /\ Count("receive")' = Count("receive") /\ Count("queue")' = Count("queue")
          /\ Count("decode")' = Count("decode") /\ Count("pipeline")' = Count("pipeline")
          /\ Sum("receive")' = Sum("receive") /\ Sum("queue")' = Sum("queue")
          /\ Sum("decode")' = Sum("decode") /\ Sum("pipeline")' = Sum("pipeline")
      BY <1>9, <1>10
    <3>2. /\ Count("receive") = Count("pipeline") /\ Count("queue") = Count("pipeline")
          /\ Count("decode") = Count("pipeline") /\ Count("pipeline") <= st.decoded
          /\ Sum("receive") + Sum("queue") + Sum("decode") <= Sum("pipeline")
      BY DEF StatsInv, TimelineInv, TimelineAdds
    <3>3. st'.decoded = st.decoded
      BY <1>8
    <3> QED BY <3>1, <3>2, <3>3
  <2>7. TimelineAdds'
    BY <1>8, <1>20, <2>3, <2>4, <2>5, <2>6 DEF TimelineAdds
  <2> QED BY <2>1, <2>7 DEF TimelineInv
<1>15. \A j \in 1 .. Len(left) : i + j \in 1 .. n /\ left[j] = old[i + j]
  BY <1>0, <1>7
<1>16. StatsTyped'
  BY <1>8 DEF StatsInv, StatsTyped
<1>17. StampsInOrder'
  <2>1. \A j \in 1 .. Len(left) : left[j].first <= left[j].published /\ left[j].published <= clock
    BY <1>15 DEF StatsInv, StampsInOrder, old, n
  <2> QED BY <1>8, <2>1 DEF StatsInv, StampsInOrder
<1>18. FramesInOrder'
  <2>2. /\ \A j \in 1 .. Len(left), k \in 1 .. Len(submitted) : left[j].pts < submitted[k].pts
        /\ \A j \in 1 .. Len(left) : left[j].pts <= frames
    BY <1>15 DEF StatsInv, FramesInOrder, old, n
  <2>3. stage \in {"receive", "complete"} => \A j \in 1 .. Len(left) : left[j].pts < frames
    BY <1>15 DEF StatsInv, FramesInOrder, old, n
  <2>4. stage = "publish" /\ output.source # {} => \A j \in 1 .. Len(left) : left[j].pts < output.pts
    BY <1>15 DEF StatsInv, FramesInOrder, old, n
  <2> QED BY <1>8, <1>20, <2>2, <2>3, <2>4 DEF StatsInv, FramesInOrder
<1>19. CounterInv'
  BY <1>8 DEF StatsInv, CounterInv
<1> QED BY <1>14, <1>16, <1>17, <1>18, <1>19 DEF StatsInv

LEMMA RedrawKeeps == ASSUME StatsInv, Redraw PROVE StatsInv'
<1>1. PICK pts \in slot : st' = Presented(pts)
  BY DEF Redraw
<1>2. UNCHANGED <<clock, frames, stage, meta, submitted, output, lost, atReset, refreshed>>
  BY DEF Redraw, pipeVars, truthVars
<1> DEFINE I == {i \in 1 .. Len(st.recent) : st.recent[i].pts = pts}
           k == IF I # {} THEN Min(I) ELSE 0
<1>3. st' = IF k = 0 THEN st ELSE Drawn(k, k + 1)
  BY <1>1 DEF Presented, SelectInSeq
<1>4. Len(st.recent) \in Nat /\ I \in SUBSET (1 .. Len(st.recent))
  BY StatsFacts
<1>5. k = 0 \/ k \in 1 .. Len(st.recent)
  <2>1. CASE I # {}
    <3>1. k = Min(I)
      BY <2>1
    <3> HIDE DEF I, k
    <3>2. Min(I) \in I
      BY <1>4, <2>1, LeastPosition
    <3> QED BY <1>4, <3>1, <3>2
  <2> QED BY <2>1
<1> HIDE DEF I, k
<1>6. CASE k = 0
  <2>1. st' = st
    BY <1>3, <1>6
  <2> QED BY <1>2, <2>1, OthersKeep
<1>7. CASE k \in 1 .. Len(st.recent)
  <2>1. k # 0
    BY <1>4, <1>7
  <2>2. st' = Drawn(k, k + 1)
    BY <1>3, <2>1
  <2> QED BY <1>2, <1>7, <2>2, DrawnKeeps
<1> QED BY <1>5, <1>6, <1>7

LEMMA StatsStepKeeps == AudioInv /\ StatsInv /\ [StatsNext]_statsVars => StatsInv'
<1> SUFFICES ASSUME AudioInv, StatsInv, [StatsNext]_statsVars PROVE StatsInv'
  OBVIOUS
<1>1. CASE FirstPacket
  BY <1>1, FirstPacketKeeps
<1>2. CASE LastPacket
  BY <1>2, LastPacketKeeps
<1>3. CASE FrameLost \/ AudioDatagram \/ Tick
  <2>1. /\ lost' \in {lost, lost + 1} /\ clock' \in {clock, clock + 1}
        /\ UNCHANGED <<frames, stage, meta, submitted, output, st, atReset, refreshed>>
    BY <1>3 DEF FrameLost, AudioDatagram, Tick, pipeVars, truthVars
  <2> QED BY <2>1, OthersKeep
<1>4. CASE Submit
  BY <1>4, SubmitKeeps
<1>5. CASE NothingOut
  BY <1>5, NothingOutKeeps
<1>6. CASE \E pts \in {s.pts : s \in Range(submitted)} \cup {LostStamp} : FrameOut(pts)
  <2>1. \A s \in Range(submitted) : s.pts \in Nat
    <3>1. DOMAIN submitted = 1 .. Len(submitted)
      BY StatsFacts, LenProperties
    <3> QED BY <3>1, StatsFacts DEF Range
  <2>2. \A pts \in {s.pts : s \in Range(submitted)} \cup {LostStamp} : pts \in Int
    BY <2>1 DEF LostStamp
  <2> QED BY <1>6, <2>2, FrameOutKeeps
<1>7. CASE RecordFrame
  BY <1>7, RecordFrameKeeps
<1>8. CASE Refresh
  BY <1>8, RefreshKeeps DEF AudioInv
<1>9. CASE Redraw
  BY <1>9, RedrawKeeps
<1>10. CASE TickReporter
  <2>1. UNCHANGED <<clock, frames, stage, meta, submitted, output, lost>>
    BY <1>10 DEF TickReporter, pipeVars
  <2>2. CASE ResetStats
    BY <2>1, <2>2, ResetKeeps
  <2>3. CASE UNCHANGED <<st, truthVars>>
    BY <2>1, <2>3, OthersKeep DEF truthVars
  <2> QED BY <1>10, <2>2, <2>3 DEF TickReporter
<1>11. CASE EmbedderResets
  <2>1. ResetStats /\ UNCHANGED <<clock, frames, stage, meta, submitted, output, lost>>
    BY <1>11 DEF EmbedderResets, pipeVars
  <2> QED BY <2>1, ResetKeeps
<1>12. CASE UNCHANGED Stats
  BY <1>12, OthersKeep DEF Stats, pipeVars, truthVars
<1>13. CASE UNCHANGED statsVars
  BY <1>13, OthersKeep DEF statsVars, pipeVars, truthVars
<1> QED BY <1>1, <1>2, <1>3, <1>4, <1>5, <1>6, <1>7, <1>8, <1>9, <1>10, <1>11, <1>12, <1>13 DEF StatsNext

LEMMA StatsInitHolds == StatsInit => StatsInv
<1> SUFFICES ASSUME StatsInit PROVE StatsInv
  OBVIOUS
<1>1. /\ clock = 0 /\ frames = 0 /\ stage = "wait" /\ meta = NoMeta /\ submitted = <<>>
      /\ output = NoOutput /\ lost = 0 /\ st = NewStats /\ atReset = 0 /\ refreshed = {}
  BY DEF StatsInit
<1> DEFINE none == [s \in Series |-> Empty]
           lag  == [late \in 0 .. 3 |-> 0]
<1>2. none \in SeriesType /\ \A s \in Series : none[s] = Empty
  BY DEF SeriesType, Empty
<1>3. /\ lag \in [0 .. 3 -> Nat] /\ <<>> \in Seq(Entry) /\ <<>> \in Seq(Submission) /\ Len(<<>>) = 0
      /\ {} \in SUBSET Nat /\ DOMAIN <<>> = {} /\ 1 .. 0 = {}
  OBVIOUS
<1>4. st = [decoded |-> 0, errors |-> 0, lag |-> lag, lost |-> 0, base |-> 0, audioDropped |-> 0,
            series |-> none, lastPublish |-> {}, recent |-> <<>>]
  BY <1>1 DEF NewStats
<1> HIDE DEF none, lag
<1>5. /\ st \in StatsRecord /\ st.lost = 0 /\ st.base = 0 /\ st.series = none /\ st.recent = <<>> /\ st.decoded = 0
  BY <1>2, <1>3, <1>4 DEF StatsRecord
<1>6. StatsTyped
  BY <1>1, <1>3, <1>5 DEF StatsTyped, NoMeta, NoOutput
<1>7. (\A i \in 1 .. Len(st.recent) : FALSE) /\ (\A i \in 1 .. Len(submitted) : FALSE)
  BY <1>1, <1>3, <1>5
<1>8. StampsInOrder
  BY <1>1, <1>7 DEF StampsInOrder, NoMeta, NoOutput
<1>9. FramesInOrder
  BY <1>1, <1>7 DEF FramesInOrder
<1>10. TimelineInv
  <2>1. \A s \in Series : Count(s) = 0 /\ Sum(s) = 0
    BY <1>2, <1>5 DEF Count, Sum, Empty
  <2>2. {"receive", "queue", "decode", "pipeline", "present", "total"} \subseteq Series
    BY DEF Series
  <2>3. TimelineAdds
    BY <1>3, <1>5, <2>1, <2>2 DEF TimelineAdds
  <2>4. HasCover(st.recent, Unpresented, Sum("pipeline"))
    BY <1>5, CoverEmpty
  <2> QED BY <2>3, <2>4 DEF TimelineInv
<1>11. CounterInv
  BY <1>1, <1>5 DEF CounterInv
<1> QED BY <1>6, <1>8, <1>9, <1>10, <1>11 DEF StatsInv

LEMMA StatsInvHolds == StatsSpec => []StatsInv
<1> QED BY StatsInitHolds, StatsStepKeeps, AudioInvHolds, PTL DEF StatsSpec

\* The stages of the timeline add up and a frame is presented once, for every size of the
\* two memories, any number of frames and of resets wherever they fall between a frame's
\* being published, recorded and presented (Pipeline::decode, Client::frame_presented,
\* Client::reset_stats).
THEOREM TimelineAlwaysAdds == StatsSpec => []TimelineAdds
<1>1. StatsInv => TimelineAdds
  BY DEF StatsInv, TimelineInv
<1> QED BY <1>1, StatsInvHolds, PTL

\* A window's counters are the window's, wherever the resets fall between the refreshes
\* (StatsState::reset, Pipeline::stream).
THEOREM CountersAreOfWindow == StatsSpec => []CountersOfWindow
<1>1. StatsInv => CountersOfWindow
  <2> SUFFICES ASSUME StatsInv PROVE CountersOfWindow
    OBVIOUS
  <2>1. /\ st.base \in Nat /\ st.lost \in Nat /\ lost \in Nat /\ atReset \in Nat
        /\ st.base <= st.lost /\ st.lost <= lost /\ st.base <= atReset
        /\ refreshed \subseteq 0 .. st.lost
    BY DEF StatsInv, StatsTyped, StatsRecord, CounterInv
  <2>2. ShownLost \in 0 .. lost - st.base
    BY <2>1 DEF ShownLost
  <2>3. ASSUME NEW r \in refreshed PROVE ShownLost >= r - atReset
    <3>1. r \in Nat /\ r <= st.lost
      BY <2>1
    <3> QED BY <2>1, <3>1 DEF ShownLost
  <2> QED BY <2>2, <2>3 DEF CountersOfWindow
<1> QED BY <1>1, StatsInvHolds, PTL

-----------------------------------------------------------------------------
(* Pipeline. *)

\* The pacing: an outstanding request is the last one made, and young; and a
\* keyframe that is wanted was asked for less than a retry time before the loop
\* last turned.
PaceInv ==
  /\ LoopTypeOK
  /\ asks # <<>> => asks = <<age>> /\ age <= MaxAnswer
  /\ needed => age < Retry + idle

\* Retries are further apart than the time an answer takes (retry in `due`).
LEMMA RetryBounds ==
  /\ Retry \in Nat /\ LongAgo \in Nat
  /\ MaxAnswer < Retry
  /\ LongAgo = Retry + Idle
BY TimeAssumption DEF Retry, LongAgo, Larger

\* What is left outstanding once the oldest request is answered or lost.
LEMMA Answered ==
  ASSUME PaceInv, NEW waiting, waiting = asks \/ (asks # <<>> /\ waiting = Tail(asks))
  PROVE  /\ waiting \in Seq(0 .. MaxAnswer)
         /\ waiting # <<>> => waiting = <<age>> /\ age <= MaxAnswer
BY DEF PaceInv, LoopTypeOK

\* The end of a turn keeps the pacing, whatever the turn did before it.
LEMMA AskKeepsPace ==
  ASSUME PaceInv, NEW need \in BOOLEAN, NEW waiting,
         waiting \in Seq(0 .. MaxAnswer),
         waiting # <<>> => waiting = <<age>> /\ age <= MaxAnswer,
         Ask(need, waiting)
  PROVE  /\ needed' \in BOOLEAN /\ age' \in 0 .. LongAgo /\ idle' \in 0 .. Idle
         /\ asks' \in Seq(0 .. MaxAnswer)
         /\ asks' # <<>> => asks' = <<age'>> /\ age' <= MaxAnswer
         /\ needed' => age' < Retry + idle'
<1> USE RetryBounds, TimeAssumption DEF PaceInv, LoopTypeOK
<1>1. CASE need /\ age >= Retry
  <2>1. waiting = <<>>
    BY <1>1
  <2>2. needed' = TRUE /\ age' = 0 /\ idle' = 0 /\ asks' = <<0>>
    BY <1>1, <2>1 DEF Ask
  <2> QED BY <2>2
<1>2. CASE ~(need /\ age >= Retry)
  <2>1. needed' = need /\ age' = age /\ idle' = 0 /\ asks' = waiting
    BY <1>2 DEF Ask
  <2> QED BY <1>2, <2>1
<1> QED BY <1>1, <1>2

\* The part of LoopTypeOK a turn decides before it asks.
Settled ==
  /\ awaiting' \in BOOLEAN /\ joined' \in BOOLEAN /\ withheld' \in BOOLEAN
  /\ gap' \in {"none", "unseen", "seen"}
  /\ decoder' \in {"good", "lost", "silent"} /\ errors' \in 0 .. Streak - 1

LEMMA NeedType ==
  ASSUME PaceInv, NEW loss \in BOOLEAN, NEW given \in BOOLEAN, NEW key \in BOOLEAN,
         NEW closed \in BOOLEAN
  PROVE  Need(loss, given, key, closed) \in BOOLEAN
BY DEF Need

LEMMA TurnKeepsPace ==
  ASSUME PaceInv, Settled, NEW need \in BOOLEAN, NEW waiting,
         waiting = asks \/ (asks # <<>> /\ waiting = Tail(asks)),
         Ask(need, waiting)
  PROVE  PaceInv'
<1>1. /\ waiting \in Seq(0 .. MaxAnswer)
      /\ waiting # <<>> => waiting = <<age>> /\ age <= MaxAnswer
  BY Answered
<1>2. /\ needed' \in BOOLEAN /\ age' \in 0 .. LongAgo /\ idle' \in 0 .. Idle
      /\ asks' \in Seq(0 .. MaxAnswer)
      /\ asks' # <<>> => asks' = <<age'>> /\ age' <= MaxAnswer
      /\ needed' => age' < Retry + idle'
  BY <1>1, AskKeepsPace
<1> QED BY <1>2 DEF PaceInv, LoopTypeOK, Settled, Retry, LongAgo, Larger

LEMMA DecoderAfterType ==
  ASSUME NEW key \in BOOLEAN, NEW outcome \in Outcomes
  PROVE  DecoderAfter(key, outcome) \subseteq {"good", "lost", "silent"}
<1>1. CASE outcome = "published"
  BY <1>1 DEF DecoderAfter
<1>2. CASE outcome = "nothing"
  BY <1>2 DEF DecoderAfter
<1>3. CASE outcome = "failed"
  BY <1>3 DEF DecoderAfter
<1> QED BY <1>1, <1>2, <1>3 DEF Outcomes

LEMMA DecodeKeepsPace ==
  ASSUME PaceInv, NEW key \in BOOLEAN, NEW outcome \in Outcomes, NEW waiting,
         waiting = asks \/ (asks # <<>> /\ waiting = Tail(asks)),
         joined' = TRUE, gap' = "none",
         Decode(key, outcome, waiting)
  PROVE  PaceInv'
<1> DEFINE rekey == outcome = "failed" /\ errors + 1 >= Streak
           need  == rekey \/ Need(Revealed, TRUE, key, FALSE)
<1>1. decoder' \in {"good", "lost", "silent"}
  BY DecoderAfterType DEF Decode
<1>2. errors' \in 0 .. Streak - 1
  BY StreakAssumption DEF Decode, Failures, PaceInv, LoopTypeOK
<1>3. Settled
  BY <1>1, <1>2 DEF Decode, Settled, PaceInv, LoopTypeOK
<1>4. need \in BOOLEAN
  BY DEF Need, PaceInv, LoopTypeOK, Revealed
<1>5. Ask(need, waiting)
  BY DEF Decode
<1> QED BY <1>3, <1>4, <1>5, TurnKeepsPace

LEMMA KeyFrameKeepsPace ==
  ASSUME PaceInv, NEW outcome \in Outcomes, NEW waiting,
         waiting = asks \/ (asks # <<>> /\ waiting = Tail(asks)),
         KeyFrame(outcome, waiting)
  PROVE  PaceInv'
BY DecodeKeepsPace DEF KeyFrame

LEMMA PredictedKeepsPace ==
  ASSUME PaceInv, PredictedFrame
  PROVE  PaceInv'
<1>1. PICK outcome \in Outcomes : Decode(FALSE, outcome, asks)
  BY DEF PredictedFrame
<1> QED BY <1>1, DecodeKeepsPace DEF PredictedFrame

LEMMA WithheldKeepsPace ==
  ASSUME PaceInv, WithheldFrame
  PROVE  PaceInv'
<1>1. Settled
  BY DEF WithheldFrame, Settled, PaceInv, LoopTypeOK
<1>2. Need(Revealed, FALSE, FALSE, TRUE) \in BOOLEAN
  BY DEF Need
<1>3. Ask(Need(Revealed, FALSE, FALSE, TRUE), asks)
  BY DEF WithheldFrame
<1> QED BY <1>1, <1>2, <1>3, TurnKeepsPace

LEMMA DamagedKeepsPace ==
  ASSUME PaceInv, NEW waiting,
         waiting = asks \/ (asks # <<>> /\ waiting = Tail(asks)),
         DamagedFrame(waiting)
  PROVE  PaceInv'
<1>1. Settled
  BY DEF DamagedFrame, Settled, PaceInv, LoopTypeOK
<1>2. Need(TRUE, FALSE, FALSE, withheld) \in BOOLEAN
  BY DEF Need
<1>3. Ask(Need(TRUE, FALSE, FALSE, withheld), waiting)
  BY DEF DamagedFrame
<1> QED BY <1>1, <1>2, <1>3, TurnKeepsPace

LEMMA PartKeepsPace ==
  ASSUME PaceInv, NEW evicts \in BOOLEAN, NEW waiting,
         waiting = asks \/ (asks # <<>> /\ waiting = Tail(asks)),
         PartOfFrame(evicts, waiting)
  PROVE  PaceInv'
<1>1. Settled
  BY DEF PartOfFrame, Settled, PaceInv, LoopTypeOK
<1>2. Need(evicts, FALSE, FALSE, awaiting' /\ withheld) \in BOOLEAN
  BY DEF Need
<1>3. Ask(Need(evicts, FALSE, FALSE, awaiting' /\ withheld), waiting)
  BY DEF PartOfFrame
<1> QED BY <1>1, <1>2, <1>3, TurnKeepsPace

LEMMA VanishedKeepsPace ==
  ASSUME PaceInv, NEW waiting,
         waiting = asks \/ (asks # <<>> /\ waiting = Tail(asks)),
         VanishedFrame(waiting)
  PROVE  PaceInv'
<1>1. /\ waiting \in Seq(0 .. MaxAnswer)
      /\ waiting # <<>> => waiting = <<age>> /\ age <= MaxAnswer
  BY Answered
<1> QED BY <1>1 DEF VanishedFrame, PaceInv, LoopTypeOK, Retry, LongAgo, Larger

LEMMA TickKeepsPace ==
  ASSUME PaceInv, LoopTick
  PROVE  PaceInv'
<1> USE TimeAssumption, RetryBounds DEF PaceInv, LoopTypeOK
<1>1. age' \in 0 .. LongAgo /\ idle' \in 0 .. Idle /\ idle' = idle + 1
      /\ (age < LongAgo => age' = age + 1)
  BY DEF LoopTick, Older
<1>2. CASE asks = <<>>
  <2>1. asks' = <<>>
    BY <1>2 DEF LoopTick
  <2> QED BY <1>1, <2>1 DEF LoopTick, reassembler, Retry, LongAgo, Larger
<1>3. CASE asks # <<>>
  <2>1. asks = <<age>> /\ age < MaxAnswer /\ age < LongAgo
    BY <1>3 DEF LoopTick
  <2>2. asks' = <<age + 1>>
    BY <2>1 DEF LoopTick
  <2> QED BY <1>1, <2>1, <2>2 DEF LoopTick, reassembler, Retry, LongAgo, Larger
<1> QED BY <1>2, <1>3

LEMMA NextKeepsPace == PaceInv /\ [LoopNext]_loopVars => PaceInv'
<1> SUFFICES ASSUME PaceInv, [LoopNext]_loopVars PROVE PaceInv'
  OBVIOUS
<1>1. CASE HostFrame
  BY <1>1, PredictedKeepsPace, WithheldKeepsPace, KeyFrameKeepsPace, DamagedKeepsPace,
     PartKeepsPace, VanishedKeepsPace DEF HostFrame
<1>2. CASE AnswerLost
  BY <1>2, DamagedKeepsPace, PartKeepsPace, VanishedKeepsPace DEF AnswerLost
<1>3. CASE AnswerFails
  BY <1>3, KeyFrameKeepsPace DEF AnswerFails, Outcomes
<1>4. CASE AnswerWorks
  BY <1>4, KeyFrameKeepsPace DEF AnswerWorks, Outcomes
<1>5. ASSUME NEW video \in BOOLEAN, OtherPacket(video) PROVE PaceInv'
  <2> DEFINE need == IF video THEN Need(FALSE, FALSE, FALSE, awaiting /\ withheld) ELSE needed
  <2>1. Settled
    BY <1>5 DEF OtherPacket, reassembler, Settled, PaceInv, LoopTypeOK
  <2>2. need \in BOOLEAN
    BY DEF Need, PaceInv, LoopTypeOK
  <2>3. Ask(need, asks)
    BY <1>5 DEF OtherPacket
  <2> QED BY <2>1, <2>2, <2>3, TurnKeepsPace
<1>6. CASE RestartPacket
  <2>1. Settled
    BY <1>6 DEF RestartPacket, Settled, PaceInv, LoopTypeOK
  <2>2. Need(FALSE, FALSE, FALSE, withheld) \in BOOLEAN
    BY DEF Need
  <2>3. Ask(Need(FALSE, FALSE, FALSE, withheld), asks)
    BY <1>6 DEF RestartPacket
  <2> QED BY <2>1, <2>2, <2>3, TurnKeepsPace
<1>7. CASE IdleTurn
  <2>1. Settled
    BY <1>7 DEF IdleTurn, reassembler, Settled, PaceInv, LoopTypeOK
  <2>2. needed \in BOOLEAN
    BY DEF PaceInv, LoopTypeOK
  <2>3. Ask(needed, asks)
    BY <1>7 DEF IdleTurn
  <2> QED BY <2>1, <2>2, <2>3, TurnKeepsPace
<1>8. CASE DecoderFault
  BY <1>8 DEF DecoderFault, reassembler, PaceInv, LoopTypeOK, Retry, LongAgo, Larger
<1>9. CASE LoopTick
  BY <1>9, TickKeepsPace
<1>10. CASE UNCHANGED loopVars
  BY <1>10 DEF loopVars, reassembler, PaceInv, LoopTypeOK, Retry, LongAgo, Larger
<1> QED BY <1>1, <1>2, <1>3, <1>4, <1>5, <1>6, <1>7, <1>8, <1>9, <1>10 DEF LoopNext

LEMMA PaceInvariant == LoopSpec => []PaceInv
<1>1. LoopInit => PaceInv
  <2> SUFFICES ASSUME LoopInit PROVE PaceInv
    OBVIOUS
  <2>1. age \in 0 .. LongAgo /\ errors \in 0 .. Streak - 1 /\ idle \in 0 .. Idle
    BY TimeAssumption, StreakAssumption, RetryBounds DEF LoopInit
  <2>2. asks = <<>> /\ asks \in Seq(0 .. MaxAnswer)
    BY DEF LoopInit
  <2> QED BY <2>1, <2>2 DEF LoopInit, PaceInv, LoopTypeOK
<1> QED BY <1>1, NextKeepsPace, PTL DEF LoopSpec

\* The variables of the pipeline loop have their types (Pipeline::stream).
THEOREM PipelineTypes == LoopSpec => []LoopTypeOK
<1>1. PaceInv => LoopTypeOK
  BY DEF PaceInv
<1> QED BY <1>1, PaceInvariant, PTL

\* KeyframeRequester never asks for a keyframe that is still on its way, provided an
\* answer takes no longer than a round trip and two frame intervals.
THEOREM NeverAskedTwice == LoopSpec => []NotAskedTwice
<1>1. PaceInv => NotAskedTwice
  <2> SUFFICES ASSUME PaceInv PROVE Len(asks) <= 1
    BY DEF NotAskedTwice
  <2>1. CASE asks = <<>>
    BY <2>1
  <2>2. CASE asks # <<>>
    <3>1. asks = <<age>>
      BY <2>2 DEF PaceInv
    <3>2. Len(<<age>>) = 1
      OBVIOUS
    <3> QED BY <3>1, <3>2
  <2> QED BY <2>1, <2>2
<1> QED BY <1>1, PaceInvariant, PTL

\* A wanted keyframe is asked for again no later than the retry time and one idle
\* tick after the last request.
THEOREM AlwaysRetriedInTime == LoopSpec => []RetriedInTime
<1>1. PaceInv => RetriedInTime
  BY RetryBounds, TimeAssumption DEF PaceInv, LoopTypeOK, RetriedInTime
<1> QED BY <1>1, PaceInvariant, PTL

\* A keyframe is wanted only, and as soon as, the gate is closed on a picture
\* (the needs and `satisfied` of Pipeline::stream against the reassembler's gate).
THEOREM WantedExactly == LoopSpec => []WantedWhileClosed
<1>1. LoopInit => WantedWhileClosed
  BY DEF LoopInit, WantedWhileClosed
<1>2. LoopTypeOK /\ WantedWhileClosed /\ [LoopNext]_loopVars => WantedWhileClosed'
  <2> SUFFICES ASSUME LoopTypeOK, WantedWhileClosed, [LoopNext]_loopVars PROVE WantedWhileClosed'
    OBVIOUS
  <2> USE DEF WantedWhileClosed, LoopTypeOK
  <2>1. ASSUME NEW outcome, NEW waiting, KeyFrame(outcome, waiting) PROVE WantedWhileClosed'
    BY <2>1 DEF KeyFrame, Decode, Need, Ask
  <2>2. CASE PredictedFrame
    BY <2>2 DEF PredictedFrame, Decode, Need, Ask
  <2>3. CASE WithheldFrame
    BY <2>3 DEF WithheldFrame, Need, Ask
  <2>4. ASSUME NEW waiting, DamagedFrame(waiting) PROVE WantedWhileClosed'
    BY <2>4 DEF DamagedFrame, Need, Ask
  <2>5. ASSUME NEW evicts \in BOOLEAN, NEW waiting, PartOfFrame(evicts, waiting)
        PROVE  WantedWhileClosed'
    BY <2>5 DEF PartOfFrame, Need, Ask
  <2>6. ASSUME NEW waiting, VanishedFrame(waiting) PROVE WantedWhileClosed'
    BY <2>6 DEF VanishedFrame
  <2>7. CASE HostFrame
    BY <2>1, <2>2, <2>3, <2>4, <2>5, <2>6, <2>7 DEF HostFrame
  <2>8. CASE AnswerLost
    BY <2>4, <2>5, <2>6, <2>8 DEF AnswerLost
  <2>9. CASE AnswerFails \/ AnswerWorks
    BY <2>1, <2>9 DEF AnswerFails, AnswerWorks
  <2>10. ASSUME NEW video \in BOOLEAN, OtherPacket(video) PROVE WantedWhileClosed'
    BY <2>10 DEF OtherPacket, reassembler, Need, Ask
  <2>11. CASE RestartPacket
    BY <2>11 DEF RestartPacket, Need, Ask
  <2>12. CASE IdleTurn
    BY <2>12 DEF IdleTurn, reassembler, Ask
  <2>13. CASE DecoderFault \/ LoopTick \/ UNCHANGED loopVars
    BY <2>13 DEF DecoderFault, LoopTick, loopVars, reassembler
  <2> QED BY <2>7, <2>8, <2>9, <2>10, <2>11, <2>12, <2>13 DEF LoopNext
<1> QED BY <1>1, <1>2, PipelineTypes, PTL DEF LoopSpec
=============================================================================
