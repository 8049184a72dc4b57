------------------------------- MODULE AudioPath -------------------------------
(***************************************************************************)
(* Audio, from the pipeline thread to the loudspeaker: the pipeline thread *)
(* offers each datagram to a bounded queue (client lib.rs,                 *)
(* Pipeline::stream); the app's audio thread takes them, passes over what  *)
(* is not Opus data, decodes the rest (app main.rs, audio_thread;          *)
(* starfire-audio rtp.rs, decode.rs) and pushes the samples into a ring    *)
(* that the device's callback drains (output.rs).  Datagrams are numbered  *)
(* in the order they arrive; a sample is its datagram's number and its     *)
(* channel.                                                                *)
(***************************************************************************)
EXTENDS Integers, Sequences, SequencesExt

CONSTANTS
  QueueLimit,     \* AUDIO_QUEUE
  RingCap,        \* samples the ring keeps: 60 ms, of both channels
  Lengths,        \* samples of one channel that a datagram may decode to
  Callbacks,      \* samples of one channel that the device may ask for
  FixtureLimit    \* datagrams written to a fixture

ASSUME AudioAssumption ==
  /\ QueueLimit \in Nat \ {0} /\ FixtureLimit \in Nat
  /\ RingCap \in Nat /\ RingCap % 2 = 0 /\ Lengths \subseteq Nat /\ Callbacks \subseteq Nat

VARIABLES
  datagrams,   \* audio datagrams the pipeline thread was given
  queue,       \* those waiting for the embedder
  refused,     \* audio_dropped: those the queue had no room for
  unheard,     \* those nobody was there to take (history)
  taken,       \* those the embedder's thread took (history)
  listener,    \* "none": not started; "opening", "playing", "writing" or "gone"
  ring,        \* samples decoded and not played
  last         \* the datagram played last, and whether the callback ran dry (history)

audioVars == <<datagrams, queue, refused, unheard, taken, listener, ring, last>>

Channels == <<"left", "right">>

\* Interleaved samples of datagram d, n of each channel.
Pcm(d, n) == [i \in 1 .. 2 * n |-> [from |-> d, channel |-> Channels[1 + ((i - 1) % 2)]]]

-----------------------------------------------------------------------------
(* The pipeline thread: SessionEvent::Audio. *)

\* Mutant: a datagram for nobody counts as dropped.
OfferCountsAll ==
  /\ datagrams' = datagrams + 1
  /\ IF listener # "gone" /\ Len(queue) < QueueLimit
     THEN queue' = Append(queue, datagrams + 1) /\ UNCHANGED refused
     ELSE refused' = refused + 1 /\ UNCHANGED queue
  /\ unheard' = IF listener = "gone" THEN unheard + 1 ELSE unheard
  /\ UNCHANGED <<taken, listener, ring, last>>

\* try_send: the datagram joins the queue, or is dropped for want of room, or of a
\* receiver.
Offer ==
  /\ datagrams' = datagrams + 1
  /\ CASE listener = "gone"        -> unheard' = unheard + 1 /\ UNCHANGED <<queue, refused>>
       [] listener # "gone" /\ Len(queue) < QueueLimit ->
            queue' = Append(queue, datagrams + 1) /\ UNCHANGED <<refused, unheard>>
       [] listener # "gone" /\ Len(queue) >= QueueLimit ->
            refused' = refused + 1 /\ UNCHANGED <<queue, unheard>>
  /\ UNCHANGED <<taken, listener, ring, last>>

-----------------------------------------------------------------------------
(* The embedder's audio thread. *)

\* The receiver is dropped, and what is queued with it.
Leave ==
  /\ listener' = "gone" /\ queue' = <<>>
  /\ unheard' = unheard + Len(queue)

\* start_audio: playback, or a fixture.
StartAudio ==
  /\ listener = "none" /\ listener' \in {"opening", "writing"}
  /\ UNCHANGED <<datagrams, queue, refused, unheard, taken, ring, last>>

\* CpalPlayer::new and OpusAudioDecoder::new, or one of them fails.
OpenOutput ==
  /\ listener = "opening"
  /\ \/ listener' = "playing" /\ UNCHANGED <<queue, unheard>>
     \/ Leave
  /\ UNCHANGED <<datagrams, refused, taken, ring, last>>

\* Mutant: the oldest samples are dropped until the ring is below its limit.
KeptBelowCap(samples) ==
  IF Len(samples) < RingCap THEN samples ELSE SubSeq(samples, Len(samples) - RingCap + 2, Len(samples))

\* The ring's limit: the oldest samples are dropped.
KeptWithinCap(samples) ==
  IF Len(samples) <= RingCap THEN samples ELSE SubSeq(samples, Len(samples) - RingCap + 1, Len(samples))

\* CpalPlayer::push.
PushPcm(pcm) == ring' = KeptWithinCap(ring \o pcm)

\* opus_payload: a datagram that is too short or not Opus data is passed over.
PassOver ==
  /\ listener = "playing" /\ queue # <<>>
  /\ queue' = Tail(queue) /\ taken' = taken + 1
  /\ UNCHANGED <<datagrams, refused, unheard, listener, ring, last>>

\* decode: one that decodes is pushed; one that does not is passed over too.
Play ==
  /\ listener = "playing" /\ queue # <<>>
  /\ queue' = Tail(queue) /\ taken' = taken + 1
  /\ \E n \in Lengths : PushPcm(Pcm(Head(queue), n))
  /\ UNCHANGED <<datagrams, refused, unheard, listener, last>>

\* The fixture's thread, which leaves after its last datagram.
Write ==
  /\ listener = "writing"
  /\ IF taken < FixtureLimit
     THEN /\ queue # <<>> /\ queue' = Tail(queue) /\ taken' = taken + 1
          /\ UNCHANGED <<unheard, listener>>
     ELSE Leave /\ UNCHANGED taken
  /\ UNCHANGED <<datagrams, refused, ring, last>>

\* The device's callback: n samples of each channel, silence for those that are not there.
Callback(n) ==
  /\ listener = "playing"
  /\ LET k == IF 2 * n <= Len(ring) THEN 2 * n ELSE Len(ring)
     IN  /\ ring' = SubSeq(ring, k + 1, Len(ring))
         /\ last' = IF k = 0 THEN last ELSE ring[k].from
  /\ UNCHANGED <<datagrams, queue, refused, unheard, taken, listener>>

-----------------------------------------------------------------------------
AudioInit ==
  /\ datagrams = 0 /\ queue = <<>> /\ refused = 0 /\ unheard = 0 /\ taken = 0
  /\ listener = "none" /\ ring = <<>> /\ last = 0

Listening == StartAudio \/ OpenOutput \/ PassOver \/ Play \/ Write \/ (\E n \in Callbacks : Callback(n))

-----------------------------------------------------------------------------
(* Properties. *)

\* Every datagram is waiting, taken, counted as dropped, or was for nobody; a datagram
\* counts as dropped only while somebody could have read it (ClientStats::audio_dropped,
\* "dropped because the embedder was not reading them").
AudioAccounted ==
  /\ datagrams = Len(queue) + taken + refused + unheard
  /\ Len(queue) <= QueueLimit

\* Whatever the ring drops and however the callback runs dry, the left channel's samples
\* go to the left and the right channel's to the right, in the order the datagrams came.
ChannelsAligned ==
  /\ \A i \in DOMAIN ring : ring[i].channel = Channels[1 + ((i - 1) % 2)]
  /\ \A i \in DOMAIN ring : ring[i].from >= last /\ \A j \in 1 .. i : ring[j].from <= ring[i].from
=============================================================================
