-------------------------------- MODULE Pipeline --------------------------------
(***************************************************************************)
(* Keyframe recovery in the pipeline thread (starfire-client lib.rs,       *)
(* Pipeline::stream): the loop waits for a datagram or for its idle tick,  *)
(* feeds the reassembler, feeds the decoder, and asks the host for a       *)
(* keyframe when the picture cannot go on without one.                     *)
(*                                                                         *)
(* The reassembler is seen at the granularity of frames (Depacketizer has  *)
(* its packets): a frame the host sends comes whole, in part, damaged      *)
(* beyond repair, or not at all.  Time is counted in ticks; one step of    *)
(* the loop is instantaneous.                                              *)
(***************************************************************************)
EXTENDS Integers, Sequences

CONSTANTS
  Rtt,        \* control-channel round trip, in ticks
  Interval,   \* frame interval, in ticks
  Floor,      \* least time between two requests, in ticks
  Idle,       \* IDLE_TICK, in ticks
  Streak,     \* DECODE_ERROR_STREAK
  MaxAnswer   \* BOUND: a requested keyframe arrives, or is lost, within this many ticks

ASSUME TimeAssumption ==
  /\ Rtt \in Nat /\ Interval \in Nat \ {0} /\ Floor \in Nat /\ Idle \in Nat \ {0}
  /\ MaxAnswer \in Nat \ {0} /\ MaxAnswer <= Rtt + 2 * Interval
ASSUME StreakAssumption == Streak \in Nat \ {0}

VARIABLES
  awaiting,   \* the reassembler's keyframe gate is closed
  joined,     \* the reassembler has settled a frame (its floor is known)
  withheld,   \* frames_skipped > 0
  gap,        \* frames missing since the last settled one: "none", "unseen", "seen"
  decoder,    \* "good": it holds the reference of the next frame; "lost"; "silent": lost,
              \* and the last access unit it was given did not fail
  errors,     \* consecutive_errors
  needed,     \* KeyframeRequester.needed
  age,        \* ticks since KeyframeRequester.last, LongAgo when None
  idle,       \* ticks the loop has been waiting
  asks        \* ages of the requests whose keyframe is neither here nor lost

reassembler == <<awaiting, joined, withheld, gap>>
loopVars == <<reassembler, decoder, errors, needed, age, idle, asks>>

-----------------------------------------------------------------------------
(* KeyframeRequester. *)

Larger(a, b) == IF a >= b THEN a ELSE b

\* Mutant: only the floor paces the requests.
RetryFloorOnly == Floor

Retry == Larger(2 * Rtt + 3 * Interval, Floor)

\* A request this old, or none at all, makes no difference.
LongAgo == Retry + Idle

\* The end of every turn of the loop: `due`, and the request.
Ask(need, waiting) ==
  LET due == need /\ age >= Retry
  IN  /\ needed' = need
      /\ age' = IF due THEN 0 ELSE age
      /\ asks' = IF due THEN Append(waiting, 0) ELSE waiting
      /\ idle' = 0

-----------------------------------------------------------------------------
(* Turns of the loop. *)

\* Mutants: frames withheld do not count as a need; the keyframe is taken note
\* of before the loss that precedes it.
NeedUnlessWithheld(loss, given, key, closed) ==
  IF given /\ key THEN FALSE ELSE needed \/ loss
NeedLossLast(loss, given, key, closed) ==
  \/ loss
  \/ ~(given /\ key) /\ needed
  \/ ~given /\ closed

\* After a push: `closed` says that frames are being withheld.
Need(loss, given, key, closed) ==
  /\ ~(given /\ key)
  /\ needed \/ loss \/ (~given /\ closed)

\* Settling a frame reveals the ones missing before it, except those before the
\* first packet of the stream.
Revealed == gap = "seen" \/ (gap = "unseen" /\ joined)

\* DecodeOutcome.
Outcomes == {"published", "nothing", "failed"}

Failures(outcome) ==
  IF outcome = "failed" /\ errors + 1 < Streak THEN errors + 1 ELSE 0

\* What the decoder holds after an access unit.  One that gave nothing may be
\* buffering, or has dropped the frame without an error (decompression_output).
DecoderAfter(key, outcome) ==
  LET kept == IF key \/ decoder = "good" THEN "good" ELSE "silent"
  IN  CASE outcome = "published" -> {kept}
        [] outcome = "nothing"   -> {kept, "silent"}
        [] outcome = "failed"    -> {"lost"}

\* A frame came together and its references were handed out: it is decoded.
Decode(key, outcome, waiting) ==
  LET rekey == outcome = "failed" /\ errors + 1 >= Streak
  IN  /\ awaiting' = rekey
      /\ decoder' \in DecoderAfter(key, outcome)
      /\ errors' = Failures(outcome)
      /\ UNCHANGED withheld
      /\ Ask(rekey \/ Need(Revealed, TRUE, key, FALSE), waiting)

KeyFrame(outcome, waiting) ==
  /\ joined' = TRUE /\ gap' = "none"
  /\ Decode(TRUE, outcome, waiting)

PredictedFrame ==
  /\ ~awaiting /\ ~Revealed
  /\ joined' = TRUE /\ gap' = "none"
  /\ \E outcome \in Outcomes : Decode(FALSE, outcome, asks)

WithheldFrame ==
  /\ awaiting \/ Revealed
  /\ joined' = TRUE /\ gap' = "none"
  /\ awaiting' = TRUE /\ withheld' = TRUE
  /\ UNCHANGED <<decoder, errors>>
  /\ Ask(Need(Revealed, FALSE, FALSE, TRUE), asks)

\* A frame that has all its shards and still cannot be assembled.
DamagedFrame(waiting) ==
  /\ joined' = TRUE /\ gap' = "none" /\ awaiting' = TRUE
  /\ UNCHANGED <<withheld, decoder, errors>>
  /\ Ask(Need(TRUE, FALSE, FALSE, withheld), waiting)

\* The first packet of a frame that will not come together; the oldest such
\* frame is given up when the window is full of them.
PartOfFrame(evicts, waiting) ==
  /\ evicts => gap = "seen"
  /\ gap' = "seen"
  /\ joined' = (joined \/ evicts)
  /\ awaiting' = (awaiting \/ evicts)
  /\ UNCHANGED <<withheld, decoder, errors>>
  /\ Ask(Need(evicts, FALSE, FALSE, awaiting' /\ withheld), waiting)

\* A packet that settles nothing and opens nothing, or an audio packet.
OtherPacket(video) ==
  /\ UNCHANGED <<reassembler, decoder, errors>>
  /\ Ask(IF video THEN Need(FALSE, FALSE, FALSE, awaiting /\ withheld) ELSE needed, asks)

\* Mutant: the requester is only asked after an event.
IdleTurnNoAsk ==
  /\ idle = Idle
  /\ idle' = 0
  /\ UNCHANGED <<reassembler, decoder, errors, needed, age, asks>>

\* The first packet after the host restarted its frame counter; its frame comes
\* whole or not in a later step.
RestartPacket ==
  /\ joined
  /\ joined' = FALSE /\ awaiting' = TRUE /\ gap' = "none"
  /\ UNCHANGED <<withheld, decoder, errors>>
  /\ Ask(Need(FALSE, FALSE, FALSE, withheld), asks)

\* recv_timeout expired.
IdleTurn ==
  /\ idle = Idle
  /\ UNCHANGED <<reassembler, decoder, errors>>
  /\ Ask(needed, asks)

-----------------------------------------------------------------------------
(* The host, the network, the decoder and time. *)

\* A frame of which no packet arrives: the loop does not turn.
VanishedFrame(waiting) ==
  /\ gap' = IF gap = "none" THEN "unseen" ELSE gap
  /\ asks' = waiting
  /\ UNCHANGED <<awaiting, joined, withheld, decoder, errors, needed, age, idle>>

\* A predicted frame, or a keyframe of the host's own accord.
HostFrame ==
  \/ PredictedFrame
  \/ WithheldFrame
  \/ \E outcome \in Outcomes : KeyFrame(outcome, asks)
  \/ DamagedFrame(asks)
  \/ \E evicts \in BOOLEAN : PartOfFrame(evicts, asks)
  \/ VanishedFrame(asks)

\* The keyframe a request asked for.
AnswerLost ==
  /\ asks # <<>>
  /\ \/ DamagedFrame(Tail(asks))
     \/ \E evicts \in BOOLEAN : PartOfFrame(evicts, Tail(asks))
     \/ VanishedFrame(Tail(asks))

AnswerFails  == asks # <<>> /\ \E outcome \in {"nothing", "failed"} : KeyFrame(outcome, Tail(asks))
AnswerWorks  == asks # <<>> /\ KeyFrame("published", Tail(asks))

\* The decoder loses its references by itself.
DecoderFault ==
  /\ decoder' = "lost"
  /\ UNCHANGED <<reassembler, errors, needed, age, idle, asks>>

Older(a) == IF a < LongAgo THEN a + 1 ELSE a

LoopTick ==
  /\ idle < Idle
  /\ \A i \in DOMAIN asks : asks[i] < MaxAnswer
  /\ idle' = idle + 1
  /\ age' = Older(age)
  /\ asks' = [i \in DOMAIN asks |-> asks[i] + 1]
  /\ UNCHANGED <<reassembler, decoder, errors, needed>>

LoopInit ==
  /\ awaiting = TRUE /\ joined = FALSE /\ withheld = FALSE /\ gap = "none"
  /\ decoder = "lost" /\ errors = 0
  /\ needed = FALSE /\ age = LongAgo /\ idle = 0 /\ asks = <<>>

LoopNext ==
  \/ HostFrame
  \/ AnswerLost \/ AnswerFails \/ AnswerWorks
  \/ \E video \in BOOLEAN : OtherPacket(video)
  \/ RestartPacket
  \/ IdleTurn
  \/ DecoderFault
  \/ LoopTick

LoopSpec == LoopInit /\ [][LoopNext]_loopVars

\* Time passes and the loop runs; the host keeps sending frames, not all of which
\* are lost; and a host that is asked again and again gets a keyframe through.
LoopFairness ==
  /\ WF_loopVars(LoopTick)
  /\ WF_loopVars(IdleTurn)
  /\ WF_loopVars(PredictedFrame)
  /\ WF_loopVars(WithheldFrame)
  /\ SF_loopVars(AnswerWorks)

LoopFairSpec == LoopSpec /\ LoopFairness

-----------------------------------------------------------------------------
(* Properties. *)

\* The types of the loop's variables.
LoopTypeOK ==
  /\ awaiting \in BOOLEAN /\ joined \in BOOLEAN /\ withheld \in BOOLEAN
  /\ gap \in {"none", "unseen", "seen"}
  /\ decoder \in {"good", "lost", "silent"} /\ errors \in 0 .. Streak - 1
  /\ needed \in BOOLEAN /\ age \in 0 .. LongAgo /\ idle \in 0 .. Idle
  /\ asks \in Seq(0 .. MaxAnswer)

\* A keyframe is wanted only while the gate is closed, never for a picture that is
\* fine; and it is wanted as soon as a closed gate can be told from a stream that
\* has yet to begin (docs/06-testing.md: "IDR is requested exactly when a frame is
\* unrecoverable").
WantedWhileClosed ==
  /\ needed => awaiting
  /\ awaiting /\ (joined \/ withheld) => needed

\* A keyframe that is still on its way is not asked for twice (KeyframeRequester).
NotAskedTwice == Len(asks) <= 1

\* While a keyframe is wanted, the last request is never older than the retry time
\* and one idle tick: a lost request or keyframe is retried on time.
RetriedInTime == needed => age < LongAgo

\* A picture that stopped starts again: whatever is lost and whenever the decoder
\* fails, at some later time the gate is open and the decoder has its reference, or
\* has lost it without saying so.
PictureRecoversUnlessSilent ==
  (awaiting \/ decoder = "lost") ~> (~awaiting /\ decoder # "lost")

\* The claim of docs/04-platform-backends.md:28, that decoders "surface IDR/decode errors
\* back so the session can request recovery": a decoder that lost its reference gets a
\* keyframe, whatever it says of itself.
PictureRecovers ==
  (awaiting \/ decoder # "good") ~> (~awaiting /\ decoder = "good")
=============================================================================
