-------------------------------- MODULE FramePath --------------------------------
(***************************************************************************)
(* A frame's way from the decoder to the screen on Windows: the pipeline   *)
(* thread pushes access units into Media Foundation and publishes what     *)
(* comes out (starfire-decode mediafoundation.rs, client lib.rs            *)
(* Pipeline::decode); the embedder's thread draws the published frame      *)
(* (starfire-render d3d11.rs).  Pictures stay in GPU textures: the         *)
(* decoder's own (path "direct"), which it uses again once nobody holds    *)
(* the sample, or a ring of private copies (path "copy").  With zero_copy  *)
(* off they are copied to memory of their own (path "planes").  Access     *)
(* units are numbered in the order they are pushed, and the number stands  *)
(* for the frame index; measurements other than the match of a frame with  *)
(* its submission are left out.                                            *)
(***************************************************************************)
EXTENDS Integers, Sequences, SequencesExt, FiniteSets

CONSTANTS
  Samples,          \* the decoder's output samples (DIRECT_SPARE_SAMPLES of them)
  RingSize,         \* textures in the present ring
  SubmittedLimit,   \* submissions remembered
  MaxPushed,        \* BOUND: access units pushed
  MaxFormats        \* BOUND: changes of the picture's size

ASSUME SamplesAssumption == IsFiniteSet(Samples)
ASSUME TextureAssumption == Samples \cap ((-1 .. MaxFormats) \X Nat) = {}
ASSUME SizesAssumption ==
  /\ RingSize \in Nat \ {0} /\ SubmittedLimit \in Nat \ {0}
  /\ MaxPushed \in Nat /\ MaxFormats \in Nat

VARIABLES
  thread,      \* where the pipeline thread is in decode() and push()
  pushed,      \* access units pushed so far
  submitted,   \* those remembered for their timeline
  inside,      \* those the decoder accepted and has not returned
  out,         \* out_queue
  path,        \* `direct`, once it is known
  format,      \* number of the current picture size
  ring,        \* the present ring: the size it is made for, and ring_idx
  hand,        \* the frame push() returned (sets of at most one frame)
  slot,        \* `latest`
  last, prev,  \* last_hold, prev_hold
  shown,       \* the last two frames presented (history)
  picture,     \* the access unit each texture shows
  newest,      \* the newest access unit that came out (history)
  failed,      \* access units whose push failed (history)
  timed        \* those whose timeline was recorded (history)

decoderVars  == <<inside, out, path, format, ring, picture, newest>>
rendererVars == <<last, prev, shown>>
vars == <<thread, pushed, submitted, hand, slot, failed, timed, decoderVars, rendererVars>>

Unit    == 1 .. MaxPushed
NoStamp == 0                       \* the decoder lost the sample time
Memory  == -1                      \* beside the ring's textures: planes of a frame's own
Surface == Samples \cup ((0 .. MaxFormats) \X (0 .. RingSize - 1)) \cup ({Memory} \X Unit)
Frame   == [unit : Unit, pts : Unit \cup {NoStamp}, surface : Surface]

-----------------------------------------------------------------------------
(* Who holds which picture. *)

Frames(s) == {s[i] : i \in DOMAIN s}

\* Samples a frame keeps alive.
Kept == {f.surface : f \in Frames(out) \cup hand \cup slot \cup last \cup prev}

Free == Samples \ Kept

-----------------------------------------------------------------------------
(* The pipeline thread: decode() remembers the access unit, push() feeds it. *)

Submit ==
  /\ thread = "idle" /\ pushed < MaxPushed
  /\ pushed' = pushed + 1
  /\ submitted' = Append(IF Len(submitted) >= SubmittedLimit THEN Tail(submitted) ELSE submitted,
                         pushed + 1)
  /\ thread' = "input"
  /\ UNCHANGED <<hand, slot, failed, timed, decoderVars, rendererVars>>

Accept ==
  /\ thread \in {"input", "retry"}
  /\ inside' = Append(inside, pushed)
  /\ thread' = "drain"
  /\ UNCHANGED <<pushed, submitted, out, path, format, ring, hand, slot, picture, newest,
                 failed, timed, rendererVars>>

\* The decoder refuses input while output is pending: that is drained first.
Refuse ==
  /\ thread = "input"
  /\ thread' = "clear"
  /\ UNCHANGED <<pushed, submitted, hand, slot, failed, timed, decoderVars, rendererVars>>

Draining == thread \in {"drain", "clear"}

\* ensure_present_ring, and the step to the ring's next texture.
NextTexture ==
  [format |-> format, idx |-> IF ring.format = format THEN (ring.idx + 1) % RingSize
                                                       ELSE 1 % RingSize]

\* A frame in the decoder's own texture.
OutputDirect(sample, pts) ==
  /\ out' = Append(out, [unit |-> Head(inside), pts |-> pts, surface |-> sample])
  /\ picture' = [picture EXCEPT ![sample] = Head(inside)]
  /\ path' = "direct" /\ UNCHANGED ring

\* A frame copied to the ring; its sample is free again.
OutputCopy(sample, pts) ==
  LET texture == <<NextTexture.format, NextTexture.idx>>
  IN  /\ out' = Append(out, [unit |-> Head(inside), pts |-> pts, surface |-> texture])
      /\ picture' = [picture EXCEPT ![sample] = Head(inside), ![texture] = Head(inside)]
      /\ ring' = NextTexture
      /\ path' = "copy"

\* sample_to_frame: a frame copied to planes of its own.
OutputPlanes(sample, pts) ==
  LET planes == <<Memory, Head(inside)>>
  IN  /\ out' = Append(out, [unit |-> Head(inside), pts |-> pts, surface |-> planes])
      /\ picture' = [picture EXCEPT ![sample] = Head(inside), ![planes] = Head(inside)]
      /\ UNCHANGED <<path, ring>>

\* process_output gives a frame; the first one that is not copied to memory shows which
\* path there is.
Output ==
  /\ Draining /\ inside # <<>>
  /\ \E sample \in Free, pts \in {Head(inside), NoStamp} :
       \/ path \in {"unknown", "direct"} /\ OutputDirect(sample, pts)
       \/ path \in {"unknown", "copy"} /\ OutputCopy(sample, pts)
       \/ path = "planes" /\ OutputPlanes(sample, pts)
  /\ newest' = Head(inside)
  /\ inside' = Tail(inside)
  /\ UNCHANGED <<thread, pushed, submitted, format, hand, slot, failed, timed, rendererVars>>

\* An access unit of which the decoder makes no picture.
Swallow ==
  /\ Draining /\ inside # <<>>
  /\ inside' = Tail(inside)
  /\ UNCHANGED <<thread, pushed, submitted, out, path, format, ring, hand, slot, picture,
                 newest, failed, timed, rendererVars>>

\* set_output_nv12.
FormatChanged ==
  /\ Draining /\ format < MaxFormats
  /\ format' = format + 1
  /\ UNCHANGED <<thread, pushed, submitted, inside, out, path, ring, hand, slot, picture,
                 newest, failed, timed, rendererVars>>

Cleared ==
  /\ thread = "clear"
  /\ thread' = "retry"
  /\ UNCHANGED <<pushed, submitted, hand, slot, failed, timed, decoderVars, rendererVars>>

\* Mutant: the frames that are not returned stay in the queue.
DrainedKeepsRest ==
  /\ thread = "drain"
  /\ thread' = IF out = <<>> THEN "idle" ELSE "publish"
  /\ hand' = IF out = <<>> THEN {} ELSE {Last(out)}
  /\ out' = IF out = <<>> THEN out ELSE Front(out)
  /\ UNCHANGED <<pushed, submitted, inside, path, format, ring, slot, picture, newest,
                 failed, timed, rendererVars>>

\* The decoder needs more input: push() returns the newest frame and drops the rest.
Drained ==
  /\ thread = "drain"
  /\ thread' = IF out = <<>> THEN "idle" ELSE "publish"
  /\ hand' = IF out = <<>> THEN {} ELSE {Last(out)}
  /\ out' = <<>>
  /\ UNCHANGED <<pushed, submitted, inside, path, format, ring, slot, picture, newest,
                 failed, timed, rendererVars>>

\* Any call to the decoder fails: what it returned before stays in the queue, and the
\* access unit is forgotten although the decoder may have it.
PushFails ==
  /\ thread \in {"input", "drain", "clear", "retry"}
  /\ thread' = "idle"
  /\ submitted' = Front(submitted)
  /\ failed' = failed \cup {pushed}
  /\ UNCHANGED <<pushed, hand, slot, timed, decoderVars, rendererVars>>

\* The submissions from position `first` on; 0 if there is none.
From(first) == IF first = 0 THEN <<>> ELSE SubSeq(submitted, first, Len(submitted))

\* Mutant: the frame's own submission is passed over.
MatchPassesOver(pts) == From(SelectInSeq(submitted, LAMBDA u : u > pts))

\* The submissions left once those before the frame are given up: a submission index
\* below pts was never returned.
Match(pts) == From(SelectInSeq(submitted, LAMBDA u : u >= pts))

Publish ==
  /\ thread = "publish"
  /\ \E f \in hand :
       LET rest  == Match(f.pts)
           found == rest # <<>> /\ Head(rest) = f.pts
       IN  /\ submitted' = IF found THEN Tail(rest) ELSE rest
           /\ timed' = IF found THEN timed \cup {f.pts} ELSE timed
  /\ slot' = hand /\ hand' = {}
  /\ thread' = "idle"
  /\ UNCHANGED <<pushed, failed, decoderVars, rendererVars>>

-----------------------------------------------------------------------------
(* The embedder's thread: draw the slot's frame, while its lock is held. *)

\* Mutant: what is on screen is held no longer than the next present.
PresentHoldsOne ==
  /\ slot # {} /\ path # "planes"
  /\ last' = slot /\ prev' = {}
  /\ shown' = <<slot, shown[1]>>
  /\ UNCHANGED <<thread, pushed, submitted, hand, slot, failed, timed, decoderVars>>

Present ==
  /\ slot # {} /\ path # "planes"
  /\ prev' = last /\ last' = slot
  /\ shown' = <<slot, shown[1]>>
  /\ UNCHANGED <<thread, pushed, submitted, hand, slot, failed, timed, decoderVars>>

\* Planes in memory are copied to textures made for this draw, and nothing is held.
Upload ==
  /\ slot # {} /\ path = "planes"
  /\ shown' = <<slot, shown[1]>>
  /\ UNCHANGED <<thread, pushed, submitted, hand, slot, failed, timed, decoderVars, last, prev>>

-----------------------------------------------------------------------------
\* What is known of the path before the first frame is `known`.
InitOn(known) ==
  /\ thread = "idle" /\ pushed = 0 /\ submitted = <<>> /\ inside = <<>> /\ out = <<>>
  /\ path = known /\ format = 0 /\ ring = [format |-> 0, idx |-> 0]
  /\ hand = {} /\ slot = {} /\ last = {} /\ prev = {} /\ shown = <<{}, {}>>
  /\ picture = [s \in Surface |-> 0]
  /\ newest = 0 /\ failed = {} /\ timed = {}

Init == \E known \in {"unknown", "planes"} : InitOn(known)

Next ==
  \/ Submit \/ Accept \/ Refuse \/ Output \/ Swallow \/ FormatChanged \/ Cleared \/ Drained
  \/ PushFails \/ Publish
  \/ Present \/ Upload

Spec == Init /\ [][Next]_vars

-----------------------------------------------------------------------------
(* Properties. *)

\* The frames whose pictures are still to be drawn, or may be being drawn: a draw that
\* reads the decoder's texture may be under way until the second present after it
\* (d3d11.rs Hold, "keeps a presented frame alive one extra present"); one that reads
\* the ring is in order with the copies to it.
Needed ==
  Frames(out) \cup hand \cup slot \cup (IF path = "direct" THEN shown[1] \cup shown[2] ELSE {})

\* A picture is not overwritten while it is needed: by no means on the direct path,
\* and on the copy path not by the next RingSize - 1 frames.
Intact ==
  \A f \in Needed :
    path = "direct" \/ newest - f.unit < RingSize => picture[f.surface] = f.unit

\* The decoder is left with all samples but three between pushes: "the renderer keeps
\* two frames referenced and the client one more" (DIRECT_SPARE_SAMPLES), and its own
\* queue keeps none, unless the last push failed.
SamplesSuffice ==
  thread = "idle" /\ pushed \notin failed => Cardinality(Free) >= Cardinality(Samples) - 3

\* The picture is never behind the decoder: after a push that worked, the newest frame
\* that ever came out is the one in the slot (push, "showing an older one would put the
\* picture permanently behind").
NeverBehind ==
  thread = "idle" /\ pushed \notin failed => \A f \in slot : f.unit = newest

\* A frame that is published with its stamp finds its submission, so that its timeline is
\* recorded, unless its own push failed or SubmittedLimit others were made since.
Timed ==
  [][ \A f \in slot' \ slot :
        f.pts # NoStamp /\ f.unit \notin failed /\ f.unit + SubmittedLimit > pushed
        => f.unit \in timed' ]_vars
=============================================================================
