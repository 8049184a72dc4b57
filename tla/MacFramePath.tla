------------------------------ MODULE MacFramePath ------------------------------
(***************************************************************************)
(* The frame path on both systems.  On macOS push() decodes synchronously  *)
(* (starfire-decode videotoolbox.rs): VideoToolbox's callback leaves a     *)
(* frame, or an error, in the sink before the call returns, and push then  *)
(* takes the sink's newest.  The session is made from the parameter sets   *)
(* of the first access unit that has any, and never again.  A frame is a   *)
(* retained surface of VideoToolbox's pool; the Metal renderer             *)
(* (starfire-render metal.rs) holds the last two it drew, like the one of  *)
(* Windows, or it is copied to planes of its own.  `out` is the sink; the  *)
(* asynchronous mode, off by default and kept for measurements, is left    *)
(* out.                                                                    *)
(***************************************************************************)
EXTENDS FramePath

CONSTANTS
  Keys,       \* the access units that carry parameter sets
  NewSets     \* the first one coded with other parameter sets

VARIABLES
  platform,
  session,    \* the parameter sets VideoToolbox decodes with, NoSets before
  fault       \* the sink's error

macVars == <<platform, session, fault>>

NoSets == 0
Sets(unit) == IF unit >= NewSets THEN 2 ELSE 1

\* ensure_session: the parameter sets of a later access unit are passed over.
EnsureSession ==
  /\ thread = "input"
  /\ session = NoSets => pushed \in Keys
  /\ session' = IF session = NoSets THEN Sets(pushed) ELSE session
  /\ thread' = "decode"
  /\ UNCHANGED <<platform, fault, pushed, submitted, hand, slot, failed, timed,
                 decoderVars, rendererVars>>

\* Mutant: surfaces are not retained, and VideoToolbox uses any of them again.
CallbackUnretained ==
  /\ thread = "decode" /\ thread' = "drain"
  /\ session = Sets(pushed)
  /\ \E surface \in Samples :
       /\ path = "direct"
       /\ out' = Append(out, [unit |-> pushed, pts |-> pushed, surface |-> surface])
       /\ picture' = [picture EXCEPT ![surface] = pushed]
  /\ newest' = pushed
  /\ UNCHANGED <<macVars, pushed, submitted, inside, path, format, ring, hand, slot, failed,
                 timed, rendererVars>>

\* zero_copy_frame: the frame is the surface, retained.
Retained(surface) ==
  /\ path = "direct"
  /\ out' = Append(out, [unit |-> pushed, pts |-> pushed, surface |-> surface])
  /\ picture' = [picture EXCEPT ![surface] = pushed]

\* copy_pixel_buffer: the frame is a copy made while the surface is locked.
Copied(surface) ==
  /\ path = "planes"
  /\ out' = Append(out, [unit |-> pushed, pts |-> pushed, surface |-> <<Memory, pushed>>])
  /\ picture' = [picture EXCEPT ![surface] = pushed, ![<<Memory, pushed>>] = pushed]

\* decompression_output: a picture, which must fit the session's parameter sets.
Callback ==
  /\ thread = "decode" /\ thread' = "drain"
  /\ session = Sets(pushed)
  /\ \E surface \in Free : Retained(surface) \/ Copied(surface)
  /\ newest' = pushed
  /\ UNCHANGED <<macVars, pushed, submitted, inside, path, format, ring, hand, slot, failed,
                 timed, rendererVars>>

\* decompression_output: no picture, with an error or without.
CallbackEmpty ==
  /\ thread = "decode" /\ thread' = "drain"
  /\ fault' \in {fault, TRUE}
  /\ UNCHANGED <<platform, session, pushed, submitted, hand, slot, failed, timed,
                 decoderVars, rendererVars>>

\* push() fails: the caller forgets the access unit.
Refused ==
  /\ thread' = "idle"
  /\ submitted' = Front(submitted)
  /\ failed' = failed \cup {pushed}
  /\ UNCHANGED <<platform, pushed, hand, slot, timed, decoderVars, rendererVars>>

\* No parameter sets yet, or no session can be made of them.
NoSession == thread = "input" /\ session = NoSets /\ Refused /\ UNCHANGED <<session, fault>>

\* decode_sample fails; what the callback had to say of it stays in the sink.
DecodeFails == thread = "decode" /\ fault' \in {fault, TRUE} /\ Refused /\ UNCHANGED session

\* drain_sink with an error: the frames stay for the next push.
SinkFails == thread = "drain" /\ fault /\ fault' = FALSE /\ Refused /\ UNCHANGED session

SinkDrained == ~fault /\ Drained /\ UNCHANGED macVars

\* MetalRenderer::present: what it draws is retained until the second draw after it.
\* Without a drawable nothing is drawn, and nothing released.
Draw == Present /\ UNCHANGED macVars

-----------------------------------------------------------------------------
MacNext ==
  \/ EnsureSession \/ NoSession \/ Callback \/ CallbackEmpty \/ DecodeFails
  \/ SinkFails \/ SinkDrained
  \/ (Submit \/ Publish \/ Upload) /\ UNCHANGED macVars
  \/ Draw

BothInit ==
  /\ platform \in {"windows", "macos"}
  /\ session = NoSets /\ fault = FALSE
  /\ IF platform = "windows" THEN Init ELSE InitOn("direct") \/ InitOn("planes")

BothNext ==
  \/ platform = "windows" /\ Next /\ UNCHANGED macVars
  \/ platform = "macos" /\ MacNext

BothSpec == BothInit /\ [][BothNext]_<<vars, macVars>>
=============================================================================
