--------------------------------- MODULE Client ---------------------------------
(***************************************************************************)
(* The two threads of an embedded client (starfire-client lib.rs): the     *)
(* pipeline thread publishes decoded frames in the `latest` slot and wakes *)
(* the embedder through a channel; the embedder polls events, shows the    *)
(* slot's frame, and stops or drops the client.  A step is one access to   *)
(* state the threads share.                                                *)
(***************************************************************************)
EXTENDS Integers, Sequences, FiniteSets

CONSTANT MaxFrames   \* BOUND: frames decoded in a behaviour

ASSUME BoundAssumption == MaxFrames \in Nat

VARIABLES
  pipeline,   \* where the pipeline thread is
  failed,     \* stream() returned Err
  embedder,   \* where the embedder's thread is
  latest,     \* number of the frame in the slot, 0 for none
  shown,      \* number of the frame the embedder showed last
  events,     \* the channel's contents
  listening,  \* the receiving end exists
  pending,    \* frame_pending
  stop,       \* the stop flag
  told        \* the embedder has been told that the session ended

vars == <<pipeline, failed, embedder, latest, shown, events, listening, pending, stop, told>>

ThreadStates   == {"starting", "head", "waiting", "published", "announcing", "ending", "done"}
EmbedderStates == {"idle", "taken", "look", "joining", "dropping", "gone"}

-----------------------------------------------------------------------------
(* The pipeline thread (Pipeline::run, stream, decode; Notify). *)

\* Pairing, launch and session start end well, or with an error.
Started ==
  /\ pipeline = "starting"
  /\ \/ pipeline' = "head" /\ UNCHANGED failed
     \/ pipeline' = "ending" /\ failed' = TRUE
  /\ UNCHANGED <<embedder, latest, shown, events, listening, pending, stop, told>>

\* The head of the loop.
LoopHead ==
  /\ pipeline = "head"
  /\ pipeline' = IF stop THEN "ending" ELSE "waiting"
  /\ UNCHANGED <<failed, embedder, latest, shown, events, listening, pending, stop, told>>

\* recv_timeout expired, or an event that produces no frame.
NoFrame ==
  /\ pipeline = "waiting"
  /\ pipeline' = "head"
  /\ UNCHANGED <<failed, embedder, latest, shown, events, listening, pending, stop, told>>

\* A frame is decoded and put in the slot.
Publish ==
  /\ pipeline = "waiting" /\ latest < MaxFrames
  /\ latest' = latest + 1
  /\ pipeline' = "published"
  /\ UNCHANGED <<failed, embedder, shown, events, listening, pending, stop, told>>

\* Mutant: every frame queues a wake-up.
SwapAlwaysSends ==
  /\ pipeline = "published"
  /\ pending' = TRUE
  /\ pipeline' = "announcing"
  /\ UNCHANGED <<failed, embedder, latest, shown, events, listening, stop, told>>

\* Notify::frame: a wake-up that is still queued is enough.
SwapPending ==
  /\ pipeline = "published"
  /\ pending' = TRUE
  /\ pipeline' = IF pending THEN "head" ELSE "announcing"
  /\ UNCHANGED <<failed, embedder, latest, shown, events, listening, stop, told>>

\* Sending fails when the embedder dropped the client: the loop returns Ok.
SendFrame ==
  /\ pipeline = "announcing"
  /\ events' = IF listening THEN Append(events, "frame") ELSE events
  /\ pipeline' = IF listening THEN "head" ELSE "ending"
  /\ UNCHANGED <<failed, embedder, latest, shown, listening, pending, stop, told>>

\* The host disconnected, or every receive thread died.
SessionEnds ==
  /\ pipeline = "waiting"
  /\ pipeline' = "ending" /\ failed' = TRUE
  /\ UNCHANGED <<embedder, latest, shown, events, listening, pending, stop, told>>

\* Mutant: the reason is dropped on the way out.
FinishSilent ==
  /\ pipeline = "ending"
  /\ pipeline' = "done"
  /\ UNCHANGED <<failed, embedder, latest, shown, events, listening, pending, stop, told>>

\* The session is torn down (Session has its threads); run reports an error.
Finish ==
  /\ pipeline = "ending"
  /\ events' = IF failed /\ listening THEN Append(events, "stopped") ELSE events
  /\ pipeline' = "done"
  /\ UNCHANGED <<failed, embedder, latest, shown, listening, pending, stop, told>>

-----------------------------------------------------------------------------
(* The embedder's thread (Client::poll_event, stop, drop). *)

Poll ==
  /\ embedder = "idle" /\ events # <<>>
  /\ events' = Tail(events)
  /\ \/ Head(events) = "frame" /\ embedder' = "taken" /\ UNCHANGED told
     \/ Head(events) = "stopped" /\ told' = TRUE /\ UNCHANGED embedder
  /\ UNCHANGED <<pipeline, failed, latest, shown, listening, pending, stop>>

\* Mutant: taking a wake-up does not clear the flag.
ClearForgotten ==
  /\ embedder = "taken"
  /\ embedder' = "look"
  /\ UNCHANGED <<pipeline, failed, latest, shown, events, listening, pending, stop, told>>

ClearPending ==
  /\ embedder = "taken"
  /\ pending' = FALSE
  /\ embedder' = "look"
  /\ UNCHANGED <<pipeline, failed, latest, shown, events, listening, stop, told>>

Show ==
  /\ embedder = "look"
  /\ shown' = latest
  /\ embedder' = "idle"
  /\ UNCHANGED <<pipeline, failed, latest, events, listening, pending, stop, told>>

\* stop(): the flag, then join; the channel goes with the client afterwards.
StopClient ==
  /\ embedder = "idle"
  /\ stop' = TRUE
  /\ embedder' = "joining"
  /\ UNCHANGED <<pipeline, failed, latest, shown, events, listening, pending, told>>

StopJoins ==
  /\ embedder = "joining" /\ pipeline = "done"
  /\ listening' = FALSE
  /\ embedder' = "gone"
  /\ UNCHANGED <<pipeline, failed, latest, shown, events, pending, stop, told>>

\* Mutant: dropping the client leaves the flag alone.
DropWithoutFlag ==
  /\ embedder = "idle"
  /\ embedder' = "dropping"
  /\ UNCHANGED <<pipeline, failed, latest, shown, events, listening, pending, stop, told>>

\* Dropping the client sets the flag, then drops its fields.
Drop ==
  /\ embedder = "idle"
  /\ stop' = TRUE
  /\ embedder' = "dropping"
  /\ UNCHANGED <<pipeline, failed, latest, shown, events, listening, pending, told>>

DropFields ==
  /\ embedder = "dropping"
  /\ listening' = FALSE
  /\ embedder' = "gone"
  /\ UNCHANGED <<pipeline, failed, latest, shown, events, pending, stop, told>>

-----------------------------------------------------------------------------
Init ==
  /\ pipeline = "starting" /\ failed = FALSE
  /\ embedder = "idle"
  /\ latest = 0 /\ shown = 0
  /\ events = <<>> /\ listening = TRUE /\ pending = FALSE
  /\ stop = FALSE /\ told = FALSE

Thread ==
  Started \/ LoopHead \/ NoFrame \/ Publish \/ SwapPending \/ SendFrame \/ SessionEnds \/ Finish
Embedder ==
  Poll \/ ClearPending \/ Show \/ StopClient \/ StopJoins \/ Drop \/ DropFields

Next == Thread \/ Embedder

\* The threads are scheduled; setup, waiting and teardown end; an embedder
\* that is idle polls, and one that began something goes on with it.  Nothing says
\* that a frame is decoded, that the session ends, or that the client is stopped.
Fairness ==
  /\ WF_vars(Started) /\ WF_vars(LoopHead) /\ WF_vars(NoFrame) /\ WF_vars(SwapPending)
  /\ WF_vars(SendFrame) /\ WF_vars(Finish)
  /\ WF_vars(Poll) /\ WF_vars(ClearPending) /\ WF_vars(Show)
  /\ WF_vars(StopJoins) /\ WF_vars(DropFields)

Spec == Init /\ [][Next]_vars /\ Fairness

-----------------------------------------------------------------------------
(* Properties. *)

Queued(event) == {i \in DOMAIN events : events[i] = event}

\* What the channel may hold: a wake-up, then the reason the session ended.
Contents == {<<>>, <<"frame">>, <<"stopped">>, <<"frame", "stopped">>}

\* The types of the shared state; the end of the session is the last event.
TypeOK ==
  /\ pipeline \in ThreadStates /\ failed \in BOOLEAN
  /\ embedder \in EmbedderStates
  /\ latest \in 0 .. MaxFrames /\ shown \in 0 .. MaxFrames
  /\ events \in Contents
  /\ listening \in BOOLEAN /\ pending \in BOOLEAN /\ stop \in BOOLEAN /\ told \in BOOLEAN

\* However slowly the embedder polls, one frame wake-up is queued at most (Notify,
\* "an embedder that polls slowly cannot grow the queue").
OneWakeUp == Cardinality(Queued("frame")) <= 1

\* A frame the embedder has not shown is announced: a wake-up is queued, or about to
\* be, or the embedder has taken one and has yet to look (frame_pending against
\* poll_event's take and clear).
NoLostWakeUp ==
  shown < latest /\ listening
  => \/ Queued("frame") # {}
     \/ pipeline \in {"published", "announcing"}
     \/ embedder \in {"taken", "look"}

\* Every frame published is shown, or a later one, unless the embedder quits.
FramesShown ==
  \A n \in 1 .. MaxFrames : latest >= n ~> shown >= n \/ stop

\* A client that quits takes its thread with it, wherever the thread is: stop()
\* returns, and one that is only dropped leaves no thread behind.
QuitEnds ==
  embedder \in {"joining", "dropping"} ~> embedder = "gone" /\ pipeline = "done"

\* A session that ends by itself is reported to an embedder that stays.
EndIsTold == failed ~> told \/ stop
=============================================================================
