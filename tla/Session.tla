--------------------------------- MODULE Session ---------------------------------
(***************************************************************************)
(* The threads of a streaming session (starfire-core session.rs            *)
(* StreamSession::start, recv_loop, control_loop and Drop, under           *)
(* starfire-client lib.rs Pipeline::stream): the owner, which has the app  *)
(* running on the host, starts a control thread and two receive threads,   *)
(* consumes their events, and takes everything down again.  What the       *)
(* control thread sends is in ControlThread; the buffers and the channel   *)
(* of the receive threads, which hold a buffer from the top of their loop  *)
(* to the end of the read, are those of ReceivePath.  These are the steps  *)
(* of a session; Lifetime, which has what goes before them, says when they *)
(* are taken.                                                              *)
(***************************************************************************)
EXTENDS ReceivePath

VARIABLES
  owner,     \* where the owner (the pipeline thread) is; "launch" before the control thread
  host,      \* the app on the host, as the owner left it: "idle", "running", "told" to end
  control,   \* the control thread
  rx,        \* the receive threads
  ready,     \* the control thread's answer to start()
  flag,      \* the session's stop flag
  stopCmd,   \* a Stop is in the control thread's queue
  lost,      \* the control thread found the connection gone
  asked      \* the embedder stopped or dropped the client

vars == <<owner, host, control, rx, ready, flag, stopCmd, lost, asked, pathVars>>

-----------------------------------------------------------------------------
(* The owner: the end of start(). *)

\* The control channel is up, or start() fails.
Ready ==
  /\ owner = "ready" /\ ready # "none"
  /\ \/ /\ ready = "ok"
        /\ owner' = "decoder"
        /\ rx' = [s \in Streams |-> "top"]
     \/ ready = "failed" /\ owner' = "ended" /\ UNCHANGED rx
  /\ UNCHANGED <<host, control, ready, flag, stopCmd, lost, asked, pathVars>>

-----------------------------------------------------------------------------
(* The owner: stream(). *)

\* Without a decoder the session is dropped again.
MakeDecoder ==
  /\ owner = "decoder"
  /\ owner' \in {"loop", "drop"}
  /\ UNCHANGED <<host, control, rx, ready, flag, stopCmd, lost, asked, pathVars>>

\* A turn of the loop: the client's stop flag, then an event if there is one.
Turn ==
  /\ owner = "loop" /\ ~pushing
  /\ \/ asked /\ owner' = "drop" /\ UNCHANGED pathVars
     \/ /\ ~asked /\ Consume
        /\ owner' = IF Head(events) = "disconnected" THEN "drop" ELSE "loop"
  /\ UNCHANGED <<host, control, rx, ready, flag, stopCmd, lost, asked>>

\* The video datagram has been fed to the reassembler.
Pushed ==
  /\ owner = "loop" /\ GiveBack
  /\ UNCHANGED <<owner, host, control, rx, ready, flag, stopCmd, lost, asked>>

-----------------------------------------------------------------------------
(* The owner: StreamSession::drop. *)

\* Mutant: the receive threads are not told.
DropFlagForgotten ==
  /\ owner = "drop"
  /\ owner' = "tell"
  /\ UNCHANGED <<host, control, rx, ready, flag, stopCmd, lost, asked, pathVars>>

DropFlag ==
  /\ owner = "drop"
  /\ flag' = TRUE
  /\ owner' = "tell"
  /\ UNCHANGED <<host, control, rx, ready, stopCmd, lost, asked, pathVars>>

DropTell ==
  /\ owner = "tell"
  /\ stopCmd' = (control # "gone")
  /\ owner' = "join"
  /\ UNCHANGED <<host, control, rx, ready, flag, lost, asked, pathVars>>

\* Mutant: the threads are left behind.
JoinNothing ==
  /\ owner = "join"
  /\ owner' = "cancel"
  /\ UNCHANGED <<host, control, rx, ready, flag, stopCmd, lost, asked, pathVars>>

Join ==
  /\ owner = "join"
  /\ control = "gone" /\ \A s \in Streams : rx[s] = "gone"
  /\ owner' = "cancel"
  /\ UNCHANGED <<host, control, rx, ready, flag, stopCmd, lost, asked, pathVars>>

\* /cancel, answered or not within its two seconds.
Cancel ==
  /\ owner = "cancel"
  /\ host' = "told" /\ owner' = "ended"
  /\ UNCHANGED <<control, rx, ready, flag, stopCmd, lost, asked, pathVars>>

-----------------------------------------------------------------------------
(* The control thread. *)

\* Attempts for six seconds.
Connect ==
  /\ control = "connecting"
  /\ \/ control' = "serving" /\ ready' = "ok"
     \/ control' = "leaving" /\ ready' = "failed"
  /\ UNCHANGED <<owner, host, rx, flag, stopCmd, lost, asked, pathVars>>

Leave ==
  /\ control = "leaving"
  /\ control' = "gone"
  /\ UNCHANGED <<owner, host, rx, ready, flag, stopCmd, lost, asked, pathVars>>

ServeStop ==
  /\ control = "serving" /\ stopCmd
  /\ control' = "gone" /\ stopCmd' = FALSE
  /\ UNCHANGED <<owner, host, rx, ready, flag, lost, asked, pathVars>>

\* What the owner is told.
Say(what) ==
  /\ events' = Append(events, what)
  /\ UNCHANGED <<pool, holding, pushing, made, peak, gone>>

\* A failed send, a failed poll, or the host closing the channel.
ServeLost ==
  /\ control = "serving"
  /\ control' = "gone" /\ lost' = TRUE /\ Say("disconnected")
  /\ UNCHANGED <<owner, host, rx, ready, flag, stopCmd, asked>>

-----------------------------------------------------------------------------
(* The receive threads. *)

RxTop(s) ==
  /\ rx[s] = "top"
  /\ \/ flag /\ rx' = [rx EXCEPT ![s] = "gone"] /\ UNCHANGED pathVars
     \/ ~flag /\ rx' = [rx EXCEPT ![s] = "recv"] /\ Take(s)
  /\ UNCHANGED <<owner, host, control, ready, flag, stopCmd, lost, asked>>

RxEnd(s) ==
  /\ rx[s] = "recv" /\ rx' = [rx EXCEPT ![s] = "top"]
  /\ UNCHANGED <<owner, host, control, ready, flag, stopCmd, lost, asked>>

\* A datagram from the host; the channel takes any number of them.
RxDatagram(s) == RxEnd(s) /\ \E kind \in Kinds : Datagram(s, kind)

\* The read timed out or failed, or the datagram came from someone else.
RxNothing(s) == RxEnd(s) /\ Nothing(s)

-----------------------------------------------------------------------------
\* The embedder stops or drops the client.
AskToStop ==
  /\ ~asked /\ asked' = TRUE
  /\ UNCHANGED <<owner, host, control, rx, ready, flag, stopCmd, lost, pathVars>>

Init ==
  /\ owner = "launch" /\ host = "idle" /\ control = "none"
  /\ rx = [s \in Streams |-> "none"] /\ ready = "none"
  /\ flag = FALSE /\ stopCmd = FALSE /\ lost = FALSE /\ asked = FALSE /\ PathInit

Owner   == Ready \/ MakeDecoder \/ Turn \/ Pushed \/ DropFlag \/ DropTell \/ Join
Control == Connect \/ Leave \/ ServeStop \/ ServeLost
Rx(s)   == RxTop(s) \/ RxDatagram(s) \/ RxNothing(s)

-----------------------------------------------------------------------------
(* Properties. *)

\* A session that was up takes all its threads with it, and tells the host only
\* when none of them can send to it any more (StreamSession, "all owned by the session,
\* all stopped on drop").
TornDown ==
  owner \in {"cancel", "ended"} /\ ready = "ok"
  => /\ control = "gone" /\ \A s \in Streams : rx[s] = "gone"
     /\ owner = "ended" => host = "told"
=============================================================================
