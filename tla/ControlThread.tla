------------------------------ MODULE ControlThread ------------------------------
(***************************************************************************)
(* The control thread (starfire-core session.rs, control_loop) once it is  *)
(* connected: handles queue input and feedback messages, the thread takes  *)
(* everything queued, folds relative mouse moves that piled up (input.rs,  *)
(* merge_mouse_rel), sends the batch and services ENet.  ENet delivers     *)
(* reliably and in order, or reports the end of the connection.            *)
(***************************************************************************)
EXTENDS Integers, Sequences, SequencesExt

CONSTANTS
  Limit,        \* one delta is in -Limit .. Limit - 1 (2^15 for an i16)
  Step,        \* BOUND: the embedder moves left or right by this, and down or not
  Others,      \* messages that are not relative mouse moves
  MaxIssued    \* BOUND: messages issued

ASSUME RangeAssumption == Limit \in Nat \ {0} /\ Step \in 0 .. Limit - 1
ASSUME IssuedAssumption == MaxIssued \in Nat

VARIABLES
  cmds,       \* the queue of ControlCmds
  batch,      \* messages taken and not yet sent
  wire,       \* messages handed to ENet and flushed
  thread,     \* where the thread is
  stopping,   \* the loop has taken a Stop
  ended,      \* a Disconnected event was sent
  dropped,    \* the session has sent Stop
  issued      \* what the handles were given (history)

controlVars == <<cmds, batch, wire, thread, stopping, ended, dropped, issued>>

Low  == -Limit
High == Limit - 1

Move    == [kind : {"move"}, dx : Low .. High, dy : Low .. High]
Other   == [kind : {"other"}, id : Others]
Message == Move \cup Other
Stop    == [kind |-> "stop"]

\* What the embedder sends.
Input == [kind : {"move"}, dx : {-Step, Step}, dy : {0, Step}] \cup Other

-----------------------------------------------------------------------------
(* merge_mouse_rel. *)

IsMove(m) == m.kind = "move"
Sum(a, b) == [kind |-> "move", dx |-> a.dx + b.dx, dy |-> a.dy + b.dy]

\* Mutant: only one axis is checked.
MergesOneAxis(a, b) == IsMove(a) /\ IsMove(b) /\ a.dx + b.dx \in Low .. High

\* checked_add on both axes.
Merges(a, b) ==
  /\ IsMove(a) /\ IsMove(b)
  /\ a.dx + b.dx \in Low .. High /\ a.dy + b.dy \in Low .. High

\* Mutant: a move is folded into the last move of the batch, whatever follows it.
FoldedPastOthers(b, m) ==
  LET moves == {i \in DOMAIN b : Merges(b[i], m)}
  IN  IF moves = {} THEN Append(b, m)
      ELSE LET i == CHOOSE i \in moves : \A j \in moves : j <= i
           IN  [b EXCEPT ![i] = Sum(b[i], m)]

\* A message joins the batch: folded into the last one, or after it.
Folded(b, m) ==
  IF b # <<>> /\ Merges(Last(b), m) THEN Append(Front(b), Sum(Last(b), m))
  ELSE Append(b, m)

-----------------------------------------------------------------------------
(* Handles and the session. *)

\* ControlHandle::send_input, request_idr, send_loss_stats.  A message for a
\* thread that is gone goes nowhere.
Issue(m) ==
  /\ thread # "gone" /\ Len(issued) < MaxIssued
  /\ cmds' = Append(cmds, m)
  /\ issued' = Append(issued, m)
  /\ UNCHANGED <<batch, wire, thread, stopping, ended, dropped>>

\* StreamSession::drop.
DropSession ==
  /\ ~dropped
  /\ dropped' = TRUE
  /\ cmds' = IF thread # "gone" THEN Append(cmds, Stop) ELSE cmds
  /\ UNCHANGED <<batch, wire, thread, stopping, ended, issued>>

-----------------------------------------------------------------------------
(* The thread. *)

\* recv_timeout: a command, or nothing for CONTROL_TICK.
Receive ==
  /\ thread = "receive"
  /\ \/ /\ cmds = <<>>
        /\ UNCHANGED <<cmds, batch, stopping>>
     \/ /\ cmds # <<>>
        /\ cmds' = Tail(cmds)
        /\ stopping' = (Head(cmds) = Stop)
        /\ batch' = IF Head(cmds) = Stop THEN batch ELSE Append(batch, Head(cmds))
  /\ thread' = "drain"
  /\ UNCHANGED <<wire, ended, dropped, issued>>

\* Mutant: a Stop among the queued messages is passed over.
DrainPassesStop ==
  /\ thread = "drain" /\ cmds # <<>>
  /\ cmds' = Tail(cmds)
  /\ batch' = IF Head(cmds) = Stop THEN batch ELSE Folded(batch, Head(cmds))
  /\ UNCHANGED <<wire, thread, stopping, ended, dropped, issued>>

\* try_recv: everything else that is queued.
Drain ==
  /\ thread = "drain" /\ cmds # <<>>
  /\ cmds' = Tail(cmds)
  /\ stopping' = (stopping \/ Head(cmds) = Stop)
  /\ batch' = IF Head(cmds) = Stop THEN batch ELSE Folded(batch, Head(cmds))
  /\ UNCHANGED <<wire, thread, ended, dropped, issued>>

Drained ==
  /\ thread = "drain" /\ cmds = <<>>
  /\ thread' = "send"
  /\ UNCHANGED <<cmds, batch, wire, stopping, ended, dropped, issued>>

\* Mutant: a Stop returns before the batch is sent.
SendBatchAfterStop ==
  /\ thread = "send"
  /\ wire' = IF stopping THEN wire ELSE wire \o batch
  /\ batch' = IF stopping THEN batch ELSE <<>>
  /\ thread' = IF stopping THEN "gone" ELSE "service"
  /\ UNCHANGED <<cmds, stopping, ended, dropped, issued>>

\* The batch is queued and flushed; then a Stop returns.
SendBatch ==
  /\ thread = "send"
  /\ wire' = wire \o batch /\ batch' = <<>>
  /\ thread' = IF stopping THEN "gone" ELSE "service"
  /\ UNCHANGED <<cmds, stopping, ended, dropped, issued>>

\* ENet refuses a message: nothing is flushed.
SendFails ==
  /\ thread = "send" /\ batch # <<>>
  /\ thread' = "gone" /\ ended' = TRUE
  /\ UNCHANGED <<cmds, batch, wire, stopping, dropped, issued>>

\* ENet is serviced until it has nothing more.
Service ==
  /\ thread = "service" /\ thread' = "receive"
  /\ UNCHANGED <<cmds, batch, wire, stopping, ended, dropped, issued>>

\* poll(): the host closed the channel, or the socket failed.
PollLost ==
  /\ thread = "service" /\ thread' = "gone"
  /\ ended' = TRUE
  /\ UNCHANGED <<cmds, batch, wire, stopping, dropped, issued>>

-----------------------------------------------------------------------------
ControlInit ==
  /\ cmds = <<>> /\ batch = <<>> /\ wire = <<>> /\ issued = <<>>
  /\ thread = "receive" /\ stopping = FALSE /\ ended = FALSE /\ dropped = FALSE

Loop == Receive \/ Drain \/ Drained \/ SendBatch \/ SendFails \/ Service \/ PollLost

ControlNext == (\E m \in Input : Issue(m)) \/ DropSession \/ Loop

\* The thread is scheduled; handles need not send and sessions need not end.
ControlSpec == ControlInit /\ [][ControlNext]_controlVars /\ WF_controlVars(Loop)

-----------------------------------------------------------------------------
(* Properties. *)

\* Runs of relative moves as one move each, the sum taken without a width; a Stop says
\* nothing to the host.
Joined(s, m) ==
  IF m = Stop THEN s
  ELSE IF s # <<>> /\ IsMove(Last(s)) /\ IsMove(m) THEN Append(Front(s), Sum(Last(s), m))
  ELSE Append(s, m)

Meaning(s) ==
  LET upTo[i \in 0 .. Len(s)] == IF i = 0 THEN <<>> ELSE Joined(upTo[i - 1], s[i])
  IN  upTo[Len(s)]

\* The host sees the same total motion between the same other messages, whatever
\* was folded and wherever the overflow check split a run, and no sum outgrows its field
\* (control_loop, "the same total motion in a single packet"; ControlHandle::send_input,
\* "Reliable, in order").
MotionPreserved ==
  /\ Meaning(wire \o batch \o cmds) = Meaning(issued)
  /\ \A m \in Range(wire \o batch) : m \in Message

\* A session that is dropped leaves nothing behind: what was issued before the Stop
\* has been sent when the thread ends (control_loop sends the batch, then returns).
StopSendsAll ==
  thread = "gone" /\ ~ended => batch = <<>> /\ \A i \in DOMAIN cmds : cmds[i] # Stop

\* A Stop ends the thread, behind whatever it is queued.
StopEndsThread == dropped ~> thread = "gone"

\* The thread implements InputChannel.
Channel == INSTANCE InputChannel WITH said <- batch \o cmds, heard <- wire, open <- thread # "gone"
KeepsOrder == Channel!ChannelSpec
=============================================================================
