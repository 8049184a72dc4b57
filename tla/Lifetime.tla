-------------------------------- MODULE Lifetime --------------------------------
(***************************************************************************)
(* A client from its start to its end, and its next start: Setup brings a  *)
(* run to the point where Session takes over, the session ends as Session  *)
(* lets it, and the next run meets the host it left behind, and perhaps    *)
(* the last session's own /cancel (client lib.rs Pipeline::stream, from    *)
(* its first line to the drop of the session).                             *)
(***************************************************************************)
EXTENDS Session

CONSTANTS Runs, MaxFaults, HostCodec

VARIABLES run, step, waiting, answer, codec, ports, wire, pairing, trusted, app, rtsp, faults

S == INSTANCE Setup

setupVars == <<run, step, waiting, answer, codec, ports, wire, pairing, trusted, app, rtsp, faults>>

-----------------------------------------------------------------------------
\* The process, gone or new, has no session.
NoSession ==
  /\ owner' = "launch" /\ host' = "idle" /\ control' = "none"
  /\ rx' = [s \in Streams |-> "none"] /\ ready' = "none"
  /\ flag' = FALSE /\ stopCmd' = FALSE /\ lost' = FALSE /\ asked' = FALSE
  /\ pool' = 0 /\ holding' = {} /\ events' = <<>> /\ pushing' = FALSE
  /\ made' = 0 /\ peak' = 0 /\ gone' = 0

\* The requests up to PLAY, one of which may end the run.
SetUp(Step) ==
  /\ owner = "launch" /\ Step
  /\ IF step' = 0 \/ run' # run THEN NoSession ELSE UNCHANGED vars

\* Media sockets, RTSP and address resolution done, the control thread starts.
Begin ==
  /\ owner = "launch" /\ step = S!Playing
  /\ owner' = "ready" /\ host' = "running" /\ control' = "connecting"
  /\ UNCHANGED <<rx, ready, flag, stopCmd, lost, asked, pathVars, setupVars>>

\* The session's own /cancel ends the app, or is late or lost and given up.
CancelOnHost ==
  /\ Cancel
  /\ \/ app' = 0 /\ UNCHANGED <<wire, faults>>
     \/ /\ S!Fault /\ UNCHANGED app
        /\ wire' \in {wire, wire \cup {[by |-> run, what |-> "cancel"]}}
  /\ UNCHANGED <<run, step, waiting, answer, codec, ports, pairing, trusted, rtsp>>

World == (S!Lose \/ S!TypePin \/ S!Handle) /\ UNCHANGED vars

\* The process dies; or its session is over, and it is started once more.
Again == S!Crash /\ NoSession

LInit == Init /\ S!Init

LNext ==
  \/ SetUp(S!Send) \/ SetUp(S!Take) \/ SetUp(S!GiveUp) \/ SetUp(S!TimeOut)
  \/ World \/ Begin \/ CancelOnHost \/ Again
  \/ /\ Owner \/ Control \/ (\E s \in Streams : Rx(s)) \/ AskToStop
     /\ UNCHANGED setupVars

lvars == <<vars, setupVars>>

\* The threads are scheduled, reads and connection attempts are bounded in time, the
\* host takes up what reaches it and somebody types the PIN.
LSpec ==
  /\ LInit /\ [][LNext]_lvars
  /\ WF_lvars(SetUp(S!Send \/ S!Take \/ S!GiveUp) \/ Begin \/ CancelOnHost)
  /\ WF_lvars(S!TypePin /\ UNCHANGED vars) /\ WF_lvars(S!Handle /\ UNCHANGED vars)
  /\ WF_lvars(Owner /\ UNCHANGED setupVars)
  /\ WF_lvars(Connect /\ UNCHANGED setupVars) /\ WF_lvars(Leave /\ UNCHANGED setupVars)
  /\ WF_lvars(ServeStop /\ UNCHANGED setupVars)
  /\ \A s \in Streams : WF_lvars(Rx(s) /\ UNCHANGED setupVars)

-----------------------------------------------------------------------------
\* A run that is past the ladder is trusted by the host, and the PIN typed for its
\* ladder was its own, whatever was lost, late or left over from earlier runs
\* (session.rs pair, ladder.rs PairingClient::pair).
PairedIsTrusted == step > Len(S!Ladder) => run \in trusted

\* When the handshake is over each socket pings the port of its own stream, the host
\* was told the stream's parameters before it was told to play, if it has not ended the
\* app since, and unless something went wrong the decoder is made for what the host sends
\* (rtsp.rs handshake; lib.rs stream).
ReadyToStream ==
  step = S!Playing =>
    /\ \A s \in S!MediaStreams : S!Ports[ports[s]] = s
    /\ app = run => rtsp.armed
    /\ faults = 0 => codec = HostCodec

\* Each fault, restarts among them, costs at most two runs: then a person who starts the
\* client again gets the stream.  Nothing that a failed, crashed, slow or finished run
\* leaves on the host keeps the next one out (session.rs:459 cancels before it launches).
StreamsInTheEnd == <>[](step = S!Playing)

\* A client that is stopped ends, or has failed before it could notice, in whatever
\* request or stage of its life it is; so does a session that lost its control channel,
\* the report reaching the owner behind what the receive threads have queued; and one
\* that is dropped, whatever its threads are doing.
StopEnds ==
  asked \/ lost \/ owner = "drop" ~> (owner = "ended" \/ (owner = "launch" /\ ~asked))

\* The protocol notes' claim (docs/protocol/04-applist-and-launch.md:88: /cancel is "Sent
\* on quit and on unrecoverable error before teardown"): while nothing goes wrong on the
\* way to the host, a run that is over does not leave its app there.
HostAlwaysTold == owner = "ended" /\ faults = 0 => app # run
=============================================================================
