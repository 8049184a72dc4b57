---------------------------------- MODULE Setup ----------------------------------
(***************************************************************************)
(* From a client that has just been started to a stream that is playing    *)
(* (starfire-client lib.rs Pipeline::stream up to its loop, starfire-core  *)
(* session.rs pair and StreamSession::start, pairing/ladder.rs,            *)
(* discovery.rs, https.rs, launch.rs, serverinfo.rs, rtsp.rs): a fixed     *)
(* sequence of requests, each on a connection of its own and each given up *)
(* when it fails or times out.  The next run starts over with a fresh      *)
(* identity on a host that remembers what the earlier runs did to it, and  *)
(* may still act on requests they gave up on.                              *)
(*                                                                         *)
(* The network, the person at the host and the host are external: they are *)
(* modelled by how the client uses their answers.  These are the steps of  *)
(* a setup; Lifetime says when they are taken.                             *)
(***************************************************************************)
EXTENDS Naturals, Sequences, FiniteSets, Functions

CONSTANTS
  Runs,        \* how often the client is started
  MaxFaults,   \* lost, refused and late answers, wrong PINs and crashes
  HostCodec    \* what the host sends

VARIABLES
  run,         \* the number of this run, and its identity
  step,        \* the next request; 0: out of runs
  waiting,     \* the request is out
  answer,      \* what came back: none or one answer
  codec,       \* what the decoder will be made for
  ports,       \* the host's port of each stream
  wire,        \* requests the host has not taken up yet
  pairing,     \* the ladder the host is on: with whom, and the PIN typed for it
  trusted,     \* the identities the host trusts
  app,         \* the run that launched what is running; 0: nothing runs
  rtsp,        \* the streams set up, and what was announced before PLAY
  faults

clientVars == <<run, step, waiting, answer, codec, ports>>
hostVars == <<pairing, trusted, app, rtsp>>
vars == <<clientVars, hostVars, wire, faults>>

MediaStreams == {"video", "audio", "control"}

\* The host's ports, in its own order.
Ports == <<"video", "audio", "control">>

Ladder == <<"getservercert", "clientchallenge", "serverchallengeresp",
            "clientpairingsecret", "pairchallenge">>

\* Mutant: the host's app is not ended first.
StepsUncleared ==
  Ladder \o <<"applist", "serverinfo", "launch", "OPTIONS", "DESCRIBE",
              "video", "audio", "control", "ANNOUNCE", "PLAY">>

\* Mutant: audio is set up first.
StepsAudioFirst ==
  Ladder \o <<"applist", "serverinfo", "cancel", "launch", "OPTIONS", "DESCRIBE",
              "audio", "video", "control", "ANNOUNCE", "PLAY">>

\* A SETUP is named after its stream.
Steps ==
  Ladder \o <<"applist", "serverinfo", "cancel", "launch", "OPTIONS", "DESCRIBE",
              "video", "audio", "control", "ANNOUNCE", "PLAY">>

Playing == Len(Steps) + 1
At == Steps[step]

OverHttp == At \in {"getservercert", "clientchallenge", "serverchallengeresp", "clientpairingsecret"}
OverTls  == At \in {"pairchallenge", "applist", "serverinfo", "cancel", "launch"}
OverRtsp == ~OverHttp /\ ~OverTls

Fault == faults < MaxFaults /\ faults' = faults + 1

-----------------------------------------------------------------------------
(* The client. *)

\* An error ends the run; whoever uses the client starts it again.
Fail ==
  /\ \/ run < Runs /\ run' = run + 1 /\ step' = 1
     \/ run = Runs /\ step' = 0 /\ UNCHANGED run
  /\ waiting' = FALSE /\ answer' = {}
  /\ codec' = "unknown" /\ ports' = [s \in MediaStreams |-> 0]

Advance == step' = step + 1 /\ waiting' = FALSE /\ answer' = {} /\ UNCHANGED run

(* An answer is "whole", "refused", or "bare": of good status, without the data it *)
(* should carry.                                                                  *)

\* The revealed secret and the last phase are answered by paired=1 alone.
PairAccepted(says) ==
  /\ At \in Range(Ladder)
  /\ says = "whole" \/ (says = "bare" /\ At \in {"clientpairingsecret", "pairchallenge"})

\* The app is in the list.
AppFound(says) == At = "applist" /\ says = "whole"

\* There is a session URL to go on with.
Launched(says) == At = "launch" /\ says = "whole"

\* No status of OPTIONS and DESCRIBE is read; a SETUP must name the port.
RtspAccepted(says) ==
  \/ At \in {"OPTIONS", "DESCRIBE"}
  \/ At \in MediaStreams /\ says = "whole"
  \/ At \in {"ANNOUNCE", "PLAY"} /\ says # "refused"

\* Requests whose failure is passed over.
Spared == {"serverinfo", "cancel"}

\* Mutant: paired=0, a bad status or a refused TLS handshake goes unnoticed.
AcceptedWhatever(says) == TRUE

Accepted(says) ==
  At \in Spared \/ PairAccepted(says) \/ AppFound(says) \/ Launched(says) \/ RtspAccepted(says)

\* Without a usable /serverinfo the stream is taken for HEVC (no codec is configured).
Negotiated(says) == IF says = "whole" THEN HostCodec ELSE "hevc"

\* A connection of its own carries each request.
Request ==
  /\ wire' = wire \cup {[by |-> run, what |-> At]}
  /\ waiting' = TRUE
  /\ UNCHANGED <<run, step, answer, codec, ports, hostVars, faults>>

HttpGet     == OverHttp /\ Request
TlsGet      == OverTls /\ Request
RtspRequest == OverRtsp /\ Request

Send == step \in 1 .. Len(Steps) /\ ~waiting /\ (HttpGet \/ TlsGet \/ RtspRequest)

\* parse_server_port.
PortsFrom(a) == IF At \in MediaStreams THEN [ports EXCEPT ![At] = a.port] ELSE ports

Take ==
  /\ waiting
  /\ \E a \in answer :
       \/ /\ Accepted(a.says) /\ Advance
          /\ codec' = IF At = "serverinfo" THEN Negotiated(a.says) ELSE codec
          /\ ports' = PortsFrom(a)
       \/ ~Accepted(a.says) /\ Fail
  /\ UNCHANGED <<wire, hostVars, faults>>

Abandon ==
  \/ /\ At \in Spared /\ Advance /\ UNCHANGED ports
     /\ codec' = IF At = "serverinfo" THEN Negotiated("refused") ELSE codec
  \/ At \notin Spared /\ Fail

\* The request is still on its way, or waits for the PIN.
Pending ==
  \/ [by |-> run, what |-> At] \in wire
  \/ At = "getservercert" /\ pairing.by = run /\ pairing.pin = "awaited"

\* Nothing will come any more: the connection fails or its read times out.
GiveUp ==
  /\ waiting /\ answer = {} /\ ~Pending
  /\ Abandon
  /\ UNCHANGED <<wire, hostVars, faults>>

\* The ten seconds are over, and the host will act all the same.
TimeOut ==
  /\ waiting /\ answer = {} /\ Pending
  /\ Fault /\ Abandon
  /\ UNCHANGED <<wire, hostVars>>

\* The process dies, at any point of the setup or while it plays.
Crash ==
  /\ step > 0
  /\ Fault /\ Fail
  /\ UNCHANGED <<wire, hostVars>>

-----------------------------------------------------------------------------
(* The host and the network. *)

Awaited(r) == waiting /\ r = [by |-> run, what |-> At]

Says(what, port) == {[says |-> what, port |-> port]}

\* The answer reaches whoever still waits for it, whole or cut short, or is lost.
Reply(r, ok, port) ==
  \/ ~Awaited(r) /\ UNCHANGED <<answer, faults>>
  \/ /\ Awaited(r) /\ UNCHANGED faults
     /\ answer' = IF ok THEN Says("whole", port) ELSE Says("refused", 0)
  \/ /\ Awaited(r) /\ Fault
     /\ answer' \in {answer} \cup (IF ok THEN {Says("bare", 0)} ELSE {})

Lose ==
  /\ \E r \in wire : wire' = wire \ {r}
  /\ Fault
  /\ UNCHANGED <<clientVars, hostVars>>

\* A ladder begins; the one that was under way is dropped, or this one refused.
HostCertificate(r) ==
  /\ r.what = "getservercert"
  /\ \/ pairing' = [by |-> r.by, pin |-> "awaited"] /\ UNCHANGED <<answer, faults>>
     \/ /\ pairing.by # 0 /\ Fault
        /\ answer' = IF Awaited(r) THEN Says("refused", 0) ELSE answer
        /\ UNCHANGED pairing
  /\ UNCHANGED <<trusted, app, rtsp>>

\* The PIN is typed, or submitted through the web interface; perhaps not this one.
TypePin ==
  /\ pairing.pin = "awaited"
  /\ \/ /\ pairing' = [pairing EXCEPT !.pin = "right"]
        /\ Reply([by |-> pairing.by, what |-> "getservercert"], TRUE, 0)
     \/ /\ Fault
        /\ pairing' = [pairing EXCEPT !.pin = "wrong"]
        /\ answer' = IF Awaited([by |-> pairing.by, what |-> "getservercert"])
                     THEN Says("whole", 0) ELSE answer
  /\ UNCHANGED <<run, step, waiting, codec, ports, trusted, app, rtsp, wire>>

\* With another PIN the blobs decrypt to noise, which nobody need notice yet.
HostChallenges(r) ==
  /\ r.what \in {"clientchallenge", "serverchallengeresp"}
  /\ \E ok \in BOOLEAN :
       /\ ok => pairing.by = r.by
       /\ ~ok => pairing # [by |-> r.by, pin |-> "right"]
       /\ Reply(r, ok, 0)
  /\ UNCHANGED hostVars

\* Commitment and signature are checked; both need the PIN's key.
HostSecret(r) ==
  /\ r.what = "clientpairingsecret"
  /\ LET proven == pairing = [by |-> r.by, pin |-> "right"]
     IN  /\ trusted' = IF proven THEN trusted \cup {r.by} ELSE trusted
         /\ Reply(r, proven, 0)
  /\ pairing' = IF pairing.by = r.by THEN [by |-> 0, pin |-> "none"] ELSE pairing
  /\ UNCHANGED <<app, rtsp>>

\* Over TLS only a trusted identity is heard.
HostTrusts(r) ==
  /\ r.what \in {"pairchallenge", "applist", "serverinfo"}
  /\ Reply(r, r.by \in trusted, 0)
  /\ UNCHANGED hostVars

HostCancels(r) ==
  /\ r.what = "cancel"
  /\ app' = IF r.by \in trusted THEN 0 ELSE app
  /\ Reply(r, r.by \in trusted, 0)
  /\ UNCHANGED <<pairing, trusted, rtsp>>

\* Refused while an app is running.
HostLaunches(r) ==
  /\ r.what = "launch"
  /\ LET free == r.by \in trusted /\ app = 0
     IN  /\ app' = IF free THEN r.by ELSE app
         /\ rtsp' = IF free THEN [setups |-> <<>>, announced |-> FALSE, armed |-> FALSE]
                    ELSE rtsp
         /\ Reply(r, free, 0)
  /\ UNCHANGED <<pairing, trusted>>

\* Requests of a launch that is over find no session.  Ports go out in order.
HostRtsp(r) ==
  /\ r.what \in MediaStreams \cup {"OPTIONS", "DESCRIBE", "ANNOUNCE", "PLAY"}
  /\ LET here == app = r.by
     IN  /\ rtsp' = CASE here /\ r.what \in MediaStreams -> [rtsp EXCEPT !.setups = Append(@, r.what)]
                      [] here /\ r.what = "ANNOUNCE" -> [rtsp EXCEPT !.announced = TRUE]
                      [] here /\ r.what = "PLAY" -> [rtsp EXCEPT !.armed = rtsp.announced]
                      [] OTHER -> rtsp
         /\ Reply(r, here, Len(rtsp.setups) + 1)
  /\ UNCHANGED <<pairing, trusted, app>>

Handle ==
  \E r \in wire :
    /\ wire' = wire \ {r}
    /\ \/ HostCertificate(r) \/ HostChallenges(r) \/ HostSecret(r) \/ HostTrusts(r)
       \/ HostCancels(r) \/ HostLaunches(r) \/ HostRtsp(r)
    /\ UNCHANGED <<run, step, waiting, codec, ports>>

-----------------------------------------------------------------------------
Init ==
  /\ run = 1 /\ step = 1 /\ waiting = FALSE /\ answer = {}
  /\ codec = "unknown" /\ ports = [s \in MediaStreams |-> 0]
  /\ wire = {} /\ pairing = [by |-> 0, pin |-> "none"] /\ trusted = {} /\ app = 0
  /\ rtsp = [setups |-> <<>>, announced |-> FALSE, armed |-> FALSE]
  /\ faults = 0
=============================================================================
