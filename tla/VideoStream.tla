------------------------------- MODULE VideoStream -------------------------------
(***************************************************************************)
(* The reassembler behind a network: the host cuts its frames into shards  *)
(* one frame after another; the network loses, repeats and reorders        *)
(* datagrams, a datagram being at most MaxDelay frames late; the pipeline  *)
(* thread feeds each one to push_at and reads take_loss before the next    *)
(* (client lib.rs, Pipeline::stream).  The host may restart its frame      *)
(* counter: the source of a datagram says which of two frames of the same  *)
(* index it was cut from.                                                  *)
(***************************************************************************)
EXTENDS Depacketizer

CONSTANTS
  HostFrame,   \* the frames the host sends, in order: [index, key, epoch]
  MaxDelay,    \* BOUND: frames a datagram can be late by
  CrossSeam    \* datagrams are reordered across a counter restart too

ASSUME HostAssumption ==
  /\ HostFrame \in Seq([index : Index, key : BOOLEAN, epoch : Nat])
  /\ MaxDelay \in Nat
  /\ CrossSeam \in BOOLEAN

VARIABLE sent   \* frames sent so far

svars == <<vars, sent>>

SInit == Init /\ sent = 0

HostSend ==
  /\ sent < Len(HostFrame)
  /\ sent' = sent + 1
  /\ UNCHANGED vars

\* A datagram that is on its way, for the first time or again.
InFlight ==
  {p \in Packet :
     /\ p.src <= sent /\ sent <= p.src + MaxDelay
     /\ CrossSeam \/ HostFrame[p.src].epoch = HostFrame[sent].epoch}

Receive ==
  /\ pendingLoss = {}
  /\ \E p \in InFlight : Push(p)
  /\ UNCHANGED sent

Report        == TakeLoss /\ UNCHANGED sent
DecoderFailed == RequireKeyframe /\ UNCHANGED sent

SNext == HostSend \/ Receive \/ Report \/ DecoderFailed

SSpec == SInit /\ [][SNext]_svars

-----------------------------------------------------------------------------
\* An access unit is made of the shards of one host frame, and if it is predicted
\* it follows the very frame the host encoded it against.
WholeChain ==
  \A au \in lastOut' :
    \E s \in Source :
      /\ au.from = {s}
      /\ au.key \/ \E prev \in lastOut : prev.from = {s - 1}

Delivers == stats'.delivered # stats.delivered

\* The receiver has followed every counter restart the host has made.
Followed == restarts = IF sent = 0 THEN 0 ELSE HostFrame[sent].epoch

\* A predicted frame is handed out only if the very frame the host encoded it
\* against was handed out last (video.rs 498-501: "the decoder is never handed a
\* frame whose reference is missing"), while the receiver has followed every restart and
\* datagrams of the two epochs do not cross on the way: neither the window nor the gate
\* keeps anything of the old epoch.  Unlike GateSound this speaks of the host's frames,
\* not of their indices.
ReferenceHeldIfFollowed == [][Delivers /\ Followed' => WholeChain]_svars
=============================================================================
