-------------------------------- MODULE MCStats ---------------------------------
(***************************************************************************)
(* The client's measurements for TLC: the frame timeline with the audio    *)
(* path (ClientStats), and the delay of the network with the series it is  *)
(* recorded in (NetworkDelay).  The two share no variable, so a behaviour  *)
(* is of one of them while the other stands still.                         *)
(*                                                                         *)
(* The clock of the delays has 16 ticks; the sender's stamps may fall back *)
(* a little (a frame that took its host less time to encode).              *)
(***************************************************************************)
EXTENDS ClientStats, NetworkDelay

VARIABLE part   \* whose behaviour it is: "timeline" or "delay"

MCInit == StatsInit /\ DelayInit /\ part \in {"timeline", "delay"}

MCNext ==
  /\ \/ part = "timeline" /\ StatsNext /\ UNCHANGED delayVars
     \/ part = "delay" /\ DelayNext /\ UNCHANGED statsVars
  /\ UNCHANGED part

MCSpec == MCInit /\ [][MCNext]_<<statsVars, delayVars, part>>

Steps   == {-1, 1, 2}
MCRanks == <<20, 50, 99>>
=============================================================================
