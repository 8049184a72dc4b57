-------------------------------- MODULE MCThreads -------------------------------
(***************************************************************************)
(* The client's threads for TLC: the hand-over from the pipeline thread to *)
(* the embedder (Client) and from the embedder to the control thread       *)
(* (ControlThread).  The two share no variable and neither waits for the   *)
(* other, so a behaviour is of one of them while the other stands still.   *)
(***************************************************************************)
EXTENDS Client, ControlThread

VARIABLE part   \* whose behaviour it is: "frames" or "input"

MCInit == Init /\ ControlInit /\ part \in {"frames", "input"}

MCNext ==
  /\ \/ part = "frames" /\ Next /\ UNCHANGED controlVars
     \/ part = "input" /\ ControlNext /\ UNCHANGED vars
  /\ UNCHANGED part

\* Each part has its fairness.
MCSpec ==
  /\ MCInit /\ [][MCNext]_<<vars, controlVars, part>>
  /\ part = "frames" => Fairness
  /\ part = "input" => WF_controlVars(Loop)
=============================================================================
