---------------------------- MODULE MCInputCapture ----------------------------
(***************************************************************************)
(* InputCapture for TLC: motions and places may be negative.               *)
(***************************************************************************)
EXTENDS InputCapture

MCDeltas    == {-1, 3}
MCPositions == {-1, 1, 3}
=============================================================================
