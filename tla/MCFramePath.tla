----------------------------- MODULE MCFramePath -----------------------------
(***************************************************************************)
(* FramePath for TLC: nothing tells the decoder's samples apart, so states *)
(* that differ in their names only are checked once.                       *)
(***************************************************************************)
EXTENDS MacFramePath, TLC

SampleSymmetry == Permutations(Samples)
=============================================================================
