------------------------------- MODULE GatedStream -------------------------------
(***************************************************************************)
(* What the reassembler promises the decoder, with no packets, blocks or   *)
(* window in it: frames come in order, each predicted frame directly after *)
(* the frame it was predicted from, and after anything is settled without  *)
(* being given (lost or withheld) the next frame given is a keyframe.      *)
(***************************************************************************)
EXTENDS Integers

CONSTANTS IndexMod, RestartDistance, None

VARIABLES
  head,    \* newest frame settled: given, lost or withheld
  chain,   \* the decoder holds the reference of the frame after head
  given    \* the last frame given since the host's counter (re)started: a set of at most one

gvars == <<head, chain, given>>

Index == 0 .. IndexMod - 1

After(a) == IF a = IndexMod - 1 THEN 0 ELSE a + 1
Gap(a, b) == IF a >= b THEN a - b ELSE a - b + IndexMod

Ahead(i) == head = None \/ (i # head /\ Gap(i, head) < IndexMod \div 2)

\* So far behind that the host must have restarted its counter.
FarBehind(i) == head # None /\ ~Ahead(i) /\ Gap(head, i) > RestartDistance

GInit == head = None /\ chain = FALSE /\ given = {}

GiveKey(i) ==
  /\ Ahead(i) \/ FarBehind(i)
  /\ head' = i /\ chain' = TRUE /\ given' = {[index |-> i, key |-> TRUE]}

GivePredicted(i) ==
  /\ chain /\ \E g \in given : i = After(g.index)
  /\ head' = i /\ chain' = TRUE /\ given' = {[index |-> i, key |-> FALSE]}

Settle(i) ==
  /\ Ahead(i)
  /\ head' = i /\ chain' = FALSE /\ given' = given

Resync(i) ==
  /\ FarBehind(i)
  /\ head' \in {None, i} /\ chain' = FALSE /\ given' = {}

\* The decoder lost its references.
Break == chain' = FALSE /\ UNCHANGED <<head, given>>

GNext ==
  \/ \E i \in Index : GiveKey(i) \/ GivePredicted(i) \/ Settle(i) \/ Resync(i)
  \/ Break

GSpec == GInit /\ [][GNext]_gvars
=============================================================================
