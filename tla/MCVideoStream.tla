------------------------------ MODULE MCVideoStream ------------------------------
(***************************************************************************)
(* Instances of VideoStream.  OldEpoch and NewEpoch are the first and last *)
(* frame index of the host's two counter epochs (<<>> for none); each      *)
(* epoch opens with an IDR frame.                                          *)
(***************************************************************************)
EXTENDS VideoStream

CONSTANTS OldFirst, OldLast, NewFirst, NewLast, ExtraKeys, K, Pct

Epoch(first, last, e) ==
  [i \in 1 .. last - first + 1 |->
     [index |-> first + i - 1, key |-> i = 1 \/ first + i - 1 \in ExtraKeys, epoch |-> e]]

MCHostFrame == Epoch(OldFirst, OldLast, 0) \o Epoch(NewFirst, NewLast, 1)

MCSource   == DOMAIN MCHostFrame
MCKeyFrame == {s \in MCSource : MCHostFrame[s].key}

MCPacket ==
  {[index |-> MCHostFrame[s].index, block |-> 0, last |-> 0, k |-> K, pct |-> Pct,
    slot |-> n, pic |-> TRUE, len |-> HeaderLen, src |-> s] :
      s \in MCSource, n \in 0 .. K + ParityCount(K, Pct) - 1}
=============================================================================
