----------------------------- MODULE MCDepacketizer -----------------------------
(***************************************************************************)
(* Instances of Depacketizer: any datagram of a few host frames arrives at *)
(* any time, any number of times.                                          *)
(***************************************************************************)
EXTENDS Depacketizer

CONSTANTS
  FrameIndices,   \* the frames the host sends
  KeyIndices,     \* those that are IDR frames
  TwoBlocks,      \* those of two FEC blocks
  K, Pct,         \* data shards per block and FEC percentage
  OddFrames       \* those that also get packets which contradict them

MCSource == 0 .. IndexMod - 1

LastBlock(i) == IF i \in TwoBlocks THEN 1 ELSE 0

Datagram(i, b, s, len) ==
  [index |-> i, block |-> b, last |-> LastBlock(i), k |-> K, pct |-> Pct,
   slot |-> s, pic |-> TRUE, len |-> len, src |-> i]

Shards == 0 .. K + ParityCount(K, Pct) - 1

Regular ==
  UNION {{Datagram(i, b, s, HeaderLen) : b \in 0 .. LastBlock(i), s \in Shards} :
            i \in FrameIndices}

\* A short shard 0, a long data shard, another geometry, another block count, and
\* headers no host writes.
Odd ==
  UNION {{Datagram(i, 0, 0, HeaderLen - 1),
          Datagram(i, 0, 1, HeaderLen + 1),
          [Datagram(i, 0, 0, HeaderLen) EXCEPT !.k = K + 1],
          [Datagram(i, 0, 0, HeaderLen) EXCEPT !.last = LastBlock(i) + 1],
          [Datagram(i, 0, 0, HeaderLen) EXCEPT !.last = MaxBlocks],
          [Datagram(i, 0, 0, HeaderLen) EXCEPT !.pic = FALSE]} : i \in OddFrames}

MCPacket == Regular \cup Odd
=============================================================================
