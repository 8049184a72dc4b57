----------------------------- MODULE MCReedSolomon -----------------------------
(***************************************************************************)
(* ReedSolomon for TLC: the field of eight elements, in which a block has  *)
(* at most seven shards, and every kind of block there is in it with at    *)
(* most five; one has no parity, and one is too large.                     *)
(***************************************************************************)
EXTENDS ReedSolomon

Bits == INSTANCE Bitwise
MCXor(a, b) == Bits!^^(a, b)

MCShapes == {<<1, 1>>, <<1, 3>>, <<2, 1>>, <<2, 2>>, <<2, 3>>, <<3, 1>>, <<3, 2>>, <<2, 0>>, <<4, 4>>}
=============================================================================
