---------------------------- MODULE MCByteQueue ----------------------------
(***************************************************************************)
(* Instances of ByteQueue for TLC: a ring of three bytes, so that runs     *)
(* wrap at every offset; writes shorter than, as long as and longer than   *)
(* the ring; reads that drain part of it, all of it and more.              *)
(***************************************************************************)
EXTENDS ByteQueue

MCWriteLengths == {1, 2, 3, 4}
MCReadLengths == {1, 2, 4}
=============================================================================
