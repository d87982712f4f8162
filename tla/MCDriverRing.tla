---------------------------- MODULE MCDriverRing ----------------------------
EXTENDS DriverRing

MCBytes == {0, 1}
(* Shorter than, and longer than, a ring of MCCapacity bytes.              *)
MCChunks == {<<1>>, <<0, 1>>, <<1, 0, 0, 1>>}
MCRequests == {1, 3}
=============================================================================
