---------------------------- MODULE MCRingBuffer ----------------------------
(* RingBuffer on a ring of a few cells, with chunks short and long enough to *)
(* fit exactly, to overflow and to wrap.                                     *)
EXTENDS RingBuffer

MCValues == {0, 1}
MCChunks == UNION {[1 .. n -> MCValues] : n \in 0 .. 3}
=============================================================================
