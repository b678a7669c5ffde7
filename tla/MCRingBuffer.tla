---------------------------- MODULE MCRingBuffer ----------------------------
(* RingBuffer with a buffer of four bytes and calls of up to five. *)
EXTENDS RingBuffer
=============================================================================
