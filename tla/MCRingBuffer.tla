---------------------------- MODULE MCRingBuffer ----------------------------
(* The circular buffer with three slots and entries of 0 to 2 bytes.       *)
EXTENDS RingBuffer
=============================================================================
