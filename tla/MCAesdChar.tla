----------------------------- MODULE MCAesdChar -----------------------------
(***************************************************************************)
(* The driver with two threads on one file that both write, read and seek: *)
(* enough blocks for two lines, the line under construction and both       *)
(* threads' buffers.  A fragment may have a newline that does not end it;  *)
(* two such fragments make a line that cannot grow (KMALLOC_MAX).          *)
(* The liveness run has one line and fewer blocks than the writers want.   *)
(***************************************************************************)
EXTENDS AesdChar, TLC

CONSTANTS a

MCUserBuffers == {<<NL>>, <<NL, a>>}
MCSeekTos == {<<1, 1>>}
MCSeeks == {<<SEEK_END, -1>>}

MCLiveUserBuffers == {<<a>>, <<NL>>}
MCLiveSeekTos == {<<0, 0>>}
MCLiveSeeks == {<<SEEK_SET, 0>>, <<SEEK_CUR, -1>>}

Symmetry == Permutations(Threads) \cup Permutations(Blocks)
=============================================================================
