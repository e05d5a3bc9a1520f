--------------------------- MODULE MCSocketDevice ---------------------------
(***************************************************************************)
(* Both builds.  Two clients and four packets or commands: enough for two  *)
(* replies on one connection, for the third packet to push out the first,  *)
(* and for a seek before, between and after.  Packets can be written in    *)
(* several pieces.  One seek command is good once there are two lines, the *)
(* other never.                                                            *)
(***************************************************************************)
EXTENDS SocketDevice, TLC

CONSTANTS a, b

MCPackets == {<<a, NL>>, <<b, b, NL>>}
MCSeekTos == {<<1, 1>>, <<0, 3>>}

Symmetry == Permutations(Clients)
=============================================================================
