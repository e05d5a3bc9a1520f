---------------------------- MODULE MCClientFlow ----------------------------
(* Every stream of up to seven bytes, in chunks of at most two.            *)
EXTENDS ClientFlow, TLC

Symmetry == Permutations(Frags)
=============================================================================
