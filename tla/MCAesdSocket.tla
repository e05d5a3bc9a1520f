---------------------------- MODULE MCAesdSocket ----------------------------
(***************************************************************************)
(* The server with three clients at a time, and with two in the runs that  *)
(* show a disagreement: with three, two that reply can keep the third      *)
(* from the lock.  Descriptors and memory blocks are used again, so        *)
(* connections are unlimited.  Two addresses to bind to, as with IPv4 and  *)
(* IPv6.  The run that checks liveness does without the symmetry, and      *)
(* follows fewer states: which descriptor goes with which block makes no   *)
(* difference to a lock, and a process that was killed, or whose main goes *)
(* no further, stays so, and both properties then hold.                    *)
(***************************************************************************)
EXTENDS AesdSocket, TLC

Symmetry == Permutations(Clients)

(* Each block comes with a descriptor of its own.                          *)
OwnDescriptors ==
  LET fd == CHOOSE f \in [Clients -> FDs] : IsInjective(f)
  IN  \A c \in Clients : peer_fd[c] \in {fd[c], -1}

(* The process has not come to the two ends that both properties allow.    *)
Runs == OwnDescriptors /\ alive /\ main # "undefined"
=============================================================================
