----------------------------- MODULE MCExamples -----------------------------
(***************************************************************************)
(* The two examples, which share nothing: a behaviour is one of either     *)
(* program, the other staying where it begins.                             *)
(*                                                                         *)
(* Two callers in any of the functions, and a third process number: for a  *)
(* child that an earlier call left.  Three threads at a time on two        *)
(* mutexes.  Process numbers and blocks are used again, so calls and       *)
(* threads are unlimited.                                                  *)
(***************************************************************************)
EXTENDS SystemCalls, Threading

VARIABLE program

MCInit ==
  /\ Init /\ ThreadInit
  /\ program \in {"systemcalls", "threading"}
  /\ program = "systemcalls" => mutex = CHOOSE f \in [Data -> Mutexes] : TRUE

MCNext ==
  \/ program = "systemcalls" /\ Next /\ UNCHANGED <<program, thread_vars>>
  \/ program = "threading" /\ ThreadNext /\ UNCHANGED <<program, vars>>

MCSpec == MCInit /\ [][MCNext]_<<program, vars, thread_vars>> /\ Fairness /\ ThreadFairness
=============================================================================
