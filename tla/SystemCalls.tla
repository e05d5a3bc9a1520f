----------------------------- MODULE SystemCalls -----------------------------
(***************************************************************************)
(* examples/systemcalls/systemcalls.c: do_system, do_exec and              *)
(* do_exec_redirect, called by any number of threads of one process.       *)
(*                                                                         *)
(* A command is left out but for whether it ends well.  The kernel is      *)
(* external: a child that has ended stays, with its status, until someone  *)
(* waits for it.  do_exec and do_exec_redirect call wait(), which takes    *)
(* any child of the process; system() waits for its own.                   *)
(***************************************************************************)
EXTENDS Integers, FiniteSets

CONSTANTS Callers, Pids, NULL

ASSUME SystemCallsAssumption ==
  NULL \notin Pids /\ IsFiniteSet(Callers) /\ IsFiniteSet(Pids)

Calls == {"do_system", "do_exec", "do_exec_redirect"}

VARIABLES
  pc,       \* where each caller is
  call,     \* the function it is in, or "none"
  child,    \* the child it has started, or NULL
  proc,     \* what each process number is: "none", "forked" and not yet the
            \*   command, "run", or ended: "ok" with status 0, "bad" with
            \*   another, "killed" by a signal
  result,   \* what each caller's last call returned
  output,   \* the callers whose output_fd is open
  alone,    \* history: the callers whose call no other has overlapped
  left,     \* history: how often a call returned without having taken a child
  unclaimed \* history: how many more commands ended with status 0 than calls
            \*   have returned true

vars == <<pc, call, child, proc, result, output, alone, left, unclaimed>>

Statuses == {"ok", "bad", "killed"}
Ended(p) == proc[p] \in Statuses
Children == {p \in Pids : proc[p] # "none"}
Busy == {t \in Callers : pc[t] # "idle"}

Goto(t, from, to) == pc[t] = from /\ pc' = [pc EXCEPT ![t] = to]

Init ==
  /\ pc = [t \in Callers |-> "idle"]
  /\ call = [t \in Callers |-> "none"]
  /\ child = [t \in Callers |-> NULL]
  /\ proc = [p \in Pids |-> "none"]
  /\ result = [t \in Callers |-> FALSE]
  /\ output = {} /\ alone = {} /\ left = 0 /\ unclaimed = 0

-----------------------------------------------------------------------------
(* A function is entered; do_exec_redirect opens its output file first.    *)
Enter(t, c) ==
  /\ Goto(t, "idle", "fork")
  /\ call' = [call EXCEPT ![t] = c]
  /\ output' = IF c = "do_exec_redirect" THEN output \cup {t} ELSE output
  /\ result' = [result EXCEPT ![t] = FALSE]
  /\ alone' = IF Busy = {} THEN {t} ELSE {}
  /\ UNCHANGED <<child, proc, left, unclaimed>>

(* WIFEXITED and WEXITSTATUS of a status; and the mutant that only looks   *)
(* at the latter, which is 0 for a killed process.                         *)
ExitStatusZero(s) == s \in {"ok", "killed"}
ExitedZero(s) == s = "ok"

(* The call returns r.                                                     *)
Return(t, from, r) ==
  /\ Goto(t, from, "idle")
  /\ result' = [result EXCEPT ![t] = r]
  /\ child' = [child EXCEPT ![t] = NULL]
  /\ call' = [call EXCEPT ![t] = "none"]
  /\ alone' = alone \ {t}
  /\ unclaimed' = IF r THEN unclaimed - 1 ELSE unclaimed

(* fork; the parent has closed its output_fd before it waits.              *)
Fork(t) ==
  /\ Goto(t, "fork", "wait")
  /\ \E p \in Pids \ Children :
       child' = [child EXCEPT ![t] = p] /\ proc' = [proc EXCEPT ![p] = "forked"]
  /\ output' = output \ {t}
  /\ UNCHANGED <<call, result, alone, left, unclaimed>>

(* What a failed fork leaves open; and the mutant that returns at once.    *)
OutputKept(t) == output
OutputClosed(t) == output \ {t}

(* Mutant: a failed fork is waited for.                                    *)
ForkUnchecked(t) ==
  /\ Goto(t, "fork", "wait")
  /\ output' = output \ {t}
  /\ UNCHANGED <<call, child, proc, result, alone, left, unclaimed>>

(* fork fails: false is returned.  (When open fails nothing has happened.) *)
ForkFails(t) ==
  /\ Return(t, "fork", FALSE)
  /\ output' = OutputClosed(t)
  /\ UNCHANGED <<proc, left>>

(* wait() returns a child that has ended, no matter whose.                 *)
WaitAny(t, p) ==
  /\ call[t] # "do_system"
  /\ Ended(p)
  /\ Return(t, "wait", ExitedZero(proc[p]))
  /\ proc' = [proc EXCEPT ![p] = "none"]
  /\ UNCHANGED <<output, left>>

(* wait() fails, as it does when a signal interrupts it (there is always a *)
(* child, see WaitFindsAChild): false is returned, and the child stays.    *)
(* system() waits again instead.                                           *)
WaitInterrupted(t) ==
  /\ call[t] # "do_system"
  /\ Return(t, "wait", FALSE)
  /\ left' = left + 1
  /\ UNCHANGED <<proc, output>>

(* system() returns: its own child has ended, or another call has taken    *)
(* its status, and system() fails.                                         *)
WaitOwn(t) ==
  /\ call[t] = "do_system" /\ pc[t] = "wait"
  /\ proc[child[t]] \in Statuses \cup {"none"}
  /\ Return(t, "wait", proc[child[t]] = "ok")
  /\ proc' = [proc EXCEPT ![child[t]] = "none"]
  /\ left' = IF proc[child[t]] = "none" THEN left + 1 ELSE left
  /\ UNCHANGED output

-----------------------------------------------------------------------------
Becomes(p, from, to) ==
  /\ proc[p] = from /\ proc' = [proc EXCEPT ![p] = to]
  /\ unclaimed' = IF to = "ok" THEN unclaimed + 1 ELSE unclaimed
  /\ UNCHANGED <<pc, call, child, result, output, alone, left>>

(* The child becomes the command.                                          *)
Exec(p) == Becomes(p, "forked", "run")

(* dup2 or execv fails: the child aborts; and the mutant in which it       *)
(* returns and is a second copy of the caller.                             *)
ExecFailsReturns(p) == Becomes(p, "forked", "copy")
ExecFails(p) == Becomes(p, "forked", "killed")

(* The command ends.                                                       *)
CommandEnds(p) == \E s \in Statuses : Becomes(p, "run", s)

-----------------------------------------------------------------------------
Wait(t) == WaitOwn(t) \/ \E p \in Pids : WaitAny(t, p)

Runs(p) == Exec(p) \/ ExecFails(p) \/ CommandEnds(p)

Next ==
  \/ \E t \in Callers :
       \/ \E c \in Calls : Enter(t, c)
       \/ Fork(t) \/ ForkFails(t) \/ Wait(t) \/ WaitInterrupted(t)
  \/ \E p \in Pids : Runs(p)

Spec == Init /\ [][Next]_vars

(* Callers and children run, commands end, and a caller that waits is not  *)
(* for ever passed over in favour of others that wait.                     *)
Fairness ==
  /\ \A t \in Callers : WF_vars(Fork(t) \/ ForkFails(t)) /\ SF_vars(Wait(t))
  /\ \A p \in Pids : WF_vars(Runs(p))

FairSpec == Spec /\ Fairness

-----------------------------------------------------------------------------
(* The types of the variables; who waits has started a child.              *)
TypeOK ==
  /\ pc \in [Callers -> {"idle", "fork", "wait"}]
  /\ call \in [Callers -> Calls \cup {"none"}]
  /\ child \in [Callers -> Pids \cup {NULL}]
  /\ \A t \in Callers : pc[t] = "wait" => child[t] \in Pids
  /\ proc \in [Pids -> {"none", "forked", "run"} \cup Statuses]
  /\ result \in [Callers -> BOOLEAN]
  /\ output \in SUBSET Callers /\ alone \in SUBSET Callers
  /\ left \in Nat /\ unclaimed \in Int

(* wait() is never called without a child to wait for, whichever children  *)
(* the other callers have taken: it does not fail for lack of one          *)
(* (systemcalls.c:72, 140), and nobody is left waiting for nothing.        *)
WaitFindsAChild ==
  Cardinality({t \in Callers : pc[t] = "wait" /\ call[t] # "do_system"})
    <= Cardinality(Children)

(* "This file will be closed at completion of the function call"           *)
(* (systemcalls.c:83): when all calls have returned no output file is      *)
(* open; and, although wait() takes any child, a child remains only for    *)
(* each wait() that failed and each system() that was robbed of its own.   *)
NothingLeftBehind ==
  Busy = {} => output = {} /\ Cardinality(Children) = left

(* A call that no other overlapped returns whether its own command ended   *)
(* with status 0 (systemcalls.c:35-38), or false when its wait() fails,    *)
(* whatever earlier calls did; for do_exec as long as none of them has     *)
(* left a child behind.                                                    *)
OwnVerdict ==
  [][\A t \in alone :
       pc[t] = "wait" /\ pc'[t] = "idle" /\ (call[t] = "do_system" \/ left = 0) =>
         /\ result'[t] => proc[child[t]] = "ok"
         /\ proc[child[t]] = "ok" /\ left' = left => result'[t]]_vars

(* Calls that overlap may take each other's children and return each       *)
(* other's verdict, which systemcalls.c:35-38 does not say.  But none is   *)
(* invented, lost or given twice: each call that returns true answers for  *)
(* one command that ended with status 0, and the commands that ended so    *)
(* and that no call has answered for are the ones still to be waited for.  *)
VerdictsAddUp == unclaimed = Cardinality({p \in Pids : proc[p] = "ok"})

(* Every call returns, whichever fork, dup2, execv or command fails and    *)
(* whoever else waits.                                                     *)
CallsReturn == \A t \in Callers : pc[t] = "fork" ~> pc[t] = "idle"
=============================================================================
