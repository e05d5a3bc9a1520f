--------------------------- MODULE ExamplesProofs ---------------------------
(***************************************************************************)
(* The safety properties of the two examples: of SystemCalls for any       *)
(* number of callers and process numbers and, from the last section on, of *)
(* Threading for any number of threads and mutexes.                        *)
(***************************************************************************)
EXTENDS SystemCalls, Threading, FiniteSetTheorems, TLAPS

(* Everyone in wait() or in system()'s waitpid().                          *)
Waiting == {t \in Callers : pc[t] = "wait"}

(* Everyone who waits has brought a child, and whoever has stopped waiting *)
(* has taken one away or left one.                                         *)
Counted == Cardinality(Children) = Cardinality(Waiting) + left

(* A call in alone is the only one, and nobody takes its child.            *)
AloneIsAlone ==
  \A t \in alone : Busy = {t} /\ (pc[t] = "wait" => child[t] \in Children)

(* Only a caller between its open and its fork has the output file open.   *)
OutputHeld == \A t \in output : pc[t] = "fork"

(* The children that ended with status 0 and were not yet waited for.      *)
Good == {p \in Pids : proc[p] = "ok"}

Inv == TypeOK /\ Counted /\ AloneIsAlone /\ OutputHeld /\ VerdictsAddUp

-----------------------------------------------------------------------------
(* The sets that are counted are finite.                                   *)
LEMMA CountsExist ==
  /\ IsFiniteSet(Waiting) /\ Cardinality(Waiting) \in Nat
  /\ IsFiniteSet(Children) /\ Cardinality(Children) \in Nat
  /\ IsFiniteSet(Good) /\ Cardinality(Good) \in Nat
<1>1. Waiting \in SUBSET Callers /\ Children \in SUBSET Pids /\ Good \in SUBSET Pids
  BY DEF Waiting, Children, Good
<1>2. IsFiniteSet(Waiting) /\ IsFiniteSet(Children) /\ IsFiniteSet(Good)
  BY <1>1, FS_Subset, SystemCallsAssumption
<1> QED BY <1>2, FS_CardinalityType

(* A caller and a child more on both sides, or less.                       *)
LEMMA CountBothUp ==
  ASSUME NEW W, IsFiniteSet(W), NEW C, IsFiniteSet(C), NEW t, t \notin W, NEW p, p \notin C
  PROVE  /\ Cardinality(W \cup {t}) = Cardinality(W) + 1
         /\ Cardinality(C \cup {p}) = Cardinality(C) + 1
BY FS_AddElement

(* One less, if it was there.                                              *)
LEMMA CountDown ==
  ASSUME NEW W, IsFiniteSet(W), NEW t
  PROVE  Cardinality(W \ {t}) = IF t \in W THEN Cardinality(W) - 1 ELSE Cardinality(W)
BY FS_RemoveElement

(* There is nothing at first.                                              *)
LEMMA InitInv == Init => Inv
<1> SUFFICES ASSUME Init PROVE Inv
  OBVIOUS
<1>1. TypeOK /\ AloneIsAlone /\ OutputHeld
  BY SystemCallsAssumption DEF Init, TypeOK, AloneIsAlone, OutputHeld, Calls
<1>2. Waiting = {} /\ Children = {} /\ Good = {} /\ left = 0 /\ unclaimed = 0
  BY DEF Init, Waiting, Children, Good
<1>3. Cardinality({}) = 0
  BY FS_EmptySet
<1>4. Counted
  BY <1>2, <1>3 DEF Counted
<1>5. unclaimed = Cardinality(Good)
  BY <1>2, <1>3
<1>6. VerdictsAddUp
  BY <1>5 DEF VerdictsAddUp, Good
<1> QED BY <1>1, <1>4, <1>6 DEF Inv

(* A caller begins a call.                                                 *)
LEMMA EnterInv ==
  ASSUME Inv, NEW t \in Callers, NEW c \in Calls, Enter(t, c) PROVE Inv'
<1> USE DEF Inv
<1>1. TypeOK' /\ OutputHeld'
  BY DEF TypeOK, OutputHeld, Enter, Goto
<1>2. Waiting' = Waiting /\ Children' = Children /\ Busy' = Busy \cup {t} /\ left' = left
  BY DEF TypeOK, Enter, Goto, Waiting, Children, Busy
<1>3. Counted'
  BY <1>2 DEF Counted
<1>4. AloneIsAlone'
  BY <1>2 DEF AloneIsAlone, Enter, Goto, TypeOK
<1>5. VerdictsAddUp'
  BY DEF VerdictsAddUp, Enter
<1> QED BY <1>1, <1>3, <1>4, <1>5

(* A caller has a child; the child is one that nobody has.                 *)
LEMMA ForkInv == ASSUME Inv, NEW t \in Callers, Fork(t) PROVE Inv'
<1> USE DEF Inv
<1>1. PICK p \in Pids \ Children :
        /\ child' = [child EXCEPT ![t] = p] /\ proc' = [proc EXCEPT ![p] = "forked"]
  BY DEF Fork
<1>2. TypeOK' /\ OutputHeld'
  BY <1>1 DEF TypeOK, OutputHeld, Fork, Goto
<1>3. /\ Waiting' = Waiting \cup {t} /\ t \notin Waiting
      /\ Children' = Children \cup {p} /\ p \notin Children
      /\ Busy' = Busy /\ t \in Busy /\ UNCHANGED <<alone, left>> /\ left \in Nat
  BY <1>1 DEF TypeOK, Fork, Goto, Waiting, Children, Busy
<1>4. Counted'
  BY <1>3, CountsExist, CountBothUp DEF Counted
<1>5. AloneIsAlone'
  BY <1>1, <1>3 DEF AloneIsAlone, TypeOK
<1>6. Good' = Good /\ unclaimed' = unclaimed
  BY <1>1 DEF TypeOK, Good, Children, Fork
<1>7. VerdictsAddUp'
  BY <1>6 DEF VerdictsAddUp, Good
<1> QED BY <1>2, <1>4, <1>5, <1>7

(* fork() fails: the caller returns and leaves nothing open.               *)
LEMMA ForkFailsInv == ASSUME Inv, NEW t \in Callers, ForkFails(t) PROVE Inv'
<1> USE DEF Inv
<1>1. TypeOK' /\ OutputHeld'
  BY DEF TypeOK, OutputHeld, ForkFails, OutputClosed, Return, Goto
<1>2. /\ Waiting' = Waiting /\ Children' = Children /\ left' = left
      /\ Busy' = Busy \ {t} /\ t \in Busy
  BY DEF TypeOK, ForkFails, Return, Goto, Waiting, Children, Busy
<1>3. Counted'
  BY <1>2 DEF Counted
<1>4. AloneIsAlone'
  BY <1>2 DEF AloneIsAlone, ForkFails, Return
<1>5. VerdictsAddUp'
  BY DEF VerdictsAddUp, ForkFails, Return
<1> QED BY <1>1, <1>3, <1>4, <1>5

(* Whoever returns from its wait was one of those who wait; if it was      *)
(* alone, nobody else is.                                                  *)
LEMMA ReturnFromWait ==
  ASSUME Inv, NEW t \in Callers, NEW r \in BOOLEAN, Return(t, "wait", r)
  PROVE  /\ Waiting' = Waiting \ {t} /\ t \in Waiting
         /\ Cardinality(Waiting') = Cardinality(Waiting) - 1
         /\ AloneIsAlone'
<1>1. /\ Waiting' = Waiting \ {t} /\ t \in Waiting
      /\ Busy' = Busy \ {t} /\ t \in Busy
  BY DEF Inv, TypeOK, Return, Goto, Waiting, Busy
<1>2. Cardinality(Waiting') = Cardinality(Waiting) - 1
  BY <1>1, CountsExist, CountDown
<1>3. AloneIsAlone'
  BY <1>1 DEF Inv, AloneIsAlone, Return
<1> QED BY <1>1, <1>2, <1>3

(* The verdict of a child goes to one call, and the child with it.         *)
LEMMA VerdictTaken ==
  ASSUME Inv, NEW t \in Callers, NEW p \in Pids, Return(t, "wait", proc[p] = "ok"),
         proc' = [proc EXCEPT ![p] = "none"]
  PROVE  VerdictsAddUp'
<1>1. Good' = Good \ {p} /\ unclaimed \in Int
  BY DEF Inv, TypeOK, Good
<1>2. unclaimed' = IF p \in Good THEN unclaimed - 1 ELSE unclaimed
  BY DEF Return, Good
<1>3. Cardinality(Good \ {p}) = IF p \in Good THEN Cardinality(Good) - 1 ELSE Cardinality(Good)
  BY CountsExist, CountDown
<1>4. unclaimed = Cardinality(Good)
  BY DEF Inv, VerdictsAddUp, Good
<1>5. unclaimed' = Cardinality(Good')
  BY <1>1, <1>2, <1>3, <1>4
<1> QED BY <1>5 DEF VerdictsAddUp, Good

(* wait() takes a child.                                                   *)
LEMMA WaitAnyInv == ASSUME Inv, NEW t \in Callers, NEW p \in Pids, WaitAny(t, p) PROVE Inv'
<1> USE DEF Inv
<1>1. TypeOK' /\ OutputHeld'
  BY DEF TypeOK, OutputHeld, WaitAny, ExitedZero, Return, Goto
<1>2. Children' = Children \ {p} /\ p \in Children /\ left' = left /\ left \in Nat
  BY DEF TypeOK, WaitAny, Children, Ended, Statuses
<1>3. AloneIsAlone' /\ Cardinality(Waiting') = Cardinality(Waiting) - 1
  BY ReturnFromWait DEF WaitAny, ExitedZero
<1>4. Counted'
  BY <1>2, <1>3, CountsExist, CountDown DEF Counted
<1>5. VerdictsAddUp'
  BY VerdictTaken DEF WaitAny, ExitedZero
<1> QED BY <1>1, <1>3, <1>4, <1>5

(* wait() fails and leaves a child.                                        *)
LEMMA WaitInterruptedInv ==
  ASSUME Inv, NEW t \in Callers, WaitInterrupted(t) PROVE Inv'
<1> USE DEF Inv
<1>1. TypeOK' /\ OutputHeld'
  BY DEF TypeOK, OutputHeld, WaitInterrupted, Return, Goto
<1>2. Children' = Children /\ left' = left + 1 /\ left \in Nat
  BY DEF TypeOK, WaitInterrupted, Children
<1>3. AloneIsAlone' /\ Cardinality(Waiting') = Cardinality(Waiting) - 1
  BY ReturnFromWait DEF WaitInterrupted
<1>4. Counted'
  BY <1>2, <1>3, CountsExist DEF Counted
<1>5. VerdictsAddUp'
  BY DEF VerdictsAddUp, WaitInterrupted, Return
<1> QED BY <1>1, <1>3, <1>4, <1>5

(* system() returns.                                                       *)
LEMMA WaitOwnInv == ASSUME Inv, NEW t \in Callers, WaitOwn(t) PROVE Inv'
<1> USE DEF Inv
<1>1. TypeOK' /\ OutputHeld'
  BY DEF TypeOK, OutputHeld, WaitOwn, Return, Goto
<1>2. /\ Children' = Children \ {child[t]} /\ left \in Nat
      /\ left' = IF child[t] \in Children THEN left ELSE left + 1
  BY DEF TypeOK, WaitOwn, Children
<1>3. AloneIsAlone' /\ Cardinality(Waiting') = Cardinality(Waiting) - 1
  BY ReturnFromWait DEF WaitOwn
<1>4. Cardinality(Children') = Cardinality(Children) - (IF child[t] \in Children THEN 1 ELSE 0)
  <2>1. Cardinality(Children \ {child[t]}) =
          IF child[t] \in Children THEN Cardinality(Children) - 1 ELSE Cardinality(Children)
    BY CountsExist, CountDown
  <2> QED BY <1>2, <2>1, CountsExist
<1>5. Counted'
  BY <1>2, <1>3, <1>4, CountsExist DEF Counted
<1>6. VerdictsAddUp'
  BY VerdictTaken DEF WaitOwn, TypeOK
<1> QED BY <1>1, <1>3, <1>5, <1>6

(* A child goes on: it stays one.                                          *)
LEMMA RunsInv == ASSUME Inv, NEW p \in Pids, Runs(p) PROVE Inv'
<1> USE DEF Inv
<1>1. PICK from \in {"forked", "run"}, to \in {"run"} \cup Statuses : Becomes(p, from, to)
  BY DEF Runs, Exec, ExecFails, CommandEnds, Statuses
<1>2. TypeOK' /\ OutputHeld'
  BY <1>1 DEF TypeOK, OutputHeld, Becomes
<1>3. Waiting' = Waiting /\ Children' = Children /\ Busy' = Busy
  BY <1>1 DEF TypeOK, Becomes, Waiting, Children, Busy, Statuses
<1>4. Counted' /\ AloneIsAlone'
  BY <1>1, <1>3 DEF Counted, AloneIsAlone, Becomes
<1>5. VerdictsAddUp'
  <2>1. CASE to = "ok"
    <3>1. Good' = Good \cup {p} /\ p \notin Good /\ unclaimed' = unclaimed + 1
      BY <1>1, <2>1 DEF TypeOK, Becomes, Good
    <3>2. Cardinality(Good \cup {p}) = Cardinality(Good) + 1
      BY <3>1, CountsExist, FS_AddElement
    <3> QED BY <3>1, <3>2 DEF VerdictsAddUp, Good
  <2>2. CASE to # "ok"
    <3>1. Good' = Good /\ unclaimed' = unclaimed
      BY <1>1, <2>2 DEF TypeOK, Becomes, Good
    <3> QED BY <3>1 DEF VerdictsAddUp, Good
  <2> QED BY <2>1, <2>2
<1> QED BY <1>2, <1>4, <1>5

(* Every step keeps the invariant.                                         *)
LEMMA NextInv == Inv /\ [Next]_vars => Inv'
<1> SUFFICES ASSUME Inv, [Next]_vars PROVE Inv'
  OBVIOUS
<1>1. CASE Next
  BY <1>1, EnterInv, ForkInv, ForkFailsInv, WaitAnyInv, WaitInterruptedInv, WaitOwnInv, RunsInv
     DEF Next, Wait
<1>2. CASE UNCHANGED vars
  BY <1>2 DEF Inv, TypeOK, Counted, AloneIsAlone, OutputHeld, VerdictsAddUp, Waiting,
              Children, Busy, vars
<1> QED BY <1>1, <1>2

(* The invariant holds at every moment.                                    *)
LEMMA Invariance == Spec => []Inv
BY InitInv, NextInv, PTL DEF Spec

-----------------------------------------------------------------------------
(* The variables keep their types, and whoever waits has started a child.  *)
THEOREM TypesHold == Spec => []TypeOK
<1>1. Inv => TypeOK
  BY DEF Inv
<1> QED BY Invariance, <1>1, PTL

(* systemcalls.c:71, 139: however many callers take each other's children, *)
(* there is a child for each that is in wait().                            *)
THEOREM NobodyWaitsForNothing == Spec => []WaitFindsAChild
<1>1. ASSUME Inv PROVE WaitFindsAChild
  <2> DEFINE W == {t \in Callers : pc[t] = "wait" /\ call[t] # "do_system"}
  <2>1. W \in SUBSET Waiting
    BY DEF Waiting
  <2>2. Cardinality(W) <= Cardinality(Waiting) /\ IsFiniteSet(W)
    BY <2>1, FS_Subset, CountsExist
  <2>3. Cardinality(W) \in Nat
    BY <2>2, FS_CardinalityType
  <2>4. Cardinality(Waiting) <= Cardinality(Children)
    BY <1>1, CountsExist DEF Inv, Counted, TypeOK
  <2>5. Cardinality(W) <= Cardinality(Children)
    BY <2>2, <2>3, <2>4, CountsExist
  <2> QED BY <2>5 DEF WaitFindsAChild
<1> QED BY Invariance, <1>1, PTL

(* systemcalls.c:83: once every call has returned no output file is open,  *)
(* and children remain exactly for the calls that returned without taking  *)
(* one: a failed wait(), or a system() whose child another call took.      *)
THEOREM NothingIsLeftBehind == Spec => []NothingLeftBehind
<1>1. ASSUME Inv PROVE NothingLeftBehind
  <2> SUFFICES ASSUME Busy = {} PROVE output = {} /\ Cardinality(Children) = left
    BY DEF NothingLeftBehind
  <2>1. output = {}
    BY <1>1 DEF Inv, OutputHeld, Busy, TypeOK
  <2>2. Waiting = {}
    BY DEF Waiting, Busy
  <2>3. Cardinality(Children) = left
    BY <1>1, <2>2, FS_EmptySet DEF Inv, Counted, TypeOK
  <2> QED BY <2>1, <2>3
<1> QED BY Invariance, <1>1, PTL

(* systemcalls.c:78, 146: whoever takes whose child, a call that returns   *)
(* true answers for one command that ended with status 0, and no command   *)
(* is answered for twice; those that no call has answered for are still to *)
(* be waited for.                                                          *)
THEOREM VerdictsBalance == Spec => []VerdictsAddUp
<1>1. Inv => VerdictsAddUp
  BY DEF Inv
<1> QED BY Invariance, <1>1, PTL

(* Before a child was left behind, one call alone has one child alone.     *)
LEMMA OnlyChild ==
  ASSUME Inv, NEW t \in alone, pc[t] = "wait", left = 0 PROVE Children = {child[t]}
<1>1. Waiting = {t} /\ child[t] \in Children
  BY DEF Inv, AloneIsAlone, Busy, Waiting, TypeOK
<1>2. Cardinality(Children) = 1
  <2>1. Cardinality({t}) = 1
    BY FS_Singleton
  <2> QED BY <1>1, <2>1 DEF Inv, Counted
<1>3. \E p : Children = {p}
  BY <1>2, CountsExist, FS_Singleton
<1> QED BY <1>1, <1>3

(* systemcalls.c:35-38: a call that nobody overlapped returns what became  *)
(* of its own command, or false when its wait() fails: as long as no       *)
(* earlier call left a child, the one that wait() takes is its own.        *)
THEOREM VerdictIsOwn == Spec => OwnVerdict
<1> DEFINE Own == \A t \in alone :
             pc[t] = "wait" /\ pc'[t] = "idle" /\ (call[t] = "do_system" \/ left = 0) =>
               /\ result'[t] => proc[child[t]] = "ok"
               /\ proc[child[t]] = "ok" /\ left' = left => result'[t]
<1>1. ASSUME Inv, [Next]_vars PROVE [Own]_vars
  <2> SUFFICES ASSUME Next, NEW t \in alone, pc[t] = "wait", pc'[t] = "idle",
                      call[t] = "do_system" \/ left = 0
               PROVE  /\ result'[t] => proc[child[t]] = "ok"
                      /\ proc[child[t]] = "ok" /\ left' = left => result'[t]
    BY <1>1
  <2>1. t \in Callers /\ left \in Nat /\ result \in [Callers -> BOOLEAN]
    BY <1>1 DEF Inv, TypeOK
  <2>2. WaitOwn(t) \/ WaitInterrupted(t) \/ \E p \in Pids : WaitAny(t, p)
    BY <1>1, <2>1
       DEF Next, Wait, WaitOwn, WaitAny, WaitInterrupted, Enter, Fork, ForkFails, Runs, Exec,
           ExecFails, CommandEnds, Becomes, Return, Goto, Inv, TypeOK
  <2>3. CASE WaitOwn(t)
    BY <2>1, <2>3 DEF WaitOwn, Return
  <2>4. CASE WaitInterrupted(t)
    BY <2>1, <2>4 DEF WaitInterrupted, Return
  <2>5. ASSUME NEW p \in Pids, WaitAny(t, p) PROVE result'[t] = (proc[child[t]] = "ok")
    <3>1. p \in Children /\ left = 0
      BY <2>5 DEF WaitAny, Ended, Statuses, Children
    <3>2. p = child[t]
      BY <1>1, <3>1, OnlyChild
    <3> QED BY <2>1, <2>5, <3>2 DEF WaitAny, Return, ExitedZero
  <2> QED BY <2>2, <2>3, <2>4, <2>5
<1> QED BY Invariance, <1>1, PTL DEF Spec, OwnVerdict
-----------------------------------------------------------------------------
(* Threading, which shares nothing with SystemCalls.                       *)

(* Where a thread is when it has held its mutex and has not yet said so:   *)
(* what makes SuccessIsTrue inductive.                                     *)
HeldBefore == \A d \in Data : at[d] \in {"hold", "complete"} => d \in held

ThreadInv == ThreadTypeOK /\ SuccessIsTrue /\ HeldBefore

(* Nothing is allocated, locked or claimed at first.                       *)
LEMMA ThreadInitInv == ThreadInit => ThreadInv
BY ThreadingAssumption DEF ThreadInit, ThreadInv, ThreadTypeOK, SuccessIsTrue, HeldBefore

(* Every step of every thread keeps the invariant.                         *)
LEMMA ThreadNextInv == ThreadInv /\ [ThreadNext]_thread_vars => ThreadInv'
<1> SUFFICES ASSUME ThreadInv, [ThreadNext]_thread_vars PROVE ThreadInv'
  OBVIOUS
<1> USE ThreadingAssumption DEF ThreadInv, ThreadTypeOK, SuccessIsTrue, HeldBefore, Moves
<1>1. ASSUME NEW d \in Data, NEW m \in Mutexes, Allocate(d, m) PROVE ThreadInv'
  BY <1>1 DEF Allocate
<1>2. ASSUME NEW d \in Data, Create(d) PROVE ThreadInv'
  BY <1>2 DEF Create
<1>3. ASSUME NEW d \in Data, CreateFails(d) PROVE ThreadInv'
  BY <1>3 DEF CreateFails, Without
<1>4. ASSUME NEW d \in Data, Obtain(d) PROVE ThreadInv'
  BY <1>4 DEF Obtain
<1>5. ASSUME NEW d \in Data, ObtainFails(d) PROVE ThreadInv'
  BY <1>5 DEF ObtainFails
<1>6. ASSUME NEW d \in Data, Release(d) PROVE ThreadInv'
  BY <1>6 DEF Release, Released
<1>7. ASSUME NEW d \in Data, Complete(d) PROVE ThreadInv'
  BY <1>7 DEF Complete
<1>8. ASSUME NEW d \in Data, Join(d) PROVE ThreadInv'
  BY <1>8 DEF Join
<1>9. ASSUME UNCHANGED thread_vars PROVE ThreadInv'
  BY <1>9 DEF thread_vars
<1> QED BY <1>1, <1>2, <1>3, <1>4, <1>5, <1>6, <1>7, <1>8, <1>9 DEF ThreadNext

(* The invariant holds at every moment.                                    *)
LEMMA ThreadInvariance == ThreadSpec => []ThreadInv
BY ThreadInitInv, ThreadNextInv, PTL DEF ThreadSpec

(* threading.c: a thread_data is in use exactly as long as a thread has it *)
(* or is about to get it, so it is freed once, by the joiner or by the     *)
(* function that could not start the thread.                               *)
THEOREM DataFreedOnce == ThreadSpec => []ThreadTypeOK
<1>1. ThreadInv => ThreadTypeOK
  BY DEF ThreadInv
<1> QED BY ThreadInvariance, <1>1, PTL

(* threading.h: thread_complete_success is only ever set for a thread that *)
(* has held its mutex; a mutex is held by nobody but the thread between    *)
(* its lock and its unlock, so by one thread at a time.                    *)
THEOREM SuccessFlagTrue == ThreadSpec => []SuccessIsTrue
<1>1. ThreadInv => SuccessIsTrue
  BY DEF ThreadInv
<1> QED BY ThreadInvariance, <1>1, PTL
=============================================================================
