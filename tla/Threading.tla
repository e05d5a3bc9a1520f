------------------------------ MODULE Threading ------------------------------
(***************************************************************************)
(* examples/threading/threading.c: start_thread_obtaining_mutex gives each *)
(* thread a thread_data of its own and the mutex the caller chose;         *)
(* threadfunc sleeps, takes the mutex, sleeps, gives it back and returns   *)
(* the thread_data, which the joiner looks at and frees (threading.h).     *)
(*                                                                         *)
(* Sleeping is any delay.  Memory, threads and mutexes are external: each  *)
(* creation and each lock may fail; an unlock by the owner does not.       *)
(***************************************************************************)
EXTENDS Naturals

CONSTANTS Data,     \* memory blocks for a struct thread_data
          Mutexes, Unlocked

ASSUME ThreadingAssumption == Unlocked \notin Data

VARIABLES
  at,       \* where the thread with each thread_data is
  alloc,    \* the blocks in use
  mutex,    \* data->mutex
  success,  \* data->thread_complete_success
  owner,    \* who holds each mutex, or Unlocked
  held      \* history: the threads that have held their mutex

thread_vars == <<at, alloc, mutex, success, owner, held>>

Moves(d, from, to) == at[d] = from /\ at' = [at EXCEPT ![d] = to]

ThreadInit ==
  /\ at = [d \in Data |-> "none"]
  /\ alloc = {}
  /\ mutex \in [Data -> Mutexes]
  /\ success = [d \in Data |-> FALSE]
  /\ owner = [m \in Mutexes |-> Unlocked]
  /\ held = {}

-----------------------------------------------------------------------------
(* calloc gives a block, which is filled in; the thread is yet to create.  *)
Allocate(d, m) ==
  /\ d \notin alloc /\ alloc' = alloc \cup {d}
  /\ Moves(d, "none", "create")
  /\ mutex' = [mutex EXCEPT ![d] = m]
  /\ success' = [success EXCEPT ![d] = FALSE]
  /\ held' = held \ {d}
  /\ UNCHANGED owner

(* pthread_create; the function returns true.                              *)
Create(d) ==
  /\ Moves(d, "create", "sleep")
  /\ UNCHANGED <<alloc, mutex, success, owner, held>>

(* The blocks once that of a thread that was not created is freed; and the *)
(* mutant that returns false at once.                                      *)
Kept(d) == alloc
Without(d) == alloc \ {d}

(* pthread_create fails; the function returns false.                       *)
CreateFails(d) ==
  /\ Moves(d, "create", "none")
  /\ alloc' = Without(d)
  /\ UNCHANGED <<mutex, success, owner, held>>

(* threadfunc: after its sleep the thread waits for the mutex and gets it. *)
Obtain(d) ==
  /\ Moves(d, "sleep", "hold")
  /\ owner[mutex[d]] = Unlocked
  /\ owner' = [owner EXCEPT ![mutex[d]] = d]
  /\ held' = held \cup {d}
  /\ UNCHANGED <<alloc, mutex, success>>

(* Mutant: the thread goes on although the lock failed.                    *)
ObtainUnchecked(d) ==
  /\ Moves(d, "sleep", "hold")
  /\ UNCHANGED <<alloc, mutex, success, owner, held>>

(* pthread_mutex_lock fails: the thread ends without success.              *)
ObtainFails(d) ==
  /\ Moves(d, "sleep", "exit")
  /\ UNCHANGED <<alloc, mutex, success, owner, held>>

(* The mutexes once the thread has given up its own; and the mutant that   *)
(* forgets to.                                                             *)
Retained(d) == owner
Released(d) == [owner EXCEPT ![mutex[d]] = Unlocked]

Release(d) ==
  /\ Moves(d, "hold", "complete")
  /\ owner' = Released(d)
  /\ UNCHANGED <<alloc, mutex, success, held>>

(* The last access to the thread_data, and the thread's end.               *)
Complete(d) ==
  /\ Moves(d, "complete", "exit")
  /\ success' = [success EXCEPT ![d] = TRUE]
  /\ UNCHANGED <<alloc, mutex, owner, held>>

(* The joiner, outside this file, gets the pointer and frees it.           *)
Join(d) ==
  /\ Moves(d, "exit", "none")
  /\ alloc' = alloc \ {d}
  /\ UNCHANGED <<mutex, success, owner, held>>

-----------------------------------------------------------------------------
ThreadNext ==
  \E d \in Data :
    \/ \E m \in Mutexes : Allocate(d, m)
    \/ Create(d) \/ CreateFails(d) \/ Obtain(d) \/ ObtainFails(d)
    \/ Release(d) \/ Complete(d) \/ Join(d)

ThreadSpec == ThreadInit /\ [][ThreadNext]_thread_vars

(* Threads run, sleeps end, and a mutex that is given up again and again   *)
(* is at last given to each that waits for it.                             *)
ThreadFairness ==
  \A d \in Data : /\ WF_thread_vars(Create(d) \/ CreateFails(d) \/ Release(d) \/ Complete(d))
                  /\ SF_thread_vars(Obtain(d))

ThreadFairSpec == ThreadSpec /\ ThreadFairness

-----------------------------------------------------------------------------
(* The types of the variables; a thread_data in use is one that a thread   *)
(* has or is about to get, so it is freed by the joiner or, when there is  *)
(* no thread, by the function that allocated it, and never by both.        *)
ThreadTypeOK ==
  /\ at \in [Data -> {"none", "create", "sleep", "hold", "complete", "exit"}]
  /\ alloc = {d \in Data : at[d] # "none"}
  /\ mutex \in [Data -> Mutexes]
  /\ success \in [Data -> BOOLEAN]
  /\ owner \in [Mutexes -> Data \cup {Unlocked}]

(* "check thread_complete_success for successful exit" (threading.h): the  *)
(* flag a joiner sees says that the thread has held its mutex and given it *)
(* back, and no mutex is held by a thread other than one between the two.  *)
SuccessIsTrue ==
  /\ \A d \in alloc : success[d] => d \in held
  /\ \A m \in Mutexes, d \in Data : owner[m] = d <=> at[d] = "hold" /\ mutex[d] = m

(* Every thread that was started ends, so that it can be joined, however   *)
(* many others want the same mutex.                                        *)
ThreadsEnd == \A d \in Data : at[d] = "sleep" ~> at[d] = "exit"

=============================================================================
