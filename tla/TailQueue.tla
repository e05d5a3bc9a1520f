----------------------------- MODULE TailQueue -----------------------------
(***************************************************************************)
(* The tail queue of server/queue.h on pointers, as far as the server uses *)
(* it.  tqe_prev and tqh_last are addresses of next fields; the address of *)
(* the next field of a node is written as the node, that of tqh_first as   *)
(* HEAD.  So a queue is a record of                                        *)
(*   next  of HEAD (tqh_first) and of each node (tqe_next),                *)
(*   prev  of each node (tqe_prev): who points to it,                      *)
(*   last  (tqh_last): whose next field is the one to append to.           *)
(* The tracing and checking macros expand to nothing in this build.        *)
(***************************************************************************)
EXTENDS Naturals, Sequences

CONSTANTS Nodes,    \* memory for the elements
          NULL,
          HEAD,     \* the head, or the address of tqh_first
          GARBAGE   \* what is in the links of memory that is not allocated

ASSUME TailQueueAssumption ==
  /\ {NULL, HEAD, GARBAGE} \cap Nodes = {}
  /\ NULL # HEAD /\ NULL # GARBAGE /\ HEAD # GARBAGE

TAILQ_INIT ==
  [next |-> [f \in Nodes \cup {HEAD} |-> IF f = HEAD THEN NULL ELSE GARBAGE],
   prev |-> [n \in Nodes |-> GARBAGE],
   last |-> HEAD]

TAILQ_FIRST(q) == q.next[HEAD]
TAILQ_NEXT(q, elm) == q.next[elm]
TAILQ_EMPTY(q) == TAILQ_FIRST(q) = NULL

TAILQ_INSERT_TAIL(q, elm) ==
  [next |-> [q.next EXCEPT ![elm] = NULL, ![q.last] = elm],
   prev |-> [q.prev EXCEPT ![elm] = q.last],
   last |-> elm]

(* tqh_last once elm is out of the queue; and the mutant that does not     *)
(* look whether elm is the last.                                           *)
LastKept(q, elm) == q.last
LastWithout(q, elm) == IF q.next[elm] = NULL THEN q.prev[elm] ELSE q.last

TAILQ_REMOVE(q, elm) ==
  LET next == q.next[elm]
      prev == q.prev[elm]
  IN  [next |-> [q.next EXCEPT ![prev] = next],
       prev |-> IF next = NULL THEN q.prev ELSE [q.prev EXCEPT ![next] = prev],
       last |-> LastWithout(q, elm)]

(* free(elm): its links mean nothing any more.                             *)
Scrap(q, elm) ==
  [q EXCEPT !.next[elm] = GARBAGE, !.prev[elm] = GARBAGE]

(* The queue is the sequence s: following next from HEAD gives its         *)
(* elements in order and ends there, prev leads back, last is its end.     *)
At(s, i) == IF i = 0 THEN HEAD ELSE s[i]

Represents(q, s) ==
  /\ \A i \in 1 .. Len(s) : q.next[At(s, i - 1)] = s[i] /\ q.prev[s[i]] = At(s, i - 1)
  /\ q.next[At(s, Len(s))] = NULL
  /\ q.last = At(s, Len(s))
=============================================================================
