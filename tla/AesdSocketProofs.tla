-------------------------- MODULE AesdSocketProofs --------------------------
(***************************************************************************)
(* The safety properties of AesdSocket for any number of clients,          *)
(* descriptors and addresses: first what the TAILQ macros do to a list,    *)
(* then the invariant of the server.                                       *)
(***************************************************************************)
EXTENDS AesdSocket, FiniteSetTheorems, TLAPS

(* A queue's pointers point to something one may find in them.             *)
Queue == [next : [Nodes \cup {HEAD} -> Nodes \cup {NULL, GARBAGE}],
          prev : [Nodes -> Nodes \cup {HEAD, GARBAGE}],
          last : Nodes \cup {HEAD}]

(* The sequence s is the elements of A, each once, and q is s.             *)
Holds(q, A, s) ==
  /\ q \in Queue /\ A \in SUBSET Nodes /\ IsFiniteSet(A)
  /\ s \in SetToSeqs(A) /\ Represents(q, s)

(* The queue links the elements of A, each once, and nothing else.         *)
Links(q, A) == \E s : Holds(q, A, s)

(* The elements of A are the elements of s, which is a sequence.           *)
LEMMA HoldsSeq ==
  ASSUME NEW q, NEW A, NEW s, Holds(q, A, s)
  PROVE  /\ s \in Seq(A) /\ s \in Seq(Nodes) /\ Len(s) \in Nat /\ Len(s) = Cardinality(A)
         /\ \A i, j \in 1 .. Len(s) : s[i] = s[j] => i = j
         /\ \A e \in A : \E i \in 1 .. Len(s) : s[i] = e
         /\ \A i \in 1 .. Len(s) : s[i] \in A /\ s[i] \in Nodes
<1> DEFINE n == Cardinality(A)
           D == 1 .. n
<1>1. A \in SUBSET Nodes /\ IsFiniteSet(A) /\ s \in SetToSeqs(A)
  BY DEF Holds
<1>2. n \in Nat
  BY <1>1, FS_CardinalityType
<1>3. s \in [1 .. n -> A] /\ \A i, j \in 1 .. n : i # j => s[i] # s[j]
  BY <1>1 DEF SetToSeqs
<1>4. s \in Seq(A) /\ Len(s) = n
  BY <1>2, <1>3
<1>5. s \in Injection(D, A)
  BY <1>3 DEF Injection, IsInjective
<1>6. Cardinality(D) = n
  BY <1>2, FS_Interval
<1>7. s \in Surjection(D, A)
  BY <1>1, <1>5, <1>6, FS_Injection
<1> QED BY <1>1, <1>2, <1>3, <1>4, <1>7 DEF Surjection

(* A sequence of all elements of A, each once, is one SetToSeqs knows.     *)
LEMMA SeqOfSet ==
  ASSUME NEW A, IsFiniteSet(A), NEW s \in Seq(A), NEW n \in Nat, n = Cardinality(A), Len(s) = n,
         \A i, j \in 1 .. n : s[i] = s[j] => i = j
  PROVE  s \in SetToSeqs(A)
BY DEF SetToSeqs

(* TAILQ_INIT links nothing.                                               *)
LEMMA InitLinks == Links(TAILQ_INIT, {})
<1> DEFINE q == TAILQ_INIT
           s == << >>
<1>1. q \in Queue
  BY TailQueueAssumption DEF TAILQ_INIT, Queue
<1>2. Represents(q, s)
  BY DEF TAILQ_INIT, Represents, At
<1>3. IsFiniteSet({}) /\ Cardinality({}) = 0
  BY FS_EmptySet
<1>4. s \in SetToSeqs({})
  BY <1>3 DEF SetToSeqs
<1> QED BY <1>1, <1>2, <1>3, <1>4 DEF Links, Holds

(* TAILQ_FIRST and TAILQ_NEXT give an element, another one in the latter   *)
(* case, or NULL; the first is NULL when there is none.                    *)
LEMMA WalkLinks ==
  ASSUME NEW q, NEW A, Links(q, A)
  PROVE  /\ TAILQ_FIRST(q) \in A \cup {NULL}
         /\ TAILQ_FIRST(q) = NULL <=> A = {}
         /\ \A e \in A : TAILQ_NEXT(q, e) \in (A \ {e}) \cup {NULL}
<1>1. PICK s : Holds(q, A, s)
  BY DEF Links
<1>2. /\ Len(s) \in Nat
      /\ \A i, j \in 1 .. Len(s) : s[i] = s[j] => i = j
      /\ \A e \in A : \E i \in 1 .. Len(s) : s[i] = e
      /\ \A i \in 1 .. Len(s) : s[i] \in A /\ s[i] \in Nodes
  BY <1>1, HoldsSeq
<1>3. Represents(q, s)
  BY <1>1 DEF Holds
<1>4. TAILQ_FIRST(q) = IF Len(s) = 0 THEN NULL ELSE s[1]
  BY <1>2, <1>3 DEF Represents, At, TAILQ_FIRST
<1>5. ASSUME NEW i \in 1 .. Len(s)
      PROVE  TAILQ_NEXT(q, s[i]) = IF i = Len(s) THEN NULL ELSE s[i + 1]
  <2>1. CASE i = Len(s)
    BY <1>2, <1>3, <2>1 DEF Represents, At, TAILQ_NEXT
  <2>2. CASE i # Len(s)
    <3>1. i + 1 \in 1 .. Len(s) /\ (i + 1) - 1 = i /\ i # 0
      BY <1>2, <2>2
    <3>2. q.next[At(s, (i + 1) - 1)] = s[i + 1]
      BY <1>3, <3>1 DEF Represents
    <3> QED BY <2>2, <3>1, <3>2 DEF At, TAILQ_NEXT
  <2> QED BY <2>1, <2>2
<1>6. ASSUME NEW e \in A PROVE TAILQ_NEXT(q, e) \in (A \ {e}) \cup {NULL}
  <2>1. PICK i \in 1 .. Len(s) : s[i] = e
    BY <1>2
  <2>2. i # Len(s) => i + 1 \in 1 .. Len(s) /\ i + 1 # i
    BY <1>2
  <2> QED BY <1>2, <1>5, <2>1, <2>2
<1>7. Len(s) # 0 => 1 \in 1 .. Len(s)
  BY <1>2
<1>8. A = {} <=> Len(s) = 0
  BY <1>2, <1>7
<1> QED BY <1>2, <1>4, <1>6, <1>7, <1>8, TailQueueAssumption

(* TAILQ_INSERT_TAIL links one more.                                       *)
LEMMA InsertLinks ==
  ASSUME NEW q, NEW A, Links(q, A), NEW e \in Nodes, e \notin A
  PROVE  Links(TAILQ_INSERT_TAIL(q, e), A \cup {e})
<1>1. PICK s : Holds(q, A, s)
  BY DEF Links
<1> DEFINE n == Len(s)
           t == Append(s, e)
           r == TAILQ_INSERT_TAIL(q, e)
<1>2. /\ s \in Seq(A) /\ n \in Nat /\ n = Cardinality(A)
      /\ \A i, j \in 1 .. n : s[i] = s[j] => i = j
      /\ \A i \in 1 .. n : s[i] \in A /\ s[i] \in Nodes
  BY <1>1, HoldsSeq
<1>3. q \in Queue /\ A \in SUBSET Nodes /\ IsFiniteSet(A) /\ Represents(q, s)
  BY <1>1 DEF Holds
<1>4. /\ t \in Seq(A \cup {e}) /\ Len(t) = n + 1 /\ t[n + 1] = e
      /\ \A i \in 1 .. n : t[i] = s[i]
  BY <1>2
<1>5. IsFiniteSet(A \cup {e}) /\ Cardinality(A \cup {e}) = n + 1
  BY <1>2, <1>3, FS_AddElement
<1>6. t \in SetToSeqs(A \cup {e})
  <2>1. \A i, j \in 1 .. n + 1 : t[i] = t[j] => i = j
    BY <1>2, <1>4
  <2> HIDE DEF t
  <2> QED BY <1>2, <1>4, <1>5, <2>1, SeqOfSet
<1>7. q.last = At(s, n) /\ q.last \in Nodes \cup {HEAD} /\ q.last # e
  BY <1>2, <1>3, TailQueueAssumption DEF Represents, At
<1>8. /\ r.next = [q.next EXCEPT ![e] = NULL, ![q.last] = e]
      /\ r.prev = [q.prev EXCEPT ![e] = q.last]
      /\ r.last = e
  BY DEF TAILQ_INSERT_TAIL
<1>9. r \in Queue
  BY <1>3, <1>7 DEF TAILQ_INSERT_TAIL, Queue
<1>10. /\ \A x \in Nodes \cup {HEAD} :
            r.next[x] = IF x = q.last THEN e ELSE IF x = e THEN NULL ELSE q.next[x]
       /\ \A x \in Nodes : r.prev[x] = IF x = e THEN q.last ELSE q.prev[x]
  BY <1>3, <1>7, <1>8 DEF Queue
<1> HIDE DEF t, r
<1>11. \A i \in 0 .. n : At(t, i) = At(s, i)
  BY <1>2, <1>4 DEF At
<1>12. \A i \in 0 .. n : At(s, i) \in Nodes \cup {HEAD} /\ At(s, i) # e
  BY <1>2, TailQueueAssumption DEF At
<1>13. \A i \in 0 .. n : At(s, i) = q.last => i = n
  BY <1>2, <1>7, TailQueueAssumption DEF At
<1>14. ASSUME NEW i \in 1 .. Len(t)
       PROVE  r.next[At(t, i - 1)] = t[i] /\ r.prev[t[i]] = At(t, i - 1)
  <2>1. CASE i = n + 1
    BY <1>2, <1>4, <1>7, <1>10, <1>11, <1>12, <2>1
  <2>2. CASE i # n + 1
    <3>1. i \in 1 .. n /\ i - 1 \in 0 .. n /\ i - 1 # n
      BY <1>2, <1>4, <2>2
    <3>2. q.next[At(s, i - 1)] = s[i] /\ q.prev[s[i]] = At(s, i - 1)
      BY <1>3, <3>1 DEF Represents
    <3> QED BY <1>2, <1>4, <1>10, <1>11, <1>12, <1>13, <3>1, <3>2
  <2> QED BY <2>1, <2>2
<1>15. At(t, Len(t)) = e
  BY <1>2, <1>4 DEF At
<1>16. Represents(r, t)
  <2>1. r.next[e] = NULL /\ r.last = e
    BY <1>7, <1>8, <1>10
  <2> QED BY <1>14, <1>15, <2>1 DEF Represents
<1> QED BY <1>3, <1>5, <1>6, <1>9, <1>16 DEF Links, Holds, r

(* What is left of s without its k-th element.                             *)
Without(s, k) == [i \in 1 .. Len(s) - 1 |-> IF i < k THEN s[i] ELSE s[i + 1]]

(* TAILQ_REMOVE and free link one less; what was second is then first.     *)
LEMMA RemoveLinks ==
  ASSUME NEW q, NEW A, Links(q, A), NEW e \in A
  PROVE  LET r == Scrap(TAILQ_REMOVE(q, e), e)
         IN  /\ Links(r, A \ {e})
             /\ e = TAILQ_FIRST(q) => TAILQ_FIRST(r) = TAILQ_NEXT(q, e)
<1>1. PICK s : Holds(q, A, s)
  BY DEF Links
<1> DEFINE n == Len(s)
           m == TAILQ_REMOVE(q, e)
           r == Scrap(m, e)
<1>2. /\ s \in Seq(A) /\ n \in Nat /\ n = Cardinality(A)
      /\ \A i, j \in 1 .. n : s[i] = s[j] => i = j
      /\ \A i \in 1 .. n : s[i] \in A /\ s[i] \in Nodes
  BY <1>1, HoldsSeq
<1>3. q \in Queue /\ A \in SUBSET Nodes /\ IsFiniteSet(A) /\ Represents(q, s)
  BY <1>1 DEF Holds
<1>4. PICK k \in 1 .. n : s[k] = e
  BY <1>1, HoldsSeq
<1> DEFINE t == Without(s, k)
<1>5. /\ \A i \in 1 .. n : q.next[At(s, i - 1)] = s[i] /\ q.prev[s[i]] = At(s, i - 1)
      /\ q.next[At(s, n)] = NULL /\ q.last = At(s, n)
  BY <1>3 DEF Represents
<1>6. e \in Nodes /\ e # HEAD /\ e # NULL /\ e # GARBAGE
  BY <1>3, TailQueueAssumption
<1>7. q.prev[e] = At(s, k - 1) /\ At(s, k) = e
  BY <1>2, <1>4, <1>5 DEF At
<1>8. q.next[e] = IF k = n THEN NULL ELSE s[k + 1]
  <2>1. CASE k = n
    BY <1>5, <1>7, <2>1
  <2>2. CASE k # n
    <3>1. k + 1 \in 1 .. n /\ (k + 1) - 1 = k
      BY <1>2, <2>2
    <3>2. q.next[At(s, (k + 1) - 1)] = s[k + 1]
      BY <1>5, <3>1
    <3> QED BY <1>7, <2>2, <3>1, <3>2
  <2> QED BY <2>1, <2>2
<1>9. \A i, j \in 0 .. n : /\ At(s, i) \in Nodes \cup {HEAD}
                           /\ At(s, i) = At(s, j) => i = j
  BY <1>2, TailQueueAssumption DEF At
<1>10. k - 1 \in 0 .. n /\ k \in 0 .. n /\ k - 1 # k
  BY <1>2
<1>11. At(s, k - 1) # e
  BY <1>7, <1>9, <1>10
<1>12. k # n => s[k + 1] \in Nodes /\ s[k + 1] # NULL /\ s[k + 1] # e
  <2>1. k # n => k + 1 \in 1 .. n /\ k + 1 # k
    BY <1>2
  <2> QED BY <1>2, <1>4, <2>1, TailQueueAssumption
<1> DEFINE p == At(s, k - 1)
<1>13. p \in Nodes \cup {HEAD}
  BY <1>9, <1>10
<1>14. /\ m.next = [q.next EXCEPT ![p] = q.next[e]]
       /\ m.prev = IF k = n THEN q.prev ELSE [q.prev EXCEPT ![s[k + 1]] = p]
       /\ m.last = IF k = n THEN p ELSE q.last
  BY <1>7, <1>8, <1>12 DEF TAILQ_REMOVE, LastWithout
<1>15. m \in Queue
  <2>1. q.next[e] \in Nodes \cup {NULL, GARBAGE}
    BY <1>3, <1>6 DEF Queue
  <2>2. m.next \in [Nodes \cup {HEAD} -> Nodes \cup {NULL, GARBAGE}]
    <3>1. q.next \in [Nodes \cup {HEAD} -> Nodes \cup {NULL, GARBAGE}]
      BY <1>3 DEF Queue
    <3> HIDE DEF p
    <3> QED BY <1>13, <1>14, <2>1, <3>1
  <2>3. m.prev \in [Nodes -> Nodes \cup {HEAD, GARBAGE}]
    <3>1. q.prev \in [Nodes -> Nodes \cup {HEAD, GARBAGE}]
      BY <1>3 DEF Queue
    <3>2. CASE k = n
      BY <1>14, <3>1, <3>2
    <3>3. CASE k # n
      <4> HIDE DEF p
      <4> QED BY <1>12, <1>13, <1>14, <3>1, <3>3
    <3> QED BY <3>2, <3>3
  <2>4. m.last \in Nodes \cup {HEAD}
    BY <1>3, <1>14, <1>13 DEF Queue
  <2>5. m = [next |-> m.next, prev |-> m.prev, last |-> m.last]
    BY DEF TAILQ_REMOVE
  <2> HIDE DEF m
  <2> QED BY <2>2, <2>3, <2>4, <2>5 DEF Queue
<1> HIDE DEF m
<1>16. /\ r.next = [m.next EXCEPT ![e] = GARBAGE]
       /\ r.prev = [m.prev EXCEPT ![e] = GARBAGE]
       /\ r.last = m.last
       /\ r \in Queue
  BY <1>6, <1>15 DEF Scrap, Queue
<1> HIDE DEF r
<1>17. /\ \A x \in Nodes \cup {HEAD} :
            r.next[x] = IF x = e THEN GARBAGE ELSE IF x = p THEN q.next[e] ELSE q.next[x]
       /\ \A x \in Nodes :
            r.prev[x] = IF x = e THEN GARBAGE
                        ELSE IF k # n /\ x = s[k + 1] THEN p ELSE q.prev[x]
  <2>1. \A x \in Nodes \cup {HEAD} : m.next[x] = IF x = p THEN q.next[e] ELSE q.next[x]
    BY <1>3, <1>13, <1>14 DEF Queue
  <2>2. \A x \in Nodes : m.prev[x] = IF k # n /\ x = s[k + 1] THEN p ELSE q.prev[x]
    BY <1>3, <1>12, <1>14 DEF Queue
  <2>3. DOMAIN m.next = Nodes \cup {HEAD} /\ DOMAIN m.prev = Nodes
    BY <1>15 DEF Queue
  <2> HIDE DEF p
  <2> QED BY <2>1, <2>2, <2>3, <1>16
<1>18. /\ t \in Seq(A \ {e}) /\ Len(t) = n - 1 /\ n - 1 \in Nat
       /\ \A i \in 1 .. n - 1 : t[i] = IF i < k THEN s[i] ELSE s[i + 1]
  <2>1. n - 1 \in Nat
    BY <1>2
  <2>2. ASSUME NEW i \in 1 .. n - 1
        PROVE  (IF i < k THEN s[i] ELSE s[i + 1]) \in A \ {e}
    <3>1. i \in 1 .. n /\ i + 1 \in 1 .. n /\ (i < k => i # k) /\ (~(i < k) => i + 1 # k)
      BY <1>2
    <3> QED BY <1>2, <1>4, <3>1
  <2> QED BY <2>1, <2>2 DEF Without
<1>19. IsFiniteSet(A \ {e}) /\ Cardinality(A \ {e}) = n - 1
  BY <1>2, <1>3, FS_RemoveElement
<1> HIDE DEF t
<1>20. t \in SetToSeqs(A \ {e})
  <2>1. ASSUME NEW i \in 1 .. n - 1, NEW j \in 1 .. n - 1, t[i] = t[j] PROVE i = j
    <3>1. i \in 1 .. n /\ i + 1 \in 1 .. n /\ j \in 1 .. n /\ j + 1 \in 1 .. n
      BY <1>2
    <3> QED BY <1>2, <1>18, <2>1, <3>1
  <2> QED BY <1>18, <1>19, <2>1, SeqOfSet
<1>21. \A i \in 0 .. n - 1 : At(t, i) = IF i < k THEN At(s, i) ELSE At(s, i + 1)
  BY <1>2, <1>18 DEF At
<1>22. ASSUME NEW i \in 1 .. n - 1
       PROVE  r.next[At(t, i - 1)] = t[i] /\ r.prev[t[i]] = At(t, i - 1)
  <2>1. /\ i \in 1 .. n /\ i + 1 \in 1 .. n /\ i - 1 \in 0 .. n - 1
        /\ i \in 0 .. n /\ i + 1 \in 0 .. n /\ i - 1 \in 0 .. n
        /\ (i - 1) + 1 = i /\ (i + 1) - 1 = i
    BY <1>2
  <2>2. s[i] = At(s, i) /\ s[i + 1] = At(s, i + 1)
    BY <2>1 DEF At
  <2>3. /\ q.next[At(s, i - 1)] = s[i] /\ q.prev[s[i]] = At(s, i - 1)
        /\ q.next[At(s, i)] = s[i + 1] /\ q.prev[s[i + 1]] = At(s, i)
    BY <1>5, <2>1
  <2>4. CASE i < k
    <3>1. At(t, i - 1) = At(s, i - 1) /\ t[i] = s[i] /\ i - 1 # k - 1 /\ i - 1 # k /\ i # k
          /\ i # k + 1
      BY <1>18, <1>21, <2>1, <2>4
    <3>2. At(s, i - 1) # p /\ At(s, i - 1) # e /\ s[i] # e
      BY <1>7, <1>9, <1>10, <2>1, <2>2, <3>1
    <3>3. k # n => s[i] # s[k + 1]
      <4>1. k # n => k + 1 \in 1 .. n
        BY <1>2
      <4> QED BY <1>2, <2>1, <3>1, <4>1
    <3> QED BY <1>2, <1>9, <1>17, <2>1, <2>3, <3>1, <3>2, <3>3
  <2>5. CASE i = k
    <3>1. At(t, i - 1) = p /\ t[i] = s[k + 1] /\ k # n
      BY <1>18, <1>21, <2>1, <2>5
    <3> QED BY <1>8, <1>11, <1>12, <1>13, <1>17, <3>1
  <2>6. CASE i > k
    <3>1. At(t, i - 1) = At(s, i) /\ t[i] = s[i + 1] /\ i # k - 1 /\ i # k /\ i + 1 # k
          /\ i + 1 # k + 1
      BY <1>18, <1>21, <2>1, <2>6
    <3>2. At(s, i) # p /\ At(s, i) # e /\ s[i + 1] # e
      BY <1>7, <1>9, <1>10, <2>1, <2>2, <3>1
    <3>3. k # n => s[i + 1] # s[k + 1]
      <4>1. k # n => k + 1 \in 1 .. n
        BY <1>2
      <4> QED BY <1>2, <2>1, <3>1, <4>1
    <3> QED BY <1>2, <1>9, <1>17, <2>1, <2>3, <3>1, <3>2, <3>3
  <2> QED BY <2>4, <2>5, <2>6
<1>23. r.next[At(t, n - 1)] = NULL /\ r.last = At(t, n - 1)
  <2>1. CASE k = n
    <3>1. At(t, n - 1) = p
      BY <1>2, <1>21, <2>1
    <3> QED BY <1>8, <1>11, <1>13, <1>14, <1>16, <1>17, <2>1, <3>1
  <2>2. CASE k # n
    <3>1. At(t, n - 1) = At(s, n) /\ n \in 0 .. n /\ n # k - 1
      BY <1>2, <1>21, <2>2
    <3>2. At(s, n) # p /\ At(s, n) # e
      BY <1>7, <1>9, <1>10, <2>2, <3>1
    <3> QED BY <1>5, <1>9, <1>14, <1>16, <1>17, <2>2, <3>1, <3>2
  <2> QED BY <2>1, <2>2
<1>24. Represents(r, t)
  BY <1>18, <1>22, <1>23 DEF Represents
<1>25. Links(r, A \ {e})
  BY <1>3, <1>16, <1>19, <1>20, <1>24 DEF Links, Holds
<1>26. ASSUME e = TAILQ_FIRST(q) PROVE TAILQ_FIRST(r) = TAILQ_NEXT(q, e)
  <2>1. 1 \in 1 .. n /\ At(s, 1 - 1) = HEAD
    BY <1>2 DEF At
  <2>2. q.next[HEAD] = s[1]
    BY <1>5, <2>1
  <2>3. k = 1
    BY <1>2, <1>4, <1>26, <2>1, <2>2 DEF TAILQ_FIRST
  <2>4. p = HEAD
    BY <2>1, <2>3
  <2> QED BY <1>6, <1>17, <2>4 DEF TAILQ_FIRST, TAILQ_NEXT
<1> QED BY <1>25, <1>26 DEF r, m

-----------------------------------------------------------------------------
(* The list links the clients in use, as long as no freed client was put   *)
(* into it.                                                                *)
ListOK == main # "undefined" => Links(clients, alloc) /\ files = alloc

(* Where join_completed_clients is: what it saved before is still next,    *)
(* and when all are to be cancelled it stands at the first.                *)
WalkOK ==
  /\ main = "scan" => client \in alloc \cup {NULL}
  /\ main = "join" => client \in alloc /\ next = TAILQ_NEXT(clients, client)
  /\ main \in {"scan", "join"} /\ cancel => client = TAILQ_FIRST(clients)

(* Clients come after the start and are gone at the end; once cancelling   *)
(* has begun main accepts nothing more.                                    *)
PhaseOK ==
  /\ main \in {"open", "fork", "listen", "finish", "done"} => alloc = {}
  /\ cancel => main \in {"scan", "join", "finish", "done"}
  /\ cancelled # {} => cancel
  /\ main = "done" => sock = "closed"

(* Who has which connection: the one just accepted is main's, any other is *)
(* that of the client whose peer_fd it is, until the thread closes it.  A  *)
(* thread that ended with its peer_fd set was cancelled.                   *)
FdsOK ==
  /\ alloc = Threads
  /\ \A d \in FDs : open[d] = Nobody <=> main = "start" /\ accepted = d
  /\ \A d \in FDs, c \in Clients : open[d] = c => c \in alloc /\ peer_fd[c] = d /\ pc[c] # "mark"
  /\ \A c \in Threads : pc[c] \notin {"mark", "exit"} => peer_fd[c] \in FDs /\ open[peer_fd[c]] = c
  /\ \A c \in Threads : pc[c] = "exit" /\ peer_fd[c] >= 0
                          => c \in cancelled /\ open[peer_fd[c]] \in {c, NULL}

Inv == TypeOK /\ ListenerIsBound /\ ListOK /\ WalkOK /\ PhaseOK /\ FdsOK

-----------------------------------------------------------------------------
(* The server has not begun.                                               *)
LEMMA InitInv == Init => Inv
<1> SUFFICES ASSUME Init PROVE Inv
  OBVIOUS
<1>1. TypeOK
  <2>1. addresses \in 0 .. ADDRESSES
    BY AesdSocketAssumption DEF Init
  <2>2. peer_fd \in [Clients -> FDs \cup {-1}] /\ open \in [FDs -> Clients \cup {NULL, Nobody}]
    BY DEF Init
  <2> QED BY <2>1, <2>2 DEF Init, TypeOK
<1>2. ListOK
  BY InitLinks DEF Init, ListOK
<1>3. ListenerIsBound /\ WalkOK /\ PhaseOK
  BY DEF Init, WalkOK, PhaseOK, ListenerIsBound
<1>4. FdsOK
  BY NobodyAssumption, TailQueueAssumption DEF Init, FdsOK, Threads, Clients
<1> QED BY <1>1, <1>2, <1>3, <1>4 DEF Inv

(* Steps of main and of the signal handler that touch neither clients nor  *)
(* connections.                                                            *)
Quiet ==
  \/ TryAddress \/ Opened \/ Daemonize \/ Exit \/ Listen \/ ListenFails \/ Finish
  \/ signal_handler \/ CallAccept \/ AcceptFails \/ ScanDone

(* They keep the invariant: join_completed_clients, when it cancels, ends  *)
(* with the list empty.                                                    *)
LEMMA QuietInv == ASSUME Inv, Quiet PROVE Inv'
<1> USE DEF Inv
<1>1. /\ UNCHANGED <<accepted, cancel, client, next, clients, alloc, files, peer_fd, open, pc,
                     cancelled, readers, writer>>
  BY DEF Quiet, TryAddress, Opened, Daemonize, Exit, Listen, ListenFails, Finish,
         signal_handler, CallAccept, AcceptFails, ScanDone, loopVars, scanVars, memVars,
         threadVars, lockVars
<1>2. /\ main' = "start" <=> main = "start"
      /\ main' = "join" <=> main = "join"
      /\ main' = "scan" => main = "scan"
      /\ main = "undefined" <=> main' = "undefined"
      /\ main' \in {"open", "fork", "listen"} => main \in {"open", "fork", "listen"}
  BY DEF Quiet, TryAddress, Opened, Daemonize, Exit, Listen, ListenFails, Finish,
         signal_handler, CallAccept, AcceptFails, ScanDone, MainGoto, MainAt
<1>3. TypeOK'
  <2>1. addresses' \in 0 .. ADDRESSES
    BY AesdSocketAssumption
       DEF TypeOK, Quiet, TryAddress, Opened, Daemonize, Exit, Listen, ListenFails, Finish,
           signal_handler, CallAccept, AcceptFails, ScanDone, process, sockVars
  <2>2. /\ alive' \in BOOLEAN /\ g_running' \in BOOLEAN
        /\ sock' \in {"none", "closed", "bound", "listening"}
    BY DEF TypeOK, Quiet, TryAddress, Opened, Daemonize, Exit, Listen, ListenFails, Finish,
           signal_handler, CallAccept, AcceptFails, ScanDone, process, sockVars
  <2>3. main' \in {"open", "fork", "listen", "check", "call_accept", "accept", "start",
                   "scan", "join", "finish", "done", "exit", "undefined"}
    BY DEF TypeOK, Quiet, TryAddress, Opened, Daemonize, Exit, Listen, ListenFails, Finish,
           signal_handler, CallAccept, AcceptFails, ScanDone, MainGoto, MainAt
  <2> QED BY <1>1, <1>2, <2>1, <2>2, <2>3 DEF TypeOK
<1>4. ListenerIsBound'
  BY DEF ListenerIsBound, Quiet, TryAddress, Opened, Daemonize, Exit, Listen, ListenFails, Finish,
         signal_handler, CallAccept, AcceptFails, ScanDone, MainGoto, MainAt, process, sockVars
<1>5. ListOK' /\ WalkOK'
  BY <1>1, <1>2 DEF ListOK, WalkOK
<1>6. main = "scan" /\ client = NULL /\ cancel => alloc = {}
  BY WalkLinks DEF ListOK, WalkOK
<1>7. PhaseOK'
  BY <1>1, <1>6
     DEF PhaseOK, Quiet, TryAddress, Opened, Daemonize, Exit, Listen, ListenFails, Finish,
         signal_handler, CallAccept, AcceptFails, ScanDone, MainGoto, MainAt, process, sockVars
<1>8. FdsOK'
  BY <1>1, <1>2 DEF FdsOK, Threads
<1> QED BY <1>3, <1>4, <1>5, <1>7, <1>8

(* The head of the main loop: when the clients are to be cancelled, the    *)
(* walk begins at the first.                                               *)
LEMMA CheckRunningInv == ASSUME Inv, CheckRunning PROVE Inv'
<1> USE DEF Inv, CheckRunning, MainAt, Scan, process, sockVars, memVars, threadVars, lockVars
<1>1. Links(clients, alloc)
  BY DEF ListOK
<1>2. TAILQ_FIRST(clients) \in alloc \cup {NULL} /\ alloc \subseteq Clients
  BY <1>1, WalkLinks DEF TypeOK
<1>3. TypeOK'
  BY <1>2 DEF TypeOK
<1>4. ListenerIsBound' /\ ListOK' /\ WalkOK' /\ PhaseOK'
  BY <1>2 DEF ListenerIsBound, ListOK, WalkOK, PhaseOK
<1>5. FdsOK'
  BY DEF FdsOK, Threads
<1> QED BY <1>3, <1>4, <1>5

(* accept: no thread has the number that is handed out; one that ended     *)
(* with its peer_fd set was cancelled, and then main accepts no more.      *)
LEMMA AcceptInv == ASSUME Inv, Accept PROVE Inv'
<1> USE DEF Inv
<1>1. PICK d \in FDs : open[d] = NULL /\ accepted' = d /\ open' = [open EXCEPT ![d] = Nobody]
  BY DEF Accept
<1>2. /\ main = "accept" /\ main' = "start"
      /\ UNCHANGED <<alive, g_running, addresses, sock, cancel, client, next, clients, alloc, files,
                     peer_fd, pc, cancelled, readers, writer>>
  BY DEF Accept, MainGoto, MainAt, process, sockVars, scanVars, memVars, threadVars, lockVars
<1>3. open \in [FDs -> Clients \cup {NULL, Nobody}]
  BY DEF TypeOK
<1>4. open'[d] = Nobody /\ \A f \in FDs \ {d} : open'[f] = open[f]
  BY <1>1, <1>3
<1>5. open' \in [FDs -> Clients \cup {NULL, Nobody}]
  BY <1>1, <1>3
<1>6. TypeOK'
  BY <1>1, <1>2, <1>5 DEF TypeOK
<1>7. ListenerIsBound' /\ ListOK' /\ WalkOK' /\ PhaseOK'
  BY <1>2 DEF ListenerIsBound, ListOK, WalkOK, PhaseOK
<1>8. NULL # Nobody /\ Nobody \notin Clients /\ NULL \notin Clients
  BY NobodyAssumption, TailQueueAssumption DEF Clients
<1>9. cancelled = {}
  BY <1>2 DEF PhaseOK
<1>10. Threads' = Threads
  BY <1>2 DEF Threads
<1>11. FdsOK'
  BY <1>1, <1>2, <1>4, <1>8, <1>9, <1>10 DEF FdsOK, Threads
<1> QED BY <1>6, <1>7, <1>11

(* start_client_processing: the connection becomes the new client's.       *)
LEMMA StartClientInv == ASSUME Inv, NEW c \in Clients, StartClient(c) PROVE Inv'
<1> USE DEF Inv
<1> DEFINE list == TAILQ_INSERT_TAIL(clients, c)
<1>1. /\ main = "start" /\ main' = "scan" /\ accepted' = -1 /\ cancel' = FALSE
      /\ clients' = list /\ client' = TAILQ_FIRST(list)
      /\ c \notin alloc /\ alloc' = alloc \cup {c} /\ files' = files \cup {c}
      /\ peer_fd' = [peer_fd EXCEPT ![c] = accepted]
      /\ open' = [open EXCEPT ![accepted] = c]
      /\ pc' = [pc EXCEPT ![c] = "recv"]
      /\ UNCHANGED <<alive, g_running, addresses, sock, next, cancelled, readers, writer>>
  BY DEF StartClient, Started, MainAt, Scan, Given, process, sockVars, lockVars
<1>2. Links(clients, alloc) /\ files = alloc /\ c \in Nodes
  BY <1>1 DEF ListOK, Clients
<1>3. Links(list, alloc \cup {c})
  BY <1>1, <1>2, InsertLinks
<1>4. TAILQ_FIRST(list) \in alloc \cup {c} \cup {NULL}
  BY <1>3, WalkLinks
<1> HIDE DEF list
<1>5. /\ accepted \in FDs /\ alloc \subseteq Clients
      /\ peer_fd \in [Clients -> FDs \cup {-1}]
      /\ open \in [FDs -> Clients \cup {NULL, Nobody}]
      /\ pc \in [Clients -> {"none", "recv", "wrlock", "write", "rdlock", "send",
                             "close", "mark", "exit"}]
  BY <1>1 DEF TypeOK
<1>6. /\ peer_fd'[c] = accepted /\ open'[accepted] = c /\ pc'[c] = "recv"
      /\ \A d \in FDs \ {accepted} : open'[d] = open[d]
      /\ \A k \in Clients \ {c} : pc'[k] = pc[k] /\ peer_fd'[k] = peer_fd[k]
  BY <1>1, <1>5
<1>7. /\ peer_fd' \in [Clients -> FDs \cup {-1}]
      /\ open' \in [FDs -> Clients \cup {NULL, Nobody}]
      /\ pc' \in [Clients -> {"none", "recv", "wrlock", "write", "rdlock", "send",
                              "close", "mark", "exit"}]
  BY <1>1, <1>5
<1>8. TypeOK'
  BY <1>1, <1>4, <1>5, <1>7 DEF TypeOK
<1>9. ListenerIsBound' /\ ListOK' /\ WalkOK' /\ PhaseOK'
  BY <1>1, <1>2, <1>3, <1>4 DEF ListenerIsBound, ListOK, WalkOK, PhaseOK
<1>10. NULL # Nobody /\ Nobody \notin Clients /\ NULL \notin Clients
  BY NobodyAssumption, TailQueueAssumption DEF Clients
<1>11. cancelled = {} /\ open[accepted] = Nobody
  BY <1>1, <1>5 DEF PhaseOK, FdsOK
<1>12. Threads' = Threads \cup {c} /\ c \notin Threads
  BY <1>1, <1>6 DEF Threads, FdsOK
<1>13. FdsOK'
  BY <1>1, <1>5, <1>6, <1>10, <1>11, <1>12 DEF FdsOK, Threads
<1> QED BY <1>8, <1>9, <1>13

(* The connection is closed, and the clients are as before.                *)
LEMMA StartFailsInv == ASSUME Inv, StartFails PROVE Inv'
<1> USE DEF Inv
<1>1. /\ main = "start" /\ main' = "scan" /\ accepted' = -1 /\ cancel' = FALSE
      /\ clients' = clients /\ client' = TAILQ_FIRST(clients)
      /\ open' = [open EXCEPT ![accepted] = NULL]
      /\ UNCHANGED <<alive, g_running, addresses, sock, next, cancelled, readers, writer, alloc,
                     files, peer_fd, pc>>
  BY DEF StartFails, Started, MainAt, Scan, process, sockVars, lockVars
<1>2. TAILQ_FIRST(clients) \in alloc \cup {NULL}
  BY <1>1, WalkLinks DEF ListOK
<1>3. accepted \in FDs /\ alloc \subseteq Clients /\ open \in [FDs -> Clients \cup {NULL, Nobody}]
  BY <1>1 DEF TypeOK
<1>4. open'[accepted] = NULL /\ \A d \in FDs \ {accepted} : open'[d] = open[d]
  BY <1>1, <1>3
<1>5. open' \in [FDs -> Clients \cup {NULL, Nobody}]
  BY <1>1, <1>3
<1>6. TypeOK'
  BY <1>1, <1>2, <1>3, <1>5 DEF TypeOK
<1>7. ListenerIsBound' /\ ListOK' /\ WalkOK' /\ PhaseOK'
  BY <1>1, <1>2 DEF ListenerIsBound, ListOK, WalkOK, PhaseOK
<1>8. NULL # Nobody /\ Nobody \notin Clients /\ NULL \notin Clients
  BY NobodyAssumption, TailQueueAssumption DEF Clients
<1>9. Threads' = Threads /\ open[accepted] = Nobody
  BY <1>1, <1>3 DEF Threads, FdsOK
<1>10. FdsOK'
  BY <1>1, <1>3, <1>4, <1>8, <1>9 DEF FdsOK, Threads
<1> QED BY <1>6, <1>7, <1>10

(* After it nothing is said about the list; the threads are not touched.   *)
LEMMA StartNoThreadInv == ASSUME Inv, NEW c \in Clients, StartNoThread(c) PROVE Inv'
<1> USE DEF Inv
<1>1. /\ main = "start" /\ main' = "undefined"
      /\ files' = files \cup {c} /\ open' = [open EXCEPT ![accepted] = NULL]
      /\ UNCHANGED <<alive, g_running, addresses, sock, accepted, cancel, client, next, alloc,
                     peer_fd, pc, cancelled, readers, writer>>
  BY DEF StartNoThread, MainGoto, MainAt, process, sockVars, scanVars, threadVars, lockVars
<1>2. accepted \in FDs /\ open \in [FDs -> Clients \cup {NULL, Nobody}]
  BY <1>1 DEF TypeOK
<1>3. open'[accepted] = NULL /\ \A d \in FDs \ {accepted} : open'[d] = open[d]
  BY <1>1, <1>2
<1>4. open' \in [FDs -> Clients \cup {NULL, Nobody}]
  BY <1>1, <1>2
<1>5. TypeOK'
  BY <1>1, <1>4 DEF TypeOK
<1>6. ListenerIsBound' /\ ListOK' /\ WalkOK' /\ PhaseOK'
  BY <1>1 DEF ListenerIsBound, ListOK, WalkOK, PhaseOK
<1>7. NULL # Nobody /\ Nobody \notin Clients /\ NULL \notin Clients
  BY NobodyAssumption, TailQueueAssumption DEF Clients
<1>8. Threads' = Threads /\ open[accepted] = Nobody
  BY <1>1, <1>2 DEF Threads, FdsOK
<1>9. FdsOK'
  BY <1>1, <1>2, <1>3, <1>7, <1>8 DEF FdsOK, Threads
<1> QED BY <1>5, <1>6, <1>9

(* A turn of join_completed_clients before it joins.                       *)
LEMMA ScanClientInv == ASSUME Inv, ScanClient PROVE Inv'
<1> USE DEF Inv
<1>1. /\ main = "scan" /\ client # NULL
      /\ next' = TAILQ_NEXT(clients, client)
      /\ cancelled' = IF cancel THEN cancelled \cup {client} ELSE cancelled
      /\ \/ main' = "join" /\ client' = client
         \/ ~cancel /\ client' = next' /\ main' = main
      /\ UNCHANGED <<alive, g_running, addresses, sock, accepted, cancel, clients, alloc, files,
                     peer_fd, open, pc, readers, writer>>
  BY DEF ScanClient, MainAt, Requests, process, sockVars, memVars, lockVars
<1>2. client \in alloc /\ alloc \subseteq Clients /\ Links(clients, alloc)
  BY <1>1 DEF WalkOK, ListOK, TypeOK
<1>3. next' \in alloc \cup {NULL}
  BY <1>1, <1>2, WalkLinks
<1>4. TypeOK'
  BY <1>1, <1>2, <1>3 DEF TypeOK
<1>5. ListenerIsBound' /\ ListOK' /\ PhaseOK'
  BY <1>1 DEF ListenerIsBound, ListOK, PhaseOK
<1>6. WalkOK'
  BY <1>1, <1>2, <1>3 DEF WalkOK
<1>7. FdsOK'
  BY <1>1 DEF FdsOK, Threads
<1> QED BY <1>4, <1>5, <1>6, <1>7

(* pthread_join and what follows it: the client leaves the list, and the   *)
(* one saved before is still in it.                                        *)
LEMMA JoinClientInv == ASSUME Inv, JoinClient PROVE Inv'
<1> USE DEF Inv
<1> DEFINE list == Scrap(TAILQ_REMOVE(clients, client), client)
<1>1. /\ main = "join" /\ main' = "scan"
      /\ pc[client] = "exit" /\ pc' = [pc EXCEPT ![client] = "none"]
      /\ open' = IF peer_fd[client] >= 0 THEN [open EXCEPT ![peer_fd[client]] = NULL] ELSE open
      /\ files' = files \ {client} /\ clients' = list
      /\ alloc' = alloc \ {client} /\ cancelled' = cancelled \ {client}
      /\ peer_fd' = [peer_fd EXCEPT ![client] = -1]
      /\ client' = next
      /\ UNCHANGED <<alive, g_running, addresses, sock, accepted, cancel, next, readers, writer>>
  BY DEF JoinClient, MainGoto, MainAt, Goto, LeftoverClosed, process, sockVars, lockVars
<1>2. /\ client \in alloc /\ alloc \subseteq Clients /\ Links(clients, alloc) /\ files = alloc
      /\ next = TAILQ_NEXT(clients, client)
  BY <1>1 DEF WalkOK, ListOK, TypeOK
<1>3. /\ Links(list, alloc \ {client})
      /\ client = TAILQ_FIRST(clients) => TAILQ_FIRST(list) = next
  BY <1>2, RemoveLinks
<1>4. next \in (alloc \ {client}) \cup {NULL}
  BY <1>2, WalkLinks
<1> HIDE DEF list
<1>5. /\ peer_fd \in [Clients -> FDs \cup {-1}]
      /\ open \in [FDs -> Clients \cup {NULL, Nobody}]
      /\ pc \in [Clients -> {"none", "recv", "wrlock", "write", "rdlock", "send",
                             "close", "mark", "exit"}]
      /\ client \in Clients
  BY <1>2 DEF TypeOK
<1>6. /\ peer_fd'[client] = -1 /\ pc'[client] = "none"
      /\ \A k \in Clients \ {client} : pc'[k] = pc[k] /\ peer_fd'[k] = peer_fd[k]
  BY <1>1, <1>5
<1>7. /\ peer_fd' \in [Clients -> FDs \cup {-1}]
      /\ pc' \in [Clients -> {"none", "recv", "wrlock", "write", "rdlock", "send",
                              "close", "mark", "exit"}]
  BY <1>1, <1>5
<1>8. open' \in [FDs -> Clients \cup {NULL, Nobody}]
  BY <1>1, <1>5
<1>9. TypeOK'
  BY <1>1, <1>2, <1>4, <1>7, <1>8 DEF TypeOK
<1>10. ListenerIsBound' /\ ListOK' /\ WalkOK' /\ PhaseOK'
  BY <1>1, <1>2, <1>3, <1>4 DEF ListenerIsBound, ListOK, WalkOK, PhaseOK
<1>11. NULL # Nobody /\ Nobody \notin Clients /\ NULL \notin Clients
  BY NobodyAssumption, TailQueueAssumption DEF Clients
<1>12. \A d \in FDs : /\ open'[d] = open[d] \/ (open'[d] = NULL /\ open[d] \in {client, NULL})
                      /\ open'[d] # client
  <2>1. client \in Threads
    BY <1>2 DEF FdsOK
  <2>2. CASE peer_fd[client] >= 0
    <3>1. peer_fd[client] \in FDs /\ open[peer_fd[client]] \in {client, NULL}
      BY <1>1, <1>5, <2>1, <2>2 DEF FdsOK
    <3>2. open' = [open EXCEPT ![peer_fd[client]] = NULL]
      BY <1>1, <2>2
    <3>3. \A d \in FDs : open[d] = client => d = peer_fd[client]
      BY <1>5 DEF FdsOK
    <3> QED BY <1>5, <1>11, <3>1, <3>2, <3>3
  <2>3. CASE ~(peer_fd[client] >= 0)
    <3>1. open' = open
      BY <1>1, <2>3
    <3>2. \A d \in FDs : open[d] # client
      BY <1>5, <2>3, AesdSocketAssumption DEF FdsOK
    <3> QED BY <3>1, <3>2
  <2> QED BY <2>2, <2>3
<1>13. Threads' = Threads \ {client}
  BY <1>5, <1>6 DEF Threads
<1>14. \A d \in FDs : open'[d] # Nobody /\ open[d] # Nobody
  BY <1>1, <1>11, <1>12 DEF FdsOK
<1>15. FdsOK'
  <2>1. alloc' = Threads'
    BY <1>1, <1>13 DEF FdsOK
  <2>2. \A d \in FDs, c \in Clients :
          open'[d] = c => c \in alloc' /\ peer_fd'[c] = d /\ pc'[c] # "mark"
    BY <1>1, <1>6, <1>11, <1>12 DEF FdsOK
  <2>3. \A c \in Threads' : c \in Threads /\ c # client /\ c \in Clients
    BY <1>13 DEF Threads
  <2>4. \A c \in Threads' : pc'[c] \notin {"mark", "exit"}
                              => peer_fd'[c] \in FDs /\ open'[peer_fd'[c]] = c
    BY <1>6, <1>11, <1>12, <2>3 DEF FdsOK
  <2>5. \A c \in Threads' : pc'[c] = "exit" /\ peer_fd'[c] >= 0
                              => c \in cancelled' /\ open'[peer_fd'[c]] \in {c, NULL}
    <3> SUFFICES ASSUME NEW c \in Threads', pc'[c] = "exit", peer_fd'[c] >= 0
                 PROVE  c \in cancelled' /\ open'[peer_fd'[c]] \in {c, NULL}
      OBVIOUS
    <3>1. pc[c] = "exit" /\ peer_fd[c] >= 0 /\ peer_fd[c] \in FDs /\ peer_fd'[c] = peer_fd[c]
      BY <1>5, <1>6, <2>3
    <3>2. c \in cancelled /\ open[peer_fd[c]] \in {c, NULL}
      BY <2>3, <3>1 DEF FdsOK
    <3> QED BY <1>1, <1>12, <2>3, <3>1, <3>2
  <2> QED BY <1>1, <1>14, <2>1, <2>2, <2>4, <2>5 DEF FdsOK
<1> QED BY <1>9, <1>10, <1>15

-----------------------------------------------------------------------------
(* What a step of a client thread leaves to main.                          *)
LEMMA ThreadShared ==
  ASSUME Inv, NEW c \in Clients,
         RecvPacket(c) \/ RecvEnd(c) \/ WriteNoMem(c) \/ Lock(c) \/ ClientRuns(c)
  PROVE  /\ UNCHANGED <<alive, g_running, main, addresses, sock, accepted, cancel, client, next,
                        clients, alloc, files, cancelled>>
         /\ ListenerIsBound' /\ ListOK' /\ WalkOK' /\ PhaseOK'
<1>1. UNCHANGED <<alive, g_running, main, addresses, sock, accepted, cancel, client, next, clients,
                  alloc, files, cancelled>>
  BY DEF RecvPacket, RecvEnd, WriteNoMem, Lock, ClientRuns, WriteLock, ReplyLock, WriteUnlock,
         ReplyUnlock, Close, Mark, Cancelled, shared, process, sockVars, scanVars, memVars
<1> QED BY <1>1 DEF Inv, ListenerIsBound, ListOK, WalkOK, PhaseOK

(* Steps of a client thread that keep its connection.                      *)
Works(c) ==
  RecvPacket(c) \/ RecvEnd(c) \/ WriteNoMem(c) \/ WriteLock(c) \/ ReplyLock(c) \/ WriteUnlock(c)
    \/ ReplyUnlock(c)

(* They keep the invariant.                                                *)
LEMMA WorksInv == ASSUME Inv, NEW c \in Clients, Works(c) PROVE Inv'
<1>1. /\ UNCHANGED <<alive, g_running, main, addresses, sock, accepted, cancel, client, next,
                     clients, alloc, files, cancelled>>
      /\ ListenerIsBound' /\ ListOK' /\ WalkOK' /\ PhaseOK'
  BY ThreadShared DEF Works, Lock, ClientRuns
<1>2. /\ UNCHANGED <<peer_fd, open>>
      /\ pc[c] \in {"recv", "wrlock", "write", "rdlock", "send"}
      /\ \E to \in {"recv", "wrlock", "write", "rdlock", "send", "close"} :
           pc' = [pc EXCEPT ![c] = to]
  BY DEF Works, RecvPacket, RecvEnd, WriteNoMem, WriteLock, ReplyLock, WriteUnlock, ReplyUnlock,
         Goto
<1>3. readers' \in SUBSET Clients /\ writer' \in Clients \cup {NULL}
  BY DEF Inv, TypeOK, Works, RecvPacket, RecvEnd, WriteNoMem, WriteLock, ReplyLock, WriteUnlock,
         ReplyUnlock, lockVars
<1>4. pc \in [Clients -> {"none", "recv", "wrlock", "write", "rdlock", "send",
                          "close", "mark", "exit"}]
  BY DEF Inv, TypeOK
<1>5. /\ pc'[c] \in {"recv", "wrlock", "write", "rdlock", "send", "close"}
      /\ \A k \in Clients \ {c} : pc'[k] = pc[k]
      /\ pc' \in [Clients -> {"none", "recv", "wrlock", "write", "rdlock", "send",
                              "close", "mark", "exit"}]
  BY <1>2, <1>4
<1>6. TypeOK'
  BY <1>1, <1>2, <1>3, <1>5 DEF Inv, TypeOK
<1>7. Threads' = Threads
  BY <1>2, <1>5 DEF Threads
<1>8. FdsOK'
  BY <1>1, <1>2, <1>5, <1>7 DEF Inv, FdsOK, Threads
<1> QED BY <1>1, <1>6, <1>8 DEF Inv

(* Steps with which a client thread gives its connection up.               *)
LEMMA EndsInv ==
  ASSUME Inv, NEW c \in Clients, Close(c) \/ Mark(c) \/ Cancelled(c)
  PROVE  Inv'
<1>1. /\ UNCHANGED <<alive, g_running, main, addresses, sock, accepted, cancel, client, next,
                     clients, alloc, files, cancelled>>
      /\ ListenerIsBound' /\ ListOK' /\ WalkOK' /\ PhaseOK'
  BY ThreadShared DEF ClientRuns
<1>2. /\ peer_fd \in [Clients -> FDs \cup {-1}]
      /\ open \in [FDs -> Clients \cup {NULL, Nobody}]
      /\ pc \in [Clients -> {"none", "recv", "wrlock", "write", "rdlock", "send",
                             "close", "mark", "exit"}]
  BY DEF Inv, TypeOK
<1>3. NULL # Nobody /\ Nobody \notin Clients /\ NULL \notin Clients
  BY NobodyAssumption, TailQueueAssumption DEF Clients
<1>4. UNCHANGED <<readers, writer>>
  BY DEF Close, Mark, Cancelled, lockVars
<1>5. pc[c] # "none" /\ pc' = [pc EXCEPT ![c] = pc'[c]] /\ pc'[c] \in {"mark", "exit"}
  <2>1. PICK to \in {"mark", "exit"} : pc' = [pc EXCEPT ![c] = to] /\ pc[c] # "none"
    BY DEF Close, Mark, Cancelled, Goto
  <2> QED BY <1>2, <2>1
<1>6. /\ \A k \in Clients \ {c} : pc'[k] = pc[k]
      /\ pc' \in [Clients -> {"none", "recv", "wrlock", "write", "rdlock", "send",
                              "close", "mark", "exit"}]
      /\ Threads' = Threads /\ c \in Threads
  BY <1>2, <1>5 DEF Threads
<1>7. CASE Mark(c)
  <2>1. pc[c] = "mark" /\ pc'[c] = "exit" /\ open' = open /\ peer_fd' = [peer_fd EXCEPT ![c] = -1]
    BY <1>2, <1>7 DEF Mark, Goto
  <2>2. /\ peer_fd' \in [Clients -> FDs \cup {-1}]
        /\ peer_fd'[c] = -1 /\ \A k \in Clients \ {c} : peer_fd'[k] = peer_fd[k]
    BY <1>2, <2>1
  <2>3. TypeOK'
    BY <1>1, <1>4, <1>6, <2>1, <2>2 DEF Inv, TypeOK
  <2>4. FdsOK'
    BY <1>1, <1>3, <1>6, <2>1, <2>2 DEF Inv, FdsOK, Threads
  <2> QED BY <1>1, <2>3, <2>4 DEF Inv
<1>8. CASE Close(c) \/ Cancelled(c)
  <2>1. /\ pc[c] \in {"recv", "write", "send", "close"} /\ peer_fd' = peer_fd
        /\ open' = open \/ open' = [open EXCEPT ![peer_fd[c]] = NULL]
    BY <1>8 DEF Close, Cancelled, Goto
  <2>2. pc'[c] = "mark" => open' = [open EXCEPT ![peer_fd[c]] = NULL]
    BY <1>2, <1>8 DEF Close, Cancelled, Goto
  <2>3. pc'[c] = "exit" => c \in cancelled
    BY <1>2, <1>8 DEF Close, Cancelled, Goto
  <2>4. peer_fd[c] \in FDs /\ open[peer_fd[c]] = c
    BY <1>6, <2>1 DEF Inv, FdsOK
  <2>5. /\ \A d \in FDs \ {peer_fd[c]} : open'[d] = open[d]
        /\ open'[peer_fd[c]] \in {c, NULL} /\ (pc'[c] = "mark" => open'[peer_fd[c]] = NULL)
        /\ open' \in [FDs -> Clients \cup {NULL, Nobody}]
    BY <1>2, <2>1, <2>2, <2>4
  <2>6. TypeOK'
    BY <1>1, <1>4, <1>6, <2>1, <2>5 DEF Inv, TypeOK
  <2>7. FdsOK'
    BY <1>1, <1>2, <1>3, <1>5, <1>6, <2>1, <2>3, <2>4, <2>5 DEF Inv, FdsOK, Threads
  <2> QED BY <1>1, <2>6, <2>7 DEF Inv
<1> QED BY <1>7, <1>8

(* The end of the process in the middle of a reply keeps the invariant.    *)
LEMMA KillsInv == ASSUME Inv, NEW c \in Clients, ReplyKills(c) PROVE Inv'
<1>1. /\ alive' = FALSE
      /\ UNCHANGED <<g_running, main, addresses, sock, accepted, cancel, client, next, clients,
                     alloc, files, peer_fd, open, pc, cancelled, readers, writer>>
  BY DEF ReplyKills, sockVars, loopVars, scanVars, memVars, threadVars, lockVars
<1>2. TypeOK'
  BY <1>1 DEF Inv, TypeOK
<1>3. ListenerIsBound' /\ ListOK' /\ WalkOK' /\ PhaseOK' /\ FdsOK'
  BY <1>1 DEF Inv, ListenerIsBound, ListOK, WalkOK, PhaseOK, FdsOK, Threads
<1> QED BY <1>2, <1>3 DEF Inv

-----------------------------------------------------------------------------
(* Every step keeps the invariant.                                         *)
LEMMA NextInv == Inv /\ [Next]_vars => Inv'
<1> SUFFICES ASSUME Inv, [Next]_vars PROVE Inv'
  OBVIOUS
<1>1. CASE Quiet
  BY <1>1, QuietInv
<1>2. CASE CheckRunning
  BY <1>2, CheckRunningInv
<1>3. CASE Accept
  BY <1>3, AcceptInv
<1>4. CASE StartFails
  BY <1>4, StartFailsInv
<1>5. ASSUME NEW c \in Clients, StartClient(c) PROVE Inv'
  BY <1>5, StartClientInv
<1>6. ASSUME NEW c \in Clients, StartNoThread(c) PROVE Inv'
  BY <1>6, StartNoThreadInv
<1>7. CASE ScanClient
  BY <1>7, ScanClientInv
<1>8. CASE JoinClient
  BY <1>8, JoinClientInv
<1>9. ASSUME NEW c \in Clients, Works(c) PROVE Inv'
  BY <1>9, WorksInv
<1>10. ASSUME NEW c \in Clients, Close(c) \/ Mark(c) \/ Cancelled(c) PROVE Inv'
  BY <1>10, EndsInv
<1>11. CASE UNCHANGED vars
  <2>1. UNCHANGED <<alive, g_running, main, addresses, sock, accepted, cancel, client, next,
                    clients, alloc, files, peer_fd, open, pc, cancelled, readers, writer>>
    BY <1>11 DEF vars, process, sockVars, scanVars, memVars, threadVars, lockVars
  <2> QED BY <2>1 DEF Inv, TypeOK, ListenerIsBound, ListOK, WalkOK, PhaseOK, FdsOK, Threads
<1>12. CASE MainRuns
  BY <1>1, <1>2, <1>4, <1>5, <1>6, <1>7, <1>8, <1>12 DEF MainRuns, Quiet
<1>13. ASSUME NEW c \in Clients,
              RecvPacket(c) \/ RecvEnd(c) \/ WriteNoMem(c) \/ Lock(c) \/ ClientRuns(c)
       PROVE  Inv'
  BY <1>9, <1>10, <1>13 DEF Works, Lock, ClientRuns
<1> QED BY <1>1, <1>3, <1>11, <1>12, <1>13, KillsInv DEF Next, Quiet, Exited

(* The invariant holds in every reachable state.                           *)
LEMMA Invariance == Spec => []Inv
BY InitInv, NextInv, PTL DEF Spec

(* The types hold; start_client_processing is given a descriptor (the      *)
(* assertion of aesdsocket.c:102).                                         *)
THEOREM TypesHold == Spec => []TypeOK
<1>1. Inv => TypeOK
  BY DEF Inv
<1> QED BY <1>1, Invariance, PTL

(* The server accepts on a socket that is bound and listens.               *)
THEOREM AcceptsOnListener == Spec => []ListenerIsBound
<1>1. Inv => ListenerIsBound
  BY DEF Inv
<1> QED BY <1>1, Invariance, PTL

(* The list of clients links exactly the blocks in use, however clients    *)
(* come, end and are joined, and join_completed_clients stays in it.       *)
THEOREM ListLinksTheClients == Spec => []ListIsAllocated
<1>1. ASSUME Inv PROVE ListIsAllocated
  <2> SUFFICES ASSUME main # "undefined" PROVE ListIsAllocated!2
    BY DEF ListIsAllocated
  <2>1. Links(clients, alloc) /\ files = alloc
    BY <1>1 DEF Inv, ListOK
  <2>2. \E s \in SetToSeqs(alloc) : Represents(clients, s)
    BY <2>1 DEF Links, Holds
  <2>3. main = "join" => client \in alloc /\ next \in alloc \cup {NULL}
    BY <1>1, <2>1, WalkLinks DEF Inv, WalkOK
  <2> QED BY <1>1, <2>1, <2>2, <2>3 DEF Inv, WalkOK
<1> QED BY <1>1, Invariance, PTL

(* A client thread's block is not freed under it, and its descriptor is    *)
(* its own until it closes it.                                             *)
THEOREM NoDescriptorIsShared == Spec => []ThreadsOwnTheirs
<1>1. Inv => ThreadsOwnTheirs
  BY DEF Inv, FdsOK, ThreadsOwnTheirs
<1> QED BY <1>1, Invariance, PTL

(* main closes for a joined thread only what was that thread's.            *)
THEOREM NoStrangerIsClosed == Spec => []MainClosesLeftovers
<1>1. ASSUME Inv PROVE MainClosesLeftovers
  <2>1. main = "join" => client \in Threads
    BY <1>1 DEF Inv, WalkOK, FdsOK
  <2> QED BY <1>1, <2>1 DEF Inv, FdsOK, MainClosesLeftovers
<1> QED BY <1>1, Invariance, PTL

(* When main returns, the list is empty (the assertion of                  *)
(* aesdsocket.c:287) and everything is closed and freed.                   *)
THEOREM EverythingIsReleased == Spec => []AllReleased
<1>1. ASSUME Inv PROVE AllReleased
  <2> SUFFICES ASSUME main = "done" PROVE AllReleased!2
    BY DEF AllReleased
  <2>1. alloc = {} /\ files = {} /\ Threads = {} /\ sock = "closed" /\ Links(clients, alloc)
    BY <1>1 DEF Inv, PhaseOK, ListOK, FdsOK
  <2>2. TAILQ_EMPTY(clients)
    BY <2>1, WalkLinks DEF TAILQ_EMPTY
  <2>3. \A d \in FDs : open[d] = NULL
    BY <1>1, <2>1 DEF Inv, TypeOK, FdsOK
  <2> QED BY <2>1, <2>2, <2>3
<1> QED BY <1>1, Invariance, PTL
=============================================================================
