------------------------ MODULE CircularBufferProofs ------------------------
(***************************************************************************)
(* Lemmas about the operators of CircularBuffer, for every size of the     *)
(* array and all contents: what the proofs of RingBuffer and AesdChar use  *)
(* of them.                                                                *)
(***************************************************************************)
EXTENDS CircularBuffer, FlattenProofs

-----------------------------------------------------------------------------
(* The bytes BytesBefore counts, and those of one entry.                   *)
BytesAt(b, n) == {n} \X (0 .. b.entry[SlotAt(b, n)].size - 1)
BytesUpTo(b, k) == UNION {BytesAt(b, n) : n \in 0 .. k - 1}

(* An entry has as many bytes as its size says.                            *)
LEMMA BytesAtCardinality ==
  ASSUME NEW b, NEW n \in Nat, b.entry[SlotAt(b, n)].size \in Nat
  PROVE  /\ IsFiniteSet(BytesAt(b, n))
         /\ Cardinality(BytesAt(b, n)) = b.entry[SlotAt(b, n)].size
<1> DEFINE z == b.entry[SlotAt(b, n)].size
<1>1. IsFiniteSet({n}) /\ Cardinality({n}) = 1
  BY FS_Singleton, Zenon
<1>2. IsFiniteSet(0 .. z - 1) /\ Cardinality(0 .. z - 1) = z
  <2>1. 0 \in Int /\ z - 1 \in Int
    OBVIOUS
  <2>2. /\ IsFiniteSet(0 .. z - 1)
        /\ Cardinality(0 .. z - 1) = IF 0 > z - 1 THEN 0 ELSE (z - 1) - 0 + 1
    BY <2>1, FS_Interval, Zenon
  <2> QED BY <2>2
<1>3. /\ IsFiniteSet({n} \X (0 .. z - 1))
      /\ Cardinality({n} \X (0 .. z - 1)) = Cardinality({n}) * Cardinality(0 .. z - 1)
  BY <1>1, <1>2, FS_Product, Zenon
<1>4. 1 * z = z
  OBVIOUS
<1> QED BY <1>1, <1>2, <1>3, <1>4 DEF BytesAt

(* The bytes of k entries are finitely many.                               *)
LEMMA BytesUpToFinite ==
  ASSUME NEW b, NEW k \in Nat,
         \A n \in 0 .. k - 1 : b.entry[SlotAt(b, n)].size \in Nat
  PROVE  IsFiniteSet(BytesUpTo(b, k))
<1> DEFINE S == 0 .. k - 1
           T == {BytesAt(b, n) : n \in S}
           f == [n \in S |-> BytesAt(b, n)]
<1>1. IsFiniteSet(S)
  <2>1. 0 \in Int /\ k - 1 \in Int
    OBVIOUS
  <2> QED BY <2>1, FS_Interval, Zenon
<1>2. f \in Surjection(S, T)
  BY Zenon DEF Surjection
<1>3. IsFiniteSet(T)
  <2> HIDE DEF S, T, f
  <2> QED BY <1>1, <1>2, FS_Surjection, Zenon
<1>4. \A X \in T : IsFiniteSet(X)
  <2>1. ASSUME NEW n \in S PROVE IsFiniteSet(BytesAt(b, n))
    BY BytesAtCardinality
  <2> QED BY <2>1
<1> QED BY <1>3, <1>4, FS_UNION, Zenon DEF BytesUpTo

(* BytesBefore is the running total of the loops: a number, 0 at first,    *)
(* and each turn adds the size of the entry the loop stands on             *)
(* (aesd-circular-buffer.c:57, 135 and 164).                               *)
LEMMA BytesBeforeTotal ==
  ASSUME NEW b, NEW k \in Nat,
         \A n \in 0 .. k : b.entry[SlotAt(b, n)].size \in Nat
  PROVE  /\ BytesBefore(b, 0) = 0
         /\ BytesBefore(b, k) \in Nat
         /\ BytesBefore(b, k + 1) = BytesBefore(b, k) + b.entry[SlotAt(b, k)].size
<1>1. \A j : BytesBefore(b, j) = Cardinality(BytesUpTo(b, j))
  BY DEF BytesBefore, BytesUpTo, BytesAt
<1>2. BytesUpTo(b, 0) = {}
  BY DEF BytesUpTo
<1>3. IsFiniteSet(BytesUpTo(b, k))
  BY BytesUpToFinite
<1>4. Cardinality(BytesUpTo(b, k)) \in Nat
  BY <1>3, FS_CardinalityType, Zenon
<1>5. BytesUpTo(b, k + 1) = BytesUpTo(b, k) \cup BytesAt(b, k)
  <2>1. 0 .. (k + 1) - 1 = (0 .. k - 1) \cup {k}
    OBVIOUS
  <2> QED BY <2>1, Zenon DEF BytesUpTo
<1>6. BytesUpTo(b, k) \cap BytesAt(b, k) = {}
  <2>1. ASSUME NEW x \in BytesUpTo(b, k) PROVE x \notin BytesAt(b, k)
    <3>1. PICK n \in 0 .. k - 1 : x \in BytesAt(b, n)
      BY DEF BytesUpTo
    <3>2. x[1] = n /\ n # k
      BY <3>1 DEF BytesAt
    <3> QED BY <3>2 DEF BytesAt
  <2> QED BY <2>1
<1>7. /\ IsFiniteSet(BytesAt(b, k))
      /\ Cardinality(BytesAt(b, k)) = b.entry[SlotAt(b, k)].size
  BY BytesAtCardinality
<1>8. Cardinality(BytesUpTo(b, k) \cup BytesAt(b, k))
        = Cardinality(BytesUpTo(b, k)) + Cardinality(BytesAt(b, k))
            - Cardinality(BytesUpTo(b, k) \cap BytesAt(b, k))
  BY <1>3, <1>7, FS_Union, Zenon
<1>9. Cardinality({}) = 0
  BY FS_EmptySet, Zenon
<1>10. BytesBefore(b, 0) = 0
  BY <1>1, <1>2, <1>9, Zenon
<1>11. BytesBefore(b, k) \in Nat
  BY <1>1, <1>4, Zenon
<1>12. BytesBefore(b, k + 1)
         = BytesBefore(b, k) + Cardinality(BytesAt(b, k)) - Cardinality({})
  BY <1>1, <1>5, <1>6, <1>8, Zenon
<1>13. BytesBefore(b, k + 1) = BytesBefore(b, k) + b.entry[SlotAt(b, k)].size - 0
  BY <1>7, <1>9, <1>12, Zenon
<1>14. b.entry[SlotAt(b, k)].size \in Nat
  OBVIOUS
<1>15. ASSUME NEW x \in Nat, NEW y \in Nat PROVE x + y - 0 = x + y
  OBVIOUS
<1>16. BytesBefore(b, k + 1) = BytesBefore(b, k) + b.entry[SlotAt(b, k)].size
  BY <1>11, <1>13, <1>14, <1>15, Zenon
<1> QED BY <1>10, <1>11, <1>16, Zenon

(* More entries have at least as many bytes.                               *)
LEMMA BytesBeforeMonotone ==
  ASSUME NEW b, NEW k \in Nat, NEW j \in 0 .. k,
         \A n \in 0 .. k : b.entry[SlotAt(b, n)].size \in Nat
  PROVE  BytesBefore(b, j) <= BytesBefore(b, k)
<1>1. IsFiniteSet(BytesUpTo(b, k))
  BY BytesUpToFinite
<1>2. BytesUpTo(b, j) \in SUBSET BytesUpTo(b, k)
  <2>1. 0 .. j - 1 \subseteq 0 .. k - 1
    OBVIOUS
  <2> QED BY <2>1, Zenon DEF BytesUpTo
<1>3. Cardinality(BytesUpTo(b, j)) <= Cardinality(BytesUpTo(b, k))
  BY <1>1, <1>2, FS_Subset, Zenon
<1> QED BY <1>3 DEF BytesBefore, BytesUpTo, BytesAt

-----------------------------------------------------------------------------
(* What every buffer the program builds satisfies: the assertions, and     *)
(* until the buffer is full nothing has moved out_offs.                    *)
RingOK(b) ==
  /\ b.in_offs \in Index /\ b.out_offs \in Index /\ b.full \in BOOLEAN
  /\ b.full => b.in_offs = b.out_offs
  /\ ~b.full => b.out_offs = 0
  /\ \A i \in Index : b.entry[i].size \in Nat

(* The loops visit at most MAX_WRITE_OPERATIONS entries and stay in the    *)
(* array.                                                                  *)
LEMMA SizeAndSlots ==
  ASSUME NEW b, RingOK(b)
  PROVE  /\ aesd_circular_buffer_size(b) \in 0 .. MAX_WRITE_OPERATIONS
         /\ \A k \in Index : SlotAt(b, k) \in Index
         /\ \A k \in Index : b.entry[SlotAt(b, k)].size \in Nat
<1>1. aesd_circular_buffer_size(b) \in 0 .. MAX_WRITE_OPERATIONS
  <2>1. CASE b.full
    BY <2>1, MaxAssumption DEF RingOK, aesd_circular_buffer_size, Index
  <2>2. CASE ~b.full
    BY <2>2, MaxAssumption DEF RingOK, aesd_circular_buffer_size, Index
  <2> QED BY <2>1, <2>2
<1>2. \A k \in Index : SlotAt(b, k) \in Index
  BY MaxAssumption DEF RingOK, SlotAt, Index
<1>3. \A k \in Index : b.entry[SlotAt(b, k)].size \in Nat
  BY <1>2 DEF RingOK
<1> QED BY <1>1, <1>2, <1>3

(* The total size is a number.                                             *)
LEMMA BytesSizeType ==
  ASSUME NEW b, RingOK(b)
  PROVE  aesd_circular_buffer_bytes_size(b) \in Nat
<1> DEFINE n == aesd_circular_buffer_size(b)
<1>1. n \in 0 .. MAX_WRITE_OPERATIONS /\ n \in Nat
  BY SizeAndSlots, MaxAssumption
<1>2. \A k \in 0 .. n - 1 : b.entry[SlotAt(b, k)].size \in Nat
  BY <1>1, SizeAndSlots, MaxAssumption DEF Index
<1>3. IsFiniteSet(BytesUpTo(b, n))
  BY <1>1, <1>2, BytesUpToFinite, Zenon
<1>4. Cardinality(BytesUpTo(b, n)) \in Nat
  BY <1>3, FS_CardinalityType, Zenon
<1> QED BY <1>4 DEF aesd_circular_buffer_bytes_size, BytesBefore, BytesUpTo, BytesAt

(* find_entry_offset_for_fpos returns the entry in which the position      *)
(* falls and its offset there, which lies within the entry: the assertion  *)
(* of main.c:75 cannot fail.  When it returns NULL the position is at or   *)
(* beyond the last byte.                                                   *)
LEMMA FindEntry ==
  ASSUME NEW b, RingOK(b), NEW p \in Nat
  PROVE  LET r == aesd_circular_buffer_find_entry_offset_for_fpos(b, p)
         IN  \/ r = NULL /\ aesd_circular_buffer_bytes_size(b) <= p
             \/ \E k \in 0 .. aesd_circular_buffer_size(b) - 1 :
                  /\ r = [slot |-> SlotAt(b, k), offset |-> p - BytesBefore(b, k)]
                  /\ k \in Index /\ SlotAt(b, k) \in Index
                  /\ BytesBefore(b, k) \in Nat /\ BytesBefore(b, k) <= p
                  /\ p - BytesBefore(b, k) < b.entry[SlotAt(b, k)].size
<1> DEFINE size   == aesd_circular_buffer_size(b)
           beyond == {k \in 0 .. size - 1 : p < BytesBefore(b, k + 1)}
           first  == Min(beyond)
<1>1. size \in 0 .. MAX_WRITE_OPERATIONS /\ size \in Nat /\ 0 .. size - 1 \subseteq Index
  BY SizeAndSlots, MaxAssumption DEF Index
<1>2. ASSUME NEW k \in 0 .. size - 1
      PROVE  /\ k \in Nat /\ k \in Index /\ SlotAt(b, k) \in Index
             /\ b.entry[SlotAt(b, k)].size \in Nat
             /\ BytesBefore(b, 0) = 0
             /\ BytesBefore(b, k) \in Nat
             /\ BytesBefore(b, k + 1) = BytesBefore(b, k) + b.entry[SlotAt(b, k)].size
  <2>1. k \in Nat /\ k \in Index /\ \A n \in 0 .. k : n \in Index
    BY <1>1 DEF Index
  <2>2. \A n \in 0 .. k : b.entry[SlotAt(b, n)].size \in Nat
    BY <2>1, SizeAndSlots
  <2>3. k \in 0 .. k
    BY <2>1
  <2> QED BY <2>1, <2>2, <2>3, BytesBeforeTotal, SizeAndSlots, Zenon
<1>3. CASE beyond = {}
  <2>1. aesd_circular_buffer_find_entry_offset_for_fpos(b, p) = NULL
    BY <1>3, Zenon DEF aesd_circular_buffer_find_entry_offset_for_fpos
  <2>2. BytesBefore(b, size) <= p
    <3>1. CASE size = 0
      <4>1. \A n \in 0 .. 0 : b.entry[SlotAt(b, n)].size \in Nat
        BY SizeAndSlots, MaxAssumption DEF Index
      <4>2. BytesBefore(b, 0) = 0
        BY <4>1, BytesBeforeTotal
      <4> QED BY <3>1, <4>2
    <3>2. CASE size # 0
      <4> DEFINE k == size - 1
      <4>1. k \in 0 .. size - 1 /\ k + 1 = size
        BY <1>1, <3>2
      <4>2. ~(p < BytesBefore(b, k + 1))
        BY <1>3, <4>1
      <4>3. BytesBefore(b, k + 1) \in Nat
        BY <1>2, <4>1
      <4> QED BY <4>1, <4>2, <4>3
    <3> QED BY <3>1, <3>2
  <2> QED BY <2>1, <2>2 DEF aesd_circular_buffer_bytes_size
<1>4. CASE beyond # {}
  <2>1. beyond \subseteq Nat
    BY <1>2
  <2>2. first \in beyond /\ \A y \in beyond : first <= y
    <3> HIDE DEF beyond
    <3> QED BY <2>1, <1>4, MinOfNaturals
  <2>3. aesd_circular_buffer_find_entry_offset_for_fpos(b, p)
          = [slot |-> SlotAt(b, first), offset |-> p - BytesBefore(b, first)]
    BY <1>4, Zenon DEF aesd_circular_buffer_find_entry_offset_for_fpos
  <2> HIDE DEF first
  <2>4. BytesBefore(b, first) <= p
    <3>1. CASE first = 0
      BY <3>1, <2>2, <1>2
    <3>2. CASE first # 0
      <4> DEFINE k == first - 1
      <4>1. k \in 0 .. size - 1 /\ k + 1 = first /\ ~(first <= k)
        BY <1>1, <2>2, <3>2
      <4>2. ~(p < BytesBefore(b, k + 1))
        BY <4>1, <2>2
      <4>3. BytesBefore(b, k + 1) \in Nat
        BY <1>2, <4>1
      <4> QED BY <4>1, <4>2, <4>3
    <3> QED BY <3>1, <3>2
  <2>5. first \in 0 .. size - 1 /\ p < BytesBefore(b, first + 1)
    BY <2>2
  <2>6. /\ first \in Index /\ SlotAt(b, first) \in Index
        /\ b.entry[SlotAt(b, first)].size \in Nat
        /\ BytesBefore(b, first) \in Nat
        /\ BytesBefore(b, first + 1) = BytesBefore(b, first) + b.entry[SlotAt(b, first)].size
    BY <2>5, <1>2
  <2>7. p - BytesBefore(b, first) < b.entry[SlotAt(b, first)].size
    BY <2>5, <2>6
  <2> QED BY <2>3, <2>4, <2>5, <2>6, <2>7
<1> QED BY <1>3, <1>4

(* offset_at and find_entry_offset_for_fpos are inverse to each other: the *)
(* position of a byte is where that byte is found.                         *)
LEMMA SeekThenFind ==
  ASSUME NEW b, RingOK(b), NEW i \in Nat, NEW o \in Nat,
         aesd_circular_buffer_offset_at(b, i, o) # NULL
  PROVE  /\ i \in 0 .. aesd_circular_buffer_size(b) - 1
         /\ o < b.entry[SlotAt(b, i)].size
         /\ aesd_circular_buffer_offset_at(b, i, o) \in Nat
         /\ aesd_circular_buffer_find_entry_offset_for_fpos(b,
              aesd_circular_buffer_offset_at(b, i, o))
            = [slot |-> SlotAt(b, i), offset |-> o]
<1> DEFINE size == aesd_circular_buffer_size(b)
           p    == BytesBefore(b, i) + o
<1>1. size \in 0 .. MAX_WRITE_OPERATIONS /\ 0 .. size - 1 \subseteq Index
  BY SizeAndSlots, MaxAssumption DEF Index
<1>2. /\ ~(i >= size) /\ ~(o >= b.entry[SlotAt(b, i)].size)
      /\ aesd_circular_buffer_offset_at(b, i, o) = p
  BY Zenon DEF aesd_circular_buffer_offset_at
<1>3. i \in 0 .. size - 1 /\ i \in Index
  BY <1>1, <1>2
<1>4. \A n \in 0 .. i : n \in Index /\ n \in Nat /\ b.entry[SlotAt(b, n)].size \in Nat
  <2>1. \A n \in 0 .. i : n \in Index /\ n \in Nat
    BY <1>3, MaxAssumption DEF Index
  <2> QED BY <2>1, SizeAndSlots
<1>5. /\ BytesBefore(b, i) \in Nat
      /\ BytesBefore(b, i + 1) = BytesBefore(b, i) + b.entry[SlotAt(b, i)].size
  BY <1>4, BytesBeforeTotal
<1>6. o < b.entry[SlotAt(b, i)].size /\ p \in Nat /\ p < BytesBefore(b, i + 1)
  BY <1>2, <1>4, <1>5
<1> DEFINE r == aesd_circular_buffer_find_entry_offset_for_fpos(b, p)
<1>7. ASSUME NEW k \in 0 .. size - 1,
             BytesBefore(b, k) \in Nat, BytesBefore(b, k) <= p,
             p - BytesBefore(b, k) < b.entry[SlotAt(b, k)].size
      PROVE  k = i
  <2>1. k \in Nat /\ k \in Index /\ \A n \in 0 .. k : n \in Index /\ n \in Nat
    BY <1>1 DEF Index
  <2>2. \A n \in 0 .. k : b.entry[SlotAt(b, n)].size \in Nat
    BY <2>1, SizeAndSlots
  <2>3. BytesBefore(b, k + 1) = BytesBefore(b, k) + b.entry[SlotAt(b, k)].size
    BY <2>1, <2>2, BytesBeforeTotal
  <2>4. p < BytesBefore(b, k + 1) /\ BytesBefore(b, k + 1) \in Nat
    <3>1. b.entry[SlotAt(b, k)].size \in Nat
      BY <2>1, <2>2
    <3> QED BY <1>6, <1>7, <2>3, <3>1
  <2>5. ~(k < i)
    <3>1. SUFFICES ASSUME k < i PROVE FALSE
      OBVIOUS
    <3>2. k + 1 \in 0 .. i
      BY <2>1, <3>1
    <3>3. BytesBefore(b, k + 1) <= BytesBefore(b, i)
      BY <1>4, <3>2, BytesBeforeMonotone
    <3> QED BY <1>5, <1>6, <2>4, <3>3
  <2>6. ~(i < k)
    <3>1. SUFFICES ASSUME i < k PROVE FALSE
      OBVIOUS
    <3>2. i + 1 \in 0 .. k
      BY <2>1, <3>1
    <3>3. BytesBefore(b, i + 1) <= BytesBefore(b, k)
      BY <2>1, <2>2, <3>2, BytesBeforeMonotone
    <3>4. BytesBefore(b, i + 1) \in Nat
      BY <1>4, <1>5
    <3> QED BY <1>6, <1>7, <3>3, <3>4
  <2> QED BY <2>1, <2>5, <2>6
<1>8. ~(aesd_circular_buffer_bytes_size(b) <= p)
  <2> DEFINE m == size - 1
  <2>1. m \in Nat /\ m \in Index /\ m + 1 = size /\ i + 1 \in 0 .. m + 1
        /\ \A n \in 0 .. m : n \in Index
    BY <1>1, <1>3 DEF Index
  <2>2. \A n \in 0 .. m : b.entry[SlotAt(b, n)].size \in Nat
    BY <2>1, SizeAndSlots
  <2>3. BytesBefore(b, i + 1) <= BytesBefore(b, size)
    <3>1. CASE i = m
      <4>1. BytesBefore(b, m + 1) \in Nat
        BY <1>4, <1>5, <3>1
      <4> QED BY <3>1, <2>1, <4>1
    <3>2. CASE i # m
      <4>1. i + 1 \in 0 .. m
        BY <1>3, <2>1, <3>2
      <4>2. BytesBefore(b, i + 1) <= BytesBefore(b, m)
        BY <2>1, <2>2, <4>1, BytesBeforeMonotone
      <4>3. BytesBefore(b, m) \in Nat
        /\ BytesBefore(b, m + 1) = BytesBefore(b, m) + b.entry[SlotAt(b, m)].size
        BY <2>1, <2>2, BytesBeforeTotal
      <4>4. b.entry[SlotAt(b, m)].size \in Nat /\ BytesBefore(b, i + 1) \in Nat
        BY <2>1, <2>2, <1>4, <1>5
      <4> QED BY <2>1, <4>2, <4>3, <4>4
    <3> QED BY <3>1, <3>2
  <2>4. BytesBefore(b, size) \in Nat
    BY BytesSizeType DEF aesd_circular_buffer_bytes_size
  <2>5. BytesBefore(b, i + 1) \in Nat
    BY <1>4, <1>5
  <2> QED BY <1>6, <2>3, <2>4, <2>5 DEF aesd_circular_buffer_bytes_size
<1>9. PICK k \in 0 .. size - 1 :
        /\ r = [slot |-> SlotAt(b, k), offset |-> p - BytesBefore(b, k)]
        /\ BytesBefore(b, k) \in Nat /\ BytesBefore(b, k) <= p
        /\ p - BytesBefore(b, k) < b.entry[SlotAt(b, k)].size
  <2> HIDE DEF p
  <2> QED BY <1>6, <1>8, FindEntry
<1>10. k = i
  BY <1>7, <1>9
<1>11. p - BytesBefore(b, i) = o
  BY <1>5
<1>12. r = [slot |-> SlotAt(b, i), offset |-> o]
  <2>1. r = [slot |-> SlotAt(b, i), offset |-> p - BytesBefore(b, i)]
    BY <1>9, <1>10, Zenon
  <2> QED BY <2>1, <1>11, Zenon
<1> QED BY <1>2, <1>3, <1>6, <1>12, Zenon

-----------------------------------------------------------------------------
(* The k-th entry, oldest first.                                           *)
EntryAt(b, k) == b.entry[SlotAt(b, k)]

(* c and gone are what adding e to b must result in, in terms of the order *)
(* of the entries: a buffer that is not full has one more, the new one, at *)
(* the end; a full one loses its first, which is gone, and the others move *)
(* up.                                                                     *)
Shifted(b, e, c, gone) ==
  LET n == aesd_circular_buffer_size(b)
      m == aesd_circular_buffer_size(c)
  IN  /\ RingOK(c)
      /\ c.entry = [b.entry EXCEPT ![b.in_offs] = e]
      /\ b.full <=> n = MAX_WRITE_OPERATIONS
      /\ ~b.full => /\ m = n + 1 /\ gone = NoEntry
                    /\ \A k \in 0 .. n - 1 : EntryAt(c, k) = EntryAt(b, k)
                    /\ EntryAt(c, n) = e
      /\ b.full  => /\ m = n /\ gone = EntryAt(b, 0)
                    /\ \A k \in 0 .. n - 2 : EntryAt(c, k) = EntryAt(b, k + 1)
                    /\ EntryAt(c, n - 1) = e

(* aesd_circular_buffer_add_entry does just that.                          *)
LEMMA AddEntryShifts ==
  ASSUME NEW b, RingOK(b), DOMAIN b.entry = Index, NEW e, e.size \in Nat
  PROVE  Shifted(b, e, aesd_circular_buffer_add_entry(b, e).buffer,
                       aesd_circular_buffer_add_entry(b, e).evicted)
<1> DEFINE in == Advance(b.in_offs)
           r  == aesd_circular_buffer_add_entry(b, e)
           c  == r.buffer
           n  == aesd_circular_buffer_size(b)
           m  == aesd_circular_buffer_size(c)
<1>1. /\ c.entry = [b.entry EXCEPT ![b.in_offs] = e]
      /\ c.in_offs = in
      /\ c.out_offs = IF b.full THEN in ELSE b.out_offs
      /\ c.full = (b.full \/ in = b.out_offs)
      /\ r.evicted = IF b.full THEN b.entry[b.in_offs] ELSE NoEntry
  BY DEF aesd_circular_buffer_add_entry
<1> HIDE DEF c, r
<1>2. /\ b.in_offs \in Index /\ b.out_offs \in Index /\ b.full \in BOOLEAN
      /\ b.full => b.in_offs = b.out_offs
      /\ ~b.full => b.out_offs = 0
  BY DEF RingOK
<1>3. in \in Index
  BY <1>2, MaxAssumption DEF Advance, Index
<1>4. \A i \in Index : c.entry[i] = IF i = b.in_offs THEN e ELSE b.entry[i]
  BY <1>1
<1>5. RingOK(c)
  <2>1. \A i \in Index : c.entry[i].size \in Nat
    BY <1>4 DEF RingOK
  <2>2. c.full => c.in_offs = c.out_offs
    BY <1>1, <1>2
  <2>3. ~c.full => c.out_offs = 0
    BY <1>1, <1>2
  <2>4. c.in_offs \in Index /\ c.out_offs \in Index /\ c.full \in BOOLEAN
    BY <1>1, <1>2, <1>3
  <2> QED BY <2>1, <2>2, <2>3, <2>4 DEF RingOK
<1>6. b.full <=> n = MAX_WRITE_OPERATIONS
  BY <1>2, MaxAssumption DEF aesd_circular_buffer_size, Index
<1>7. CASE ~b.full
  <2>1. m = n + 1 /\ n = b.in_offs
    <3>1. b.out_offs = 0 /\ c.out_offs = 0 /\ c.in_offs = in
      BY <1>1, <1>2, <1>7
    <3>2. n = b.in_offs
      BY <3>1, <1>2, <1>7, MaxAssumption DEF aesd_circular_buffer_size, Index
    <3>3. CASE in = 0
      <4>1. c.full
        BY <3>1, <3>3, <1>1
      <4>2. m = MAX_WRITE_OPERATIONS
        BY <3>1, <3>3, <4>1, MaxAssumption DEF aesd_circular_buffer_size
      <4> QED BY <3>2, <3>3, <4>2, <1>2, MaxAssumption DEF Advance, Index
    <3>4. CASE in # 0
      <4>1. ~c.full
        BY <3>1, <3>4, <1>1, <1>7
      <4>2. m = in
        BY <3>1, <4>1, <1>3, MaxAssumption DEF aesd_circular_buffer_size, Index
      <4> QED BY <3>2, <3>4, <4>2, <1>2, MaxAssumption DEF Advance, Index
    <3> QED BY <3>3, <3>4
  <2>2. ASSUME NEW k \in 0 .. n
        PROVE  SlotAt(c, k) = k /\ SlotAt(b, k) = k /\ k \in Index
    BY <1>1, <1>2, <1>7, <2>1, MaxAssumption DEF SlotAt, Index
  <2>3. ASSUME NEW k \in 0 .. n - 1 PROVE EntryAt(c, k) = EntryAt(b, k)
    <3>1. k \in 0 .. n /\ k # b.in_offs
      BY <2>1, <1>2, MaxAssumption DEF Index
    <3> QED BY <3>1, <2>2, <1>4 DEF EntryAt
  <2>4. EntryAt(c, n) = e
    <3>1. n \in 0 .. n
      BY <2>1, <1>2, MaxAssumption DEF Index
    <3> QED BY <3>1, <2>1, <2>2, <1>4 DEF EntryAt
  <2> QED BY <1>1, <1>5, <1>6, <1>7, <2>1, <2>3, <2>4 DEF c, r, Shifted
<1>8. CASE b.full
  <2>1. /\ m = MAX_WRITE_OPERATIONS /\ n = MAX_WRITE_OPERATIONS
        /\ b.in_offs = b.out_offs /\ c.out_offs = in
    <3>1. c.full /\ c.out_offs = in /\ c.in_offs = in /\ b.in_offs = b.out_offs
      BY <1>1, <1>2, <1>8
    <3>2. m = MAX_WRITE_OPERATIONS
      BY <3>1, <1>3, MaxAssumption DEF aesd_circular_buffer_size, Index
    <3>3. n = MAX_WRITE_OPERATIONS
      BY <3>1, <1>2, <1>8, MaxAssumption DEF aesd_circular_buffer_size, Index
    <3> QED BY <3>1, <3>2, <3>3
  <2>2. ASSUME NEW k \in 0 .. n - 2
        PROVE  /\ SlotAt(c, k) = SlotAt(b, k + 1)
               /\ SlotAt(c, k) \in Index /\ SlotAt(c, k) # b.in_offs
    BY <2>1, <1>2, <1>3, MaxAssumption DEF SlotAt, Index, Advance
  <2>3. SlotAt(c, n - 1) = b.in_offs /\ SlotAt(b, 0) = b.in_offs
    <3>1. SlotAt(b, 0) = b.in_offs
      <4>1. b.out_offs \in Nat /\ b.out_offs < MAX_WRITE_OPERATIONS
        BY <1>2, MaxAssumption DEF Index
      <4>2. SlotAt(b, 0) = b.out_offs
        BY <4>1, MaxAssumption DEF SlotAt
      <4> QED BY <4>2, <2>1
    <3>2. CASE b.in_offs + 1 = MAX_WRITE_OPERATIONS
      <4>1. in = 0
        BY <3>2 DEF Advance
      <4>2. SlotAt(c, n - 1) = n - 1
        BY <2>1, <4>1, MaxAssumption DEF SlotAt
      <4> QED BY <3>1, <3>2, <4>2, <2>1, <1>2, MaxAssumption DEF Index
    <3>3. CASE b.in_offs + 1 # MAX_WRITE_OPERATIONS
      <4>1. in = b.in_offs + 1
        BY <3>3 DEF Advance
      <4>2. SlotAt(c, n - 1) = in + (n - 1) - MAX_WRITE_OPERATIONS
        BY <2>1, <4>1, <1>2, MaxAssumption DEF SlotAt, Index
      <4> QED BY <3>1, <4>1, <4>2, <2>1, <1>2, MaxAssumption DEF Index
    <3> QED BY <3>2, <3>3
  <2>4. ASSUME NEW k \in 0 .. n - 2 PROVE EntryAt(c, k) = EntryAt(b, k + 1)
    BY <2>2, <1>4 DEF EntryAt
  <2>5. EntryAt(c, n - 1) = e /\ r.evicted = EntryAt(b, 0)
    BY <2>3, <1>1, <1>2, <1>4, <1>8 DEF EntryAt
  <2> QED BY <1>1, <1>5, <1>6, <1>8, <2>1, <2>4, <2>5 DEF c, r, Shifted
<1> QED BY <1>2, <1>7, <1>8

-----------------------------------------------------------------------------
(* A sequence given element by element, with an element appended, and with *)
(* its first one dropped and another appended.                             *)
LEMMA AppendAsFunction ==
  ASSUME NEW n \in Nat, NEW w, w = [k \in 1 .. n |-> w[k]], NEW e
  PROVE  Len(w) = n /\ Append(w, e) = [k \in 1 .. n + 1 |-> IF k = n + 1 THEN e ELSE w[k]]
<1> DEFINE S == {w[k] : k \in 1 .. n} \cup {e}
<1>1. w \in Seq(S) /\ Len(w) = n /\ e \in S
  OBVIOUS
<1> HIDE DEF S
<1>2. /\ Append(w, e) \in Seq(S) /\ Len(Append(w, e)) = n + 1
      /\ \A k \in 1 .. n + 1 : Append(w, e)[k] = IF k = n + 1 THEN e ELSE w[k]
  BY <1>1
<1>3. Append(w, e) = [k \in 1 .. n + 1 |-> Append(w, e)[k]]
  BY <1>2
<1> QED BY <1>1, <1>2, <1>3

(* The same when the first element goes.                                   *)
LEMMA AppendTailAsFunction ==
  ASSUME NEW n \in Nat \ {0}, NEW w, w = [k \in 1 .. n |-> w[k]], NEW e
  PROVE  /\ Head(w) = w[1]
         /\ Append(Tail(w), e) = [k \in 1 .. n |-> IF k = n THEN e ELSE w[k + 1]]
<1> DEFINE S == {w[k] : k \in 1 .. n} \cup {e}
<1>1. w \in Seq(S) /\ Len(w) = n /\ e \in S /\ w # << >>
  OBVIOUS
<1> HIDE DEF S
<1>2. /\ Tail(w) \in Seq(S) /\ Len(Tail(w)) = n - 1
      /\ \A k \in 1 .. n - 1 : Tail(w)[k] = w[k + 1]
  BY <1>1
<1>3. Tail(w) = [k \in 1 .. n - 1 |-> Tail(w)[k]]
  BY <1>2
<1>4. Append(Tail(w), e)
        = [k \in 1 .. (n - 1) + 1 |-> IF k = (n - 1) + 1 THEN e ELSE Tail(w)[k]]
  <2> DEFINE t == Tail(w)
  <2>1. n - 1 \in Nat /\ t = [k \in 1 .. n - 1 |-> t[k]]
    BY <1>3
  <2> HIDE DEF t
  <2>2. Append(t, e) = [k \in 1 .. (n - 1) + 1 |-> IF k = (n - 1) + 1 THEN e ELSE t[k]]
    BY <2>1, AppendAsFunction
  <2> QED BY <2>2 DEF t
<1>5. (n - 1) + 1 = n
  OBVIOUS
<1>6. \A k \in 1 .. n : (IF k = n THEN e ELSE Tail(w)[k]) = IF k = n THEN e ELSE w[k + 1]
  BY <1>2
<1>7. Append(Tail(w), e) = [k \in 1 .. n |-> IF k = n THEN e ELSE w[k + 1]]
  BY <1>4, <1>5, <1>6
<1> QED BY <1>1, <1>7

-----------------------------------------------------------------------------
(* There is a sequence in s for each entry, as long as the entry; f has    *)
(* the k-th of them where the loops say the bytes of the k-th entry are.   *)
Fits(b, s) ==
  /\ Len(s) = aesd_circular_buffer_size(b)
  /\ \A k \in 1 .. Len(s) : Len(s[k]) = b.entry[SlotAt(b, k - 1)].size

InPlace(b, s, f) ==
  /\ Len(f) = aesd_circular_buffer_bytes_size(b)
  /\ \A k \in 0 .. Len(s) - 1 :
       /\ BytesBefore(b, k) \in Nat
       /\ BytesBefore(b, k) + Len(s[k + 1]) <= aesd_circular_buffer_bytes_size(b)
       /\ \A j \in 1 .. Len(s[k + 1]) : f[BytesBefore(b, k) + j] = s[k + 1][j]

(* Laid end to end, such sequences are in place.                           *)
LEMMA EntriesLaid ==
  ASSUME NEW b, RingOK(b), NEW S, NEW s \in Seq(Seq(S)), Fits(b, s)
  PROVE  FlattenSeq(s) \in Seq(S) /\ InPlace(b, s, FlattenSeq(s))
<1> DEFINE n == Len(s)
           B == [k \in 0 .. n |-> BytesBefore(b, k)]
           f == FlattenSeq(s)
<1>1. n \in Nat /\ n \in 0 .. MAX_WRITE_OPERATIONS /\ n = aesd_circular_buffer_size(b)
  BY SizeAndSlots, MaxAssumption DEF Fits
<1> HIDE DEF n
<1>2. ASSUME NEW k \in Nat, k < n
      PROVE  /\ BytesBefore(b, 0) = 0 /\ BytesBefore(b, k) \in Nat
             /\ BytesBefore(b, k + 1) = BytesBefore(b, k) + Len(s[k + 1])
             /\ BytesBefore(b, k + 1) \in Nat
  <2>1. \A i \in 0 .. k : b.entry[SlotAt(b, i)].size \in Nat
    BY <1>1, <1>2, SizeAndSlots, MaxAssumption DEF Index
  <2>2. /\ BytesBefore(b, 0) = 0 /\ BytesBefore(b, k) \in Nat
        /\ BytesBefore(b, k + 1) = BytesBefore(b, k) + b.entry[SlotAt(b, k)].size
    BY <2>1, BytesBeforeTotal
  <2>3. k + 1 \in 1 .. n /\ (k + 1) - 1 = k /\ k \in 0 .. k
    BY <1>1, <1>2
  <2>4. Len(s[k + 1]) = b.entry[SlotAt(b, (k + 1) - 1)].size
    BY <2>3 DEF Fits, n
  <2>5. Len(s[k + 1]) = b.entry[SlotAt(b, k)].size /\ b.entry[SlotAt(b, k)].size \in Nat
    BY <2>1, <2>3, <2>4
  <2> QED BY <2>2, <2>5
<1>3. BytesBefore(b, 0) = 0
  <2>1. \A i \in 0 .. 0 : b.entry[SlotAt(b, i)].size \in Nat
    BY SizeAndSlots, MaxAssumption DEF Index
  <2> QED BY <2>1, BytesBeforeTotal
<1>4. ASSUME NEW k \in 0 .. n PROVE BytesBefore(b, k) \in Nat
  <2>1. CASE k = 0
    BY <1>3, <2>1
  <2>2. CASE k # 0
    <3>1. k - 1 \in Nat /\ k - 1 < n /\ (k - 1) + 1 = k
      BY <1>1, <2>2
    <3> QED BY <1>2, <3>1
  <2> QED BY <2>1, <2>2
<1>5. B \in [0 .. n -> Nat] /\ B[0] = 0 /\ \A k \in 0 .. n : B[k] = BytesBefore(b, k)
  BY <1>1, <1>3, <1>4
<1> HIDE DEF B
<1>6. ASSUME NEW k \in 1 .. n PROVE B[k] = B[k - 1] + Len(s[k])
  <2>1. k - 1 \in Nat /\ k - 1 < n /\ (k - 1) + 1 = k /\ k \in 0 .. n /\ k - 1 \in 0 .. n
    BY <1>1
  <2>2. BytesBefore(b, (k - 1) + 1) = BytesBefore(b, k - 1) + Len(s[(k - 1) + 1])
    BY <1>2, <2>1
  <2> QED BY <1>5, <2>1, <2>2
<1>7. /\ f \in Seq(S) /\ Len(f) = B[n]
      /\ \A k \in 1 .. n : /\ B[k] <= B[n]
                            /\ \A j \in 1 .. Len(s[k]) : f[B[k - 1] + j] = s[k][j]
  <2>1. Sums(s, B)
    BY <1>5, <1>6 DEF Sums, n
  <2>2. f \in Seq(S) /\ Placed(s, B, f)
    BY <2>1, FlattenElements
  <2> HIDE DEF f
  <2> QED BY <2>2 DEF Placed, n
<1>8. B[n] = aesd_circular_buffer_bytes_size(b)
  BY <1>1, <1>5 DEF aesd_circular_buffer_bytes_size
<1> HIDE DEF f
<1>9. ASSUME NEW k \in 0 .. n - 1
      PROVE  /\ BytesBefore(b, k) \in Nat /\ BytesBefore(b, k) + Len(s[k + 1]) <= B[n]
             /\ \A j \in 1 .. Len(s[k + 1]) : f[BytesBefore(b, k) + j] = s[k + 1][j]
  <2>1. /\ k + 1 \in 1 .. n /\ (k + 1) - 1 = k /\ k \in Nat /\ k < n
        /\ k \in 0 .. n /\ k + 1 \in 0 .. n
    BY <1>1
  <2>2. B[k + 1] <= B[n] /\ \A j \in 1 .. Len(s[k + 1]) : f[B[(k + 1) - 1] + j] = s[k + 1][j]
    BY <1>7, <2>1
  <2>3. B[k + 1] = B[k] + Len(s[k + 1]) /\ B[k] = BytesBefore(b, k)
    BY <1>2, <1>5, <2>1
  <2> QED BY <1>4, <2>1, <2>2, <2>3
<1> QED BY <1>7, <1>8, <1>9 DEF InPlace, n, f
=============================================================================
