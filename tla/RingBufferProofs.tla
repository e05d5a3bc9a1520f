-------------------------- MODULE RingBufferProofs --------------------------
(***************************************************************************)
(* The properties of RingBuffer for every size of the array, every set of  *)
(* pointers and every bound on the sizes.                                  *)
(***************************************************************************)
EXTENDS RingBuffer, CircularBufferProofs

(* The inductive invariant.  RingShape alone is not inductive without the  *)
(* types: that a slot is unwritten depends on where in_offs can be.        *)
Inv == TypeOK /\ RingShape

(* NULL is no pointer, so an entry that was added is not the zero one.     *)
LEMMA EntryIsNotNoEntry == NoEntry \notin Entry
BY RingBufferAssumption DEF Entry, NoEntry

(* The first state of the buffer is well formed.                           *)
LEMMA InitInv == Init => Inv
BY MaxAssumption, EntryIsNotNoEntry
   DEF Init, Inv, TypeOK, RingShape, OffsetAsserts, aesd_circular_buffer_init,
       Buffer, Index, NoEntry

(* Adding an entry keeps it so.                                            *)
LEMMA AddInv == ASSUME Inv, NEW e \in Entry, Add(e) PROVE Inv'
<1> DEFINE in == Advance(buffer.in_offs)
<1>1. /\ buffer' = [entry    |-> [buffer.entry EXCEPT ![buffer.in_offs] = e],
                    in_offs  |-> in,
                    out_offs |-> IF buffer.full THEN in ELSE buffer.out_offs,
                    full     |-> buffer.full \/ in = buffer.out_offs]
      /\ evicted' = IF buffer.full THEN buffer.entry[buffer.in_offs] ELSE NoEntry
  BY DEF Add, aesd_circular_buffer_add_entry
<1>2. /\ buffer.entry \in [Index -> Entry \cup {NoEntry}]
      /\ buffer.in_offs \in Index /\ buffer.out_offs \in Index
      /\ buffer.full \in BOOLEAN
  BY DEF Inv, TypeOK, Buffer
<1>3. in \in Index
  BY <1>2, MaxAssumption DEF Advance, Index
<1>4. TypeOK'
  <2>1. buffer' \in Buffer(Entry \cup {NoEntry})
    BY <1>1, <1>2, <1>3 DEF Buffer
  <2>2. evicted' \in Entry \cup {NoEntry}
    BY <1>1, <1>2
  <2> QED BY <2>1, <2>2 DEF TypeOK
<1>5. buffer.full => buffer.in_offs = buffer.out_offs
  BY DEF Inv, RingShape, OffsetAsserts
<1>6. OffsetAsserts(buffer)'
  BY <1>1, <1>2, <1>3, <1>5, MaxAssumption DEF OffsetAsserts, Index
<1>7. ASSUME ~buffer'.full
      PROVE  /\ buffer'.out_offs = 0
             /\ \A i \in Index : buffer'.entry[i] = NoEntry <=> i >= buffer'.in_offs
  <2>1. /\ ~buffer.full /\ buffer.out_offs = 0 /\ in # 0
        /\ \A i \in Index : buffer.entry[i] = NoEntry <=> i >= buffer.in_offs
    BY <1>1, <1>7 DEF Inv, RingShape
  <2>2. in = buffer.in_offs + 1
    BY <2>1, <1>2 DEF Advance
  <2>3. \A i \in Index : buffer'.entry[i] = IF i = buffer.in_offs THEN e ELSE buffer.entry[i]
    BY <1>1, <1>2
  <2>4. ASSUME NEW i \in Index PROVE buffer'.entry[i] = NoEntry <=> i >= in
    BY <1>2, <2>1, <2>2, <2>3, EntryIsNotNoEntry, MaxAssumption DEF Index
  <2> QED BY <1>1, <2>1, <2>4
<1>8. ASSUME buffer'.full PROVE \A i \in Index : buffer'.entry[i] \in Entry
  <2>1. CASE buffer.full
    BY <1>1, <1>2, <2>1 DEF Inv, RingShape
  <2>2. CASE ~buffer.full
    <3>1. /\ in = 0
          /\ \A i \in Index : buffer.entry[i] = NoEntry <=> i >= buffer.in_offs
      BY <1>1, <1>8, <2>2 DEF Inv, RingShape
    <3>2. buffer.in_offs = MAX_WRITE_OPERATIONS - 1
      BY <3>1, <1>2, MaxAssumption DEF Advance, Index
    <3>3. \A i \in Index : i # buffer.in_offs => buffer.entry[i] \in Entry
      BY <3>1, <3>2, <1>2, MaxAssumption DEF Index
    <3> QED BY <1>1, <1>2, <3>3
  <2> QED BY <2>1, <2>2, <1>2
<1> QED BY <1>4, <1>6, <1>7, <1>8 DEF Inv, RingShape

(* The buffer keeps its types and shape for ever: the assertions of        *)
(* aesd-circular-buffer.c:43-45 and 85-87 never fail, the offsets never    *)
(* leave the array.                                                        *)
THEOREM RingInvariant == Spec => [](TypeOK /\ RingShape)
<1>1. Inv /\ [Next]_vars => Inv'
  <2>1. ASSUME Inv, Next PROVE Inv'
    BY <2>1, AddInv DEF Next
  <2>2. ASSUME Inv, UNCHANGED vars PROVE Inv'
    BY <2>2 DEF Inv, TypeOK, RingShape, OffsetAsserts, vars
  <2> QED BY <2>1, <2>2
<1> QED BY InitInv, <1>1, PTL DEF Spec, Inv

(* The struct keeps its types: uint8_t offsets that stay in the array, and *)
(* what is returned for freeing is an entry that was added, or none.       *)
THEOREM TypesHold == Spec => []TypeOK
BY RingInvariant, PTL

-----------------------------------------------------------------------------
(* The invariant gives the lemmas about the operators what they need.      *)
LEMMA InvRingOK == Inv => RingOK(buffer) /\ DOMAIN buffer.entry = Index
BY DEF Inv, TypeOK, RingShape, OffsetAsserts, RingOK, Buffer, Entry, NoEntry

(* The window is a sequence of entries, as long as the buffer has entries, *)
(* and its k-th element is the one the loops meet on turn k.               *)
LEMMA WindowSeq ==
  ASSUME NEW b, RingOK(b)
  PROVE  LET n == aesd_circular_buffer_size(b)
         IN  /\ n \in Nat /\ n <= MAX_WRITE_OPERATIONS
             /\ Window(b) = [k \in 1 .. n |-> EntryAt(b, k - 1)]
             /\ Len(Window(b)) = n
<1>1. aesd_circular_buffer_size(b) \in Nat
      /\ aesd_circular_buffer_size(b) <= MAX_WRITE_OPERATIONS
  BY SizeAndSlots, MaxAssumption
<1> QED BY <1>1 DEF Window, EntryAt

(* One addition to the buffer is one addition to the log.                  *)
LEMMA AddRefines ==
  ASSUME Inv, NEW e \in Entry, Add(e)
  PROVE  Abstract!Add(e)
<1> DEFINE r == aesd_circular_buffer_add_entry(buffer, e)
           n == aesd_circular_buffer_size(buffer)
           w == Window(buffer)
<1>1. RingOK(buffer) /\ DOMAIN buffer.entry = Index /\ e.size \in Nat
  BY InvRingOK, RingBufferAssumption DEF Entry
<1>2. buffer' = r.buffer /\ evicted' = r.evicted
  BY DEF Add
<1>3. Shifted(buffer, e, r.buffer, r.evicted) /\ RingOK(r.buffer)
  <2>1. Shifted(buffer, e, r.buffer, r.evicted)
    BY <1>1, AddEntryShifts
  <2> QED BY <2>1 DEF Shifted
<1>4. /\ n \in Nat /\ n <= MAX_WRITE_OPERATIONS
      /\ w = [k \in 1 .. n |-> EntryAt(buffer, k - 1)] /\ Len(w) = n
  BY <1>1, WindowSeq
<1>5. CASE ~buffer.full
  <2> HIDE DEF r
  <2>1. /\ n < MAX_WRITE_OPERATIONS /\ r.evicted = NoEntry
        /\ aesd_circular_buffer_size(r.buffer) = n + 1
        /\ \A k \in 0 .. n - 1 : EntryAt(r.buffer, k) = EntryAt(buffer, k)
        /\ EntryAt(r.buffer, n) = e
    BY <1>3, <1>4, <1>5, MaxAssumption DEF Shifted
  <2>2. Window(r.buffer) = [k \in 1 .. n + 1 |-> EntryAt(r.buffer, k - 1)]
    BY <1>3, <2>1, WindowSeq
  <2>3. ASSUME NEW k \in 1 .. n + 1
        PROVE  EntryAt(r.buffer, k - 1) = IF k = n + 1 THEN e ELSE w[k]
    <3>1. CASE k = n + 1
      BY <3>1, <2>1, <1>4
    <3>2. CASE k # n + 1
      <4>1. k \in 1 .. n /\ k - 1 \in 0 .. n - 1
        BY <3>2, <1>4
      <4> QED BY <3>2, <4>1, <2>1, <1>4
    <3> QED BY <3>1, <3>2
  <2> HIDE DEF r, n, w
  <2>4. Window(r.buffer) = [k \in 1 .. n + 1 |-> IF k = n + 1 THEN e ELSE w[k]]
    BY <2>2, <2>3
  <2>5. Append(w, e) = [k \in 1 .. n + 1 |-> IF k = n + 1 THEN e ELSE w[k]]
    BY <1>4, AppendAsFunction
  <2>6. Window(buffer)' = Append(w, e)
    BY <2>4, <2>5, <1>2 DEF Window, r
  <2> QED BY <1>2, <1>4, <2>1, <2>6 DEF Abstract!Add, Abstract!Recent, w
<1>6. CASE buffer.full
  <2> HIDE DEF r
  <2>1. /\ n = MAX_WRITE_OPERATIONS /\ r.evicted = EntryAt(buffer, 0)
        /\ aesd_circular_buffer_size(r.buffer) = n
        /\ \A k \in 0 .. n - 2 : EntryAt(r.buffer, k) = EntryAt(buffer, k + 1)
        /\ EntryAt(r.buffer, n - 1) = e
    BY <1>3, <1>6 DEF Shifted
  <2>2. Window(r.buffer) = [k \in 1 .. n |-> EntryAt(r.buffer, k - 1)]
    BY <1>3, <2>1, WindowSeq
  <2>3. ASSUME NEW k \in 1 .. n
        PROVE  EntryAt(r.buffer, k - 1) = IF k = n THEN e ELSE w[k + 1]
    <3>1. CASE k = n
      BY <3>1, <2>1, <1>4
    <3>2. CASE k # n
      <4>1. k + 1 \in 1 .. n /\ k - 1 \in 0 .. n - 2 /\ (k + 1) - 1 = (k - 1) + 1
        BY <3>2, <1>4
      <4> QED BY <3>2, <4>1, <2>1, <1>4
    <3> QED BY <3>1, <3>2
  <2>4. n >= 1 /\ w[1] = EntryAt(buffer, 0)
    BY <2>1, <1>4, MaxAssumption
  <2> HIDE DEF r, n, w
  <2>5. Window(r.buffer) = [k \in 1 .. n |-> IF k = n THEN e ELSE w[k + 1]]
    BY <2>2, <2>3
  <2>6. /\ Head(w) = w[1]
        /\ Append(Tail(w), e) = [k \in 1 .. n |-> IF k = n THEN e ELSE w[k + 1]]
    <3>1. n \in Nat \ {0} /\ w = [k \in 1 .. n |-> w[k]]
      BY <1>4, <2>4
    <3> QED BY <3>1, AppendTailAsFunction
  <2>7. Window(buffer)' = Append(Tail(w), e)
    BY <2>5, <2>6, <1>2 DEF Window, r
  <2>8. Head(w) = EntryAt(buffer, 0)
    BY <2>4, <2>6
  <2>9. ~(Len(w) < MAX_WRITE_OPERATIONS)
    BY <1>4, <2>1, MaxAssumption
  <2> QED BY <1>2, <2>1, <2>7, <2>8, <2>9, Zenon DEF Abstract!Add, Abstract!Recent, w
<1> QED BY <1>5, <1>6

(* The circular buffer implements the abstract log, for every size of the  *)
(* array: aesd_circular_buffer_add_entry loses no entry but the oldest,    *)
(* keeps them in order, and returns for freeing exactly the one it lost.   *)
THEOREM RingRefinement == Spec => ImplementsWriteLog
<1>1. Init => Abstract!Init
  BY MaxAssumption
     DEF Init, Abstract!Init, Window, aesd_circular_buffer_init, aesd_circular_buffer_size
<1>2. Inv /\ [Next]_vars => [Abstract!Next]_(Abstract!vars)
  <2>1. ASSUME Inv, Next PROVE Abstract!Next
    BY <2>1, AddRefines DEF Next, Abstract!Next
  <2>2. ASSUME UNCHANGED vars PROVE UNCHANGED Abstract!vars
    BY <2>2 DEF vars, Abstract!vars, Window
  <2> QED BY <2>1, <2>2
<1>3. Spec => []Inv
  BY RingInvariant DEF Inv
<1> QED BY <1>1, <1>2, <1>3, PTL DEF Spec, ImplementsWriteLog, Abstract!Spec

-----------------------------------------------------------------------------
(* The pairs offset_at accepts are the bytes that BytesBefore counts.      *)
LEMMA SeekableBytes ==
  ASSUME Inv
  PROVE  {q \in (0 .. MAX_WRITE_OPERATIONS) \X (0 .. MAX_SIZE) :
            aesd_circular_buffer_offset_at(buffer, q[1], q[2]) # NULL}
         = BytesUpTo(buffer, aesd_circular_buffer_size(buffer))
<1> DEFINE n == aesd_circular_buffer_size(buffer)
           S == {q \in (0 .. MAX_WRITE_OPERATIONS) \X (0 .. MAX_SIZE) :
                   aesd_circular_buffer_offset_at(buffer, q[1], q[2]) # NULL}
<1>1. RingOK(buffer)
  BY InvRingOK
<1>2. n \in 0 .. MAX_WRITE_OPERATIONS /\ n \in Nat /\ 0 .. n - 1 \subseteq Index
  BY <1>1, SizeAndSlots, MaxAssumption DEF Index
<1>3. ASSUME NEW q \in S PROVE q \in BytesUpTo(buffer, n)
  <2>1. /\ q = <<q[1], q[2]>> /\ q[1] \in Nat /\ q[2] \in Nat
        /\ aesd_circular_buffer_offset_at(buffer, q[1], q[2]) # NULL
    BY RingBufferAssumption, MaxAssumption
  <2>2. /\ q[1] \in 0 .. n - 1
        /\ q[2] < buffer.entry[SlotAt(buffer, q[1])].size
    BY <1>1, <2>1, SeekThenFind
  <2>3. buffer.entry[SlotAt(buffer, q[1])].size \in Nat
    BY <1>1, <1>2, <2>2, SizeAndSlots
  <2>4. q \in BytesAt(buffer, q[1])
    BY <2>1, <2>2, <2>3 DEF BytesAt
  <2> QED BY <2>2, <2>4 DEF BytesUpTo
<1>4. ASSUME NEW q \in BytesUpTo(buffer, n) PROVE q \in S
  <2>1. PICK k \in 0 .. n - 1 : q \in BytesAt(buffer, k)
    BY DEF BytesUpTo
  <2> DEFINE z == buffer.entry[SlotAt(buffer, k)].size
  <2>2. k \in Index /\ k \in Nat /\ SlotAt(buffer, k) \in Index
    BY <1>1, <1>2, SizeAndSlots
  <2>3. z \in 0 .. MAX_SIZE
    <3>1. buffer.entry \in [Index -> Entry \cup {NoEntry}]
      BY DEF Inv, TypeOK, Buffer
    <3>2. EntryAt(buffer, k) \in Entry \cup {NoEntry}
      BY <2>2, <3>1 DEF EntryAt
    <3>3. EntryAt(buffer, k).size \in 0 .. MAX_SIZE
      BY <3>2, RingBufferAssumption DEF Entry, NoEntry
    <3> QED BY <3>3 DEF EntryAt
  <2> HIDE DEF z
  <2>4. q = <<q[1], q[2]>> /\ q[1] = k /\ q[2] \in 0 .. z - 1
    BY <2>1 DEF BytesAt, z
  <2>5. /\ q \in (0 .. MAX_WRITE_OPERATIONS) \X (0 .. MAX_SIZE)
        /\ q[2] \in Nat /\ ~(q[2] >= z) /\ ~(k >= n)
    BY <1>2, <2>2, <2>3, <2>4, RingBufferAssumption, MaxAssumption
  <2>6. aesd_circular_buffer_offset_at(buffer, q[1], q[2]) = BytesBefore(buffer, k) + q[2]
    BY <2>4, <2>5, Zenon DEF aesd_circular_buffer_offset_at, z
  <2>7. BytesBefore(buffer, k) \in Nat
    <3>1. \A m \in 0 .. k : m \in Index
      BY <2>2, MaxAssumption DEF Index
    <3>2. \A m \in 0 .. k : buffer.entry[SlotAt(buffer, m)].size \in Nat
      BY <3>1, <1>1, SizeAndSlots
    <3> QED BY <2>2, <3>2, BytesBeforeTotal
  <2>8. BytesBefore(buffer, k) + q[2] \in Nat
    BY <2>5, <2>7
  <2>9. aesd_circular_buffer_offset_at(buffer, q[1], q[2]) # NULL
    BY <2>6, <2>8, NullAssumption
  <2> QED BY <2>5, <2>9
<1> QED BY <1>3, <1>4

(* Seeking to a byte and reading from where the seek landed meet for every *)
(* array and every content: AESDCHAR_IOCSEEKTO puts the file on the byte   *)
(* it names, and accepts every byte there is and no other.                 *)
THEOREM SeekAgrees == Spec => []SeekAndFindAgree
<1>1. ASSUME Inv PROVE SeekAndFindAgree
  <2> DEFINE S == {q \in (0 .. MAX_WRITE_OPERATIONS) \X (0 .. MAX_SIZE) :
                     aesd_circular_buffer_offset_at(buffer, q[1], q[2]) # NULL}
  <2>1. Cardinality(S) = aesd_circular_buffer_bytes_size(buffer)
    <3>1. S = BytesUpTo(buffer, aesd_circular_buffer_size(buffer))
      BY <1>1, SeekableBytes
    <3> HIDE DEF S
    <3> QED BY <3>1
            DEF aesd_circular_buffer_bytes_size, BytesBefore, BytesUpTo, BytesAt
  <2>2. ASSUME NEW q \in S
        PROVE  aesd_circular_buffer_find_entry_offset_for_fpos(buffer,
                 aesd_circular_buffer_offset_at(buffer, q[1], q[2]))
               = [slot |-> SlotAt(buffer, q[1]), offset |-> q[2]]
    <3>1. q[1] \in Nat /\ q[2] \in Nat
      BY RingBufferAssumption, MaxAssumption
    <3>2. aesd_circular_buffer_offset_at(buffer, q[1], q[2]) # NULL
      OBVIOUS
    <3> QED BY <1>1, <3>1, <3>2, InvRingOK, SeekThenFind, Zenon
  <2> QED BY <2>1, <2>2, Zenon DEF SeekAndFindAgree
<1>2. Spec => []Inv
  BY RingInvariant DEF Inv
<1> QED BY <1>1, <1>2, PTL

-----------------------------------------------------------------------------
(* The bytes of the entries, each named by its place, entry by entry.      *)
Places(b) ==
  [k \in 1 .. aesd_circular_buffer_size(b) |->
    [j \in 1 .. b.entry[SlotAt(b, k - 1)].size |->
       [slot |-> SlotAt(b, k - 1), offset |-> j - 1]]]

(* Laid end to end, each is at the position the loops give it.             *)
LEMMA PlacesLaid ==
  ASSUME NEW b, RingOK(b)
  PROVE  /\ Len(EndToEnd(b)) = aesd_circular_buffer_bytes_size(b)
         /\ \A k \in 0 .. aesd_circular_buffer_size(b) - 1 :
              /\ BytesBefore(b, k) \in Nat
              /\ BytesBefore(b, k) + b.entry[SlotAt(b, k)].size
                   <= aesd_circular_buffer_bytes_size(b)
              /\ \A j \in 1 .. b.entry[SlotAt(b, k)].size :
                   EndToEnd(b)[BytesBefore(b, k) + j]
                     = [slot |-> SlotAt(b, k), offset |-> j - 1]
<1> DEFINE S == [slot : Index, offset : Nat]
           s == Places(b)
           n == aesd_circular_buffer_size(b)
<1>1. n \in Nat /\ n <= MAX_WRITE_OPERATIONS
  BY SizeAndSlots, MaxAssumption
<1>2. ASSUME NEW k \in 1 .. n
      PROVE  /\ SlotAt(b, k - 1) \in Index /\ b.entry[SlotAt(b, k - 1)].size \in Nat
  <2>1. k - 1 \in Index
    BY <1>1, MaxAssumption DEF Index
  <2> QED BY <2>1, SizeAndSlots
<1>3. ASSUME NEW k \in 1 .. n
      PROVE  /\ s[k] = [j \in 1 .. b.entry[SlotAt(b, k - 1)].size |->
                          [slot |-> SlotAt(b, k - 1), offset |-> j - 1]]
             /\ s[k] \in Seq(S) /\ Len(s[k]) = b.entry[SlotAt(b, k - 1)].size
  <2>1. s[k] = [j \in 1 .. b.entry[SlotAt(b, k - 1)].size |->
                  [slot |-> SlotAt(b, k - 1), offset |-> j - 1]]
    BY DEF Places
  <2>2. \A j \in 1 .. b.entry[SlotAt(b, k - 1)].size :
          [slot |-> SlotAt(b, k - 1), offset |-> j - 1] \in S
    BY <1>2
  <2> HIDE DEF s, S
  <2> QED BY <1>2, <2>1, <2>2
<1>4. s = [k \in 1 .. n |-> s[k]]
  BY DEF Places
<1> HIDE DEF s, n, S
<1>5. s \in Seq(Seq(S)) /\ Len(s) = n
  BY <1>1, <1>3, <1>4
<1>6. EndToEnd(b) = FlattenSeq(s)
  BY DEF EndToEnd, Places, s
<1>7. /\ Len(FlattenSeq(s)) = aesd_circular_buffer_bytes_size(b)
      /\ \A k \in 0 .. n - 1 :
           /\ BytesBefore(b, k) \in Nat
           /\ BytesBefore(b, k) + Len(s[k + 1]) <= aesd_circular_buffer_bytes_size(b)
           /\ \A j \in 1 .. Len(s[k + 1]) :
                FlattenSeq(s)[BytesBefore(b, k) + j] = s[k + 1][j]
  <2>1. Fits(b, s)
    BY <1>3, <1>5 DEF Fits, n
  <2>2. InPlace(b, s, FlattenSeq(s))
    BY <1>5, <2>1, EntriesLaid
  <2> QED BY <1>5, <2>2 DEF InPlace
<1>8. ASSUME NEW k \in 0 .. n - 1
      PROVE  /\ s[k + 1] = [j \in 1 .. b.entry[SlotAt(b, k)].size |->
                              [slot |-> SlotAt(b, k), offset |-> j - 1]]
             /\ Len(s[k + 1]) = b.entry[SlotAt(b, k)].size
  <2>1. k + 1 \in 1 .. n /\ (k + 1) - 1 = k
    BY <1>1
  <2> QED BY <1>3, <2>1
<1>9. ASSUME NEW k \in 0 .. n - 1, NEW j \in 1 .. b.entry[SlotAt(b, k)].size
      PROVE  FlattenSeq(s)[BytesBefore(b, k) + j] = [slot |-> SlotAt(b, k), offset |-> j - 1]
  <2>1. j \in 1 .. Len(s[k + 1])
    BY <1>8
  <2>2. s[k + 1][j] = [slot |-> SlotAt(b, k), offset |-> j - 1]
    BY <1>8
  <2> QED BY <1>7, <2>1, <2>2
<1> QED BY <1>6, <1>7, <1>8, <1>9 DEF n

(* aesd_circular_buffer_find_entry_offset_for_fpos: for every capacity and *)
(* all sizes of the entries, empty ones included, the search finds at each *)
(* position the byte that is there when the entries are laid end to end,   *)
(* and nothing beyond the last (aesd-circular-buffer.c:21-27).             *)
THEOREM FindIsRight == Spec => []FindsTheByte
<1>1. Inv => FindsTheByte
  <2> SUFFICES ASSUME Inv, NEW p \in Positions(buffer)
               PROVE  aesd_circular_buffer_find_entry_offset_for_fpos(buffer, p) =
                        IF p < Len(EndToEnd(buffer)) THEN EndToEnd(buffer)[p + 1] ELSE NULL
    BY DEF FindsTheByte
  <2> DEFINE r == aesd_circular_buffer_find_entry_offset_for_fpos(buffer, p)
             total == aesd_circular_buffer_bytes_size(buffer)
  <2>1. RingOK(buffer)
    BY InvRingOK
  <2>2. total \in Nat /\ Len(EndToEnd(buffer)) = total
    BY <2>1, BytesSizeType, PlacesLaid
  <2>3. p \in Nat
    BY <2>2 DEF Positions
  <2>4. \/ r = NULL /\ total <= p
        \/ \E k \in 0 .. aesd_circular_buffer_size(buffer) - 1 :
             /\ r = [slot |-> SlotAt(buffer, k), offset |-> p - BytesBefore(buffer, k)]
             /\ BytesBefore(buffer, k) \in Nat /\ BytesBefore(buffer, k) <= p
             /\ p - BytesBefore(buffer, k) < buffer.entry[SlotAt(buffer, k)].size
             /\ buffer.entry[SlotAt(buffer, k)].size \in Nat
    <3>1. \A k \in Index : buffer.entry[SlotAt(buffer, k)].size \in Nat
      BY <2>1, SizeAndSlots
    <3> QED BY <2>1, <2>3, <3>1, FindEntry
  <2> HIDE DEF r, total
  <2>5. CASE r = NULL /\ total <= p
    BY <2>2, <2>3, <2>5 DEF r
  <2>6. ASSUME NEW k \in 0 .. aesd_circular_buffer_size(buffer) - 1,
               r = [slot |-> SlotAt(buffer, k), offset |-> p - BytesBefore(buffer, k)],
               BytesBefore(buffer, k) \in Nat, BytesBefore(buffer, k) <= p,
               p - BytesBefore(buffer, k) < buffer.entry[SlotAt(buffer, k)].size,
               buffer.entry[SlotAt(buffer, k)].size \in Nat
        PROVE  p < total /\ r = EndToEnd(buffer)[p + 1]
    <3> DEFINE before == BytesBefore(buffer, k)
               size == buffer.entry[SlotAt(buffer, k)].size
               j == p - before + 1
    <3>1. /\ before + size <= total
          /\ \A i \in 1 .. size :
               EndToEnd(buffer)[before + i] = [slot |-> SlotAt(buffer, k), offset |-> i - 1]
      BY <2>1, PlacesLaid DEF total
    <3> HIDE DEF before, size
    <3>2. /\ before \in Nat /\ size \in Nat /\ before <= p /\ p - before < size
          /\ r = [slot |-> SlotAt(buffer, k), offset |-> p - before]
      BY <2>6 DEF before, size
    <3>3. j \in 1 .. size /\ before + j = p + 1 /\ j - 1 = p - before /\ p < total
      BY <2>2, <2>3, <3>1, <3>2
    <3> HIDE DEF j
    <3>4. EndToEnd(buffer)[before + j] = [slot |-> SlotAt(buffer, k), offset |-> j - 1]
      BY <3>1, <3>3
    <3> QED BY <3>2, <3>3, <3>4
  <2> QED BY <2>2, <2>4, <2>5, <2>6 DEF r
<1>2. Spec => []Inv
  BY RingInvariant DEF Inv
<1> QED BY <1>1, <1>2, PTL
=============================================================================
