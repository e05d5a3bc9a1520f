----------------------------- MODULE RingBuffer -----------------------------
(***************************************************************************)
(* The circular buffer on its own, driven by a caller that adds any entry  *)
(* at any time (the use the unit tests make of it), and what its functions *)
(* must compute: the abstract log they implement, and the byte they find   *)
(* at every position.                                                      *)
(***************************************************************************)
EXTENDS CircularBuffer, SequencesExt

CONSTANTS Ptrs,      \* what buffptr may point to
          MAX_SIZE   \* the size of the largest entry added

ASSUME RingBufferAssumption == NULL \notin Ptrs /\ MAX_SIZE \in Nat

Entry == [buffptr : Ptrs, size : 0 .. MAX_SIZE]

VARIABLES buffer,   \* the struct aesd_circular_buffer
          evicted   \* what the last aesd_circular_buffer_add_entry returned

vars == <<buffer, evicted>>

Init == buffer = aesd_circular_buffer_init /\ evicted = NoEntry

Add(e) ==
  LET r == aesd_circular_buffer_add_entry(buffer, e)
  IN  buffer' = r.buffer /\ evicted' = r.evicted

Next == \E e \in Entry : Add(e)

Spec == Init /\ [][Next]_vars

-----------------------------------------------------------------------------
(* The entries in the order the loops visit them, oldest first.            *)
Window(b) ==
  [k \in 1 .. aesd_circular_buffer_size(b) |-> b.entry[SlotAt(b, k - 1)]]

(* Every byte of the entries laid end to end, named by the slot it is in   *)
(* and its offset there.                                                   *)
EndToEnd(b) ==
  FlattenSeq([k \in 1 .. aesd_circular_buffer_size(b) |->
    [j \in 1 .. b.entry[SlotAt(b, k - 1)].size |->
       [slot |-> SlotAt(b, k - 1), offset |-> j - 1]]])

(* Positions worth asking about: all bytes and two beyond the last.        *)
Positions(b) == 0 .. Len(EndToEnd(b)) + 1

-----------------------------------------------------------------------------
(* The buffer is a struct aesd_circular_buffer and the evicted entry one.  *)
TypeOK ==
  /\ buffer \in Buffer(Entry \cup {NoEntry})
  /\ evicted \in Entry \cup {NoEntry}

(* The assertions of aesd-circular-buffer.c:43-45 and 85-87 hold whenever  *)
(* they are reached, and the buffer is filled from slot 0 on: nothing but  *)
(* a full buffer moves out_offs, and a slot not yet written is all zero.   *)
RingShape ==
  /\ OffsetAsserts(buffer)
  /\ ~buffer.full => /\ buffer.out_offs = 0
                     /\ \A i \in Index : buffer.entry[i] = NoEntry <=> i >= buffer.in_offs
  /\ buffer.full => \A i \in Index : buffer.entry[i] \in Entry

(* aesd_circular_buffer_add_entry implements the abstract log: the window  *)
(* holds the last MAX_WRITE_OPERATIONS entries added, oldest first, and    *)
(* what it returns for freeing is the entry that just left the window.     *)
Abstract == INSTANCE WriteLog WITH log <- Window(buffer)
ImplementsWriteLog == Abstract!Spec

(* aesd_circular_buffer_find_entry_offset_for_fpos finds, at every         *)
(* position, the byte that is there when the entries are laid end to end,  *)
(* and nothing beyond the last byte (aesd-circular-buffer.c:21-27).        *)
FindsTheByte ==
  \A p \in Positions(buffer) :
    aesd_circular_buffer_find_entry_offset_for_fpos(buffer, p) =
      IF p < Len(EndToEnd(buffer)) THEN EndToEnd(buffer)[p + 1] ELSE NULL

(* aesd_circular_buffer_offset_at accepts exactly the (entry, offset)      *)
(* pairs that name a byte, and the position it returns is the one at which *)
(* find_entry_offset_for_fpos finds that byte again; the byte size is one  *)
(* past the last such position (aesd-circular-buffer.h:71-75).             *)
SeekAndFindAgree ==
  LET seekable == {q \in (0 .. MAX_WRITE_OPERATIONS) \X (0 .. MAX_SIZE) :
                     aesd_circular_buffer_offset_at(buffer, q[1], q[2]) # NULL}
  IN  /\ Cardinality(seekable) = aesd_circular_buffer_bytes_size(buffer)
      /\ \A q \in seekable :
           aesd_circular_buffer_find_entry_offset_for_fpos(buffer,
             aesd_circular_buffer_offset_at(buffer, q[1], q[2]))
           = [slot |-> SlotAt(buffer, q[1]), offset |-> q[2]]
=============================================================================
