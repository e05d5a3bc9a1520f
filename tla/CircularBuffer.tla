--------------------------- MODULE CircularBuffer ---------------------------
(***************************************************************************)
(* The circular buffer of aesd-char-driver/aesd-circular-buffer.{c,h}:     *)
(* the functions on struct aesd_circular_buffer as operators on a record.  *)
(* A function that returns a value and changes the buffer returns a record *)
(* of both.  Callers do the locking, so nothing here is concurrent.        *)
(***************************************************************************)
EXTENDS Naturals, FiniteSetsExt

CONSTANTS MAX_WRITE_OPERATIONS,  \* AESDCHAR_MAX_WRITE_OPERATIONS_SUPPORTED
          NULL                   \* the null pointer

(* in_offs and out_offs are uint8_t and in_offs reaches the maximum for an *)
(* instant before it is wrapped, so the maximum must itself fit.           *)
ASSUME MaxAssumption == MAX_WRITE_OPERATIONS \in 1..255

Index == 0 .. MAX_WRITE_OPERATIONS - 1

(* NULL is told apart from an offset and from an entry that was found.     *)
ASSUME NullAssumption == NULL \notin Nat \cup [slot : Index, offset : Nat]

(* struct aesd_buffer_entry, and the all-zero one.                         *)
NoEntry == [buffptr |-> NULL, size |-> 0]

(* struct aesd_circular_buffer holding entries of the set Entry.           *)
Buffer(Entry) ==
  [entry : [Index -> Entry], in_offs : Index, out_offs : Index, full : BOOLEAN]

aesd_circular_buffer_init ==
  [entry |-> [i \in Index |-> NoEntry], in_offs |-> 0, out_offs |-> 0, full |-> FALSE]

-----------------------------------------------------------------------------
(* Mutant: the wrap of the offset is forgotten.                            *)
AdvanceNoWrap(i) == i + 1

(* An offset advanced by one, back to 0 at the end of the array.           *)
Advance(i) == IF i + 1 = MAX_WRITE_OPERATIONS THEN 0 ELSE i + 1

(* The slot a loop that starts at out_offs stands on after k turns.        *)
SlotAt(b, k) ==
  IF b.out_offs + k < MAX_WRITE_OPERATIONS
  THEN b.out_offs + k
  ELSE b.out_offs + k - MAX_WRITE_OPERATIONS

(* The number of entries in the buffer.                                    *)
aesd_circular_buffer_size(b) ==
  IF ~b.full /\ b.in_offs >= b.out_offs
  THEN b.in_offs - b.out_offs
  ELSE b.in_offs + MAX_WRITE_OPERATIONS - b.out_offs

(* The sizes of the first k entries, added up by the loops: the number of  *)
(* the bytes in them, each named by its entry and its offset there.        *)
BytesBefore(b, k) ==
  Cardinality(UNION {{n} \X (0 .. b.entry[SlotAt(b, n)].size - 1) : n \in 0 .. k - 1})

aesd_circular_buffer_bytes_size(b) ==
  BytesBefore(b, aesd_circular_buffer_size(b))

-----------------------------------------------------------------------------
(* Mutant: a full buffer is overwritten and out_offs is not advanced.      *)
AddEntryKeepingOut(b, e) ==
  LET in == Advance(b.in_offs)
  IN  [buffer  |-> [entry    |-> [b.entry EXCEPT ![b.in_offs] = e],
                    in_offs  |-> in,
                    out_offs |-> b.out_offs,
                    full     |-> b.full \/ in = b.out_offs],
       evicted |-> IF b.full THEN b.entry[b.in_offs] ELSE NoEntry]

(* Mutant: the evicted entry is read after the slot has been overwritten.  *)
AddEntryEvictingLate(b, e) ==
  LET in == Advance(b.in_offs)
  IN  [buffer  |-> [entry    |-> [b.entry EXCEPT ![b.in_offs] = e],
                    in_offs  |-> in,
                    out_offs |-> IF b.full THEN in ELSE b.out_offs,
                    full     |-> b.full \/ in = b.out_offs],
       evicted |-> IF b.full THEN e ELSE NoEntry]

(* Stores entry e at in_offs.  The result is the new buffer and the entry  *)
(* that was overwritten, NoEntry unless the buffer was full.               *)
aesd_circular_buffer_add_entry(b, e) ==
  LET in == Advance(b.in_offs)
  IN  [buffer  |-> [entry    |-> [b.entry EXCEPT ![b.in_offs] = e],
                    in_offs  |-> in,
                    out_offs |-> IF b.full THEN in ELSE b.out_offs,
                    full     |-> b.full \/ in = b.out_offs],
       evicted |-> IF b.full THEN b.entry[b.in_offs] ELSE NoEntry]

(* Mutant: `<=' for `<' in the search.                                     *)
FindOneLate(b, char_offset) ==
  LET beyond == {k \in 0 .. aesd_circular_buffer_size(b) - 1 :
                   char_offset <= BytesBefore(b, k + 1)}
      first  == Min(beyond)
  IN  IF beyond = {} THEN NULL
      ELSE [slot   |-> SlotAt(b, first),
            offset |-> char_offset - BytesBefore(b, first)]

(* The slot that holds byte char_offset of all entries laid end to end and *)
(* the byte's offset in it, or NULL when the buffer has no such byte: the  *)
(* loop stops at the first entry that ends beyond char_offset.             *)
aesd_circular_buffer_find_entry_offset_for_fpos(b, char_offset) ==
  LET beyond == {k \in 0 .. aesd_circular_buffer_size(b) - 1 :
                   char_offset < BytesBefore(b, k + 1)}
      first  == Min(beyond)
  IN  IF beyond = {} THEN NULL
      ELSE [slot   |-> SlotAt(b, first),
            offset |-> char_offset - BytesBefore(b, first)]

(* Mutant: an offset one past the end of the entry is accepted.            *)
OffsetAtOneLate(b, entry_index, entry_offset) ==
  IF \/ entry_index >= aesd_circular_buffer_size(b)
     \/ entry_offset > b.entry[SlotAt(b, entry_index)].size
  THEN NULL
  ELSE BytesBefore(b, entry_index) + entry_offset

(* The position of byte entry_offset of the entry_index-th entry, or NULL  *)
(* when there is no such entry or no such byte in it.                      *)
aesd_circular_buffer_offset_at(b, entry_index, entry_offset) ==
  IF \/ entry_index >= aesd_circular_buffer_size(b)
     \/ entry_offset >= b.entry[SlotAt(b, entry_index)].size
  THEN NULL
  ELSE BytesBefore(b, entry_index) + entry_offset

(* The three assertions at the head of find_entry and add_entry.           *)
OffsetAsserts(b) ==
  /\ b.in_offs < MAX_WRITE_OPERATIONS
  /\ b.out_offs < MAX_WRITE_OPERATIONS
  /\ b.full => b.in_offs = b.out_offs
=============================================================================
