--------------------------- MODULE AesdCharProofs ---------------------------
(***************************************************************************)
(* Proofs about the character driver: its lock, its memory and the lines   *)
(* in it, for any number of threads, files, blocks and bytes, and that it  *)
(* implements LineDevice.                                                  *)
(***************************************************************************)
EXTENDS AesdChar, CircularBufferProofs

(* The buffer is filled from slot 0 on; without the module there is        *)
(* nothing in it and nobody uses it.                                       *)
ShapeOK ==
  /\ RingOK(buffer)
  /\ loaded => \A i \in Index : buffer.entry[i].buffptr # NULL
                                  <=> (buffer.full \/ i < buffer.in_offs)
  /\ ~loaded => /\ opened = {} /\ temp_entry = NoEntry
                /\ \A i \in Index : buffer.entry[i] = NoEntry

(* A thread is in a call exactly when it has a file, which is open; what   *)
(* its locals hold depends on where it is.  The bytes it is about to add   *)
(* are what user space passed.                                             *)
CallsOK ==
  /\ DOMAIN found = Threads
  /\ \A t \in Threads :
       /\ pc[t] # "idle" => file[t] \in opened
       /\ pc[t] = "idle" => file[t] = NULL
       /\ pc[t] \in {"w_down", "w_body"} =>
            kern_buf[t] \in Blocks /\ heap[kern_buf[t]] \in UserBuffers
       /\ pc[t] \notin {"w_down", "w_body", "w_up", "w_free"} => kern_buf[t] = NULL
       /\ pc[t] \notin {"w_up", "w_free"} => evicted[t] = NULL
       /\ pc[t] # "r_up" => copied[t] = <<>>
       /\ pc[t] \notin {"r_copy", "r_up"} => found[t] = NULL

(* What a reader found is still what it would find.                        *)
FoundOK ==
  \A t \in Threads : pc[t] = "r_copy" =>
    /\ found[t] # NULL
    /\ found[t] = aesd_circular_buffer_find_entry_offset_for_fpos(buffer, pos[t])

Inv == /\ TypeOK /\ LockDiscipline /\ HeapOwned /\ LinesAreTerminated
       /\ ShapeOK /\ CallsOK /\ FoundOK

-----------------------------------------------------------------------------
(* One thread's part of the types.                                         *)
PCs == {"idle", "w_down", "w_body", "w_up", "w_free",
        "r_down", "r_find", "r_copy", "r_up", "r_ret",
        "i_down", "i_seek", "i_up", "l_down", "l_size", "l_up", "l_set"}

ArgFits(p, a) ==
  /\ p \in {"r_down", "r_find", "r_copy", "r_up", "r_ret"} => a \in {<<n>> : n \in Counts}
  /\ p \in {"i_down", "i_seek", "i_up"} => a \in SeekTos
  /\ p \in {"l_down", "l_size", "l_up", "l_set"} => a \in Seeks
  /\ p \in {"idle", "w_down", "w_body", "w_up", "w_free"} => a = <<>>

Found == {NULL} \cup [slot : Index, offset : Nat]

(* The variables that are shared, and those that are the threads' own.     *)
SharedTypes ==
  /\ loaded \in BOOLEAN
  /\ buffer \in Buffer(Entry) /\ temp_entry \in Entry
  /\ readers \in SUBSET Threads /\ writer \in Threads \cup {NULL}
  /\ heap \in [Blocks -> Seq(Bytes) \cup {Free}]
  /\ opened \in SUBSET Files /\ f_pos \in [Files -> Nat]

ThreadTypes ==
  /\ pc \in [Threads -> PCs]
  /\ file \in [Threads -> Files \cup {NULL}]
  /\ pos \in [Threads -> Nat]
  /\ DOMAIN arg = Threads /\ \A t \in Threads : ArgFits(pc[t], arg[t])
  /\ kern_buf \in [Threads -> Blocks \cup {NULL}]
  /\ evicted \in [Threads -> Blocks \cup {NULL}]
  /\ DOMAIN found = Threads /\ \A t \in Threads : found[t] \in Found
  /\ copied \in [Threads -> Seq(Bytes)]
  /\ ok \in [Threads -> BOOLEAN]

(* Together they are TypeOK.                                               *)
LEMMA TypesSplit == TypeOK /\ DOMAIN found = Threads <=> SharedTypes /\ ThreadTypes
<1>1. ASSUME pc \in [Threads -> PCs], NEW t \in Threads
      PROVE  ArgFits(pc[t], arg[t]) <=>
             CASE pc[t] \in {"r_down", "r_find", "r_copy", "r_up", "r_ret"}
                    -> arg[t] \in {<<n>> : n \in Counts}
               [] pc[t] \in {"i_down", "i_seek", "i_up"} -> arg[t] \in SeekTos
               [] pc[t] \in {"l_down", "l_size", "l_up", "l_set"} -> arg[t] \in Seeks
               [] OTHER -> arg[t] = <<>>
  <2>1. pc[t] \in PCs
    BY <1>1
  <2> QED BY <2>1 DEF ArgFits, PCs
<1>2. TypeOK /\ DOMAIN found = Threads => SharedTypes /\ ThreadTypes
  BY <1>1 DEF TypeOK, SharedTypes, ThreadTypes, Found, PCs
<1>3. SharedTypes /\ ThreadTypes => TypeOK /\ DOMAIN found = Threads
  BY <1>1 DEF TypeOK, SharedTypes, ThreadTypes, Found, PCs
<1> QED BY <1>2, <1>3

(* In the next state too.                                                  *)
LEMMA TypesJoin == SharedTypes' /\ ThreadTypes' => TypeOK'
BY TypesSplit, PTL

(* Thread t takes a step, after which the other threads' locals are as     *)
(* before.                                                                 *)
Put(x, y, t) == (\E v : y = [x EXCEPT ![t] = v]) \/ y = x

Moves(t) ==
  /\ Put(pc, pc', t) /\ Put(file, file', t) /\ Put(pos, pos', t) /\ Put(arg, arg', t)
  /\ Put(kern_buf, kern_buf', t) /\ Put(evicted, evicted', t) /\ Put(found, found', t)
  /\ Put(copied, copied', t) /\ Put(ok, ok', t)

Others(t) ==
  \A u \in Threads \ {t} :
    /\ pc'[u] = pc[u] /\ file'[u] = file[u] /\ pos'[u] = pos[u] /\ arg'[u] = arg[u]
    /\ kern_buf'[u] = kern_buf[u] /\ evicted'[u] = evicted[u] /\ found'[u] = found[u]
    /\ copied'[u] = copied[u] /\ ok'[u] = ok[u]

(* The locals of t, after the step, have their types.                      *)
OwnTypes(t) ==
  /\ pc'[t] \in PCs /\ file'[t] \in Files \cup {NULL} /\ pos'[t] \in Nat
  /\ ArgFits(pc'[t], arg'[t])
  /\ kern_buf'[t] \in Blocks \cup {NULL} /\ evicted'[t] \in Blocks \cup {NULL}
  /\ found'[t] \in Found /\ copied'[t] \in Seq(Bytes) /\ ok'[t] \in BOOLEAN

(* Such a step keeps the types of the threads' variables.                  *)
LEMMA ThreadMoves ==
  ASSUME ThreadTypes, NEW t \in Threads, Moves(t)
  PROVE  Others(t) /\ (OwnTypes(t) => ThreadTypes')
<1>1. \A u \in Threads \ {t} : pc'[u] = pc[u] /\ file'[u] = file[u] /\ pos'[u] = pos[u]
  BY DEF ThreadTypes, Moves, Put
<1>2. \A u \in Threads \ {t} : arg'[u] = arg[u] /\ kern_buf'[u] = kern_buf[u]
                                /\ evicted'[u] = evicted[u]
  BY DEF ThreadTypes, Moves, Put
<1>3. \A u \in Threads \ {t} : found'[u] = found[u] /\ copied'[u] = copied[u] /\ ok'[u] = ok[u]
  BY DEF ThreadTypes, Moves, Put
<1>4. Others(t)
  BY <1>1, <1>2, <1>3 DEF Others
<1>5. ASSUME OwnTypes(t) PROVE ThreadTypes'
  <2>1. pc' \in [Threads -> PCs] /\ file' \in [Threads -> Files \cup {NULL}]
    BY <1>5 DEF ThreadTypes, Moves, Put, OwnTypes
  <2>2. pos' \in [Threads -> Nat] /\ DOMAIN arg' = Threads
    BY <1>5 DEF ThreadTypes, Moves, Put, OwnTypes
  <2>3. kern_buf' \in [Threads -> Blocks \cup {NULL}] /\ evicted' \in [Threads -> Blocks \cup {NULL}]
    BY <1>5 DEF ThreadTypes, Moves, Put, OwnTypes
  <2>4. DOMAIN found' = Threads /\ copied' \in [Threads -> Seq(Bytes)]
        /\ ok' \in [Threads -> BOOLEAN]
    BY <1>5 DEF ThreadTypes, Moves, Put, OwnTypes
  <2>5. \A u \in Threads : ArgFits(pc'[u], arg'[u]) /\ found'[u] \in Found
    BY <1>1, <1>2, <1>3, <1>5 DEF ThreadTypes, OwnTypes
  <2> QED BY <2>1, <2>2, <2>3, <2>4, <2>5 DEF ThreadTypes
<1> QED BY <1>4, <1>5

-----------------------------------------------------------------------------
(* What the invariant says of thread t's locals, after the step.           *)
OwnCall(t) ==
  /\ pc'[t] # "idle" => file'[t] \in opened'
  /\ pc'[t] = "idle" => file'[t] = NULL
  /\ pc'[t] \in {"w_down", "w_body"} =>
       kern_buf'[t] \in Blocks /\ heap'[kern_buf'[t]] \in UserBuffers
  /\ pc'[t] \notin {"w_down", "w_body", "w_up", "w_free"} => kern_buf'[t] = NULL
  /\ pc'[t] \notin {"w_up", "w_free"} => evicted'[t] = NULL
  /\ pc'[t] # "r_up" => copied'[t] = <<>>
  /\ pc'[t] \notin {"r_copy", "r_up"} => found'[t] = NULL
  /\ pc'[t] = "r_copy" =>
       /\ found'[t] # NULL
       /\ found'[t] = aesd_circular_buffer_find_entry_offset_for_fpos(buffer', pos'[t])

(* A step that leaves the device and the memory alone, takes and gives     *)
(* back the lock as LockDiscipline says, and fits where the thread then    *)
(* is, keeps the invariant, and nobody who looks at the lines notices it.  *)
LEMMA QuietStep ==
  ASSUME Inv, NEW t \in Threads, Moves(t), OwnTypes(t), OwnCall(t),
         UNCHANGED <<loaded, buffer, temp_entry, heap, opened>>, f_pos' \in [Files -> Nat],
         readers' \in SUBSET Threads, writer' \in Threads \cup {NULL}, LockDiscipline',
         kern_buf'[t] = kern_buf[t], evicted'[t] = evicted[t]
  PROVE  Inv' /\ UNCHANGED <<Lines, Partial>>
<1>1. SharedTypes /\ ThreadTypes
  BY TypesSplit DEF Inv, CallsOK
<1>2. ThreadTypes' /\ Others(t)
  BY <1>1, ThreadMoves
<1>3. SharedTypes'
  BY <1>1 DEF SharedTypes
<1>4. TypeOK'
  BY <1>2, <1>3, TypesJoin
<1>5. \A u \in Threads : kern_buf'[u] = kern_buf[u] /\ evicted'[u] = evicted[u]
  BY <1>2 DEF Others
<1>6. HeapOwned'
  <2>1. \A q \in Places : PtrAt(q)' = PtrAt(q)
    BY <1>5 DEF Places, PtrAt
  <2>2. heap' = heap /\ Places' = Places
    BY DEF Places
  <2> QED BY <2>1, <2>2 DEF Inv, HeapOwned
<1>7. LinesAreTerminated' /\ UNCHANGED <<Lines, Partial>>
  BY DEF Inv, LinesAreTerminated, Lines, Partial
<1>8. ShapeOK'
  BY DEF Inv, ShapeOK
<1>9. CallsOK'
  <2>1. DOMAIN found' = Threads
    BY <1>2 DEF ThreadTypes
  <2>2. \A u \in Threads \ {t} : pc'[u] \in {"w_down", "w_body"} =>
               kern_buf'[u] \in Blocks /\ heap'[kern_buf'[u]] \in UserBuffers
    BY <1>2 DEF Inv, CallsOK, Others
  <2> QED BY <1>2, <2>1, <2>2 DEF Inv, CallsOK, Others, OwnCall
<1>10. FoundOK'
  BY <1>2 DEF Inv, FoundOK, Others, OwnCall
<1> QED BY <1>4, <1>6, <1>7, <1>8, <1>9, <1>10 DEF Inv

(* The lock after a step of thread t that leaves it as it is: t was and is *)
(* outside, or was and is inside in the same way.                          *)
LEMMA LockKept ==
  ASSUME LockDiscipline, NEW t \in Threads, UNCHANGED <<readers, writer>>,
         \A u \in Threads \ {t} : pc'[u] = pc[u],
         Reading(t)' <=> Reading(t), Writing(t)' <=> Writing(t)
  PROVE  LockDiscipline'
<1>1. \A u \in Threads : (Reading(u)' <=> Reading(u)) /\ (Writing(u)' <=> Writing(u))
  BY DEF Reading, Writing
<1> QED BY <1>1 DEF LockDiscipline

(* A writer takes the lock, and gives it back.                             *)
LEMMA WriterTakes ==
  ASSUME LockDiscipline, NEW t \in Threads, down_write(t), NULL \notin Threads,
         \A u \in Threads \ {t} : pc'[u] = pc[u], ~Reading(t)', Writing(t)'
  PROVE  LockDiscipline' /\ readers' = readers /\ writer' = t
<1>1. readers = {} /\ writer = NULL /\ writer' = t /\ readers' = readers
  BY DEF down_write
<1>2. \A u \in Threads \ {t} : (Reading(u)' <=> Reading(u)) /\ (Writing(u)' <=> Writing(u))
  BY DEF Reading, Writing
<1>3. \A u \in Threads : ~Reading(u)
  BY <1>1 DEF LockDiscipline
<1>4. \A u \in Threads : ~Writing(u)
  BY <1>1 DEF LockDiscipline
<1> QED BY <1>1, <1>2, <1>3, <1>4 DEF LockDiscipline

(* A writer gives the lock back.                                           *)
LEMMA WriterGives ==
  ASSUME LockDiscipline, NEW t \in Threads, up_write(t), NULL \notin Threads,
         \A u \in Threads \ {t} : pc'[u] = pc[u], Writing(t), ~Reading(t)', ~Writing(t)'
  PROVE  LockDiscipline' /\ readers' = readers /\ writer' = NULL
<1>1. writer = t /\ writer' = NULL /\ readers' = readers /\ readers = {}
  BY DEF up_write, LockDiscipline
<1>2. \A u \in Threads \ {t} : (Reading(u)' <=> Reading(u)) /\ (Writing(u)' <=> Writing(u))
  BY DEF Reading, Writing
<1>3. \A u \in Threads : ~Reading(u)
  BY <1>1 DEF LockDiscipline
<1>4. \A u \in Threads \ {t} : ~Writing(u)
  BY <1>1 DEF LockDiscipline
<1> QED BY <1>1, <1>2, <1>3, <1>4 DEF LockDiscipline

-----------------------------------------------------------------------------
(* write, ioctl and llseek take the lock.                                  *)
LEMMA WriterDownInv ==
  ASSUME Inv, NEW t \in Threads, WriteDown(t) \/ IoctlDown(t) \/ LseekDown(t)
  PROVE  Inv' /\ UNCHANGED <<Lines, Partial>>
<1>1. SharedTypes /\ ThreadTypes /\ NULL \notin Threads
  BY TypesSplit, AesdCharAssumption DEF Inv, CallsOK
<1>2. /\ \/ pc[t] = "w_down" /\ pc' = [pc EXCEPT ![t] = "w_body"]
         \/ pc[t] = "i_down" /\ pc' = [pc EXCEPT ![t] = "i_seek"]
         \/ pc[t] = "l_down" /\ pc' = [pc EXCEPT ![t] = "l_size"]
      /\ down_write(t)
      /\ UNCHANGED <<loaded, buffer, temp_entry, heap, opened, f_pos, file, pos, arg, kern_buf,
                     evicted, found, copied, ok>>
  BY DEF WriteDown, IoctlDown, LseekDown, Goto, dev, fs, call
<1>3. /\ Moves(t)
      /\ \/ pc[t] = "w_down" /\ pc'[t] = "w_body"
         \/ pc[t] = "i_down" /\ pc'[t] = "i_seek"
         \/ pc[t] = "l_down" /\ pc'[t] = "l_size"
  BY <1>1, <1>2 DEF Moves, Put, ThreadTypes
<1>4. OwnTypes(t) /\ OwnCall(t)
  <2>1. OwnTypes(t)
    BY <1>1, <1>2, <1>3 DEF ThreadTypes, OwnTypes, PCs, ArgFits
  <2>2. OwnCall(t)
    BY <1>2, <1>3 DEF Inv, CallsOK, OwnCall
  <2> QED BY <2>1, <2>2
<1>5. \A u \in Threads \ {t} : pc'[u] = pc[u]
  BY <1>1, <1>3, ThreadMoves DEF Others
<1>6. LockDiscipline' /\ readers' = readers /\ writer' = t
  BY <1>1, <1>2, <1>3, <1>5, WriterTakes DEF Inv, Reading, Writing
<1> QED BY <1>1, <1>2, <1>3, <1>4, <1>6, QuietStep DEF SharedTypes

(* The wait for the lock is ended by a signal; a fragment does not fit.    *)
LEMMA WriteFailsInv ==
  ASSUME Inv, NEW t \in Threads, WriteKilled(t) \/ WriteNoMem(t) \/ ReadInterrupted(t)
  PROVE  Inv' /\ UNCHANGED <<Lines, Partial>>
<1>1. SharedTypes /\ ThreadTypes
  BY TypesSplit DEF Inv, CallsOK
<1>2. /\ \/ pc[t] = "w_down" /\ pc' = [pc EXCEPT ![t] = "w_free"]
         \/ pc[t] = "w_body" /\ pc' = [pc EXCEPT ![t] = "w_up"]
         \/ pc[t] = "r_down" /\ pc' = [pc EXCEPT ![t] = "r_ret"]
      /\ ok' = [ok EXCEPT ![t] = FALSE]
      /\ UNCHANGED <<loaded, buffer, temp_entry, readers, writer, heap, opened, f_pos, file, pos,
                     arg, kern_buf, evicted, found, copied>>
  BY DEF WriteKilled, WriteNoMem, ReadInterrupted, Goto, dev, lock, fs
<1>3. /\ Moves(t) /\ ok'[t] = FALSE
      /\ \/ pc[t] = "w_down" /\ pc'[t] = "w_free"
         \/ pc[t] = "w_body" /\ pc'[t] = "w_up"
         \/ pc[t] = "r_down" /\ pc'[t] = "r_ret"
  BY <1>1, <1>2 DEF Moves, Put, ThreadTypes
<1>4. OwnTypes(t)
  BY <1>1, <1>2, <1>3 DEF ThreadTypes, OwnTypes, PCs, ArgFits
<1>5. OwnCall(t)
  BY <1>2, <1>3 DEF Inv, CallsOK, OwnCall
<1>6. \A u \in Threads \ {t} : pc'[u] = pc[u]
  BY <1>1, <1>3, ThreadMoves DEF Others
<1>7. LockDiscipline'
  BY <1>2, <1>3, <1>6, LockKept DEF Inv, Reading, Writing
<1> QED BY <1>1, <1>2, <1>3, <1>4, <1>5, <1>7, QuietStep DEF SharedTypes

(* write and llseek give the lock back and go on.                          *)
LEMMA WriterUpInv ==
  ASSUME Inv, NEW t \in Threads, WriteUp(t) \/ LseekUp(t)
  PROVE  Inv' /\ UNCHANGED <<Lines, Partial>>
<1>1. SharedTypes /\ ThreadTypes /\ NULL \notin Threads
  BY TypesSplit, AesdCharAssumption DEF Inv, CallsOK
<1>2. /\ \/ pc[t] = "w_up" /\ pc' = [pc EXCEPT ![t] = "w_free"]
         \/ pc[t] = "l_up" /\ pc' = [pc EXCEPT ![t] = "l_set"]
      /\ up_write(t)
      /\ UNCHANGED <<loaded, buffer, temp_entry, heap, opened, f_pos, file, pos, arg, kern_buf,
                     evicted, found, copied, ok>>
  BY DEF WriteUp, LseekUp, Goto, dev, fs, call
<1>3. /\ Moves(t)
      /\ \/ pc[t] = "w_up" /\ pc'[t] = "w_free"
         \/ pc[t] = "l_up" /\ pc'[t] = "l_set"
  BY <1>1, <1>2 DEF Moves, Put, ThreadTypes
<1>4. OwnTypes(t)
  BY <1>1, <1>2, <1>3 DEF ThreadTypes, OwnTypes, PCs, ArgFits
<1>5. OwnCall(t)
  BY <1>2, <1>3 DEF Inv, CallsOK, OwnCall
<1>6. \A u \in Threads \ {t} : pc'[u] = pc[u]
  BY <1>1, <1>3, ThreadMoves DEF Others
<1>7. LockDiscipline' /\ readers' = readers /\ writer' = NULL
  BY <1>1, <1>2, <1>3, <1>6, WriterGives DEF Inv, Reading, Writing
<1> QED BY <1>1, <1>2, <1>3, <1>4, <1>5, <1>7, QuietStep DEF SharedTypes

(* read, ioctl and llseek enter.                                           *)
LEMMA EnterInv ==
  ASSUME Inv, NEW t \in Threads, NEW f \in Files,
         \/ \E count \in Counts : ReadEnter(t, f, count)
         \/ \E seekto \in SeekTos : IoctlEnter(t, f, seekto)
         \/ \E seek \in Seeks : LseekEnter(t, f, seek)
  PROVE  Inv' /\ UNCHANGED <<Lines, Partial>>
<1>1. SharedTypes /\ ThreadTypes
  BY TypesSplit DEF Inv, CallsOK
<1>2. /\ pc[t] = "idle" /\ \E p \in PCs : pc' = [pc EXCEPT ![t] = p]
      /\ f \in opened /\ file' = [file EXCEPT ![t] = f]
      /\ pos' = pos \/ pos' = [pos EXCEPT ![t] = f_pos[f]]
      /\ \E a : arg' = [arg EXCEPT ![t] = a]
      /\ UNCHANGED <<loaded, buffer, temp_entry, readers, writer, heap, opened, f_pos, kern_buf,
                     evicted, found, copied, ok>>
  BY DEF ReadEnter, IoctlEnter, LseekEnter, Enter, Goto, dev, lock, fs, PCs
<1>3. Moves(t)
  BY <1>2 DEF Moves, Put
<1>4. /\ \/ pc'[t] = "r_down" /\ arg'[t] \in {<<n>> : n \in Counts}
         \/ pc'[t] = "i_down" /\ arg'[t] \in SeekTos
         \/ pc'[t] = "l_down" /\ arg'[t] \in Seeks
      /\ file'[t] = f /\ pos'[t] \in Nat
  <2>1. file'[t] = f /\ pos'[t] \in Nat
    BY <1>1, <1>2 DEF ThreadTypes, SharedTypes
  <2> QED BY <1>1, <2>1 DEF ThreadTypes, ReadEnter, IoctlEnter, LseekEnter, Enter, Goto
<1>5. OwnTypes(t)
  BY <1>1, <1>2, <1>4 DEF ThreadTypes, OwnTypes, PCs, ArgFits
<1>6. OwnCall(t)
  BY <1>2, <1>4 DEF Inv, CallsOK, OwnCall
<1>7. \A u \in Threads \ {t} : pc'[u] = pc[u]
  BY <1>1, <1>3, ThreadMoves DEF Others
<1>8. LockDiscipline'
  BY <1>2, <1>4, <1>7, LockKept DEF Inv, Reading, Writing
<1> QED BY <1>1, <1>2, <1>3, <1>5, <1>6, <1>8, QuietStep DEF SharedTypes

-----------------------------------------------------------------------------
(* A slot that has a size has memory, and that is the line.                *)
LEMMA SlotLine ==
  ASSUME Inv, NEW i \in Index, buffer.entry[i].buffptr # NULL
  PROVE  LET e == buffer.entry[i]
         IN  /\ e.buffptr \in Blocks /\ e.size \in Nat
             /\ heap[e.buffptr] \in Seq(Bytes) /\ heap[e.buffptr] # Free
             /\ Len(heap[e.buffptr]) = e.size
<1> DEFINE e == buffer.entry[i]
<1>1. e \in Entry /\ e # NoEntry
  BY DEF Inv, TypeOK, Buffer, NoEntry
<1>2. e.buffptr \in Blocks /\ e.size \in Nat
  BY <1>1 DEF Entry
<1>3. <<i, "slot">> \in Places /\ PtrAt(<<i, "slot">>) = e.buffptr
  BY DEF Places, PtrAt
<1> HIDE DEF e
<1>4. heap[e.buffptr] # Free
  BY <1>2, <1>3 DEF Inv, HeapOwned
<1>5. heap[e.buffptr] \in Seq(Bytes)
  BY <1>2, <1>4 DEF Inv, TypeOK
<1>6. Len(heap[e.buffptr]) = e.size
  BY DEF Inv, LinesAreTerminated, e
<1> QED BY <1>2, <1>4, <1>5, <1>6 DEF e

(* The entry a reader has found, when it comes to copy.                    *)
LEMMA ReaderStands ==
  ASSUME Inv, NEW t \in Threads, pc[t] = "r_copy"
  PROVE  LET entry == buffer.entry[found[t].slot]
         IN  /\ found[t] = aesd_circular_buffer_find_entry_offset_for_fpos(buffer, pos[t])
             /\ found[t].slot \in Index /\ found[t].offset \in Nat
             /\ entry.buffptr # NULL /\ entry.buffptr \in Blocks
             /\ entry.size \in Nat /\ found[t].offset < entry.size
             /\ heap[entry.buffptr] \in Seq(Bytes) /\ heap[entry.buffptr] # Free
             /\ Len(heap[entry.buffptr]) = entry.size
<1> DEFINE r == aesd_circular_buffer_find_entry_offset_for_fpos(buffer, pos[t])
           entry == buffer.entry[found[t].slot]
<1>1. found[t] = r /\ r # NULL /\ pos[t] \in Nat /\ RingOK(buffer)
  BY DEF Inv, FoundOK, TypeOK, ShapeOK
<1>2. PICK k \in 0 .. aesd_circular_buffer_size(buffer) - 1 :
        /\ r = [slot |-> SlotAt(buffer, k), offset |-> pos[t] - BytesBefore(buffer, k)]
        /\ SlotAt(buffer, k) \in Index
        /\ BytesBefore(buffer, k) \in Nat /\ BytesBefore(buffer, k) <= pos[t]
        /\ pos[t] - BytesBefore(buffer, k) < buffer.entry[SlotAt(buffer, k)].size
  BY <1>1, FindEntry
<1> HIDE DEF r
<1>3. found[t].slot \in Index /\ found[t].offset \in Nat /\ found[t].offset < entry.size
  BY <1>1, <1>2
<1>4. entry \in Entry
  BY <1>3 DEF Inv, TypeOK, Buffer
<1>5. entry.buffptr # NULL
  BY <1>3, <1>4, AesdCharAssumption DEF Entry, NoEntry
<1> HIDE DEF entry
<1> QED BY <1>1, <1>3, <1>5, SlotLine DEF r, entry

(* A reader takes the lock.                                                *)
LEMMA ReadDownInv ==
  ASSUME Inv, NEW t \in Threads, ReadDown(t) PROVE Inv' /\ UNCHANGED <<Lines, Partial>>
<1>1. SharedTypes /\ ThreadTypes /\ NULL \notin Threads
  BY TypesSplit, AesdCharAssumption DEF Inv, CallsOK
<1>2. /\ pc[t] = "r_down" /\ pc' = [pc EXCEPT ![t] = "r_find"]
      /\ writer = NULL /\ writer' = writer /\ readers' = readers \cup {t}
      /\ UNCHANGED <<loaded, buffer, temp_entry, heap, opened, f_pos, file, pos, arg, kern_buf,
                     evicted, found, copied, ok>>
  BY DEF ReadDown, Goto, dev, fs, call
<1>3. Moves(t) /\ pc'[t] = "r_find"
  BY <1>1, <1>2 DEF Moves, Put, ThreadTypes
<1>4. OwnTypes(t)
  BY <1>1, <1>2, <1>3 DEF ThreadTypes, OwnTypes, PCs, ArgFits
<1>5. OwnCall(t)
  BY <1>2, <1>3 DEF Inv, CallsOK, OwnCall
<1>6. \A u \in Threads \ {t} : pc'[u] = pc[u]
  BY <1>1, <1>3, ThreadMoves DEF Others
<1>7. LockDiscipline'
  <2>1. \A u \in Threads \ {t} : (Reading(u)' <=> Reading(u)) /\ (Writing(u)' <=> Writing(u))
    BY <1>6 DEF Reading, Writing
  <2>2. Reading(t)' /\ ~Writing(t)' /\ ~Writing(t)
    BY <1>2, <1>3 DEF Reading, Writing
  <2> QED BY <1>1, <1>2, <2>1, <2>2 DEF Inv, LockDiscipline
<1> QED BY <1>1, <1>2, <1>3, <1>4, <1>5, <1>7, QuietStep DEF SharedTypes

(* A reader gives the lock back.                                           *)
LEMMA ReadUpInv ==
  ASSUME Inv, NEW t \in Threads, ReadUp(t) PROVE Inv' /\ UNCHANGED <<Lines, Partial>>
<1>1. SharedTypes /\ ThreadTypes
  BY TypesSplit DEF Inv, CallsOK
<1>2. /\ pc[t] = "r_up" /\ pc' = [pc EXCEPT ![t] = "r_ret"]
      /\ readers' = readers \ {t}
      /\ found' = [found EXCEPT ![t] = NULL] /\ copied' = [copied EXCEPT ![t] = <<>>]
      /\ UNCHANGED <<loaded, buffer, temp_entry, writer, heap, opened, f_pos, file, pos, arg,
                     kern_buf, evicted, ok>>
  BY DEF ReadUp, Goto, dev, fs
<1>3. Moves(t) /\ pc'[t] = "r_ret" /\ found'[t] = NULL /\ copied'[t] = <<>>
  BY <1>1, <1>2 DEF Moves, Put, ThreadTypes
<1>4. OwnTypes(t)
  BY <1>1, <1>2, <1>3 DEF ThreadTypes, OwnTypes, PCs, ArgFits, Found
<1>5. OwnCall(t)
  BY <1>2, <1>3 DEF Inv, CallsOK, OwnCall
<1>6. \A u \in Threads \ {t} : pc'[u] = pc[u]
  BY <1>1, <1>3, ThreadMoves DEF Others
<1>7. LockDiscipline'
  <2>1. \A u \in Threads \ {t} : (Reading(u)' <=> Reading(u)) /\ (Writing(u)' <=> Writing(u))
    BY <1>6 DEF Reading, Writing
  <2>2. ~Reading(t)' /\ Reading(t) /\ ~Writing(t)' /\ ~Writing(t)
    BY <1>2, <1>3 DEF Reading, Writing
  <2> QED BY <1>1, <1>2, <2>1, <2>2 DEF Inv, LockDiscipline
<1> QED BY <1>1, <1>2, <1>3, <1>4, <1>5, <1>7, QuietStep DEF SharedTypes

(* A reader looks for its position.                                        *)
LEMMA ReadFindInv ==
  ASSUME Inv, NEW t \in Threads, ReadFind(t) PROVE Inv' /\ UNCHANGED <<Lines, Partial>>
<1> DEFINE e == aesd_circular_buffer_find_entry_offset_for_fpos(buffer, pos[t])
<1>1. SharedTypes /\ ThreadTypes /\ RingOK(buffer)
  BY TypesSplit DEF Inv, CallsOK, ShapeOK
<1>2. /\ pc[t] = "r_find" /\ pc' = [pc EXCEPT ![t] = IF e = NULL THEN "r_up" ELSE "r_copy"]
      /\ found' = [found EXCEPT ![t] = e]
      /\ UNCHANGED <<loaded, buffer, temp_entry, readers, writer, heap, opened, f_pos, file, pos,
                     arg, kern_buf, evicted, copied, ok>>
  BY DEF ReadFind, Goto, dev, lock, fs
<1>3. e \in Found
  <2>1. pos[t] \in Nat
    BY <1>1 DEF ThreadTypes
  <2> QED BY <1>1, <2>1, FindEntry DEF Found
<1> HIDE DEF e
<1>4. Moves(t) /\ pc'[t] = (IF e = NULL THEN "r_up" ELSE "r_copy") /\ found'[t] = e
  BY <1>1, <1>2 DEF Moves, Put, ThreadTypes
<1>5. OwnTypes(t)
  BY <1>1, <1>2, <1>3, <1>4 DEF ThreadTypes, OwnTypes, PCs, ArgFits
<1>6. OwnCall(t)
  BY <1>2, <1>4 DEF Inv, CallsOK, OwnCall, e
<1>7. \A u \in Threads \ {t} : pc'[u] = pc[u]
  BY <1>1, <1>4, ThreadMoves DEF Others
<1>8. LockDiscipline'
  BY <1>2, <1>4, <1>7, LockKept DEF Inv, Reading, Writing
<1> QED BY <1>1, <1>2, <1>4, <1>5, <1>6, <1>8, QuietStep DEF SharedTypes

(* How much a reader copies: something, and no more than the entry has.    *)
LEMMA CopySize ==
  ASSUME Inv, NEW t \in Threads, pc[t] = "r_copy"
  PROVE  LET entry == buffer.entry[found[t].slot]
             size  == Min({arg[t][1], entry.size - found[t].offset})
         IN  size \in Nat \ {0} /\ found[t].offset + size <= entry.size
<1> DEFINE entry == buffer.entry[found[t].slot]
           S == {arg[t][1], entry.size - found[t].offset}
<1>1. found[t].offset \in Nat /\ entry.size \in Nat /\ found[t].offset < entry.size
  BY ReaderStands
<1>2. arg[t][1] \in Nat \ {0}
  <2>1. ArgFits(pc[t], arg[t])
    BY TypesSplit DEF Inv, CallsOK, ThreadTypes
  <2> QED BY <2>1, AesdCharAssumption DEF ArgFits
<1> HIDE DEF entry
<1>3. S \subseteq Nat /\ S # {}
  BY <1>1, <1>2
<1>4. Min(S) \in S /\ \A y \in S : Min(S) <= y
  BY <1>3, MinOfNaturals
<1> QED BY <1>1, <1>2, <1>4 DEF entry

(* A reader copies, or faults.                                             *)
LEMMA ReadCopyInv ==
  ASSUME Inv, NEW t \in Threads, ReadCopy(t) PROVE Inv' /\ UNCHANGED <<Lines, Partial>>
<1> DEFINE entry == buffer.entry[found[t].slot]
           size == Min({arg[t][1], entry.size - found[t].offset})
           o == found[t].offset
           data == SubSeq(heap[entry.buffptr], o + 1, o + size)
<1>1. SharedTypes /\ ThreadTypes
  BY TypesSplit DEF Inv, CallsOK
<1>2. /\ pc[t] = "r_copy" /\ pc' = [pc EXCEPT ![t] = "r_up"]
      /\ \/ copied' = [copied EXCEPT ![t] = data] /\ pos' = [pos EXCEPT ![t] = @ + size]
            /\ ok' = ok
         \/ ok' = [ok EXCEPT ![t] = FALSE] /\ copied' = copied /\ pos' = pos
      /\ UNCHANGED <<loaded, buffer, temp_entry, readers, writer, heap, opened, f_pos, file,
                     arg, kern_buf, evicted, found>>
  BY DEF ReadCopy, Goto, FromOffset, dev, lock, fs
<1>3. o \in Nat /\ entry.size \in Nat /\ heap[entry.buffptr] \in Seq(Bytes)
      /\ Len(heap[entry.buffptr]) = entry.size
  BY <1>2, ReaderStands
<1>4. size \in Nat \ {0} /\ o + size <= entry.size
  BY <1>2, CopySize
<1> HIDE DEF entry, size, o
<1>5. data \in Seq(Bytes)
  BY <1>3, <1>4
<1> HIDE DEF data
<1>6. Moves(t)
  BY <1>2 DEF Moves, Put
<1>7. pc'[t] = "r_up" /\ copied'[t] \in Seq(Bytes) /\ pos'[t] \in Nat /\ ok'[t] \in BOOLEAN
  <2>1. /\ pc \in [Threads -> PCs] /\ copied \in [Threads -> Seq(Bytes)] /\ pos \in [Threads -> Nat]
        /\ ok \in [Threads -> BOOLEAN]
    BY <1>1 DEF ThreadTypes
  <2>2. pc'[t] = "r_up"
    BY <1>2, <2>1
  <2>3. copied'[t] \in Seq(Bytes)
    BY <1>2, <1>5, <2>1
  <2>4. pos'[t] \in Nat
    BY <1>2, <1>4, <2>1
  <2>5. ok'[t] \in BOOLEAN
    BY <1>2, <2>1
  <2> QED BY <2>2, <2>3, <2>4, <2>5
<1>8. OwnTypes(t)
  BY <1>1, <1>2, <1>7 DEF ThreadTypes, OwnTypes, PCs, ArgFits
<1>9. OwnCall(t)
  BY <1>2, <1>7 DEF Inv, CallsOK, OwnCall
<1>10. \A u \in Threads \ {t} : pc'[u] = pc[u]
  BY <1>1, <1>6, ThreadMoves DEF Others
<1>11. LockDiscipline'
  BY <1>2, <1>7, <1>10, LockKept DEF Inv, Reading, Writing
<1> QED BY <1>1, <1>2, <1>6, <1>8, <1>9, <1>11, QuietStep DEF SharedTypes

-----------------------------------------------------------------------------
(* A thread leaves a call in which it holds no memory: the file offset it  *)
(* stores is one.                                                          *)
LEMMA LeaveInv ==
  ASSUME Inv, NEW t \in Threads,
         ReadReturn(t) \/ IoctlKilled(t) \/ LseekKilled(t) \/ IoctlUp(t) \/ LseekSet(t)
  PROVE  Inv' /\ UNCHANGED <<Lines, Partial>>
<1>1. SharedTypes /\ ThreadTypes /\ NULL \notin Threads
  BY TypesSplit, AesdCharAssumption DEF Inv, CallsOK
<1>2. /\ pc[t] \in {"r_ret", "i_down", "l_down", "i_up", "l_set"}
      /\ pc' = [pc EXCEPT ![t] = "idle"]
      /\ Leave(t)
      /\ UNCHANGED <<loaded, buffer, temp_entry, heap, opened>>
      /\ IF pc[t] = "i_up" THEN up_write(t) ELSE UNCHANGED <<readers, writer>>
  BY DEF ReadReturn, IoctlKilled, LseekKilled, IoctlUp, LseekSet, Goto, dev, lock, fs
<1>3. Moves(t)
  BY <1>2 DEF Moves, Put, Leave
<1>4. /\ pc'[t] = "idle" /\ file'[t] = NULL /\ pos'[t] = 0 /\ arg'[t] = <<>>
      /\ kern_buf'[t] = NULL /\ evicted'[t] = NULL /\ found'[t] = NULL /\ copied'[t] = <<>>
      /\ ok'[t] = TRUE
  <2>1. pc'[t] = "idle" /\ file'[t] = NULL /\ pos'[t] = 0
    BY <1>1, <1>2 DEF ThreadTypes, Leave
  <2>2. arg'[t] = <<>> /\ kern_buf'[t] = NULL /\ evicted'[t] = NULL
    BY <1>1, <1>2 DEF ThreadTypes, Leave
  <2>3. found'[t] = NULL /\ copied'[t] = <<>>
    BY <1>1, <1>2 DEF ThreadTypes, Leave
  <2>4. ok'[t] = TRUE
    BY <1>1, <1>2 DEF ThreadTypes, Leave
  <2> QED BY <2>1, <2>2, <2>3, <2>4
<1>5. OwnTypes(t)
  <2>1. ArgFits(pc'[t], arg'[t]) /\ pc'[t] \in PCs
    BY <1>4 DEF PCs, ArgFits
  <2>2. copied'[t] \in Seq(Bytes)
    BY <1>4
  <2>3. pos'[t] \in Nat
    BY <1>4
  <2>4. ok'[t] \in BOOLEAN
    <3>1. ok'[t] = TRUE
      BY <1>4
    <3> QED BY <3>1, Zenon
  <2> QED BY <1>4, <2>1, <2>2, <2>3, <2>4 DEF OwnTypes, Found
<1>6. OwnCall(t)
  BY <1>4 DEF OwnCall
<1>7. \A u \in Threads \ {t} : pc'[u] = pc[u]
  BY <1>1, <1>3, ThreadMoves DEF Others
<1>8. ~Reading(t) /\ ~Reading(t)' /\ ~Writing(t)' /\ (Writing(t) <=> pc[t] = "i_up")
  BY <1>2, <1>4 DEF Reading, Writing
<1>9. LockDiscipline' /\ readers' = readers /\ writer' \in {writer, NULL}
  <2>1. CASE pc[t] = "i_up"
    BY <1>1, <1>2, <1>7, <1>8, <2>1, WriterGives DEF Inv
  <2>2. CASE pc[t] # "i_up"
    BY <1>2, <1>7, <1>8, <2>2, LockKept DEF Inv
  <2> QED BY <2>1, <2>2
<1>10. f_pos' \in [Files -> Nat]
  <2>1. f_pos \in [Files -> Nat] /\ pos[t] \in Nat
    BY <1>1 DEF SharedTypes, ThreadTypes
  <2>2. CASE ReadReturn(t)
    BY <2>1, <2>2 DEF ReadReturn, StorePos
  <2>3. CASE LseekSet(t)
    <3> DEFINE target == arg[t][2] + CASE arg[t][1] = SEEK_SET -> 0
                                       [] arg[t][1] = SEEK_CUR -> f_pos[file[t]]
                                       [] arg[t][1] = SEEK_END -> pos[t]
    <3>1. f_pos' = IF target \in 0..pos[t] THEN [f_pos EXCEPT ![file[t]] = target] ELSE f_pos
      BY <2>3 DEF LseekSet
    <3> HIDE DEF target
    <3>2. target \in 0..pos[t] => target \in Nat
      BY <2>1
    <3>3. CASE target \in 0..pos[t]
      <4>1. f_pos' = [f_pos EXCEPT ![file[t]] = target]
        BY <3>1, <3>3
      <4> QED BY <2>1, <3>2, <3>3, <4>1
    <3> QED BY <2>1, <3>1, <3>3
  <2>4. CASE IoctlKilled(t) \/ LseekKilled(t) \/ IoctlUp(t)
    BY <2>1, <2>4 DEF IoctlKilled, LseekKilled, IoctlUp, fs
  <2> QED BY <2>2, <2>3, <2>4
<1>11. kern_buf[t] = NULL /\ evicted[t] = NULL
  BY <1>2 DEF Inv, CallsOK
<1> QED BY <1>1, <1>2, <1>3, <1>4, <1>5, <1>6, <1>9, <1>10, <1>11, QuietStep DEF SharedTypes

(* ioctl moves the file offset, and llseek takes the size.                 *)
LEMMA SeekInv ==
  ASSUME Inv, NEW t \in Threads, IoctlSeek(t) \/ LseekSize(t)
  PROVE  Inv' /\ UNCHANGED <<Lines, Partial>>
<1> DEFINE seek == aesd_circular_buffer_offset_at(buffer, arg[t][1], arg[t][2])
           size == aesd_circular_buffer_bytes_size(buffer)
<1>1. SharedTypes /\ ThreadTypes /\ RingOK(buffer)
  BY TypesSplit DEF Inv, CallsOK, ShapeOK
<1>2. /\ \/ /\ pc[t] = "i_seek" /\ pc' = [pc EXCEPT ![t] = "i_up"] /\ pos' = pos
            /\ f_pos' = IF seek = NULL THEN f_pos ELSE [f_pos EXCEPT ![file[t]] = seek]
         \/ /\ pc[t] = "l_size" /\ pc' = [pc EXCEPT ![t] = "l_up"]
            /\ pos' = [pos EXCEPT ![t] = size] /\ f_pos' = f_pos
      /\ UNCHANGED <<loaded, buffer, temp_entry, readers, writer, heap, opened, file,
                     arg, kern_buf, evicted, found, copied, ok>>
  BY DEF IoctlSeek, LseekSize, Goto, dev, lock, fs, call
<1>3. size \in Nat
  BY <1>1, BytesSizeType
<1>4. pc[t] = "i_seek" /\ seek # NULL => seek \in Nat
  <2> SUFFICES ASSUME pc[t] = "i_seek", seek # NULL PROVE seek \in Nat
    OBVIOUS
  <2>1. arg[t] \in Nat \X Nat
    BY <1>1, AesdCharAssumption DEF ThreadTypes, ArgFits
  <2>2. arg[t][1] \in Nat /\ arg[t][2] \in Nat
    BY <2>1
  <2> QED BY <1>1, <2>2, SeekThenFind
<1> HIDE DEF seek, size
<1>5. Moves(t)
  BY <1>2 DEF Moves, Put
<1>6. /\ (pc[t] = "i_seek" /\ pc'[t] = "i_up") \/ (pc[t] = "l_size" /\ pc'[t] = "l_up")
      /\ pos'[t] \in Nat /\ f_pos' \in [Files -> Nat]
  <2>1. (pc[t] = "i_seek" /\ pc'[t] = "i_up") \/ (pc[t] = "l_size" /\ pc'[t] = "l_up")
    BY <1>1, <1>2 DEF ThreadTypes
  <2>2. pos'[t] \in Nat
    BY <1>1, <1>2, <1>3 DEF ThreadTypes
  <2>3. f_pos' \in [Files -> Nat]
    BY <1>1, <1>2, <1>4 DEF SharedTypes
  <2> QED BY <2>1, <2>2, <2>3
<1>7. OwnTypes(t)
  BY <1>1, <1>2, <1>6 DEF ThreadTypes, OwnTypes, PCs, ArgFits
<1>8. OwnCall(t)
  BY <1>2, <1>6 DEF Inv, CallsOK, OwnCall
<1>9. \A u \in Threads \ {t} : pc'[u] = pc[u]
  BY <1>1, <1>5, ThreadMoves DEF Others
<1>10. LockDiscipline'
  BY <1>2, <1>6, <1>9, LockKept DEF Inv, Reading, Writing
<1> QED BY <1>1, <1>2, <1>5, <1>6, <1>7, <1>8, <1>10, QuietStep DEF SharedTypes

(* A file is opened or closed for the last time.                           *)
LEMMA OpenInv ==
  ASSUME Inv, NEW f \in Files, aesd_open(f) \/ aesd_release(f)
  PROVE  Inv' /\ UNCHANGED <<Lines, Partial>>
<1>1. /\ opened' \in SUBSET Files /\ f_pos' = [f_pos EXCEPT ![f] = 0]
      /\ \/ loaded /\ opened' = opened \cup {f}
         \/ opened' = opened \ {f} /\ \A t \in Threads : file[t] # f
      /\ UNCHANGED <<loaded, buffer, temp_entry, readers, writer, heap, pc, file, pos, arg,
                     kern_buf, evicted, found, copied, ok>>
  BY DEF Inv, TypeOK, aesd_open, aesd_release, dev, lock, call
<1>2. f_pos' \in [Files -> Nat]
  BY <1>1 DEF Inv, TypeOK
<1>3. SharedTypes /\ ThreadTypes
  BY TypesSplit DEF Inv, CallsOK
<1>4. TypeOK'
  <2>1. SharedTypes'
    BY <1>1, <1>2, <1>3 DEF SharedTypes
  <2>2. ThreadTypes'
    BY <1>1, <1>3 DEF ThreadTypes
  <2> QED BY <2>1, <2>2, TypesJoin
<1>5. LockDiscipline' /\ LinesAreTerminated' /\ UNCHANGED <<Lines, Partial>>
  BY <1>1 DEF Inv, LockDiscipline, Reading, Writing, LinesAreTerminated, Lines, Partial
<1>6. HeapOwned'
  <2>1. \A q \in Places : PtrAt(q)' = PtrAt(q)
    BY <1>1 DEF PtrAt
  <2>2. heap' = heap /\ Places' = Places
    BY <1>1 DEF Places
  <2> QED BY <2>1, <2>2 DEF Inv, HeapOwned
<1>7. ShapeOK' /\ FoundOK'
  BY <1>1 DEF Inv, ShapeOK, FoundOK
<1>8. CallsOK'
  BY <1>1 DEF Inv, CallsOK
<1> QED BY <1>4, <1>5, <1>6, <1>7, <1>8 DEF Inv

-----------------------------------------------------------------------------
(* Memory in terms of what each place points to, P, and of the blocks, h:  *)
(* no block is in two places, and a block is allocated exactly when it is  *)
(* in one.                                                                 *)
Own(P, h) ==
  /\ \A p, q \in Places : P[p] # NULL /\ P[p] = P[q] => p = q
  /\ \A b \in Blocks : h[b] # Free <=> \E p \in Places : P[p] = b

Pointers == [p \in Places |-> PtrAt(p)]

(* That is HeapOwned, in this state and in the next.                       *)
LEMMA OwnedPointers == HeapOwned <=> Own(Pointers, heap)
BY DEF HeapOwned, Own, Pointers

(* The same of the next state.                                             *)
LEMMA OwnedPointersNext == HeapOwned' <=> Own(Pointers', heap')
<1>1. Places' = Places
  BY DEF Places
<1>2. \A p \in Places : Pointers'[p] = PtrAt(p)'
  BY <1>1 DEF Pointers
<1> QED BY <1>1, <1>2 DEF HeapOwned, Own

(* kmalloc: a free block goes to a place that has none.                    *)
LEMMA OwnAlloc ==
  ASSUME NEW P \in [Places -> Blocks \cup {NULL}], NEW h \in [Blocks -> Seq(Bytes) \cup {Free}],
         Own(P, h), NULL \notin Blocks, Free \notin Seq(Bytes),
         NEW x \in Places, P[x] = NULL, NEW b \in Blocks, h[b] = Free, NEW data \in Seq(Bytes)
  PROVE  Own([P EXCEPT ![x] = b], [h EXCEPT ![b] = data])
BY DEF Own

(* kfree of what some places hold, which they then forget.                 *)
LEMMA OwnFree ==
  ASSUME NEW P \in [Places -> Blocks \cup {NULL}], NEW h \in [Blocks -> Seq(Bytes) \cup {Free}],
         Own(P, h), NULL \notin Blocks, NEW X \in SUBSET Places
  PROVE  Own([p \in Places |-> IF p \in X THEN NULL ELSE P[p]],
             [b \in Blocks |-> IF \E p \in X : P[p] = b THEN Free ELSE h[b]])
BY DEF Own

(* krealloc: the block of a place is replaced, or grows where it is.       *)
LEMMA OwnRealloc ==
  ASSUME NEW P \in [Places -> Blocks \cup {NULL}], NEW h \in [Blocks -> Seq(Bytes) \cup {Free}],
         Own(P, h), NULL \notin Blocks, Free \notin Seq(Bytes),
         NEW x \in Places, P[x] # NULL, NEW b \in Blocks, h[b] = Free \/ b = P[x],
         NEW data \in Seq(Bytes),
         NEW g, g = [[c \in Blocks |-> IF c = P[x] THEN Free ELSE h[c]] EXCEPT ![b] = data]
  PROVE  Own([P EXCEPT ![x] = b], g)
BY DEF Own

(* Pointers are handed on: y gets that of x and z, which had none, gets    *)
(* that of y; x has none afterwards.                                       *)
LEMMA OwnHandOn ==
  ASSUME NEW P \in [Places -> Blocks \cup {NULL}], NEW h,
         Own(P, h), NULL \notin Blocks, NEW x \in Places, NEW y \in Places, NEW z \in Places,
         x # y, y # z, x # z, P[z] = NULL
  PROVE  Own([P EXCEPT ![x] = NULL, ![y] = P[x], ![z] = P[y]], h)
BY DEF Own

(* The pointers have their type.                                           *)
LEMMA PointersType ==
  ASSUME Inv PROVE Pointers \in [Places -> Blocks \cup {NULL}] /\ Own(Pointers, heap)
                   /\ heap \in [Blocks -> Seq(Bytes) \cup {Free}]
                   /\ NULL \notin Blocks /\ Free \notin Seq(Bytes)
<1>1. ASSUME NEW i \in Index PROVE buffer.entry[i].buffptr \in Blocks \cup {NULL}
  <2>1. buffer.entry[i] \in Entry
    BY DEF Inv, TypeOK, Buffer
  <2> QED BY <2>1 DEF Entry, NoEntry
<1>2. temp_entry.buffptr \in Blocks \cup {NULL}
  BY DEF Inv, TypeOK, Entry, NoEntry
<1>3. \A t \in Threads : kern_buf[t] \in Blocks \cup {NULL} /\ evicted[t] \in Blocks \cup {NULL}
  BY DEF Inv, TypeOK
<1>4. \A p \in Places : PtrAt(p) \in Blocks \cup {NULL}
  BY <1>1, <1>2, <1>3 DEF Places, PtrAt
<1> QED BY <1>4, AesdCharAssumption, OwnedPointers DEF Pointers, Inv, TypeOK

(* A pointer that is in a place is in no other, and its block is in use.   *)
LEMMA Owned ==
  ASSUME Inv, NEW p \in Places, NEW q \in Places, p # q, PtrAt(p) # NULL
  PROVE  PtrAt(p) # PtrAt(q) /\ PtrAt(p) \in Blocks /\ heap[PtrAt(p)] # Free
BY PointersType DEF Inv, HeapOwned, Own, Pointers

(* The slots the loops visit hold lines.                                   *)
LEMMA SlotsUsed ==
  ASSUME Inv, loaded, NEW k \in 0 .. aesd_circular_buffer_size(buffer) - 1
  PROVE  k \in Index /\ SlotAt(buffer, k) \in Index /\ buffer.entry[SlotAt(buffer, k)].buffptr # NULL
<1>1. RingOK(buffer) /\ buffer.in_offs \in Index /\ (~buffer.full => buffer.out_offs = 0)
  BY DEF Inv, ShapeOK, RingOK
<1>2. k \in Index /\ SlotAt(buffer, k) \in Index
  BY <1>1, SizeAndSlots, MaxAssumption DEF Index
<1>3. buffer.full \/ SlotAt(buffer, k) < buffer.in_offs
  <2>1. ASSUME ~buffer.full PROVE SlotAt(buffer, k) < buffer.in_offs
    BY <1>1, <1>2, <2>1, MaxAssumption DEF aesd_circular_buffer_size, SlotAt, Index
  <2> QED BY <2>1
<1> QED BY <1>2, <1>3 DEF Inv, ShapeOK

(* When the device's blocks keep what is in them, the lines are the same.  *)
LEMMA LinesKept ==
  ASSUME Inv, UNCHANGED <<loaded, buffer, temp_entry>>,
         \A p \in (Index \X {"slot"}) \cup {<<"dev", "temp">>} :
           PtrAt(p) # NULL => heap'[PtrAt(p)] = heap[PtrAt(p)]
  PROVE  LinesAreTerminated' /\ UNCHANGED <<Lines, Partial>>
<1>1. ASSUME NEW i \in Index, buffer.entry[i].buffptr # NULL
      PROVE  heap'[buffer.entry[i].buffptr] = heap[buffer.entry[i].buffptr]
  <2>1. PtrAt(<<i, "slot">>) = buffer.entry[i].buffptr
    BY DEF PtrAt
  <2> QED BY <1>1, <2>1
<1>2. temp_entry.buffptr # NULL => heap'[temp_entry.buffptr] = heap[temp_entry.buffptr]
  <2>1. PtrAt(<<"dev", "temp">>) = temp_entry.buffptr
    BY DEF PtrAt
  <2> QED BY <2>1
<1>3. Partial' = Partial
  BY <1>2 DEF Partial
<1>4. LinesAreTerminated'
  <2>1. \A i \in Index : LET e == buffer'.entry[i] IN
          e.buffptr # NULL => Len(heap'[e.buffptr]) = e.size /\ Last(heap'[e.buffptr]) = NL
    BY <1>1 DEF Inv, LinesAreTerminated
  <2> QED BY <1>2, <1>3, <2>1 DEF Inv, LinesAreTerminated
<1>5. Lines' = Lines
  <2>1. CASE loaded
    <3>1. \A k \in 1 .. aesd_circular_buffer_size(buffer) :
            heap'[buffer.entry[SlotAt(buffer, k - 1)].buffptr]
            = heap[buffer.entry[SlotAt(buffer, k - 1)].buffptr]
      <4> SUFFICES ASSUME NEW k \in 1 .. aesd_circular_buffer_size(buffer)
                   PROVE  heap'[buffer.entry[SlotAt(buffer, k - 1)].buffptr]
                          = heap[buffer.entry[SlotAt(buffer, k - 1)].buffptr]
        OBVIOUS
      <4>1. aesd_circular_buffer_size(buffer) \in Nat
        BY SizeAndSlots, MaxAssumption DEF Inv, ShapeOK
      <4>2. k - 1 \in 0 .. aesd_circular_buffer_size(buffer) - 1
        BY <4>1
      <4> QED BY <1>1, <2>1, <4>2, SlotsUsed
    <3> QED BY <2>1, <3>1 DEF Lines
  <2>2. CASE ~loaded
    BY <2>2 DEF Lines
  <2> QED BY <2>1, <2>2
<1> QED BY <1>3, <1>4, <1>5

(* A step of a writer that may change the memory, and that changes the     *)
(* device only with the lock, keeps the invariant when what is said of the *)
(* memory and the device holds afterwards.                                 *)
LEMMA WriterStep ==
  ASSUME Inv, NEW t \in Threads, Moves(t), OwnTypes(t), OwnCall(t), SharedTypes',
         UNCHANGED <<loaded, opened>>, LockDiscipline', HeapOwned', LinesAreTerminated', ShapeOK',
         \A u \in Threads \ {t} : kern_buf[u] # NULL => heap'[kern_buf[u]] = heap[kern_buf[u]],
         buffer' = buffer \/ writer = t
  PROVE  Inv'
<1>1. SharedTypes /\ ThreadTypes /\ NULL \notin Threads
  BY TypesSplit, AesdCharAssumption DEF Inv, CallsOK
<1>2. ThreadTypes' /\ Others(t)
  BY <1>1, ThreadMoves
<1>3. TypeOK'
  BY <1>2, TypesJoin
<1>4. CallsOK'
  <2>1. DOMAIN found' = Threads
    BY <1>2 DEF ThreadTypes
  <2>2. \A u \in Threads \ {t} : pc'[u] \in {"w_down", "w_body"} =>
               kern_buf'[u] \in Blocks /\ heap'[kern_buf'[u]] \in UserBuffers
    BY <1>2, AesdCharAssumption DEF Inv, CallsOK, Others
  <2> QED BY <1>2, <2>1, <2>2 DEF Inv, CallsOK, Others, OwnCall
<1>5. FoundOK'
  <2>1. CASE buffer' = buffer
    BY <1>2, <2>1 DEF Inv, FoundOK, Others, OwnCall
  <2>2. CASE writer = t
    <3>1. \A u \in Threads \ {t} : pc'[u] # "r_copy"
      BY <1>1, <1>2, <2>2 DEF Inv, LockDiscipline, Reading, Others
    <3> QED BY <3>1 DEF FoundOK, OwnCall
  <2> QED BY <2>1, <2>2
<1> QED BY <1>3, <1>4, <1>5 DEF Inv

-----------------------------------------------------------------------------
(* The first steps of a write: kern_buf is a new block.                    *)
LEMMA WriteEnterInv ==
  ASSUME Inv, NEW t \in Threads, NEW f \in Files, NEW data \in UserBuffers, WriteEnter(t, f, data)
  PROVE  Inv' /\ UNCHANGED <<Lines, Partial>>
<1> DEFINE K == <<t, "kern_buf">>
<1>1. SharedTypes /\ ThreadTypes
  BY TypesSplit DEF Inv, CallsOK
<1>2. PICK b \in Blocks : /\ heap[b] = Free /\ heap' = [heap EXCEPT ![b] = data]
                          /\ kern_buf' = [kern_buf EXCEPT ![t] = b]
  BY DEF WriteEnter, FreeBlocks
<1>3. /\ pc[t] = "idle" /\ f \in opened /\ file' = [file EXCEPT ![t] = f]
      /\ pc' = [pc EXCEPT ![t] = "w_down"] \/ pc' = [pc EXCEPT ![t] = "w_free"]
      /\ pos' = [pos EXCEPT ![t] = f_pos[f]]
      /\ ok' = [ok EXCEPT ![t] = (pc'[t] = "w_down")]
      /\ UNCHANGED <<loaded, buffer, temp_entry, readers, writer, opened, f_pos, arg, evicted,
                     found, copied>>
  BY DEF WriteEnter, Enter, Goto, dev, lock, fs
<1>4. data \in Seq(Bytes)
  BY AesdCharAssumption
<1>5. Moves(t)
  BY <1>2, <1>3 DEF Moves, Put
<1>6. /\ pc'[t] \in {"w_down", "w_free"} /\ file'[t] = f /\ pos'[t] \in Nat
      /\ kern_buf'[t] = b /\ heap'[b] = data
  BY <1>1, <1>2, <1>3 DEF ThreadTypes, SharedTypes
<1>7. ok'[t] \in BOOLEAN
  BY <1>1, <1>3 DEF ThreadTypes
<1>8. OwnTypes(t)
  BY <1>1, <1>3, <1>6, <1>7 DEF ThreadTypes, OwnTypes, PCs, ArgFits
<1>9. OwnCall(t)
  BY <1>3, <1>6 DEF Inv, CallsOK, OwnCall
<1>10. SharedTypes'
  <2>1. heap' \in [Blocks -> Seq(Bytes) \cup {Free}]
    BY <1>1, <1>2, <1>4 DEF SharedTypes
  <2> QED BY <1>1, <1>3, <2>1 DEF SharedTypes
<1>11. Others(t)
  BY <1>1, <1>5, ThreadMoves
<1>12. K \in Places /\ PtrAt(K) = NULL
  BY <1>3 DEF Inv, CallsOK, Places, PtrAt
<1>13. Pointers' = [Pointers EXCEPT ![K] = b]
  <2>1. \A p \in Places : PtrAt(p)' = IF p = K THEN b ELSE PtrAt(p)
    BY <1>3, <1>6, <1>11 DEF Places, PtrAt, Others
  <2>2. Places' = Places
    BY DEF Places
  <2> QED BY <2>1, <2>2 DEF Pointers
<1>14. HeapOwned'
  <2>1. Own([Pointers EXCEPT ![K] = b], [heap EXCEPT ![b] = data])
    <3>1. Pointers[K] = NULL
      BY <1>12 DEF Pointers
    <3> QED BY <1>2, <1>4, <1>12, <3>1, PointersType, OwnAlloc
  <2> QED BY <1>2, <1>13, <2>1, OwnedPointersNext
<1>15. \A p \in Places : PtrAt(p) # NULL => PtrAt(p) # b /\ heap'[PtrAt(p)] = heap[PtrAt(p)]
  <2>1. \A p \in Places : PtrAt(p) # NULL => PtrAt(p) \in Blocks /\ heap[PtrAt(p)] # Free
    BY PointersType DEF Own, Pointers
  <2> QED BY <1>1, <1>2, <2>1 DEF SharedTypes
<1>16. LinesAreTerminated' /\ UNCHANGED <<Lines, Partial>>
  BY <1>3, <1>15, LinesKept DEF Places
<1>17. \A u \in Threads \ {t} : kern_buf[u] # NULL => heap'[kern_buf[u]] = heap[kern_buf[u]]
  <2>1. \A u \in Threads : <<u, "kern_buf">> \in Places /\ PtrAt(<<u, "kern_buf">>) = kern_buf[u]
    BY DEF Places, PtrAt
  <2> QED BY <1>15, <2>1
<1>18. LockDiscipline'
  BY <1>3, <1>6, <1>11, LockKept DEF Inv, Reading, Writing, Others
<1>19. ShapeOK'
  BY <1>3 DEF Inv, ShapeOK
<1> QED BY <1>3, <1>5, <1>8, <1>9, <1>10, <1>14, <1>16, <1>17, <1>18, <1>19, WriterStep

(* The last steps of a write: the blocks it still has are freed.           *)
LEMMA WriteFreeInv ==
  ASSUME Inv, NEW t \in Threads, WriteFree(t)
  PROVE  Inv' /\ UNCHANGED <<Lines, Partial>>
<1> DEFINE K == <<t, "kern_buf">>
           E == <<t, "evicted">>
<1>1. SharedTypes /\ ThreadTypes
  BY TypesSplit DEF Inv, CallsOK
<1>2. /\ pc[t] = "w_free" /\ pc' = [pc EXCEPT ![t] = "idle"]
      /\ heap' = [b \in Blocks |-> IF b \in {evicted[t], kern_buf[t]} THEN Free ELSE heap[b]]
      /\ StorePos(t) /\ Leave(t)
      /\ UNCHANGED <<loaded, buffer, temp_entry, readers, writer, opened>>
  BY DEF WriteFree, Goto, Freed, dev, lock
<1>3. Moves(t)
  BY <1>2 DEF Moves, Put, Leave
<1>4. /\ pc'[t] = "idle" /\ file'[t] = NULL /\ pos'[t] = 0 /\ arg'[t] = <<>>
      /\ kern_buf'[t] = NULL /\ evicted'[t] = NULL /\ found'[t] = NULL /\ copied'[t] = <<>>
  <2>1. pc'[t] = "idle" /\ file'[t] = NULL /\ pos'[t] = 0
    BY <1>1, <1>2 DEF ThreadTypes, Leave
  <2>2. arg'[t] = <<>> /\ kern_buf'[t] = NULL /\ evicted'[t] = NULL
    BY <1>1, <1>2 DEF ThreadTypes, Leave
  <2>3. found'[t] = NULL /\ copied'[t] = <<>>
    BY <1>1, <1>2 DEF ThreadTypes, Leave
  <2> QED BY <2>1, <2>2, <2>3
<1>5. OwnTypes(t)
  <2>1. ArgFits(pc'[t], arg'[t]) /\ pc'[t] \in PCs
    BY <1>4 DEF PCs, ArgFits
  <2>2. copied'[t] \in Seq(Bytes) /\ pos'[t] \in Nat
    BY <1>4
  <2>3. ok'[t] \in BOOLEAN
    BY <1>1, <1>2 DEF ThreadTypes, Leave
  <2> QED BY <1>4, <2>1, <2>2, <2>3 DEF OwnTypes, Found
<1>6. OwnCall(t)
  BY <1>4 DEF OwnCall
<1>7. SharedTypes'
  <2>1. heap' \in [Blocks -> Seq(Bytes) \cup {Free}]
    BY <1>1, <1>2 DEF SharedTypes
  <2>2. f_pos' \in [Files -> Nat]
    BY <1>1, <1>2 DEF SharedTypes, ThreadTypes, StorePos
  <2> QED BY <1>1, <1>2, <2>1, <2>2 DEF SharedTypes
<1>8. Others(t)
  BY <1>1, <1>3, ThreadMoves
<1>9. K \in Places /\ E \in Places /\ PtrAt(K) = kern_buf[t] /\ PtrAt(E) = evicted[t]
  BY DEF Places, PtrAt
<1>10. Pointers' = [p \in Places |-> IF p \in {K, E} THEN NULL ELSE Pointers[p]]
  <2>1. \A p \in Places : PtrAt(p)' = IF p \in {K, E} THEN NULL ELSE PtrAt(p)
    BY <1>2, <1>4, <1>8 DEF Places, PtrAt, Others
  <2>2. Places' = Places
    BY DEF Places
  <2> QED BY <2>1, <2>2 DEF Pointers
<1>11. heap' = [b \in Blocks |-> IF \E p \in {K, E} : Pointers[p] = b THEN Free ELSE heap[b]]
  BY <1>2, <1>9 DEF Pointers
<1>12. HeapOwned'
  <2>1. Own([p \in Places |-> IF p \in {K, E} THEN NULL ELSE Pointers[p]],
            [b \in Blocks |-> IF \E p \in {K, E} : Pointers[p] = b THEN Free ELSE heap[b]])
    <3>1. {K, E} \in SUBSET Places
      BY <1>9
    <3> QED BY <3>1, PointersType, OwnFree
  <2> QED BY <1>10, <1>11, <2>1, OwnedPointersNext
<1>13. \A p \in Places \ {K, E} : PtrAt(p) # NULL => heap'[PtrAt(p)] = heap[PtrAt(p)]
  BY <1>2, <1>9, Owned
<1>14. LinesAreTerminated' /\ UNCHANGED <<Lines, Partial>>
  <2>1. \A p \in (Index \X {"slot"}) \cup {<<"dev", "temp">>} : p \in Places \ {K, E}
    BY DEF Places
  <2> QED BY <1>2, <1>13, <2>1, LinesKept
<1>15. \A u \in Threads \ {t} : kern_buf[u] # NULL => heap'[kern_buf[u]] = heap[kern_buf[u]]
  <2>1. \A u \in Threads \ {t} : /\ <<u, "kern_buf">> \in Places \ {K, E}
                                 /\ PtrAt(<<u, "kern_buf">>) = kern_buf[u]
    BY DEF Places, PtrAt
  <2> QED BY <1>13, <2>1
<1>16. LockDiscipline'
  BY <1>2, <1>4, <1>8, LockKept DEF Inv, Reading, Writing, Others
<1>17. ShapeOK'
  BY <1>2 DEF Inv, ShapeOK
<1> QED BY <1>2, <1>3, <1>5, <1>6, <1>7, <1>12, <1>14, <1>15, <1>16, <1>17, WriterStep

-----------------------------------------------------------------------------
(* Without an open file nobody is in a call.                               *)
LEMMA NobodyCalls ==
  ASSUME Inv, opened = {}
  PROVE  /\ \A t \in Threads : pc[t] = "idle" /\ kern_buf[t] = NULL /\ evicted[t] = NULL
         /\ readers = {} /\ writer = NULL
<1>1. \A t \in Threads : pc[t] = "idle"
  BY DEF Inv, CallsOK
<1>2. \A t \in Threads : kern_buf[t] = NULL /\ evicted[t] = NULL
  BY <1>1 DEF Inv, CallsOK
<1>3. readers = {} /\ writer = NULL
  BY <1>1 DEF Inv, TypeOK, LockDiscipline, Reading, Writing
<1> QED BY <1>1, <1>2, <1>3

(* A buffer just initialised.                                              *)
LEMMA InitBuffer ==
  LET b == aesd_circular_buffer_init
  IN  /\ b \in Buffer(Entry) /\ RingOK(b) /\ aesd_circular_buffer_size(b) = 0
      /\ ~b.full /\ b.in_offs = 0 /\ \A i \in Index : b.entry[i] = NoEntry
BY MaxAssumption
   DEF aesd_circular_buffer_init, Buffer, Entry, RingOK, aesd_circular_buffer_size, NoEntry, Index

(* insmod: the device was empty and is.                                    *)
LEMMA InitModuleInv ==
  ASSUME Inv, aesd_init_module PROVE Inv' /\ UNCHANGED <<Lines, Partial>>
<1>1. /\ ~loaded /\ loaded' \in BOOLEAN
      /\ buffer' = aesd_circular_buffer_init /\ temp_entry' = NoEntry
      /\ readers' = {} /\ writer' = NULL
      /\ UNCHANGED <<heap, opened, f_pos, pc, file, pos, arg, kern_buf, evicted, found, copied, ok>>
  BY DEF aesd_init_module, fs, call
<1>2. opened = {} /\ temp_entry = NoEntry /\ \A i \in Index : buffer.entry[i] = NoEntry
  BY <1>1 DEF Inv, ShapeOK
<1>3. (\A t \in Threads : pc[t] = "idle") /\ readers = {} /\ writer = NULL
  BY <1>2, NobodyCalls
<1>4. SharedTypes /\ ThreadTypes
  BY TypesSplit DEF Inv, CallsOK
<1>5. TypeOK'
  <2>1. SharedTypes'
    BY <1>1, <1>4, InitBuffer DEF SharedTypes, Entry
  <2>2. ThreadTypes'
    BY <1>1, <1>4 DEF ThreadTypes
  <2> QED BY <2>1, <2>2, TypesJoin
<1>6. LockDiscipline'
  BY <1>1, <1>3 DEF Inv, LockDiscipline, Reading, Writing
<1>7. HeapOwned'
  <2>1. \A q \in Places : PtrAt(q)' = PtrAt(q)
    BY <1>1, <1>2, InitBuffer DEF PtrAt, Places
  <2>2. heap' = heap /\ Places' = Places
    BY <1>1 DEF Places
  <2> QED BY <2>1, <2>2 DEF Inv, HeapOwned
<1>8. LinesAreTerminated'
  BY <1>1, InitBuffer DEF LinesAreTerminated, NoEntry
<1>9. ShapeOK'
  BY <1>1, <1>2, InitBuffer, MaxAssumption DEF ShapeOK, NoEntry, Index
<1>10. CallsOK' /\ FoundOK'
  BY <1>1, <1>3 DEF Inv, CallsOK, FoundOK
<1>11. UNCHANGED <<Lines, Partial>>
  <2>1. Partial' = Partial
    BY <1>1, <1>2 DEF Partial, NoEntry
  <2>2. Lines = <<>>
    BY <1>1 DEF Lines
  <2>3. Lines' = <<>>
    BY <1>1, InitBuffer DEF Lines
  <2> QED BY <2>1, <2>2, <2>3
<1> QED BY <1>5, <1>6, <1>7, <1>8, <1>9, <1>10, <1>11 DEF Inv

(* rmmod: everything is freed, and the device is empty.                    *)
LEMMA CleanupModuleInv ==
  ASSUME Inv, aesd_cleanup_module PROVE Inv' /\ Lines' = <<>> /\ Partial' = <<>>
<1> DEFINE X == (Index \X {"slot"}) \cup {<<"dev", "temp">>}
<1>1. /\ loaded /\ opened = {} /\ loaded' = FALSE
      /\ heap' = [b \in Blocks |-> IF b \in {buffer.entry[i].buffptr : i \in Index}
                                            \cup {temp_entry.buffptr} THEN Free ELSE heap[b]]
      /\ buffer' = [buffer EXCEPT !.entry = [i \in Index |-> NoEntry]]
      /\ temp_entry' = NoEntry
      /\ UNCHANGED <<readers, writer, opened, f_pos, pc, file, pos, arg, kern_buf, evicted, found,
                     copied, ok>>
  BY DEF aesd_cleanup_module, Freed, lock, fs, call
<1>2. \A t \in Threads : pc[t] = "idle" /\ kern_buf[t] = NULL /\ evicted[t] = NULL
  BY <1>1, NobodyCalls
<1>3. SharedTypes /\ ThreadTypes
  BY TypesSplit DEF Inv, CallsOK
<1>4. /\ buffer'.entry = [i \in Index |-> NoEntry] /\ buffer'.in_offs = buffer.in_offs
      /\ buffer'.out_offs = buffer.out_offs /\ buffer'.full = buffer.full
      /\ buffer' \in Buffer(Entry)
  BY <1>1, <1>3 DEF SharedTypes, Buffer, Entry
<1>5. TypeOK'
  <2>1. heap' \in [Blocks -> Seq(Bytes) \cup {Free}]
    BY <1>1, <1>3 DEF SharedTypes
  <2>2. SharedTypes'
    BY <1>1, <1>3, <1>4, <2>1 DEF SharedTypes, Entry
  <2>3. ThreadTypes'
    BY <1>1, <1>3 DEF ThreadTypes
  <2> QED BY <2>2, <2>3, TypesJoin
<1>6. LockDiscipline'
  BY <1>1 DEF Inv, LockDiscipline, Reading, Writing
<1>7. HeapOwned'
  <2>1. X \in SUBSET Places
    BY DEF Places
  <2>2. \A p \in Places : PtrAt(p)' = IF p \in X THEN NULL ELSE PtrAt(p)
    BY <1>1, <1>4 DEF Places, PtrAt, NoEntry
  <2>3. \A b : (\E p \in X : PtrAt(p) = b) <=>
               b \in {buffer.entry[i].buffptr : i \in Index} \cup {temp_entry.buffptr}
    <3>1. \A i \in Index : <<i, "slot">> \in X /\ PtrAt(<<i, "slot">>) = buffer.entry[i].buffptr
      BY DEF PtrAt
    <3>2. <<"dev", "temp">> \in X /\ PtrAt(<<"dev", "temp">>) = temp_entry.buffptr
      BY DEF PtrAt
    <3>3. \A p \in X : (\E i \in Index : p = <<i, "slot">>) \/ p = <<"dev", "temp">>
      OBVIOUS
    <3> HIDE DEF X
    <3> QED BY <3>1, <3>2, <3>3
  <2> HIDE DEF X
  <2>4. Pointers' = [p \in Places |-> IF p \in X THEN NULL ELSE Pointers[p]]
    <3>1. Places' = Places
      BY DEF Places
    <3> QED BY <2>2, <3>1 DEF Pointers
  <2>5. heap' = [b \in Blocks |-> IF \E p \in X : Pointers[p] = b THEN Free ELSE heap[b]]
    BY <1>1, <2>1, <2>3 DEF Pointers
  <2>6. Own([p \in Places |-> IF p \in X THEN NULL ELSE Pointers[p]],
            [b \in Blocks |-> IF \E p \in X : Pointers[p] = b THEN Free ELSE heap[b]])
    BY <2>1, PointersType, OwnFree
  <2> QED BY <2>4, <2>5, <2>6, OwnedPointersNext
<1>8. LinesAreTerminated'
  BY <1>1, <1>4 DEF LinesAreTerminated, NoEntry
<1>9. ShapeOK'
  BY <1>1, <1>4 DEF Inv, ShapeOK, RingOK, NoEntry
<1>10. CallsOK' /\ FoundOK'
  BY <1>1, <1>2 DEF Inv, CallsOK, FoundOK
<1>11. Lines' = <<>> /\ Partial' = <<>>
  BY <1>1 DEF Lines, Partial, NoEntry
<1> QED BY <1>5, <1>6, <1>7, <1>8, <1>9, <1>10, <1>11 DEF Inv

-----------------------------------------------------------------------------
(* The lines of a buffer with some contents of the blocks.                 *)
LinesOf(b, h) ==
  [k \in 1 .. aesd_circular_buffer_size(b) |-> h[EntryAt(b, k - 1).buffptr]]

(* The blocks of those lines are the same in both.                         *)
SameLines(b, h, g) ==
  \A k \in 0 .. aesd_circular_buffer_size(b) - 1 :
    g[EntryAt(b, k).buffptr] = h[EntryAt(b, k).buffptr]

(* An entry that goes into the buffer is one more line at the end, and     *)
(* when the buffer is full there is one less at the front.                 *)
LEMMA LinesShift ==
  ASSUME NEW b, RingOK(b), DOMAIN b.entry = Index, NEW e, e.size \in Nat, NEW h, NEW g,
         SameLines(b, h, g), NEW w, w = LinesOf(b, h), NEW x, x = g[e.buffptr]
  PROVE  LinesOf(aesd_circular_buffer_add_entry(b, e).buffer, g)
         = IF Len(w) < MAX_WRITE_OPERATIONS THEN Append(w, x) ELSE Append(Tail(w), x)
<1> DEFINE r == aesd_circular_buffer_add_entry(b, e)
           n == aesd_circular_buffer_size(b)
<1>1. Shifted(b, e, r.buffer, r.evicted)
  BY AddEntryShifts
<1>2. n \in Nat /\ n <= MAX_WRITE_OPERATIONS
  BY SizeAndSlots, MaxAssumption
<1>3. w = [k \in 1 .. n |-> h[EntryAt(b, k - 1).buffptr]]
  BY DEF LinesOf
<1>4. w = [k \in 1 .. n |-> w[k]] /\ Len(w) = n
  BY <1>2, <1>3
<1> HIDE DEF r, n
<1>5. CASE ~b.full
  <2>1. /\ n < MAX_WRITE_OPERATIONS
        /\ aesd_circular_buffer_size(r.buffer) = n + 1
        /\ \A k \in 0 .. n - 1 : EntryAt(r.buffer, k) = EntryAt(b, k)
        /\ EntryAt(r.buffer, n) = e
    BY <1>1, <1>2, <1>5, MaxAssumption DEF Shifted, n
  <2>2. ASSUME NEW k \in 1 .. n + 1
        PROVE  g[EntryAt(r.buffer, k - 1).buffptr] = IF k = n + 1 THEN x ELSE w[k]
    <3>1. CASE k = n + 1
      <4>1. k - 1 = n
        BY <1>2, <3>1
      <4> QED BY <2>1, <3>1, <4>1
    <3>2. CASE k # n + 1
      <4>1. k \in 1 .. n /\ k - 1 \in 0 .. n - 1
        BY <3>2, <1>2
      <4>2. g[EntryAt(b, k - 1).buffptr] = h[EntryAt(b, k - 1).buffptr]
        BY <4>1 DEF n, SameLines
      <4> QED BY <1>3, <2>1, <3>2, <4>1, <4>2
    <3> QED BY <3>1, <3>2
  <2>3. LinesOf(r.buffer, g) = [k \in 1 .. n + 1 |-> IF k = n + 1 THEN x ELSE w[k]]
    BY <2>1, <2>2 DEF LinesOf
  <2>4. Append(w, x) = [k \in 1 .. n + 1 |-> IF k = n + 1 THEN x ELSE w[k]]
    BY <1>2, <1>4, AppendAsFunction
  <2> QED BY <1>4, <2>1, <2>3, <2>4 DEF r
<1>6. CASE b.full
  <2>1. /\ n = MAX_WRITE_OPERATIONS /\ n \in Nat \ {0}
        /\ aesd_circular_buffer_size(r.buffer) = n
        /\ \A k \in 0 .. n - 2 : EntryAt(r.buffer, k) = EntryAt(b, k + 1)
        /\ EntryAt(r.buffer, n - 1) = e
    BY <1>1, <1>6, MaxAssumption DEF Shifted, n
  <2>2. ASSUME NEW k \in 1 .. n
        PROVE  g[EntryAt(r.buffer, k - 1).buffptr] = IF k = n THEN x ELSE w[k + 1]
    <3>1. CASE k = n
      BY <2>1, <3>1
    <3>2. CASE k # n
      <4>1. k + 1 \in 1 .. n /\ k - 1 \in 0 .. n - 2 /\ (k - 1) + 1 = k /\ (k + 1) - 1 = k
            /\ k \in 0 .. n - 1
        BY <1>2, <3>2
      <4>2. g[EntryAt(b, k).buffptr] = h[EntryAt(b, k).buffptr]
        BY <4>1 DEF n, SameLines
      <4>3. EntryAt(r.buffer, k - 1) = EntryAt(b, k)
        BY <2>1, <4>1
      <4>4. w[k + 1] = h[EntryAt(b, k).buffptr]
        BY <1>3, <4>1
      <4> QED BY <3>2, <4>2, <4>3, <4>4
    <3> QED BY <3>1, <3>2
  <2>3. LinesOf(r.buffer, g) = [k \in 1 .. n |-> IF k = n THEN x ELSE w[k + 1]]
    BY <2>1, <2>2 DEF LinesOf
  <2>4. Append(Tail(w), x) = [k \in 1 .. n |-> IF k = n THEN x ELSE w[k + 1]]
    BY <1>4, <2>1, AppendTailAsFunction
  <2>5. ~(Len(w) < MAX_WRITE_OPERATIONS)
    BY <1>4, <2>1
  <2> QED BY <2>3, <2>4, <2>5 DEF r
<1> QED BY <1>5, <1>6

(* What the entry does to the shape of the buffer, and which pointer the   *)
(* write gets to free: that of the slot it overwrites.                     *)
LEMMA ShapeShift ==
  ASSUME Inv, loaded, NEW e \in [buffptr : Blocks, size : Nat]
  PROVE  LET r == aesd_circular_buffer_add_entry(buffer, e)
         IN  /\ r.buffer \in Buffer(Entry) /\ RingOK(r.buffer)
             /\ buffer.in_offs \in Index
             /\ r.buffer.entry = [buffer.entry EXCEPT ![buffer.in_offs] = e]
             /\ r.evicted.buffptr = buffer.entry[buffer.in_offs].buffptr
             /\ \A i \in Index : r.buffer.entry[i].buffptr # NULL
                                   <=> (r.buffer.full \/ i < r.buffer.in_offs)
<1> DEFINE r == aesd_circular_buffer_add_entry(buffer, e)
           in == Advance(buffer.in_offs)
<1>1. /\ RingOK(buffer) /\ buffer \in Buffer(Entry)
      /\ \A i \in Index : buffer.entry[i].buffptr # NULL <=> (buffer.full \/ i < buffer.in_offs)
  BY DEF Inv, ShapeOK, TypeOK
<1>2. /\ buffer.entry \in [Index -> Entry] /\ buffer.in_offs \in Index /\ buffer.out_offs \in Index
      /\ buffer.full \in BOOLEAN /\ DOMAIN buffer.entry = Index
      /\ (buffer.full => buffer.in_offs = buffer.out_offs) /\ (~buffer.full => buffer.out_offs = 0)
  BY <1>1 DEF Buffer, RingOK
<1>3. /\ r.buffer = [entry    |-> [buffer.entry EXCEPT ![buffer.in_offs] = e],
                     in_offs  |-> in,
                     out_offs |-> IF buffer.full THEN in ELSE buffer.out_offs,
                     full     |-> buffer.full \/ in = buffer.out_offs]
      /\ r.evicted = IF buffer.full THEN buffer.entry[buffer.in_offs] ELSE NoEntry
  BY DEF aesd_circular_buffer_add_entry
<1>4. in \in Index
  BY <1>2, MaxAssumption DEF Advance, Index
<1>5. RingOK(r.buffer)
  BY <1>1, <1>2, AddEntryShifts DEF Shifted
<1>6. e \in Entry /\ e.buffptr # NULL
  BY AesdCharAssumption DEF Entry
<1>7. (r.buffer).full = (buffer.full \/ in = buffer.out_offs) /\ r.buffer.in_offs = in
  BY <1>3
<1>8. r.buffer.full <=> (buffer.full \/ in = buffer.out_offs)
  BY <1>7
<1> HIDE DEF r
<1>9. r.buffer \in Buffer(Entry)
  BY <1>2, <1>3, <1>4, <1>6 DEF Buffer
<1>10. r.evicted.buffptr = buffer.entry[buffer.in_offs].buffptr
  BY <1>1, <1>2, <1>3, MaxAssumption DEF NoEntry, Index
<1>11. ASSUME NEW i \in Index
      PROVE  r.buffer.entry[i].buffptr # NULL <=> (r.buffer.full \/ i < r.buffer.in_offs)
  <2>1. r.buffer.entry[i] = IF i = buffer.in_offs THEN e ELSE buffer.entry[i]
    BY <1>2, <1>3
  <2>2. CASE buffer.full
    BY <1>1, <1>6, <1>8, <2>1, <2>2
  <2>3. CASE ~buffer.full
    <3>1. r.buffer.in_offs = in /\ (r.buffer.full <=> in = 0)
      BY <1>2, <1>7, <1>8, <2>3
    <3>2. r.buffer.entry[i].buffptr # NULL <=> (i = buffer.in_offs \/ i < buffer.in_offs)
      BY <1>1, <1>6, <2>1, <2>3
    <3> QED BY <1>2, <3>1, <3>2, MaxAssumption DEF Advance, Index
  <2> QED BY <2>2, <2>3
<1> QED BY <1>2, <1>3, <1>5, <1>9, <1>10, <1>11 DEF r

(* So the lines of the driver.                                             *)
LEMMA LinesGrow ==
  ASSUME Inv, loaded, NEW e \in [buffptr : Blocks, size : Nat], SameLines(buffer, heap, heap')
  PROVE  LinesOf(aesd_circular_buffer_add_entry(buffer, e).buffer, heap')
         = Append(IF Len(Lines) < MAX_WRITE_OPERATIONS THEN Lines ELSE Tail(Lines),
                  heap'[e.buffptr])
<1>1. RingOK(buffer) /\ DOMAIN buffer.entry = Index /\ e.size \in Nat
  BY DEF Inv, ShapeOK, TypeOK, Buffer
<1>2. Lines = LinesOf(buffer, heap)
  BY DEF Lines, LinesOf, EntryAt
<1>3. LinesOf(aesd_circular_buffer_add_entry(buffer, e).buffer, heap')
      = IF Len(Lines) < MAX_WRITE_OPERATIONS THEN Append(Lines, heap'[e.buffptr])
        ELSE Append(Tail(Lines), heap'[e.buffptr])
  BY <1>1, <1>2, LinesShift
<1> QED BY <1>3

(* StoreLine, when the entry e has the line in construction with the bytes *)
(* just written, and the blocks of the other lines are as they were: the   *)
(* shape and the termination of the lines are kept, and on LineDevice it   *)
(* is the write.                                                           *)
LEMMA StoreLineStep ==
  ASSUME Inv, loaded, UNCHANGED <<loaded, opened>>, NEW t \in Threads,
         NEW e \in [buffptr : Blocks, size : Nat], NEW data \in UserBuffers,
         StoreLine(t, e, Terminated(data)),
         heap'[e.buffptr] = Partial \o data, e.size = Len(heap'[e.buffptr]),
         \A i \in Index : buffer.entry[i].buffptr # NULL
                            => heap'[buffer.entry[i].buffptr] = heap[buffer.entry[i].buffptr]
  PROVE  /\ buffer' \in Buffer(Entry) /\ temp_entry' \in Entry
         /\ LinesAreTerminated' /\ ShapeOK' /\ Device!Write(data)
<1> DEFINE line == Partial \o data
           r == aesd_circular_buffer_add_entry(buffer, e)
<1>1. Partial \in Seq(Bytes) /\ data \in Seq(Bytes) /\ data # <<>>
  <2>1. temp_entry.buffptr # NULL => heap[temp_entry.buffptr] \in Seq(Bytes)
    <3>1. <<"dev", "temp">> \in Places /\ PtrAt(<<"dev", "temp">>) = temp_entry.buffptr
      BY DEF Places, PtrAt
    <3>2. temp_entry.buffptr # NULL => temp_entry.buffptr \in Blocks
      BY DEF Inv, TypeOK, Entry, NoEntry
    <3> QED BY <3>1, <3>2 DEF Inv, HeapOwned, TypeOK
  <2> QED BY <2>1, AesdCharAssumption DEF Partial
<1>2. /\ line \in Seq(Bytes) /\ Len(line) = Len(Partial) + Len(data) /\ Len(data) \in Nat \ {0}
      /\ Len(Partial) \in Nat /\ line[Len(line)] = data[Len(data)]
  BY <1>1
<1>3. Last(line) = data[Len(data)]
  BY <1>2 DEF Last
<1>4. e \in Entry /\ e.buffptr \in Blocks /\ e.buffptr # NULL /\ NoEntry \in Entry
  BY AesdCharAssumption DEF Entry
<1>5. Lines = LinesOf(buffer, heap)
  BY DEF Lines, LinesOf, EntryAt
<1> HIDE DEF line, r
<1>6. CASE data[Len(data)] = NL
  <2>1. buffer' = r.buffer /\ temp_entry' = NoEntry
    BY <1>6 DEF StoreLine, Terminated, r
  <2>2. /\ r.buffer \in Buffer(Entry) /\ RingOK(r.buffer)
        /\ buffer.in_offs \in Index
        /\ r.buffer.entry = [buffer.entry EXCEPT ![buffer.in_offs] = e]
        /\ \A i \in Index : r.buffer.entry[i].buffptr # NULL
                              <=> (r.buffer.full \/ i < r.buffer.in_offs)
    BY ShapeShift DEF r
  <2>3. buffer.entry \in [Index -> Entry]
    BY DEF Inv, TypeOK, Buffer
  <2>4. \A i \in Index : buffer'.entry[i] = IF i = buffer.in_offs THEN e ELSE buffer.entry[i]
    BY <2>1, <2>2, <2>3
  <2>5. LinesAreTerminated'
    <3>1. ASSUME NEW i \in Index, buffer'.entry[i].buffptr # NULL
          PROVE  /\ Len(heap'[buffer'.entry[i].buffptr]) = buffer'.entry[i].size
                 /\ Last(heap'[buffer'.entry[i].buffptr]) = NL
      <4>1. CASE i = buffer.in_offs
        BY <1>3, <1>6, <2>4, <4>1 DEF line
      <4>2. CASE i # buffer.in_offs
        BY <2>4, <3>1, <4>2 DEF Inv, LinesAreTerminated
      <4> QED BY <4>1, <4>2
    <3> QED BY <2>1, <3>1 DEF LinesAreTerminated, NoEntry
  <2>6. ShapeOK'
    BY <2>1, <2>2 DEF ShapeOK
  <2>7. Lines' = LinesOf(r.buffer, heap')
    BY <2>1 DEF Lines, LinesOf, EntryAt
  <2>8. LinesOf(r.buffer, heap')
        = Append(IF Len(Lines) < MAX_WRITE_OPERATIONS THEN Lines ELSE Tail(Lines), line)
    <3>1. SameLines(buffer, heap, heap')
      BY SlotsUsed DEF EntryAt, SameLines
    <3> QED BY <3>1, LinesGrow DEF r, line
  <2>9. Partial' = <<>>
    BY <2>1 DEF Partial, NoEntry
  <2>10. Device!Write(data)
    BY <1>6, <2>7, <2>8, <2>9 DEF Device!Write, line
  <2> QED BY <1>4, <2>1, <2>2, <2>5, <2>6, <2>10
<1>7. CASE data[Len(data)] # NL
  <2>1. buffer' = buffer /\ temp_entry' = e
    BY <1>7 DEF StoreLine, Terminated
  <2>2. Partial' = line
    BY <1>4, <2>1 DEF Partial, line
  <2>3. LinesAreTerminated'
    BY <1>3, <1>7, <2>1, <2>2 DEF Inv, LinesAreTerminated, line
  <2>4. ShapeOK'
    BY <2>1 DEF Inv, ShapeOK
  <2>5. Lines' = Lines
    <3>1. \A k \in 0 .. aesd_circular_buffer_size(buffer) - 1 :
            heap'[EntryAt(buffer, k).buffptr] = heap[EntryAt(buffer, k).buffptr]
      BY SlotsUsed DEF EntryAt
    <3>2. \A k \in 1 .. aesd_circular_buffer_size(buffer) :
            heap'[EntryAt(buffer, k - 1).buffptr] = heap[EntryAt(buffer, k - 1).buffptr]
      <4>1. aesd_circular_buffer_size(buffer) \in Nat
        BY SizeAndSlots, MaxAssumption DEF Inv, ShapeOK
      <4> QED BY <3>1, <4>1
    <3>3. Lines' = LinesOf(buffer, heap')
      BY <2>1 DEF Lines, LinesOf, EntryAt
    <3> QED BY <1>5, <3>2, <3>3 DEF LinesOf
  <2>6. Device!Write(data)
    BY <1>7, <2>2, <2>5 DEF Device!Write, line
  <2> QED BY <1>4, <2>1, <2>3, <2>4, <2>6 DEF Inv, TypeOK
<1> QED BY <1>6, <1>7

(* The pointers after StoreLine: those of a completed line move into the   *)
(* buffer, and what was in the slot goes to evicted.                       *)
LEMMA StorePointers ==
  ASSUME Inv, loaded, NEW t \in Threads, NEW e \in [buffptr : Blocks, size : Nat],
         NEW data, StoreLine(t, e, Terminated(data)), pc[t] = "w_body"
  PROVE  /\ \/ /\ Terminated(data) /\ evicted' = [evicted EXCEPT ![t] = evicted'[t]]
               /\ buffer.in_offs \in Index
               /\ \A i \in Index : buffer'.entry[i].buffptr
                    = IF i = buffer.in_offs THEN e.buffptr ELSE buffer.entry[i].buffptr
               /\ temp_entry'.buffptr = NULL
               /\ evicted'[t] = buffer.entry[buffer.in_offs].buffptr
            \/ /\ ~Terminated(data) /\ evicted' = evicted
               /\ \A i \in Index : buffer'.entry[i].buffptr = buffer.entry[i].buffptr
               /\ temp_entry'.buffptr = e.buffptr
         /\ evicted'[t] \in Blocks \cup {NULL} /\ evicted[t] = NULL
<1> DEFINE r == aesd_circular_buffer_add_entry(buffer, e)
<1>1. /\ buffer.entry \in [Index -> Entry] /\ evicted \in [Threads -> Blocks \cup {NULL}]
      /\ evicted[t] = NULL
  BY DEF Inv, TypeOK, Buffer, CallsOK
<1>2. CASE Terminated(data)
  <2>1. /\ buffer' = r.buffer /\ evicted' = [evicted EXCEPT ![t] = r.evicted.buffptr]
        /\ temp_entry' = NoEntry
    BY <1>2 DEF StoreLine
  <2>2. /\ buffer.in_offs \in Index
        /\ r.buffer.entry = [buffer.entry EXCEPT ![buffer.in_offs] = e]
        /\ r.evicted.buffptr = buffer.entry[buffer.in_offs].buffptr
    BY ShapeShift
  <2> HIDE DEF r
  <2>3. evicted'[t] = buffer.entry[buffer.in_offs].buffptr
        /\ evicted' = [evicted EXCEPT ![t] = evicted'[t]]
    BY <1>1, <2>1, <2>2
  <2>4. buffer.entry[buffer.in_offs] \in Entry
    BY <1>1, <2>2
  <2>5. evicted'[t] \in Blocks \cup {NULL}
    BY <2>3, <2>4 DEF Entry, NoEntry
  <2>6. \A i \in Index : buffer'.entry[i] = IF i = buffer.in_offs THEN e ELSE buffer.entry[i]
    BY <1>1, <2>1, <2>2
  <2> QED BY <1>1, <1>2, <2>1, <2>2, <2>3, <2>5, <2>6 DEF NoEntry
<1>3. CASE ~Terminated(data)
  BY <1>1, <1>3 DEF StoreLine
<1> QED BY <1>2, <1>3

(* The first fragment of a line: its block moves on.                       *)
LEMMA WriteFirstInv ==
  ASSUME Inv, NEW t \in Threads, WriteFirst(t)
  PROVE  Inv' /\ \E data \in UserBuffers : Device!Write(data)
<1> DEFINE data == heap[kern_buf[t]]
           e == [buffptr |-> kern_buf[t], size |-> Len(data)]
           K == <<t, "kern_buf">>
           E == <<t, "evicted">>
           T == <<"dev", "temp">>
           S == <<buffer.in_offs, "slot">>
<1>1. SharedTypes /\ ThreadTypes
  BY TypesSplit DEF Inv, CallsOK
<1>2. /\ pc[t] = "w_body" /\ pc' = [pc EXCEPT ![t] = "w_up"] /\ temp_entry.buffptr = NULL
      /\ StoreLine(t, e, Terminated(data))
      /\ kern_buf' = [kern_buf EXCEPT ![t] = NULL]
      /\ UNCHANGED <<loaded, readers, writer, heap, opened, f_pos, file, pos, arg, found, copied,
                     ok>>
  BY DEF WriteFirst, Goto, lock, fs
<1>3. /\ kern_buf[t] \in Blocks /\ data \in UserBuffers /\ data \in Seq(Bytes) /\ loaded
      /\ file[t] \in opened
  BY <1>2, AesdCharAssumption DEF Inv, CallsOK, ShapeOK
<1>4. e \in [buffptr : Blocks, size : Nat] /\ e.buffptr = kern_buf[t] /\ e.size = Len(data)
  BY <1>3
<1>5. heap'[e.buffptr] = Partial \o data /\ e.size = Len(heap'[e.buffptr])
  <2>1. Partial = <<>>
    BY <1>2 DEF Partial
  <2>2. Partial \o data = data
    BY <1>3, <2>1
  <2> QED BY <1>2, <1>4, <2>2
<1> HIDE DEF e, data
<1>6. /\ buffer' \in Buffer(Entry) /\ temp_entry' \in Entry
      /\ LinesAreTerminated' /\ ShapeOK' /\ Device!Write(data)
  BY <1>2, <1>3, <1>4, <1>5, StoreLineStep
<1>7. /\ \/ /\ evicted' = [evicted EXCEPT ![t] = evicted'[t]]
            /\ buffer.in_offs \in Index
            /\ \A i \in Index : buffer'.entry[i].buffptr
                 = IF i = buffer.in_offs THEN e.buffptr ELSE buffer.entry[i].buffptr
            /\ temp_entry'.buffptr = NULL
            /\ evicted'[t] = buffer.entry[buffer.in_offs].buffptr
         \/ /\ evicted' = evicted
            /\ \A i \in Index : buffer'.entry[i].buffptr = buffer.entry[i].buffptr
            /\ temp_entry'.buffptr = e.buffptr
      /\ evicted'[t] \in Blocks \cup {NULL} /\ evicted[t] = NULL
  BY <1>2, <1>3, <1>4, StorePointers
<1>8. Moves(t) /\ pc'[t] = "w_up" /\ kern_buf'[t] = NULL
  BY <1>1, <1>2, <1>7 DEF Moves, Put, ThreadTypes
<1>9. OwnTypes(t)
  BY <1>1, <1>2, <1>7, <1>8 DEF ThreadTypes, OwnTypes, PCs, ArgFits
<1>10. OwnCall(t)
  BY <1>2, <1>3, <1>8 DEF Inv, CallsOK, OwnCall
<1>11. SharedTypes' /\ Others(t)
  BY <1>1, <1>2, <1>6, <1>8, ThreadMoves DEF SharedTypes
<1>12. /\ K \in Places /\ E \in Places /\ T \in Places /\ K # E /\ K # T /\ E # T
       /\ PtrAt(K) = e.buffptr /\ PtrAt(E) = NULL /\ PtrAt(T) = NULL
       /\ Places' = Places
  BY <1>2, <1>4, <1>7 DEF Places, PtrAt
<1>13. Own(Pointers', heap)
  <2>1. CASE /\ buffer.in_offs \in Index
             /\ \A i \in Index : buffer'.entry[i].buffptr
                  = IF i = buffer.in_offs THEN e.buffptr ELSE buffer.entry[i].buffptr
             /\ temp_entry'.buffptr = NULL
             /\ evicted'[t] = buffer.entry[buffer.in_offs].buffptr
    <3>1. S \in Places /\ K # S /\ E # S /\ PtrAt(S) = buffer.entry[buffer.in_offs].buffptr
      BY <2>1 DEF Places, PtrAt
    <3>2. \A p \in Places : PtrAt(p)' = IF p = K THEN NULL ELSE IF p = S THEN e.buffptr
                                        ELSE IF p = E THEN PtrAt(S) ELSE PtrAt(p)
      BY <1>2, <1>8, <1>11, <2>1 DEF Places, PtrAt, Others
    <3> HIDE DEF K, E, S, T
    <3>3. Pointers' = [Pointers EXCEPT ![K] = NULL, ![S] = Pointers[K], ![E] = Pointers[S]]
      BY <1>12, <3>1, <3>2 DEF Pointers
    <3> QED BY <1>12, <3>1, <3>3, PointersType, OwnHandOn DEF Pointers
  <2>2. CASE /\ evicted' = evicted
             /\ \A i \in Index : buffer'.entry[i].buffptr = buffer.entry[i].buffptr
             /\ temp_entry'.buffptr = e.buffptr
    <3>1. \A p \in Places : PtrAt(p)' = IF p = K THEN NULL ELSE IF p = T THEN e.buffptr
                                        ELSE PtrAt(p)
      BY <1>2, <1>8, <1>11, <2>2 DEF Places, PtrAt, Others
    <3> HIDE DEF K, E, S, T
    <3>2. Pointers' = [Pointers EXCEPT ![K] = NULL, ![T] = Pointers[K], ![E] = Pointers[T]]
      BY <1>12, <3>1 DEF Pointers
    <3> QED BY <1>12, <3>2, PointersType, OwnHandOn DEF Pointers
  <2> QED BY <1>7, <2>1, <2>2
<1>14. HeapOwned'
  BY <1>2, <1>13, OwnedPointersNext
<1>15. LockDiscipline'
  BY <1>2, <1>8, <1>11, LockKept DEF Inv, Reading, Writing, Others
<1>16. writer = t
  BY <1>2 DEF Inv, LockDiscipline, Writing
<1> QED BY <1>2, <1>3, <1>6, <1>8, <1>9, <1>10, <1>11, <1>14, <1>15, <1>16, WriterStep

(* A later fragment: the line's block grows, or another takes its place.   *)
LEMMA WriteAppendInv ==
  ASSUME Inv, NEW t \in Threads, WriteAppend(t)
  PROVE  Inv' /\ \E data \in UserBuffers : Device!Write(data)
<1> DEFINE data == heap[kern_buf[t]]
           old == temp_entry.buffptr
           line == heap[old] \o data
           K == <<t, "kern_buf">>
           E == <<t, "evicted">>
           T == <<"dev", "temp">>
           S == <<buffer.in_offs, "slot">>
<1>1. SharedTypes /\ ThreadTypes /\ NULL \notin Blocks
  BY TypesSplit, AesdCharAssumption DEF Inv, CallsOK
<1>2. PICK new \in FreeBlocks \cup {old} :
        /\ heap' = [[b \in Blocks |-> IF b = old THEN Free ELSE heap[b]] EXCEPT ![new] = line]
        /\ StoreLine(t, [buffptr |-> new, size |-> temp_entry.size + Len(data)], Terminated(data))
  BY DEF WriteAppend, Freed
<1> DEFINE e == [buffptr |-> new, size |-> temp_entry.size + Len(data)]
<1>3. /\ pc[t] = "w_body" /\ pc' = [pc EXCEPT ![t] = "w_up"] /\ old # NULL
      /\ UNCHANGED <<loaded, readers, writer, opened, f_pos, file, pos, arg, kern_buf, found,
                     copied, ok>>
  BY DEF WriteAppend, Goto, lock, fs
<1>4. /\ kern_buf[t] \in Blocks /\ data \in UserBuffers /\ data \in Seq(Bytes) /\ loaded
      /\ file[t] \in opened
  BY <1>3, AesdCharAssumption DEF Inv, CallsOK, ShapeOK
<1>5. /\ K \in Places /\ E \in Places /\ T \in Places /\ K # E /\ K # T /\ E # T
      /\ PtrAt(K) = kern_buf[t] /\ PtrAt(E) = evicted[t] /\ PtrAt(T) = old /\ Places' = Places
  BY DEF Places, PtrAt
<1>6. old \in Blocks /\ heap[old] # Free /\ kern_buf[t] # old
  BY <1>3, <1>5, Owned
<1>7. heap[old] \in Seq(Bytes) /\ Partial = heap[old] /\ Len(heap[old]) = temp_entry.size
  BY <1>1, <1>3, <1>6 DEF SharedTypes, Partial, Inv, LinesAreTerminated
<1>8. line \in Seq(Bytes) /\ Len(line) = temp_entry.size + Len(data) /\ Len(line) \in Nat
  <2>1. \A x, y \in Seq(Bytes) : /\ x \o y \in Seq(Bytes) /\ Len(x \o y) = Len(x) + Len(y)
                                 /\ Len(x \o y) \in Nat
    OBVIOUS
  <2> HIDE DEF data, old
  <2> QED BY <1>4, <1>7, <2>1
<1>9. new \in Blocks /\ (heap[new] = Free \/ new = old)
  BY <1>2, <1>6 DEF FreeBlocks
<1>10. /\ heap \in [Blocks -> Seq(Bytes) \cup {Free}]
       /\ heap' \in [Blocks -> Seq(Bytes) \cup {Free}] /\ heap'[new] = line
       /\ \A b \in Blocks \ {old, new} : heap'[b] = heap[b]
  BY <1>1, <1>2, <1>8, <1>9 DEF SharedTypes
<1>11. \A p \in Places \ {T} : PtrAt(p) # NULL => heap'[PtrAt(p)] = heap[PtrAt(p)]
  <2> SUFFICES ASSUME NEW p \in Places, p # T, PtrAt(p) # NULL
               PROVE  heap'[PtrAt(p)] = heap[PtrAt(p)]
    OBVIOUS
  <2>1. PtrAt(p) # old /\ PtrAt(p) \in Blocks /\ heap[PtrAt(p)] # Free
    BY <1>5, Owned
  <2> QED BY <1>9, <1>10, <2>1
<1>12. e \in [buffptr : Blocks, size : Nat] /\ e.buffptr = new /\ e.size = Len(line)
  BY <1>8, <1>9
<1>13. heap'[e.buffptr] = Partial \o data /\ e.size = Len(heap'[e.buffptr])
  BY <1>7, <1>10, <1>12
<1>14. StoreLine(t, e, Terminated(data))
  BY <1>2
<1> HIDE DEF e, data
<1>15. \A i \in Index : buffer.entry[i].buffptr # NULL
                          => heap'[buffer.entry[i].buffptr] = heap[buffer.entry[i].buffptr]
  <2>1. \A i \in Index : /\ <<i, "slot">> \in Places \ {T}
                         /\ PtrAt(<<i, "slot">>) = buffer.entry[i].buffptr
    BY DEF Places, PtrAt
  <2> QED BY <1>11, <2>1
<1>16. /\ buffer' \in Buffer(Entry) /\ temp_entry' \in Entry
       /\ LinesAreTerminated' /\ ShapeOK' /\ Device!Write(data)
  BY <1>3, <1>4, <1>12, <1>13, <1>14, <1>15, StoreLineStep
<1>17. /\ \/ /\ evicted' = [evicted EXCEPT ![t] = evicted'[t]]
             /\ buffer.in_offs \in Index
             /\ \A i \in Index : buffer'.entry[i].buffptr
                  = IF i = buffer.in_offs THEN e.buffptr ELSE buffer.entry[i].buffptr
             /\ temp_entry'.buffptr = NULL
             /\ evicted'[t] = buffer.entry[buffer.in_offs].buffptr
          \/ /\ evicted' = evicted
             /\ \A i \in Index : buffer'.entry[i].buffptr = buffer.entry[i].buffptr
             /\ temp_entry'.buffptr = e.buffptr
       /\ evicted'[t] \in Blocks \cup {NULL} /\ evicted[t] = NULL
  BY <1>3, <1>4, <1>12, <1>14, StorePointers
<1>18. Moves(t) /\ pc'[t] = "w_up"
  BY <1>1, <1>3, <1>17 DEF Moves, Put, ThreadTypes
<1>19. OwnTypes(t)
  BY <1>1, <1>3, <1>17, <1>18 DEF ThreadTypes, OwnTypes, PCs, ArgFits
<1>20. OwnCall(t)
  BY <1>3, <1>4, <1>18 DEF Inv, CallsOK, OwnCall
<1>21. SharedTypes' /\ Others(t)
  BY <1>1, <1>3, <1>10, <1>16, <1>18, ThreadMoves DEF SharedTypes
<1> DEFINE P == [Pointers EXCEPT ![T] = new]
<1>22. Own(P, heap') /\ P \in [Places -> Blocks \cup {NULL}] /\ P[E] = NULL /\ P[T] = new
  <2>1. Pointers[T] = old /\ Pointers[E] = NULL
    BY <1>5, <1>17 DEF Pointers
  <2> HIDE DEF K, E, S, T, line, old
  <2>2. heap' = [[b \in Blocks |-> IF b = Pointers[T] THEN Free ELSE heap[b]] EXCEPT ![new] = line]
    BY <1>2, <2>1
  <2>3. Own([Pointers EXCEPT ![T] = new], heap')
    <3>1. Pointers[T] # NULL /\ (heap[new] = Free \/ new = Pointers[T])
      BY <1>3, <1>9, <2>1
    <3>2. T \in Places /\ new \in Blocks /\ line \in Seq(Bytes)
      BY <1>5, <1>8, <1>9
    <3> QED BY <2>2, <3>1, <3>2, PointersType, OwnRealloc
  <2> QED BY <1>5, <1>9, <2>1, <2>3, PointersType
<1>23. Own(Pointers', heap')
  <2>1. CASE /\ buffer.in_offs \in Index
             /\ \A i \in Index : buffer'.entry[i].buffptr
                  = IF i = buffer.in_offs THEN e.buffptr ELSE buffer.entry[i].buffptr
             /\ temp_entry'.buffptr = NULL
             /\ evicted'[t] = buffer.entry[buffer.in_offs].buffptr
    <3>1. /\ S \in Places /\ T # S /\ E # S
          /\ PtrAt(S) = buffer.entry[buffer.in_offs].buffptr
      BY <2>1 DEF Places, PtrAt
    <3>2. \A p \in Places : PtrAt(p)' = IF p = T THEN NULL ELSE IF p = S THEN new
                                        ELSE IF p = E THEN PtrAt(S) ELSE PtrAt(p)
      BY <1>3, <1>12, <1>21, <2>1 DEF Places, PtrAt, Others
    <3> HIDE DEF K, E, S, T
    <3>3. Pointers' = [P EXCEPT ![T] = NULL, ![S] = P[T], ![E] = P[S]]
      BY <1>5, <1>22, <3>1, <3>2 DEF Pointers
    <3> HIDE DEF P
    <3> QED BY <1>1, <1>5, <1>22, <3>1, <3>3, OwnHandOn
  <2>2. CASE /\ evicted' = evicted
             /\ \A i \in Index : buffer'.entry[i].buffptr = buffer.entry[i].buffptr
             /\ temp_entry'.buffptr = e.buffptr
    <3>1. \A p \in Places : PtrAt(p)' = IF p = T THEN new ELSE PtrAt(p)
      BY <1>3, <1>12, <2>2 DEF Places, PtrAt
    <3> HIDE DEF K, E, S, T
    <3>2. Pointers' = P
      BY <1>5, <3>1 DEF Pointers
    <3> QED BY <1>22, <3>2
  <2> QED BY <1>17, <2>1, <2>2
<1>24. HeapOwned'
  BY <1>23, OwnedPointersNext
<1>25. LockDiscipline'
  BY <1>3, <1>18, <1>21, LockKept DEF Inv, Reading, Writing, Others
<1>26. writer = t
  BY <1>3 DEF Inv, LockDiscipline, Writing
<1>27. \A u \in Threads \ {t} : kern_buf[u] # NULL => heap'[kern_buf[u]] = heap[kern_buf[u]]
  <2>1. \A u \in Threads : /\ <<u, "kern_buf">> \in Places \ {T}
                           /\ PtrAt(<<u, "kern_buf">>) = kern_buf[u]
    BY DEF Places, PtrAt
  <2> QED BY <1>11, <2>1
<1> QED BY <1>3, <1>4, <1>16, <1>18, <1>19, <1>20, <1>21, <1>24, <1>25, <1>26, <1>27, WriterStep

-----------------------------------------------------------------------------
(* Before the first insmod.                                                *)
LEMMA InitInv == ASSUME Init PROVE Inv /\ Device!Init
<1>1. /\ loaded = FALSE /\ buffer = aesd_circular_buffer_init /\ temp_entry = NoEntry
      /\ readers = {} /\ writer = NULL /\ heap = [b \in Blocks |-> Free]
      /\ opened = {} /\ f_pos = [f \in Files |-> 0]
  BY DEF Init
<1>2. /\ pc = [t \in Threads |-> "idle"] /\ file = [t \in Threads |-> NULL]
      /\ pos = [t \in Threads |-> 0] /\ arg = [t \in Threads |-> <<>>]
      /\ kern_buf = [t \in Threads |-> NULL] /\ evicted = [t \in Threads |-> NULL]
      /\ found = [t \in Threads |-> NULL] /\ copied = [t \in Threads |-> <<>>]
      /\ ok = [t \in Threads |-> TRUE]
  BY DEF Init
<1>3. SharedTypes
  BY <1>1, InitBuffer DEF SharedTypes, Entry
<1>4. ThreadTypes
  <2>1. <<>> \in Seq(Bytes)
    OBVIOUS
  <2> QED BY <1>2, <2>1 DEF ThreadTypes, ArgFits, Found, PCs
<1>5. TypeOK
  BY <1>3, <1>4, TypesSplit
<1>6. LockDiscipline
  BY <1>1, <1>2, AesdCharAssumption DEF LockDiscipline, Reading, Writing
<1>7. \A p \in Places : PtrAt(p) = NULL
  BY <1>1, <1>2, InitBuffer DEF Places, PtrAt, NoEntry
<1>8. HeapOwned
  BY <1>1, <1>7, AesdCharAssumption DEF HeapOwned
<1>9. ShapeOK
  BY <1>1, InitBuffer DEF ShapeOK
<1>10. LinesAreTerminated
  BY <1>1, InitBuffer DEF LinesAreTerminated, NoEntry
<1>11. CallsOK /\ FoundOK
  BY <1>2 DEF CallsOK, FoundOK
<1>12. Lines = <<>> /\ Partial = <<>>
  BY <1>1 DEF Lines, Partial, NoEntry
<1> QED BY <1>5, <1>6, <1>8, <1>9, <1>10, <1>11, <1>12 DEF Inv, Device!Init

(* No step of a call but the storing of a fragment changes what the device *)
(* holds;                                                                  *)
LEMMA QuietCall ==
  ASSUME Inv, NEW t \in Threads, Begin(t) \/ Down(t) \/ Proceed(t) \/ Signalled(t),
         ~WriteFirst(t), ~WriteAppend(t)
  PROVE  Inv' /\ UNCHANGED <<Lines, Partial>>
<1>1. CASE Begin(t)
  <2>1. PICK f \in Files : \/ \E data \in UserBuffers : WriteEnter(t, f, data)
                           \/ \E count \in Counts : ReadEnter(t, f, count)
                           \/ \E seekto \in SeekTos : IoctlEnter(t, f, seekto)
                           \/ \E seek \in Seeks : LseekEnter(t, f, seek)
    BY <1>1 DEF Begin
  <2> QED BY <2>1, WriteEnterInv, EnterInv
<1>2. CASE Down(t)
  BY <1>2, WriterDownInv, ReadDownInv DEF Down
<1>3. CASE Signalled(t)
  BY <1>3, WriteFailsInv, LeaveInv DEF Signalled
<1>4. CASE Proceed(t)
  <2>1. CASE WriteNoMem(t) \/ WriteUp(t) \/ WriteFree(t)
    BY <2>1, WriteFailsInv, WriterUpInv, WriteFreeInv
  <2>2. CASE ReadFind(t) \/ ReadCopy(t) \/ ReadUp(t) \/ ReadReturn(t)
    BY <2>2, ReadFindInv, ReadCopyInv, ReadUpInv, LeaveInv
  <2>3. CASE IoctlSeek(t) \/ IoctlUp(t) \/ LseekSize(t) \/ LseekUp(t) \/ LseekSet(t)
    BY <2>3, SeekInv, WriterUpInv, LeaveInv
  <2> QED BY <1>4, <2>1, <2>2, <2>3 DEF Proceed
<1> QED BY <1>1, <1>2, <1>3, <1>4

(* that step is one write.                                                 *)
LEMMA CallStep ==
  ASSUME Inv, NEW t \in Threads, Begin(t) \/ Down(t) \/ Proceed(t) \/ Signalled(t)
  PROVE  Inv' /\ (Device!Next \/ UNCHANGED <<Lines, Partial>>)
<1>1. CASE WriteFirst(t) \/ WriteAppend(t)
  BY <1>1, WriteFirstInv, WriteAppendInv DEF Device!Next
<1>2. CASE ~WriteFirst(t) /\ ~WriteAppend(t)
  BY <1>2, QuietCall
<1> QED BY <1>1, <1>2

(* Every step keeps the invariant and is a step of LineDevice or leaves    *)
(* its variables alone.                                                    *)
LEMMA NextInv ==
  ASSUME Inv, [Next]_vars PROVE Inv' /\ [Device!Next]_(Device!vars)
<1>1. CASE aesd_init_module
  BY <1>1, InitModuleInv DEF Device!vars
<1>2. CASE aesd_cleanup_module
  BY <1>2, CleanupModuleInv DEF Device!Next, Device!Discard
<1>3. CASE \E f \in Files : aesd_open(f) \/ aesd_release(f)
  BY <1>3, OpenInv DEF Device!vars
<1>4. CASE \E t \in Threads : Begin(t) \/ Down(t) \/ Proceed(t) \/ Signalled(t)
  BY <1>4, CallStep DEF Device!vars
<1>5. CASE UNCHANGED vars
  <2>1. UNCHANGED <<loaded, buffer, temp_entry, readers, writer, heap, opened, f_pos, pc, file,
                    pos, arg, kern_buf, evicted, found, copied, ok>>
    BY <1>5 DEF vars, dev, lock, fs, call
  <2>2. UNCHANGED <<Lines, Partial>>
    BY <2>1 DEF Lines, Partial
  <2>3. LockDiscipline' /\ HeapOwned'
    BY <2>1 DEF Inv, LockDiscipline, Reading, Writing, HeapOwned, Places, PtrAt
  <2>4. TypeOK'
    <3>1. SharedTypes /\ ThreadTypes
      BY TypesSplit DEF Inv, CallsOK
    <3>2. SharedTypes' /\ ThreadTypes'
      BY <2>1, <3>1 DEF SharedTypes, ThreadTypes
    <3> QED BY <3>2, TypesJoin
  <2>5. LinesAreTerminated' /\ ShapeOK' /\ CallsOK' /\ FoundOK'
    BY <2>1, <2>2 DEF Inv, LinesAreTerminated, ShapeOK, CallsOK, FoundOK
  <2> QED BY <2>2, <2>3, <2>4, <2>5 DEF Inv, Device!vars
<1> QED BY <1>1, <1>2, <1>3, <1>4, <1>5 DEF Next

(* The inductive invariant holds in every reachable state.                 *)
LEMMA Invariance == Spec => []Inv
<1>1. Init => Inv
  BY InitInv
<1>2. Inv /\ [Next]_vars => Inv'
  BY NextInv
<1> QED BY <1>1, <1>2, PTL DEF Spec

(* The types, for any number of threads, files and blocks.                 *)
THEOREM TypesHold == Spec => []TypeOK
<1>1. Inv => TypeOK
  BY DEF Inv
<1> QED BY <1>1, Invariance, PTL

(* dev->lock is held by exactly the threads between a down and its up, and *)
(* a writer is alone.                                                      *)
THEOREM LockIsGivenBack == Spec => []LockDiscipline
<1>1. Inv => LockDiscipline
  BY DEF Inv
<1> QED BY <1>1, Invariance, PTL

(* Every block the driver allocated is held in exactly one place: aesd_    *)
(* write and aesd_cleanup_module leak nothing and free nothing twice.      *)
THEOREM NothingLeaks == Spec => []HeapOwned
<1>1. Inv => HeapOwned
  BY DEF Inv
<1> QED BY <1>1, Invariance, PTL

(* The entry aesd_read found is still there, and the one at its position,  *)
(* when it copies from it.                                                 *)
THEOREM FoundEntryStands == Spec => []FoundStands
<1>1. Inv => FoundStands
  BY ReaderStands DEF FoundStands
<1> QED BY <1>1, Invariance, PTL

(* Each entry of the buffer is one line with its size, the partial line    *)
(* never is one.                                                           *)
THEOREM EntriesAreLines == Spec => []LinesAreTerminated
<1>1. Inv => LinesAreTerminated
  BY DEF Inv
<1> QED BY <1>1, Invariance, PTL

(* The driver implements LineDevice: concurrent calls of aesd_write act at *)
(* one instant each, and nothing else that threads do, fail to do or free  *)
(* after the unlock changes the lines a reader can see.                    *)
THEOREM DriverRefinement == Spec => ImplementsLineDevice
<1>1. Init => Device!Init
  BY InitInv
<1>2. Inv /\ [Next]_vars => [Device!Next]_(Device!vars)
  BY NextInv
<1> QED BY <1>1, <1>2, Invariance, PTL DEF Spec, ImplementsLineDevice, Device!Spec

-----------------------------------------------------------------------------
(* The lines laid end to end: the bytes of each entry are where the loops  *)
(* over the buffer count them.                                             *)
LEMMA LinesLaid ==
  ASSUME Inv, loaded
  PROVE  /\ FlattenSeq(Lines) \in Seq(Bytes)
         /\ Len(Lines) = aesd_circular_buffer_size(buffer)
         /\ \A k \in 0 .. Len(Lines) - 1 :
              /\ Lines[k + 1] = heap[buffer.entry[SlotAt(buffer, k)].buffptr]
              /\ Len(Lines[k + 1]) = buffer.entry[SlotAt(buffer, k)].size
         /\ InPlace(buffer, Lines, FlattenSeq(Lines))
<1> DEFINE n == aesd_circular_buffer_size(buffer)
           s == Lines
<1>1. RingOK(buffer) /\ n \in Nat
  BY SizeAndSlots, MaxAssumption DEF Inv, ShapeOK
<1>2. s = [k \in 1 .. n |-> heap[buffer.entry[SlotAt(buffer, k - 1)].buffptr]]
  BY DEF Lines
<1> HIDE DEF n, s
<1>3. ASSUME NEW k \in 1 .. n
      PROVE  /\ s[k] = heap[buffer.entry[SlotAt(buffer, k - 1)].buffptr]
             /\ s[k] \in Seq(Bytes) /\ Len(s[k]) = buffer.entry[SlotAt(buffer, k - 1)].size
  <2>1. k - 1 \in 0 .. n - 1
    BY <1>1
  <2>2. SlotAt(buffer, k - 1) \in Index /\ buffer.entry[SlotAt(buffer, k - 1)].buffptr # NULL
    BY <2>1, SlotsUsed DEF n
  <2>3. s[k] = heap[buffer.entry[SlotAt(buffer, k - 1)].buffptr]
    BY <1>2
  <2> QED BY <2>2, <2>3, SlotLine
<1>4. s \in Seq(Seq(Bytes)) /\ Len(s) = n
  <2>1. s = [k \in 1 .. n |-> s[k]]
    BY <1>2, <1>3
  <2> QED BY <1>1, <1>3, <2>1
<1>5. Fits(buffer, s)
  BY <1>3, <1>4 DEF Fits, n
<1>6. FlattenSeq(s) \in Seq(Bytes) /\ InPlace(buffer, s, FlattenSeq(s))
  BY <1>1, <1>4, <1>5, EntriesLaid
<1>7. ASSUME NEW k \in 0 .. n - 1
      PROVE  /\ s[k + 1] = heap[buffer.entry[SlotAt(buffer, k)].buffptr]
             /\ Len(s[k + 1]) = buffer.entry[SlotAt(buffer, k)].size
  <2>1. k + 1 \in 1 .. n /\ (k + 1) - 1 = k
    BY <1>1
  <2> QED BY <1>3, <2>1
<1> QED BY <1>4, <1>6, <1>7 DEF n, s

(* What ReadsTheStream says of one thread: copied are the bytes of the     *)
(* stream that end at position p, and nothing only at the end.             *)
Copied(data, p, stream) ==
  LET n == Len(data)
  IN  data = SubSeq(stream, p - n + 1, p) /\ (n = 0 => p >= Len(stream))

(* A call in progress has the module loaded.                               *)
LEMMA CallLoaded ==
  ASSUME Inv, NEW t \in Threads, pc[t] # "idle" PROVE loaded /\ file[t] \in opened
BY DEF Inv, CallsOK, ShapeOK

(* Copying size bytes from offset o of the entry found takes them from the *)
(* position of the read.                                                   *)
LEMMA CopyFromStream ==
  ASSUME Inv, NEW t \in Threads, pc[t] = "r_copy", NEW size \in Nat \ {0},
         found[t].offset + size <= buffer.entry[found[t].slot].size
  PROVE  LET entry == buffer.entry[found[t].slot]
             o == found[t].offset
         IN  Copied(SubSeq(heap[entry.buffptr], o + 1, o + size), pos[t] + size, FlattenSeq(Lines))
<1> DEFINE r == aesd_circular_buffer_find_entry_offset_for_fpos(buffer, pos[t])
           f == FlattenSeq(Lines)
           p == pos[t]
           o == found[t].offset
<1>1. found[t] = r /\ r # NULL /\ p \in Nat /\ RingOK(buffer) /\ loaded
  BY CallLoaded DEF Inv, FoundOK, TypeOK, ShapeOK
<1>2. PICK k \in 0 .. aesd_circular_buffer_size(buffer) - 1 :
        /\ r = [slot |-> SlotAt(buffer, k), offset |-> p - BytesBefore(buffer, k)]
        /\ BytesBefore(buffer, k) \in Nat /\ BytesBefore(buffer, k) <= p
  BY <1>1, FindEntry
<1> DEFINE before == BytesBefore(buffer, k)
           entry == buffer.entry[SlotAt(buffer, k)]
           x == heap[entry.buffptr]
<1> HIDE DEF r, p
<1>3. /\ found[t].slot = SlotAt(buffer, k) /\ o = p - before
      /\ before \in Nat /\ before <= p
  BY <1>1, <1>2
<1>4. entry.size \in Nat /\ x \in Seq(Bytes) /\ Len(x) = entry.size
  BY <1>3, ReaderStands
<1>5. o \in Nat /\ o + size <= entry.size
  BY <1>1, <1>3
<1>6. /\ f \in Seq(Bytes) /\ k \in 0 .. Len(Lines) - 1 /\ Lines[k + 1] = x
      /\ Len(Lines[k + 1]) = entry.size /\ InPlace(buffer, Lines, f)
  BY <1>1, LinesLaid
<1> HIDE DEF f, before, entry, x
<1>7. \A j \in 1 .. entry.size : f[before + j] = x[j]
  BY <1>6 DEF InPlace, before
<1>8. before + entry.size <= Len(f)
  BY <1>6 DEF InPlace, before
<1> HIDE DEF o
<1>9. \A i \in 1 .. size : p + i = before + (o + i) /\ o + i \in 1 .. entry.size
  BY <1>1, <1>3, <1>4, <1>5
<1>10. \A i \in 1 .. size : f[p + i] = x[o + i]
  BY <1>7, <1>9
<1> DEFINE data == SubSeq(x, o + 1, o + size)
<1>11. data = [i \in 1 .. size |-> x[o + i]] /\ Len(data) = size
  BY <1>4, <1>5
<1>12. SubSeq(f, p + 1, p + size) = [i \in 1 .. size |-> f[p + i]]
  BY <1>1, <1>3, <1>4, <1>5, <1>6, <1>8
<1>13. data = SubSeq(f, p + 1, p + size)
  <2> HIDE DEF data
  <2> QED BY <1>10, <1>11, <1>12
<1>14. (p + size) - size + 1 = p + 1
  BY <1>1
<1> HIDE DEF data
<1>15. Copied(data, p + size, f)
  BY <1>11, <1>13, <1>14 DEF Copied
<1> QED BY <1>3, <1>15 DEF data, x, entry, o, p, f

(* Where the step of thread t leaves its own pc, and that the other        *)
(* threads' locals are as before.                                          *)
Takes(t, pcs) ==
  /\ \E v \in pcs : pc' = [pc EXCEPT ![t] = v]
  /\ Put(pos, pos', t) /\ Put(copied, copied', t) /\ Put(ok, ok', t)

(* No step of a call but ReadFind and ReadCopy gets a thread to the end of *)
(* its read, and none touches what another thread copied.                  *)
LEMMA CallLocals ==
  ASSUME NEW t \in Threads, Begin(t) \/ Down(t) \/ Proceed(t) \/ Signalled(t)
  PROVE  Takes(t, IF ReadFind(t) \/ ReadCopy(t) THEN PCs ELSE PCs \ {"r_up"})
<1> USE DEF Takes, Put, PCs, Goto, call
<1>1. ASSUME ReadFind(t) PROVE Takes(t, PCs)
  BY <1>1 DEF ReadFind
<1>2. ASSUME ReadCopy(t) PROVE Takes(t, PCs)
  BY <1>2 DEF ReadCopy
<1> SUFFICES ASSUME ~ReadFind(t), ~ReadCopy(t) PROVE Takes(t, PCs \ {"r_up"})
  BY <1>1, <1>2
<1>3. CASE Begin(t)
  <2>1. PICK f \in Files : \/ \E data \in UserBuffers : WriteEnter(t, f, data)
                           \/ \E count \in Counts : ReadEnter(t, f, count)
                           \/ \E seekto \in SeekTos : IoctlEnter(t, f, seekto)
                           \/ \E seek \in Seeks : LseekEnter(t, f, seek)
    BY <1>3 DEF Begin
  <2> QED BY <2>1 DEF WriteEnter, ReadEnter, IoctlEnter, LseekEnter, Enter
<1>4. CASE Down(t)
  BY <1>4 DEF Down, WriteDown, ReadDown, IoctlDown, LseekDown
<1>5. CASE Signalled(t)
  <2>1. CASE WriteKilled(t) \/ ReadInterrupted(t)
    BY <2>1 DEF WriteKilled, ReadInterrupted
  <2>2. CASE IoctlKilled(t) \/ LseekKilled(t)
    BY <2>2 DEF IoctlKilled, LseekKilled, Leave
  <2> QED BY <1>5, <2>1, <2>2 DEF Signalled
<1>6. CASE WriteFirst(t) \/ WriteAppend(t) \/ WriteNoMem(t) \/ WriteUp(t) \/ WriteFree(t)
  <2>1. CASE WriteFirst(t) \/ WriteAppend(t)
    BY <2>1 DEF WriteFirst, WriteAppend
  <2>2. CASE WriteNoMem(t) \/ WriteUp(t)
    BY <2>2 DEF WriteNoMem, WriteUp
  <2>3. CASE WriteFree(t)
    BY <2>3 DEF WriteFree, Leave
  <2> QED BY <1>6, <2>1, <2>2, <2>3
<1>7. CASE ReadUp(t) \/ ReadReturn(t)
  BY <1>7 DEF ReadUp, ReadReturn, Leave
<1>8. CASE IoctlSeek(t) \/ IoctlUp(t)
  BY <1>8 DEF IoctlSeek, IoctlUp, Leave
<1>9. CASE LseekSize(t) \/ LseekUp(t) \/ LseekSet(t)
  BY <1>9 DEF LseekSize, LseekUp, LseekSet, Leave
<1> QED BY <1>3, <1>4, <1>5, <1>6, <1>7, <1>8, <1>9 DEF Proceed

(* The copied bytes stay those of the stream: a step that changes the      *)
(* lines is a writer's, who has the lock alone, or removes the module,     *)
(* which no open file lets happen.                                         *)
LEMMA StreamStep ==
  ASSUME Inv, ReadsTheStream, [Next]_vars PROVE ReadsTheStream'
<1> DEFINE Stream == FlattenSeq(Lines)
<1> SUFFICES ASSUME NEW u \in Threads, pc'[u] = "r_up", ok'[u]
             PROVE  Copied(copied'[u], pos'[u], Stream')
  BY DEF ReadsTheStream, Copied
<1>1. ThreadTypes /\ NULL \notin Threads
  BY TypesSplit, AesdCharAssumption DEF Inv, CallsOK
<1>2. ASSUME pc[u] = "r_up", ok[u], UNCHANGED <<copied[u], pos[u]>>, Lines' = Lines
      PROVE  Copied(copied'[u], pos'[u], Stream')
  BY <1>2 DEF ReadsTheStream, Copied
<1>3. CASE \/ aesd_init_module \/ aesd_cleanup_module \/ UNCHANGED vars
           \/ \E f \in Files : aesd_open(f) \/ aesd_release(f)
  <2>1. UNCHANGED <<pc, pos, copied, ok>>
    BY <1>3 DEF aesd_init_module, aesd_cleanup_module, aesd_open, aesd_release, call, vars
  <2>2. pc[u] = "r_up" /\ ok[u] /\ UNCHANGED <<copied[u], pos[u]>> /\ opened # {}
    BY <2>1, CallLoaded
  <2>3. Lines' = Lines
    <3>1. ~aesd_cleanup_module
      BY <2>2 DEF aesd_cleanup_module
    <3>2. CASE UNCHANGED vars
      BY <3>2 DEF vars, dev, Lines
    <3> QED BY <1>3, <3>1, <3>2, InitModuleInv, OpenInv
  <2> QED BY <1>2, <2>2, <2>3
<1>4. ASSUME NEW t \in Threads, Begin(t) \/ Down(t) \/ Proceed(t) \/ Signalled(t)
      PROVE  Copied(copied'[u], pos'[u], Stream')
  <2>1. Takes(t, IF ReadFind(t) \/ ReadCopy(t) THEN PCs ELSE PCs \ {"r_up"})
    BY <1>4, CallLocals
  <2>2. CASE t # u
    <3>1. pc[u] = "r_up" /\ ok[u] /\ UNCHANGED <<copied[u], pos[u]>>
      BY <1>1, <2>1, <2>2 DEF Takes, Put, ThreadTypes
    <3>2. ~WriteFirst(t) /\ ~WriteAppend(t)
      <4>1. u \in readers /\ writer = NULL
        BY <3>1, <1>1 DEF Inv, LockDiscipline, Reading
      <4>2. pc[t] # "w_body"
        BY <1>1, <4>1 DEF Inv, LockDiscipline, Writing
      <4> QED BY <4>2 DEF WriteFirst, WriteAppend, Goto
    <3> QED BY <1>2, <1>4, <3>1, <3>2, QuietCall
  <2>3. CASE t = u
    <3>1. ReadFind(u) \/ ReadCopy(u)
      <4>1. pc' = [pc EXCEPT ![u] = pc'[u]]
        BY <1>1, <2>1, <2>3 DEF Takes, ThreadTypes
      <4> QED BY <1>1, <2>1, <2>3, <4>1 DEF Takes, ThreadTypes
    <3>2. Lines' = Lines
      BY <3>1, ReadFindInv, ReadCopyInv
    <3>3. CASE ReadFind(u)
      <4>1. /\ pc[u] = "r_find" /\ copied' = copied /\ pos' = pos
            /\ aesd_circular_buffer_find_entry_offset_for_fpos(buffer, pos[u]) = NULL
        BY <1>1, <3>3 DEF ReadFind, Goto, ThreadTypes
      <4>2. copied[u] = <<>> /\ pos[u] \in Nat /\ RingOK(buffer) /\ loaded
        BY <1>1, <4>1, CallLoaded DEF Inv, CallsOK, ShapeOK, ThreadTypes
      <4>3. aesd_circular_buffer_bytes_size(buffer) <= pos[u]
        BY <4>1, <4>2, FindEntry, NullAssumption DEF Index
      <4>4. Len(Stream) <= pos[u] /\ Stream \in Seq(Bytes)
        BY <4>2, <4>3, LinesLaid DEF InPlace
      <4> HIDE DEF Stream
      <4>5. SubSeq(Stream, pos[u] - 0 + 1, pos[u]) = <<>> /\ Len(<<>>) = 0
        BY <4>2, <4>4
      <4>6. Copied(<<>>, pos[u], Stream)
        BY <4>2, <4>4, <4>5 DEF Copied
      <4> QED BY <3>2, <4>1, <4>2, <4>6 DEF Stream
    <3>4. CASE ReadCopy(u)
      <4> DEFINE entry == buffer.entry[found[u].slot]
                 size == Min({arg[u][1], entry.size - found[u].offset})
                 data == SubSeq(heap[entry.buffptr], found[u].offset + 1, found[u].offset + size)
      <4>1. /\ pc[u] = "r_copy"
            /\ \/ copied' = [copied EXCEPT ![u] = data] /\ pos' = [pos EXCEPT ![u] = @ + size]
               \/ ok' = [ok EXCEPT ![u] = FALSE]
        BY <3>4 DEF ReadCopy, Goto, FromOffset
      <4>2. size \in Nat \ {0} /\ found[u].offset + size <= entry.size
        BY <4>1, CopySize
      <4> HIDE DEF size
      <4>3. Copied(data, pos[u] + size, Stream)
        BY <4>1, <4>2, CopyFromStream
      <4> HIDE DEF data, Stream
      <4>4. copied'[u] = data /\ pos'[u] = pos[u] + size
        BY <1>1, <4>1 DEF ThreadTypes
      <4> QED BY <3>2, <4>3, <4>4 DEF Stream
    <3> QED BY <3>1, <3>3, <3>4
  <2> QED BY <2>2, <2>3
<1> QED BY <1>3, <1>4 DEF Next

(* aesd_read: what a read copies are the bytes at its position in the      *)
(* lines laid end to end, while it holds the lock; it copies nothing only  *)
(* when it stands at the end, however the lines are cut and whatever other *)
(* threads write, seek or free.                                            *)
THEOREM ReadsAreOfTheStream == Spec => []ReadsTheStream
<1>1. Init => ReadsTheStream
  BY DEF Init, ReadsTheStream
<1>2. Inv /\ ReadsTheStream /\ [Next]_vars => ReadsTheStream'
  BY StreamStep
<1> QED BY <1>1, <1>2, Invariance, PTL DEF Spec
=============================================================================
