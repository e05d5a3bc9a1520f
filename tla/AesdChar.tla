------------------------------ MODULE AesdChar ------------------------------
(***************************************************************************)
(* The character driver, aesd-char-driver/main.c: threads in read, write,  *)
(* ioctl and llseek calls on open files of one device, whose buffer,       *)
(* partial line and memory they share under dev->lock.                     *)
(*                                                                         *)
(* A call is a walk over the pc values below.  Steps are split where       *)
(* another thread can come in between: before and after the lock is taken, *)
(* between finding an entry and copying from it, after the unlock.  The    *)
(* kernel is external: kmalloc/krealloc/kfree are a heap of blocks,        *)
(* rw_semaphore is readers and writer, and the VFS hands read and write a  *)
(* copy of f_pos that it stores back when they succeed.                    *)
(***************************************************************************)
EXTENDS CircularBuffer, SequencesExt

CONSTANTS Threads,      \* callers, each in at most one call at a time
          Files,        \* open file descriptions (struct file)
          Blocks,       \* blocks of kernel memory
          Free,         \* the content of a block that is not allocated
          Bytes, NL,    \* the bytes written, the newline among them
          UserBuffers,  \* what user space passes to write
          Counts,       \* how much it asks read for
          SeekTos,      \* the <<write_cmd, write_cmd_offset>> it passes to ioctl
          Seeks,        \* the <<whence, offset>> it passes to llseek
          KMALLOC_MAX   \* the largest block the kernel allocates

SEEK_SET == 0
SEEK_CUR == 1
SEEK_END == 2

ASSUME AesdCharAssumption ==
  /\ NULL \notin Threads \cup Files \cup Blocks
  /\ Free \notin Seq(Bytes)
  /\ UserBuffers \subseteq Seq(Bytes) \ {<<>>}
  /\ Counts \subseteq Nat \ {0}
  /\ SeekTos \subseteq Nat \X Nat
  /\ Seeks \subseteq {SEEK_SET, SEEK_CUR, SEEK_END} \X Int
  /\ KMALLOC_MAX \in Nat

VARIABLES
  loaded,      \* the module is loaded and its cdev added
  buffer,      \* aesd_device.buffer
  temp_entry,  \* aesd_device.temp_entry, the line under construction
  readers,     \* the threads that hold aesd_device.lock for reading
  writer,      \* the thread that holds it for writing, or NULL
  heap,        \* what each allocated block contains
  opened,      \* the files that are open
  f_pos,       \* filp->f_pos of each file
  pc, file,    \* where each thread is, and in a call on which file
  pos,         \* read, write: the VFS's copy of f_pos; llseek: buffer_bytes_size
  arg,         \* <<count>> of read, seekto of ioctl, <<whence, offset>> of llseek
  kern_buf,    \* write: kern_buf
  evicted,     \* write: evicted_entry.buffptr
  found,       \* read: entry and offset, as find_entry returned them
  copied,      \* read: the bytes given to user space, while the lock is held
  ok           \* the call's retval is not negative

dev  == <<loaded, buffer, temp_entry>>
lock == <<readers, writer>>
fs   == <<opened, f_pos>>
call == <<file, pos, arg, kern_buf, evicted, found, copied, ok>>
vars == <<dev, lock, heap, fs, pc, call>>

-----------------------------------------------------------------------------
(* The thread at `from' goes on at `to'.                                   *)
Goto(t, from, to) == pc[t] = from /\ pc' = [pc EXCEPT ![t] = to]

(* down_write_killable: waits for the lock; when it has to wait, a fatal   *)
(* signal can end the wait.                                                *)
down_write(t) == readers = {} /\ writer = NULL /\ writer' = t /\ UNCHANGED readers
MustWaitToWrite == readers # {} \/ writer # NULL
up_write(t) == writer' = NULL /\ UNCHANGED readers

(* The blocks kmalloc, or krealloc when it has to move, may return.        *)
FreeBlocks == {b \in Blocks : heap[b] = Free}

(* kfree of a set of pointers, some of which may be NULL.                  *)
Freed(ptrs) == [b \in Blocks |-> IF b \in ptrs THEN Free ELSE heap[b]]

(* The thread leaves the call it is in and its locals go.                  *)
Leave(t) ==
  /\ file' = [file EXCEPT ![t] = NULL]
  /\ pos' = [pos EXCEPT ![t] = 0]
  /\ arg' = [arg EXCEPT ![t] = <<>>]
  /\ kern_buf' = [kern_buf EXCEPT ![t] = NULL]
  /\ evicted' = [evicted EXCEPT ![t] = NULL]
  /\ found' = [found EXCEPT ![t] = NULL]
  /\ copied' = [copied EXCEPT ![t] = <<>>]
  /\ ok' = [ok EXCEPT ![t] = TRUE]

(* ksys_read and ksys_write store their copy of f_pos when the call        *)
(* succeeded; the file is not locked for that.                             *)
StorePos(t) == f_pos' = IF ok[t] THEN [f_pos EXCEPT ![file[t]] = pos[t]] ELSE f_pos

(* A thread enters a call on an open file.                                 *)
Enter(t, f, to) ==
  /\ Goto(t, "idle", to)
  /\ f \in opened
  /\ file' = [file EXCEPT ![t] = f]

Init ==
  /\ loaded = FALSE
  /\ buffer = aesd_circular_buffer_init
  /\ temp_entry = NoEntry
  /\ readers = {} /\ writer = NULL
  /\ heap = [b \in Blocks |-> Free]
  /\ opened = {} /\ f_pos = [f \in Files |-> 0]
  /\ pc = [t \in Threads |-> "idle"]
  /\ file = [t \in Threads |-> NULL]
  /\ pos = [t \in Threads |-> 0]
  /\ arg = [t \in Threads |-> <<>>]
  /\ kern_buf = [t \in Threads |-> NULL]
  /\ evicted = [t \in Threads |-> NULL]
  /\ found = [t \in Threads |-> NULL]
  /\ copied = [t \in Threads |-> <<>>]
  /\ ok = [t \in Threads |-> TRUE]

-----------------------------------------------------------------------------
(* insmod.  A failure of alloc_chrdev_region changes nothing; when         *)
(* cdev_add fails the device has been initialised but is not there.        *)
aesd_init_module ==
  /\ ~loaded
  /\ loaded' \in BOOLEAN
  /\ buffer' = aesd_circular_buffer_init
  /\ temp_entry' = NoEntry
  /\ readers' = {} /\ writer' = NULL
  /\ UNCHANGED <<heap, fs, pc, call>>

(* rmmod.  .owner = THIS_MODULE keeps it away while a file is open.  The   *)
(* offsets of the buffer are left as they are.                             *)
aesd_cleanup_module ==
  /\ loaded /\ opened = {}
  /\ loaded' = FALSE
  /\ heap' = Freed({buffer.entry[i].buffptr : i \in Index} \cup {temp_entry.buffptr})
  /\ buffer' = [buffer EXCEPT !.entry = [i \in Index |-> NoEntry]]
  /\ temp_entry' = NoEntry
  /\ UNCHANGED <<lock, fs, pc, call>>

aesd_open(f) ==
  /\ loaded /\ f \notin opened
  /\ opened' = opened \cup {f}
  /\ f_pos' = [f_pos EXCEPT ![f] = 0]
  /\ UNCHANGED <<dev, lock, heap, pc, call>>

(* The last close of f: no call on it is left.                             *)
aesd_release(f) ==
  /\ f \in opened /\ \A t \in Threads : file[t] # f
  /\ opened' = opened \ {f}
  /\ f_pos' = [f_pos EXCEPT ![f] = 0]
  /\ UNCHANGED <<dev, lock, heap, pc, call>>

-----------------------------------------------------------------------------
(* aesd_write.  Before the lock: kern_buf is allocated and filled from     *)
(* user space.  A failed kmalloc returns at once and changes nothing; a    *)
(* failed copy goes straight to the clean-up.                              *)
WriteEnter(t, f, data) ==
  /\ Enter(t, f, "w_down") \/ Enter(t, f, "w_free")
  /\ Len(data) <= KMALLOC_MAX
  /\ \E b \in FreeBlocks :
       /\ heap' = [heap EXCEPT ![b] = data]
       /\ kern_buf' = [kern_buf EXCEPT ![t] = b]
  /\ pos' = [pos EXCEPT ![t] = f_pos[f]]
  /\ ok' = [ok EXCEPT ![t] = (pc'[t] = "w_down")]
  /\ UNCHANGED <<dev, lock, fs, arg, evicted, found, copied>>

WriteDown(t) ==
  /\ Goto(t, "w_down", "w_body")
  /\ down_write(t)
  /\ UNCHANGED <<dev, heap, fs, call>>

WriteKilled(t) ==
  /\ Goto(t, "w_down", "w_free")
  /\ MustWaitToWrite
  /\ ok' = [ok EXCEPT ![t] = FALSE]
  /\ UNCHANGED <<dev, lock, heap, fs, file, pos, arg, kern_buf, evicted, found, copied>>

(* The tail of the write: entry e is the line so far, and goes into the    *)
(* buffer when the bytes just written end in a newline.                    *)
StoreLine(t, e, newline_terminated) ==
  IF newline_terminated
  THEN LET r == aesd_circular_buffer_add_entry(buffer, e)
       IN  /\ buffer' = r.buffer
           /\ evicted' = [evicted EXCEPT ![t] = r.evicted.buffptr]
           /\ temp_entry' = NoEntry
  ELSE temp_entry' = e /\ UNCHANGED <<buffer, evicted>>

(* Mutant: the first byte is tested.                                       *)
TerminatedAtStart(data) == data[1] = NL

(* newline_terminated.                                                     *)
Terminated(data) == data[Len(data)] = NL

(* The first fragment of a line: kern_buf is moved to temp_entry.          *)
WriteFirst(t) ==
  LET data == heap[kern_buf[t]]
  IN  /\ Goto(t, "w_body", "w_up")
      /\ temp_entry.buffptr = NULL
      /\ StoreLine(t, [buffptr |-> kern_buf[t], size |-> Len(data)], Terminated(data))
      /\ kern_buf' = [kern_buf EXCEPT ![t] = NULL]
      /\ UNCHANGED <<loaded, lock, heap, fs, file, pos, arg, found, copied, ok>>

(* A later fragment: krealloc makes room, in place or in another block,    *)
(* and the fragment is copied behind what is there.                        *)
WriteAppend(t) ==
  LET data     == heap[kern_buf[t]]
      new_size == temp_entry.size + Len(data)
  IN  /\ Goto(t, "w_body", "w_up")
      /\ temp_entry.buffptr # NULL /\ new_size <= KMALLOC_MAX
      /\ \E new_buffptr \in FreeBlocks \cup {temp_entry.buffptr} :
           /\ heap' = [Freed({temp_entry.buffptr}) EXCEPT
                         ![new_buffptr] = heap[temp_entry.buffptr] \o data]
           /\ StoreLine(t, [buffptr |-> new_buffptr, size |-> new_size], Terminated(data))
      /\ UNCHANGED <<loaded, lock, fs, file, pos, arg, kern_buf, found, copied, ok>>

(* Mutant: the early exit skips the unlock.                                *)
WriteNoMemLocked(t) ==
  /\ Goto(t, "w_body", "w_free")
  /\ temp_entry.buffptr # NULL
  /\ ok' = [ok EXCEPT ![t] = FALSE]
  /\ UNCHANGED <<dev, lock, heap, fs, file, pos, arg, kern_buf, evicted, found, copied>>

(* krealloc fails: the line so far stays, the fragment is lost.            *)
WriteNoMem(t) ==
  /\ Goto(t, "w_body", "w_up")
  /\ temp_entry.buffptr # NULL
  /\ ok' = [ok EXCEPT ![t] = FALSE]
  /\ UNCHANGED <<dev, lock, heap, fs, file, pos, arg, kern_buf, evicted, found, copied>>

WriteUp(t) ==
  /\ Goto(t, "w_up", "w_free")
  /\ up_write(t)
  /\ UNCHANGED <<dev, heap, fs, call>>

(* After the unlock: both kfree calls, and the return to the VFS.          *)
WriteFree(t) ==
  /\ Goto(t, "w_free", "idle")
  /\ heap' = Freed({evicted[t], kern_buf[t]})
  /\ StorePos(t)
  /\ Leave(t)
  /\ UNCHANGED <<dev, lock, opened>>

-----------------------------------------------------------------------------
(* aesd_read.                                                              *)
ReadEnter(t, f, count) ==
  /\ Enter(t, f, "r_down")
  /\ pos' = [pos EXCEPT ![t] = f_pos[f]]
  /\ arg' = [arg EXCEPT ![t] = <<count>>]
  /\ UNCHANGED <<dev, lock, heap, fs, kern_buf, evicted, found, copied, ok>>

ReadDown(t) ==
  /\ Goto(t, "r_down", "r_find")
  /\ writer = NULL
  /\ readers' = readers \cup {t}
  /\ UNCHANGED <<dev, writer, heap, fs, call>>

(* -ERESTARTSYS: a signal while waiting for the lock, which a writer has,  *)
(* or waits for while other threads read.                                  *)
ReadInterrupted(t) ==
  /\ Goto(t, "r_down", "r_ret")
  /\ \/ writer # NULL
     \/ readers # {} /\ \E u \in Threads : pc[u] \in {"w_down", "i_down", "l_down"}
  /\ ok' = [ok EXCEPT ![t] = FALSE]
  /\ UNCHANGED <<dev, lock, heap, fs, file, pos, arg, kern_buf, evicted, found, copied>>

ReadFind(t) ==
  LET e == aesd_circular_buffer_find_entry_offset_for_fpos(buffer, pos[t])
  IN  /\ Goto(t, "r_find", IF e = NULL THEN "r_up" ELSE "r_copy")
      /\ found' = [found EXCEPT ![t] = e]
      /\ UNCHANGED <<dev, lock, heap, fs, file, pos, arg, kern_buf, evicted, copied, ok>>

(* Where in the entry the copy starts; and the mutant that forgets it.     *)
FromHead(t) == 0
FromOffset(t) == found[t].offset

(* copy_to_user, at most to the end of the entry; it may fault.            *)
ReadCopy(t) ==
  LET entry == buffer.entry[found[t].slot]
      size  == Min({arg[t][1], entry.size - found[t].offset})
  IN  /\ Goto(t, "r_copy", "r_up")
      /\ \/ /\ copied' = [copied EXCEPT ![t] =
                 SubSeq(heap[entry.buffptr], FromOffset(t) + 1, FromOffset(t) + size)]
            /\ pos' = [pos EXCEPT ![t] = @ + size]
            /\ UNCHANGED ok
         \/ /\ ok' = [ok EXCEPT ![t] = FALSE]
            /\ UNCHANGED <<copied, pos>>
      /\ UNCHANGED <<dev, lock, heap, fs, file, arg, kern_buf, evicted, found>>

ReadUp(t) ==
  /\ Goto(t, "r_up", "r_ret")
  /\ readers' = readers \ {t}
  /\ found' = [found EXCEPT ![t] = NULL]
  /\ copied' = [copied EXCEPT ![t] = <<>>]
  /\ UNCHANGED <<dev, writer, heap, fs, file, pos, arg, kern_buf, evicted, ok>>

ReadReturn(t) ==
  /\ Goto(t, "r_ret", "idle")
  /\ StorePos(t)
  /\ Leave(t)
  /\ UNCHANGED <<dev, lock, heap, opened>>

-----------------------------------------------------------------------------
(* aesd_ioctl.  An unknown command, or a seekto that cannot be copied from *)
(* user space, returns before the lock and changes nothing.                *)
IoctlEnter(t, f, seekto) ==
  /\ Enter(t, f, "i_down")
  /\ arg' = [arg EXCEPT ![t] = seekto]
  /\ UNCHANGED <<dev, lock, heap, fs, pos, kern_buf, evicted, found, copied, ok>>

IoctlDown(t) ==
  /\ Goto(t, "i_down", "i_seek")
  /\ down_write(t)
  /\ UNCHANGED <<dev, heap, fs, call>>

IoctlKilled(t) ==
  /\ Goto(t, "i_down", "idle")
  /\ MustWaitToWrite
  /\ Leave(t)
  /\ UNCHANGED <<dev, lock, heap, fs>>

(* filp->f_pos itself is set, not a copy of it.                            *)
IoctlSeek(t) ==
  LET seek_offset == aesd_circular_buffer_offset_at(buffer, arg[t][1], arg[t][2])
  IN  /\ Goto(t, "i_seek", "i_up")
      /\ f_pos' = IF seek_offset = NULL THEN f_pos
                  ELSE [f_pos EXCEPT ![file[t]] = seek_offset]
      /\ UNCHANGED <<dev, lock, heap, opened, call>>

IoctlUp(t) ==
  /\ Goto(t, "i_up", "idle")
  /\ up_write(t)
  /\ Leave(t)
  /\ UNCHANGED <<dev, heap, fs>>

-----------------------------------------------------------------------------
(* aesd_llseek.  The size is taken under the lock and used after it.       *)
LseekEnter(t, f, seek) ==
  /\ Enter(t, f, "l_down")
  /\ arg' = [arg EXCEPT ![t] = seek]
  /\ UNCHANGED <<dev, lock, heap, fs, pos, kern_buf, evicted, found, copied, ok>>

LseekDown(t) ==
  /\ Goto(t, "l_down", "l_size")
  /\ down_write(t)
  /\ UNCHANGED <<dev, heap, fs, call>>

LseekKilled(t) ==
  /\ Goto(t, "l_down", "idle")
  /\ MustWaitToWrite
  /\ Leave(t)
  /\ UNCHANGED <<dev, lock, heap, fs>>

LseekSize(t) ==
  /\ Goto(t, "l_size", "l_up")
  /\ pos' = [pos EXCEPT ![t] = aesd_circular_buffer_bytes_size(buffer)]
  /\ UNCHANGED <<dev, lock, heap, fs, file, arg, kern_buf, evicted, found, copied, ok>>

LseekUp(t) ==
  /\ Goto(t, "l_up", "l_set")
  /\ up_write(t)
  /\ UNCHANGED <<dev, heap, fs, call>>

(* fixed_size_llseek: a target outside 0..size is -EINVAL.                 *)
LseekSet(t) ==
  LET target == arg[t][2] + CASE arg[t][1] = SEEK_SET -> 0
                              [] arg[t][1] = SEEK_CUR -> f_pos[file[t]]
                              [] arg[t][1] = SEEK_END -> pos[t]
  IN  /\ Goto(t, "l_set", "idle")
      /\ f_pos' = IF target \in 0..pos[t]
                  THEN [f_pos EXCEPT ![file[t]] = target] ELSE f_pos
      /\ Leave(t)
      /\ UNCHANGED <<dev, lock, heap, opened>>

-----------------------------------------------------------------------------
(* A step of thread t that only needs the processor,                       *)
Proceed(t) ==
  \/ WriteFirst(t) \/ WriteAppend(t) \/ WriteNoMem(t) \/ WriteUp(t) \/ WriteFree(t)
  \/ ReadFind(t) \/ ReadCopy(t) \/ ReadUp(t) \/ ReadReturn(t)
  \/ IoctlSeek(t) \/ IoctlUp(t)
  \/ LseekSize(t) \/ LseekUp(t) \/ LseekSet(t)

(* one that needs the lock,                                                *)
Down(t) == WriteDown(t) \/ ReadDown(t) \/ IoctlDown(t) \/ LseekDown(t)

(* one that a signal makes it take,                                        *)
Signalled(t) == WriteKilled(t) \/ ReadInterrupted(t) \/ IoctlKilled(t) \/ LseekKilled(t)

(* and one that user space decides on.                                     *)
Begin(t) ==
  \E f \in Files :
    \/ \E data \in UserBuffers : WriteEnter(t, f, data)
    \/ \E count \in Counts : ReadEnter(t, f, count)
    \/ \E seekto \in SeekTos : IoctlEnter(t, f, seekto)
    \/ \E seek \in Seeks : LseekEnter(t, f, seek)

Next ==
  \/ aesd_init_module \/ aesd_cleanup_module
  \/ \E f \in Files : aesd_open(f) \/ aesd_release(f)
  \/ \E t \in Threads : Begin(t) \/ Down(t) \/ Proceed(t) \/ Signalled(t)

Spec == Init /\ [][Next]_vars

(* Threads in the kernel are scheduled, and rw_semaphore hands the lock to *)
(* its waiters in turn; user space and signals promise nothing.            *)
FairSpec == Spec /\ \A t \in Threads : WF_vars(Proceed(t)) /\ SF_vars(Down(t))

-----------------------------------------------------------------------------
Entry == [buffptr : Blocks, size : Nat] \cup {NoEntry}

(* The types of the variables.                                             *)
TypeOK ==
  /\ loaded \in BOOLEAN
  /\ buffer \in Buffer(Entry) /\ temp_entry \in Entry
  /\ readers \in SUBSET Threads /\ writer \in Threads \cup {NULL}
  /\ heap \in [Blocks -> Seq(Bytes) \cup {Free}]
  /\ opened \in SUBSET Files /\ f_pos \in [Files -> Nat]
  /\ pc \in [Threads -> {"idle", "w_down", "w_body", "w_up", "w_free",
                         "r_down", "r_find", "r_copy", "r_up", "r_ret",
                         "i_down", "i_seek", "i_up",
                         "l_down", "l_size", "l_up", "l_set"}]
  /\ file \in [Threads -> Files \cup {NULL}]
  /\ pos \in [Threads -> Nat]
  /\ DOMAIN arg = Threads
  /\ \A t \in Threads :
       CASE pc[t] \in {"r_down", "r_find", "r_copy", "r_up", "r_ret"} -> arg[t] \in {<<n>> : n \in Counts}
         [] pc[t] \in {"i_down", "i_seek", "i_up"}                   -> arg[t] \in SeekTos
         [] pc[t] \in {"l_down", "l_size", "l_up", "l_set"}          -> arg[t] \in Seeks
         [] OTHER                                                    -> arg[t] = <<>>
  /\ kern_buf \in [Threads -> Blocks \cup {NULL}]
  /\ evicted \in [Threads -> Blocks \cup {NULL}]
  /\ \A t \in Threads : found[t] = NULL \/ found[t] \in [slot : Index, offset : Nat]
  /\ copied \in [Threads -> Seq(Bytes)]
  /\ ok \in [Threads -> BOOLEAN]

(* Where a thread is between the down and the up of dev->lock.             *)
Reading(t) == pc[t] \in {"r_find", "r_copy", "r_up"}
Writing(t) == pc[t] \in {"w_body", "w_up", "i_seek", "i_up", "l_size", "l_up"}

(* dev->lock is held by exactly the threads between a down and its up:     *)
(* every path out of a handler, the failing ones too, gives back what it   *)
(* took (is_locked, up_read, up_write), and a writer is alone.             *)
LockDiscipline ==
  /\ readers = {t \in Threads : Reading(t)}
  /\ \A t \in Threads : Writing(t) <=> writer = t
  /\ writer # NULL => readers = {}

(* The places that hold a pointer to kernel memory they must free or hand  *)
(* on: the slots of the buffer, temp_entry, and the locals of aesd_write.  *)
Places == (Index \X {"slot"}) \cup {<<"dev", "temp">>}
            \cup (Threads \X {"kern_buf", "evicted"})

PtrAt(p) == CASE p[2] = "slot"     -> buffer.entry[p[1]].buffptr
              [] p[2] = "temp"     -> temp_entry.buffptr
              [] p[2] = "kern_buf" -> kern_buf[p[1]]
              [] p[2] = "evicted"  -> evicted[p[1]]

(* Every allocated block is held in exactly one place, and no place holds  *)
(* a block that is free: nothing leaks, nothing is freed twice, nothing    *)
(* dangles, on any path through aesd_write and aesd_cleanup_module.        *)
HeapOwned ==
  /\ \A p, q \in Places : PtrAt(p) # NULL /\ PtrAt(p) = PtrAt(q) => p = q
  /\ \A b \in Blocks : heap[b] # Free <=> \E p \in Places : PtrAt(p) = b

(* An entry that a reader has found is still the one at its position, its  *)
(* memory is allocated, and the assertions of main.c:74-75 hold when it    *)
(* comes to copy from it, whatever writers did in the meantime.            *)
FoundStands ==
  \A t \in Threads : pc[t] = "r_copy" =>
    LET entry == buffer.entry[found[t].slot]
    IN  /\ found[t] = aesd_circular_buffer_find_entry_offset_for_fpos(buffer, pos[t])
        /\ entry.buffptr # NULL /\ heap[entry.buffptr] # Free
        /\ found[t].offset < entry.size

(* The lines the device holds, oldest first, and the one being written.    *)
Lines ==
  IF loaded
  THEN [k \in 1 .. aesd_circular_buffer_size(buffer) |->
          heap[buffer.entry[SlotAt(buffer, k - 1)].buffptr]]
  ELSE <<>>
Partial == IF temp_entry.buffptr = NULL THEN <<>> ELSE heap[temp_entry.buffptr]

(* Each entry of the buffer is one line: its size is that of its memory    *)
(* and it ends in a newline.  The partial line is not empty and does not.  *)
LinesAreTerminated ==
  /\ \A i \in Index : LET e == buffer.entry[i] IN
       e.buffptr # NULL => Len(heap[e.buffptr]) = e.size /\ Last(heap[e.buffptr]) = NL
  /\ temp_entry.buffptr # NULL =>
       Len(Partial) = temp_entry.size /\ Last(Partial) # NL

(* What a read that did not fail copied are the bytes at its position in   *)
(* all lines laid end to end, as they are at that moment; it copies        *)
(* nothing only at the end.                                                *)
ReadsTheStream ==
  \A t \in Threads : pc[t] = "r_up" /\ ok[t] =>
    LET stream == FlattenSeq(Lines)
        n      == Len(copied[t])
    IN  /\ copied[t] = SubSeq(stream, pos[t] - n + 1, pos[t])
        /\ n = 0 => pos[t] >= Len(stream)

(* Concurrent writers act on the device as if each write happened at one   *)
(* instant, the fragments of several writers go into one line in that      *)
(* order, and neither an eviction, a failed write nor the frees after the  *)
(* unlock touch what readers see.                                          *)
Device == INSTANCE LineDevice WITH lines <- Lines, partial <- Partial
ImplementsLineDevice == Device!Spec

(* Every call returns: no path keeps the lock, so every waiter gets it.    *)
CallsReturn == \A t \in Threads : pc[t] # "idle" ~> pc[t] = "idle"
=============================================================================
