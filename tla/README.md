# Verification of the AESD character driver and socket server

TLA+ models of the two programs this repository is about: the kernel driver
behind `/dev/aesdchar` (`src/aesd-char-driver/`) and the socket server that
stores what its clients send in it (`src/server/`), and of the two examples
with processes and threads (`src/examples/`). TLC checks the models on small
instances; TLAPS proves every safety property and both refinements for all
values of the constants.

## The system

| Part | State | Operations | Meets the others through |
| --- | --- | --- | --- |
| Circular buffer, `aesd-circular-buffer.c` | array of entries (pointer, size), `in_offs`, `out_offs`, `full` | add an entry (returning the one overwritten), find the byte at a position, position of a byte of an entry, sizes | called by the driver under its lock |
| Driver, `main.c` | the buffer, `temp_entry` (the line under construction, shared by all writers), `lock` (rw_semaphore), `f_pos` per open file | open, release, read, write, ioctl `AESDCHAR_IOCSEEKTO`, llseek, load, unload | system calls of any number of threads; kernel allocator; VFS |
| Server main thread, `aesdsocket.c` | `g_running`, `sock_fd`, list of `client_info`, descriptors | open and bind a socket, daemonize, accept, start a thread per connection, join the finished ones, on a signal cancel and join all | threads, signals, `peer_fd` read without a lock |
| Client threads, `client_flow.c`, `packet_fragment.c` | fragment list, own `FILE *`, shared `rw_file_lock` | receive, cut the stream into packets, write or seek under the write lock, reply under the read lock, close, mark done | device or file, socket, main |
| TAILQ macros, `queue.h` (vendored) | head and elements with `tqe_next`, `tqe_prev` | insert, remove, safe iteration | main thread only |
| `examples/systemcalls` | child processes, the redirected output file | `do_system`, `do_exec`, `do_exec_redirect` | children are shared by all threads of a process |
| `examples/threading` | `thread_data` per thread | start a thread that sleeps, holds a mutex and ends | mutexes, the joiner that frees `thread_data` |
| `finder-app`, test harness, scripts | none that outlives a call | | |

What is hard here: threads interleave in the driver between the lock
operations and after the unlock; memory changes owner between thread, device
and buffer on paths that can fail in the middle; the server's main thread
looks at a descriptor its owner is closing; threads are cancelled while they
hold a lock; a signal races with `accept`; the network cuts packets anywhere;
a client's file position survives while evictions move the bytes below it;
a packet is written in pieces, any of which may fail; `wait()` takes whichever
child has ended.
`PROJECT.json` lists these hazards at their lines, with the properties that
cover them.

What makes each part correct:

- *Circular buffer*: it is a log of the last entries, oldest first; what it
  returns for freeing is what left it; find, seek and size agree on every byte.
- *Driver*: the lock is given back on every path; every block of memory has one
  owner; a reader never copies from memory that is gone; writes look atomic;
  reads return the bytes at their position; every call returns.
- *Server*: clients are accepted only on a listening socket; the list's pointers
  link the allocated clients and no others, threads and descriptors are not
  confused, everything is released at the end, every packet is answered, a
  signal ends the server.
- *Client threads*: packets are the lines of the stream however it is cut; no
  fragment is lost or freed twice; packets stay whole on the device; replies
  are snapshots, of the whole file in the build that rewinds.
- *Examples*: no child, file or mutex is left behind on any path; a result is
  about the command or thread it was asked for; every call and thread ends.

## The modules

| Module | Models | Source |
| --- | --- | --- |
| `CircularBuffer` | the buffer's functions as operators on a record | `aesd-circular-buffer.c`, `.h` |
| `WriteLog` | abstract: a log of the most recent entries | |
| `RingBuffer` | the buffer under any sequence of additions; shown to implement `WriteLog` | |
| `AesdChar` | the driver; extends `CircularBuffer`, shown to implement `LineDevice` | `main.c` |
| `LineDevice` | abstract: completed lines and one partial line, atomic writes | |
| `TailQueue` | the TAILQ macros the server uses, on pointers | `queue.h` |
| `AesdSocket` | the server's life cycle and its threads' locks and resources; extends `TailQueue` | `aesdsocket.c`, `client_flow.c` |
| `ClientFlow` | framing: from received chunks to packets | `client_flow.c`, `packet_fragment.c` |
| `SocketDevice` | clients' writes, seeks and replies on the device of `LineDevice` or on a file | `client_flow.c` |
| `SystemCalls` | callers of the three functions and their children | `systemcalls.c` |
| `Threading` | threads, their data and mutexes | `threading.c` |
| `FlattenProofs` | lemmas about sequences laid end to end, used for buffer entries, streams and device lines | |
| `CircularBufferProofs` | lemmas about the buffer's operators, for the next two | |
| `RingBufferProofs`, `AesdCharProofs` | theorems about `RingBuffer` and `AesdChar` | |
| `AesdSocketProofs` | lemmas about `TailQueue`, theorems about `AesdSocket` | |
| `ClientFlowProofs`, `SocketDeviceProofs` | theorems about `ClientFlow` and `SocketDevice` | |
| `ExamplesProofs` | theorems about `SystemCalls` and `Threading` | |
| `MC*` | constants, symmetry and constraints for the runs; `MCExamples` holds both examples | |

Definitions keep the names of the C functions where one definition stands for
one function. A function that another thread can interleave with is several
actions, named after the function and the step (`WriteDown`, `WriteAppend`,
`WriteUp`, `WriteFree` for `aesd_write`). `map` in `PROJECT.json` gives the
lines of each.

**CircularBuffer.** A loop over the entries with a wrapping index is `SlotAt`,
the slot after k turns; the running sum of sizes is `BytesBefore`, defined as
the number of bytes (entry, offset) in the first k entries, which is the form
the proofs can reason about. `in_offs` and `out_offs` are `uint8_t`; the
assumption `MAX_WRITE_OPERATIONS \in 1..255` is what makes them not overflow
(the code has 10).

**AesdChar.** A thread is in at most one call; its locals are variables
indexed by thread. Blocks of memory have contents or are free; `kmalloc` and
`krealloc` take any free block or fail. Between `down` and `up` the lock is
`readers` and `writer`. The VFS gives read and write a copy of `f_pos` and
stores it back on success, without a lock; ioctl and llseek set the field
itself. A fatal signal may end a wait for the lock, any signal a reader's, which
waits for a writer that has the lock or waits for it itself; `copy_from_user` and
`copy_to_user` may fault. Unloading needs all files closed (`.owner`).
Calls that return before changing anything are left out.

**TailQueue.** A list is a record of the head's two fields and the two fields of
every element. A `T **` (`tqh_last`, `tqe_prev`) is the element whose `tqe_next`
it points to, or `HEAD`. Freeing an element makes its fields `GARBAGE` (`Scrap`),
so an operation that followed them would be seen. `Represents(q, s)` says what
the pointers mean: they link exactly the elements of `s` in order, forward, back,
and at the tail.

**AesdSocket.** Packet contents are left out. Opening the socket, daemonizing,
the clients' memory blocks, descriptors, files, the list on pointers, the two
locals of its walk, thread states and lock are there. Opening tries each
address, and socket, `setsockopt` and `bind` may fail for each. `accept`
returns any free descriptor number, so numbers are reused at once. A
cancelled thread ends at a cancellation point and keeps what it holds; the two
halves of line 185-186 (close, then mark) are separate steps, and a
cancellation inside `close` may come before or after the descriptor is gone.
`alive` is whether the process runs: `ReplyKills` ends it with SIGPIPE when the
peer of a `send` has left (there is no handler and no `MSG_NOSIGNAL`), or with the
assertion of `client_flow.c:144`.

**A failed `pthread_create`** (`aesdsocket.c:125-132`) has no `return`: the client is
freed, its connection closed, and the freed block put in the list. What
`join_completed_clients` makes of it is undefined behaviour; the model has the
step and stops main there (`main = "undefined"`). The properties that are about
what follows except this state by name.

**ClientFlow.** One connection. `recv` returns any number of bytes up to the
fragment's size; both allocations may fail. `packets` records what
`write_new_packet` was given and whether there was memory for it. Without memory
for a packet of several fragments the assertion of `client_flow.c:144` fails, and
the process aborts: a state of the model (`"abort"`), with nothing after it.

**SocketDevice.** Two levels of the system together: `rw_file_lock` in the
server, the device as its abstract specification. `use_device` is the build
option `USE_AESD_CHAR_DEVICE`, so both builds are checked in one run. stdio is
external: it may cut a packet into any pieces; when a `write(2)` fails it drops
the rest of the packet, as glibc and musl do, and nobody looks at the result;
once a stream has met its end `fread` returns nothing (as C specifies, since
nothing clears the end-of-file indicator in the device build) or reads on (as
glibc does for a request as large as its buffer, which is the case here).
`eof_stays` says which, the same throughout a behaviour; both are checked.

**SystemCalls.** A command is left out but for how it ends. The kernel keeps an
ended child until someone waits for it. `do_exec` and `do_exec_redirect` call
`wait()`, so any ended child will do, and return false when it is interrupted by a
signal, which leaves a child; `system()` waits for its own, and fails when another
caller has taken its status. For the properties, `alone` records which calls
nobody overlapped, `left` counts the calls that returned without a child, and
`unclaimed` how many more commands ended with status 0 than calls returned true.

**Threading.** Sleeping is any delay. A thread is named by its `thread_data`;
the joiner, which is outside the file, frees it as `threading.h` asks. Its
specification is `ThreadSpec`, with names of its own (`ThreadInit`, `ThreadNext`,
`ThreadTypeOK`), so that one module can hold the proofs of both examples,
and one the run.

## The runs

Passing runs:

| Run | Bounds | Shows |
| --- | --- | --- |
| `ring` | 3 slots, entries of 0 to 2 bytes | `RingShape`, `ImplementsWriteLog`, `FindsTheByte`, `SeekAndFindAgree`: every fill level, wrap position and empty entry |
| `driver` | 2 threads, 1 file, 2 lines, 5 blocks, fragments of 1 and 2 bytes, blocks up to 4 bytes | `LockDiscipline`, `HeapOwned`, `FoundStands`, `LinesAreTerminated`, `ReadsTheStream`, `ImplementsLineDevice` |
| `driver_live` | 2 threads, 1 line, 3 blocks | `CallsReturn` |
| `server` | 3 clients, 3 descriptors, 2 addresses | `ListenerIsBound`, `ListIsAllocated`, `ThreadsOwnTheirs`, `MainClosesLeftovers`, `AllReleased` |
| `server_live` | 3 clients, 3 descriptors, 1 address | `PacketsAnswered`, `SignalEndsServer` |
| `packets` | all streams up to 7 bytes over two bytes, chunks up to 2, 4 fragments | `FragmentsOwned`, `PacketsAreLines` |
| `socket_device` | both builds and both kinds of C library, 2 clients, 4 packets or commands, 2 lines | `LinesArePackets`, `ReplyIsSnapshot`, `ExactlyOnce`, `ReplyHoldsPacket`, `ReplyIsTheFile` |
| `examples` | 2 callers, 3 process numbers; 3 threads, 2 mutexes | `WaitFindsAChild`, `NothingLeftBehind`, `VerdictsAddUp`, `OwnVerdict`, `CallsReturn`; `SuccessIsTrue`, `ThreadsEnd` |

Each, but for `driver_live` and `server_live`, also has a type invariant for each
program, which carries the assertions of the code that are about a single
variable. The two examples share a run and nothing else: a behaviour of
`MCExamples` is one of either program.

Why the bounds are enough to be interesting. In `driver` five blocks hold two
lines, the partial line and a buffer for each thread, so eviction, an append that
moves the line, an append that does not fit, and running out of memory all
occur with a reader in any position. A fragment may hold a newline that is not
its last byte, which does not end the line. One file is shared by both threads:
this is the case where positions interfere. Three clients in `server` let one be
walked over, one joined and one started with the descriptor the second just
closed, and give the list a first, a middle and a last element to remove. The
liveness run of the server needs three as well: two that hold the read lock by
turns, and one that waits to write. It follows fewer states than there are (`Runs`
in `MCAesdSocket`): each block keeps one descriptor number, which the lock does not
depend on, and a process that was killed, or whose main goes no further after a
failed `pthread_create`, is not followed: it stays so, and both properties then
hold. Two
addresses let each failure be the last one or be followed by a success. Four
packets of two clients allow two replies on one connection, an eviction and a
seek. Of the three process numbers the third is for a child
that an earlier call has left behind. The models of driver, server,
ring and examples have no bound on the number of operations; their state
spaces are finite because memory, descriptors and process numbers are reused.

Runs that show a disagreement between the code and what it says of itself:

| Run | Property | What happens |
| --- | --- | --- |
| `server_signal` | `SignalEndsLoop` | a signal between the test of `g_running` and `accept` is lost until the next connection or signal |
| `server_shutdown` | `ShutdownCompletes` | a thread cancelled while it holds `rw_file_lock` leaves it locked; another client waits for it, cannot be cancelled there, and its join never returns |
| `socket_device_write` | `PacketsStayWhole` | a packet's second `write(2)` fails: its first piece stays in the device's unfinished line, and the next packet of any client is appended to it |
| `socket_device_reply` | `ReplyIsTheDevice` | `reply_to_client` is to "read the file and send it", but in the device build nothing rewinds the stream: a later reply on a connection is what followed the one before, or nothing if the C library does not read past an end it has met |

The property `SignalEndsLoop` allows main any number of further rounds; the
counterexample is a state in which main waits in `accept` and nobody connects.

What remains true besides these is in the passing runs. `SignalEndsServer`: a
signal that does not fall in that window ends the server, unless a thread took the
lock with it. `ExactlyOnce` and `ReplyHoldsPacket`: on the device a client is sent
every byte once, and its packet with it, on every reply of a library that reads on
and on the first of one that does not.

The comment of `do_exec` (`systemcalls.c:35-38`) speaks of the call's own command
and of `waitpid`, and the code calls `wait()`, which takes any child. So with two
calls at a time, or after an interrupted `wait()`, a call may return true for a
command that failed or has not even begun. What the code does keep is stated
instead. `OwnVerdict`: a call that nobody overlapped reports on its own command, as
long as no earlier one left a child. `VerdictsAddUp`: calls that overlap exchange
verdicts, and none is invented, lost or given twice.

The models also have behaviours that no text of the repository speaks against:

- a failed `pthread_create`, and a failed `malloc` for a packet of several
  fragments, as described above;
- a peer that leaves while it is being answered ends the process with SIGPIPE;
- when `setsockopt` fails for the last address, `sock_fd` keeps the number of the
  socket that was closed, and the program goes on to `listen`, which fails, and
  ends with status 0;
- an interrupted `wait()`, and a child of `system()` taken by `do_exec`, leave a
  child behind;
- a thread that is cancelled while it writes leaves the memory of its packet
  allocated, and `rw_file_lock` may be destroyed while it is locked; `AllReleased`
  is about clients, threads, connections, files and the socket.

### Fairness

- *Driver*: threads in the kernel are scheduled (weak fairness of the steps that
  wait for nothing), and `rw_semaphore` queues its waiters, so a thread that can
  get the lock again and again gets it (strong fairness of `Down`). User space,
  signals and failures are not fair.
- *Server*: runnable threads run; a peer reads what it is sent, so the loop of
  `reply_to_client` ends (a peer that never reads blocks `send` with the read
  lock held, and the claim is not made for it). Strong fairness of taking
  `rw_file_lock`: glibc prefers readers, but a client has to get the write lock
  before it reads again, so readers run out and a writer is only ever passed over
  for other writers. The exception is a client without memory for its packet
  (`WriteNoMem`), which goes straight to its reply: two of them can hold the read
  lock by turns and keep all writers out, and after a signal keep main in the join
  of a client that waits to write. Both properties are therefore stated under
  `MemoryReturns`, that this happens only finitely often; without it both fail with
  three clients. `ReplyKills` is no fair step either, and both properties allow
  for it. Strong fairness of `Cancelled`: each round of a
  thread's loop goes through `recv`, `send` and stdio calls, which are
  cancellation points, so a thread with a request cannot go round for ever.
  Connections, packets and signals are not fair.
- *System calls*: callers and children run, and commands end; signals are not
  fair. Strong fairness of
  `Wait`: of several threads in `wait()` each is woken when a child ends, and one
  that loses to another waits for one of the remaining children.
- *Threading*: threads run and sleeps end. Strong fairness of `Obtain`: a mutex
  that is given up again and again goes to each waiter at last. Joining and
  starting threads are not fair.

## What is proved

`tlapm` checks all proofs. Every invariant, action property and refinement of a
passing run is a theorem: it holds for any number of threads, files, blocks,
clients, descriptors, addresses, fragments, callers, process numbers and mutexes,
for packets, streams and entries of any length, and for every capacity of the
buffer. The theorems and the properties they state are listed in `PROJECT.json`.

### Assumptions

Each is named in the module that declares the constants, and TLC evaluates it on
the values of the runs.

| Assumption | Says |
| --- | --- |
| `MaxAssumption` | the capacity is 1 to 255: offsets are `uint8_t` |
| `NullAssumption`, `RingBufferAssumption`, `AesdCharAssumption`, `AesdSocketAssumption`, `NobodyAssumption`, `ThreadingAssumption` | NULL and the other special values differ from what they are told apart from; counts, sizes and descriptors are natural numbers |
| `TailQueueAssumption` | NULL, the head and a scrapped pointer are different and are no elements |
| `ClientFlowAssumption` | a fragment has room for at least one byte |
| `SocketDeviceAssumption` | a packet ends with its only newline, which is what `ClientFlow` is proved to deliver |
| `SystemCallsAssumption` | callers and process numbers are finite sets, so that they can be counted |

### Sequences laid end to end

The contents of the device, the stream of a connection and the bytes of a buffer
are `FlattenSeq` of a sequence of sequences, which is defined by recursion, and
what it does for every sequence would be shown by induction. Instead `FlattenProofs`
argues by the least counterexample: a non-empty set of natural numbers has a least
element (`MinOfNaturals`, from the well-foundedness of strict inclusion on finite
sets), so a shortest sequence that fails would have a shorter one that does not.
It gives that `FlattenSeq` is defined on every sequence (`AllFlattenable`), what
one more element adds (`FlattenAppend`), and that the elements of each part are in
the whole where the lengths of the parts before say (`FlattenElements`).

### Circular buffer (`RingBufferProofs`)

`TypeOK` and `RingShape` are inductive together; each needs the other (the shape
says which slots hold entries, the types that an offset stays in the array).

- `RingInvariant`: the assertions at the head of `find` and `add` never fail, and
  the buffer fills from slot 0 on.
- `RingRefinement`: every addition is an addition to `WriteLog`. The central
  lemma is `AddEntryShifts`: after an addition the k-th entry is the (k+1)-th of
  before if one was evicted, the k-th otherwise, and the last is the new one; it
  is a case split on wrap and fullness of index arithmetic.
- `FindIsRight`: `find` returns the byte that is at the position when all entries
  are laid end to end. `find` goes by sums of sizes; `EntriesLaid` joins these to
  the places that `FlattenElements` gives.
- `SeekAgrees`: `offset_at` followed by `find` returns the byte that was asked
  for, and the size in bytes is the number of bytes one can seek to, since
  `BytesBefore` is monotone and grows by the size of an entry
  (`BytesBeforeTotal`, `BytesBeforeMonotone`) and `find` returns the one entry
  whose bytes include the position (`FindEntry`, `SeekThenFind`).

### Driver (`AesdCharProofs`)

The inductive invariant is `TypeOK`, `LockDiscipline`, `HeapOwned` and
`LinesAreTerminated` with three parts that none of them says:

- `ShapeOK`: the buffer is filled from slot 0 on, so that the slot a line goes to
  is empty or holds the line that is returned for freeing; before loading and after
  unloading there is nothing in it and no file is open.
- `CallsOK`: which locals are set at which place of a call (`kern_buf` until the
  write has used or freed it, `evicted` from the addition to the free), and that
  a call's file is open, which is why unloading meets no call.
- `FoundOK`: what a reader holding the lock has found is what it would find now.

Most steps touch one thread's locals: `ThreadMoves` and `QuietStep` handle these
once. What writers do to memory goes through lemmas about a set of owning
pointers (`OwnAlloc`, `OwnFree`, `OwnRealloc`, `OwnHandOn`). Storing a line is
`LinesShift` and `ShapeShift`, from `AddEntryShifts`.

- `LockIsGivenBack`, `NothingLeaks`, `EntriesAreLines` follow from the invariant;
  `FoundEntryStands` needs `ReaderStands`, that an entry found has memory of its
  size.
- `DriverRefinement`: each step is a step of `LineDevice` or leaves lines and
  partial line alone. Only `WriteFirst`, `WriteAppend` and unloading change them.
- `ReadsAreOfTheStream`: the copy of a reader is the bytes of the stream at its
  position (`CopyFromStream`, `LinesLaid`), and remains so until it gives up the
  lock: lines change only by the sole holder of the lock, or with no call under
  way.

### Server (`AesdSocketProofs`)

First the macros, for any list: when `q` links exactly the elements of `A`
(`Links(q, A)`), `TAILQ_INSERT_TAIL` links one more (`InsertLinks`), `TAILQ_REMOVE`
one less (`RemoveLinks`: first, middle, last or only), and following `next` from an
element leads to another or to the end (`WalkLinks`). Then the invariant:

- `ListOK`: the list links the allocated clients, and their files are open;
- `WalkOK`: the element that `join_completed_clients` is at is in the list, and
  the one it saved is still the next, so nothing freed is followed;
- `PhaseOK`: clients exist only between the start and the end, and nothing is
  accepted once cancelling has begun;
- `FdsOK`: an open descriptor belongs to main or to the client whose `peer_fd` it
  is; a thread that ended with `peer_fd` set was cancelled, and the descriptor is
  still its own or closed. This is what makes main's unlocked look at `peer_fd`
  harmless.

`alive` is in none of these but the types: killing the process changes nothing
else, and nothing happens after it.

`AcceptsOnListener`, `ListLinksTheClients`, `NoDescriptorIsShared`,
`NoStrangerIsClosed` and `EverythingIsReleased` follow. After a failed
`pthread_create` the properties claim what they claim in the runs, no more.

### Client threads (`ClientFlowProofs`, `SocketDeviceProofs`)

*Packets.* `StreamOK` says that the packets delivered, the bytes kept in fragments
and those not yet looked at are together what was received; `NewlinesOK` that no
newline is kept and that each packet is a line; `CallOK` what goes with each place
of the loop. With `TypeOK` and `FragmentsOwned` they are inductive, and give
`StreamBecomesLines` and `NoFragmentLeaks`.

*File.* The invariant is `LinesArePackets`, the types, the lock (`LockOK`), and for
each client `CallOK`, and one part for each property about replies:

- `ReplyOK`: the bytes sent so far end at the client's position in what is stored.
  Nobody writes while a reader has the lock (`RepliesAreSnapshots`).
- `OnceOK`: on the device, while nothing was evicted and the client did not seek,
  it was sent exactly the bytes before its position (`EveryByteOnce`), and its last
  packet is in what is stored. A reply that `fread` ends, and not an earlier end of
  the stream, is at the end of all there is, so that packet is sent
  (`PacketIsSentBack`).
- `FileOK`: on a file, a reply to a packet is all there is before the position, as
  it begins with the rewind (`WholeFileIsSent`).

### Examples (`ExamplesProofs`)

*System calls.* `Counted`: everyone who waits has brought a child, and whoever has
stopped waiting has taken one or left one, so there are as many children as
waiters and `left` together, never fewer than waiters. `AloneIsAlone`: a call in
`alone` is the only one and its child is still there; before a child was left it
is therefore the only child (`OnlyChild`), and the one that `wait()` takes.
`OutputHeld` says when the file is open. From these `NobodyWaitsForNothing`,
`NothingIsLeftBehind` and `VerdictIsOwn`. `VerdictsAddUp` is inductive with the
types: a status of 0 goes from one child to one call (`VerdictTaken`), which gives
`VerdictsBalance`.

*Threading.* `SuccessIsTrue` becomes inductive with `HeldBefore`, that a thread
after its lock has held its mutex: `SuccessFlagTrue`, `DataFreedOnce`.

### Only model-checked

Liveness: `CallsReturn` of driver and system calls, `PacketsAnswered`,
`SignalEndsServer`, `ThreadsEnd`. These rest on fairness, which is about `ENABLED`
and beyond the prover. The four disagreements are counterexamples and need no
proof.

## Not modelled

- Logging, and formatting of addresses and messages; no property is about them.
- What follows the two undefined or aborting paths above.
- In `queue.h` (vendored BSD code) the singly linked lists, lists, simple and
  circular queues and the TAILQ macros that the program does not use.
- The result of `send`, which the code does not look at: bytes that a peer did
  not get are lost, and no later step depends on it. That `send` can end the
  process is in `AesdSocket`, whose liveness it bears on, and not in `SocketDevice`,
  whose properties are about what happens until then.
- `fclose` in main, of a client cancelled between `fwrite` and `fflush`, may write
  outside the lock; which bytes remain in the buffer is up to stdio.
- The `unlink` of the data file at the very end, in the build without the device:
  no thread is left that could see it.
- The timer in `aesdsocket.c` that is commented out.
- `finder-app/writer.c` opens, writes and closes one file; `finder.sh`, the load
  and start scripts, tests and the function that returns a user name are
  sequential and keep no state: a model would only repeat their calls.
- Calls that change nothing: `lseek` with an unknown whence, `count` 0, an unknown
  ioctl, a failed `open` in `do_exec_redirect`.

## Plan

All components with state are modelled, and all their safety properties are
proved. What is left:

1. `ClientFlow` delivers what `SocketDeviceAssumption` asks of a packet; the two are
   joined by that assumption and not yet by one theorem about a composition.
2. `SocketDevice` uses the device as `LineDevice`, which `AesdChar` is proved to
   implement; positions and replies are proved at the abstract level, and reads of
   the driver against its own stream (`ReadsTheStream`).
3. The hazards without a property (an ioctl during a read of the same file,
   `main.c:243`; a failed `pthread_create`, `aesdsocket.c:125`; SIGPIPE,
   `client_flow.c:31`), should the code or its texts come to say what is meant to
   happen.
