----------------------------- MODULE AesdSocket -----------------------------
(***************************************************************************)
(* The life of the server, server/aesdsocket.c: opening the socket, the    *)
(* main thread that accepts connections, starts a thread for each and      *)
(* joins the finished ones, the signal that ends it, and the client        *)
(* threads (process_client_thread, client_flow.c) as far as they share     *)
(* memory, descriptors and rw_file_lock with main and with each other.     *)
(*                                                                         *)
(* What the packets say is left out: a client thread receives, takes the   *)
(* lock to write, takes it again to reply, and receives again.  The C      *)
(* library and the kernel are external: malloc hands out client_info       *)
(* blocks, accept hands out free descriptor numbers, and a cancelled       *)
(* thread ends at its next cancellation point (recv, send, close, syslog   *)
(* and the stdio calls; never in the lock calls), leaving everything it    *)
(* holds as it is.  A signal without a handler and a failed assertion end  *)
(* the process, with all its threads.                                      *)
(***************************************************************************)
EXTENDS Integers, SequencesExt, TailQueue

CONSTANTS FDs,          \* descriptor numbers for connections
          ADDRESSES     \* how many addresses getaddrinfo returns

ASSUME AesdSocketAssumption ==
  FDs \subseteq Nat /\ NULL \notin FDs /\ ADDRESSES \in Nat \ {0}

(* The elements of the list are the blocks for a struct client_info.       *)
Clients == Nodes

VARIABLES
  alive,        \* the process has not been killed
  g_running,
  main,         \* where the main thread is
  addresses,    \* how many addresses are left to try
  sock,         \* what sock_fd stands for
  accepted,     \* peer_fd of the main loop, -1 when there is none
  cancel,       \* the argument of join_completed_clients
  client, next, \* its locals: the client of this turn and of the next one
  clients,      \* the list of clients
  alloc,        \* the client_info blocks in use
  peer_fd,      \* client->peer_fd
  files,        \* the clients whose client->file is open
  open,         \* the client whose connection a descriptor is, or NULL
  pc,           \* where each client thread is
  cancelled,    \* threads with a cancellation request
  readers, writer   \* who took rw_file_lock and has not given it back

process == <<alive, g_running>>
sockVars == <<addresses, sock>>
scanVars == <<cancel, client, next>>
memVars  == <<clients, alloc, files>>
threadVars == <<pc, cancelled>>
lockVars == <<readers, writer>>
vars == <<process, main, sockVars, accepted, scanVars, memVars, peer_fd, open,
          threadVars, lockVars>>

(* The connection main has accepted and not yet given to a client.         *)
Nobody == "nobody"

ASSUME NobodyAssumption == Nobody \notin Clients \cup {NULL}

(* Threads that exist: created and not yet joined.                         *)
Threads == {c \in Clients : pc[c] # "none"}

Goto(c, from, to) == alive /\ pc[c] = from /\ pc' = [pc EXCEPT ![c] = to]
MainAt(from) == alive /\ main = from
MainGoto(from, to) == MainAt(from) /\ main' = to

Init ==
  /\ alive = TRUE /\ g_running = TRUE /\ main = "open"
  /\ addresses = ADDRESSES /\ sock = "none"
  /\ accepted = -1
  /\ cancel = FALSE /\ client = NULL /\ next = NULL
  /\ clients = TAILQ_INIT /\ alloc = {} /\ files = {}
  /\ peer_fd = [c \in Clients |-> -1]
  /\ open = [d \in FDs |-> NULL]
  /\ pc = [c \in Clients |-> "none"] /\ cancelled = {}
  /\ readers = {} /\ writer = NULL

-----------------------------------------------------------------------------
loopVars == <<accepted, scanVars, memVars, peer_fd, open, threadVars, lockVars>>

(* open_aesd_socket tries the next address: socket or bind fails, and      *)
(* sock_fd is -1; setsockopt fails, and sock_fd is still the number of the *)
(* socket it closed; or the socket is bound.                               *)
TryAddress ==
  /\ MainAt("open") /\ addresses > 0 /\ sock # "bound"
  /\ addresses' = addresses - 1
  /\ sock' \in {"none", "closed", "bound"}
  /\ UNCHANGED <<process, main, loopVars>>

(* It returns any sock_fd but -1.                                          *)
Opened ==
  /\ MainGoto("open", "fork")
  /\ (addresses = 0 \/ sock = "bound") /\ sock # "none"
  /\ UNCHANGED <<process, sockVars, loopVars>>

(* With -d the child of a fork goes on, and the parent closes its copy of  *)
(* the socket and leaves; then the signal handlers are set up.             *)
Daemonize ==
  /\ MainGoto("fork", "listen")
  /\ UNCHANGED <<process, sockVars, loopVars>>

(* exit(EXIT_FAILURE): getaddrinfo fails, or no address can be bound, or   *)
(* fork fails, or later pthread_rwlock_init does.  A signal does the same  *)
(* before its handler is set up.                                           *)
Exit ==
  /\ alive /\ main \in {"open", "fork", "listen"} /\ main' = "exit"
  /\ UNCHANGED <<process, sockVars, loopVars>>

(* run_server_logic up to its loop.                                        *)
Listen ==
  /\ MainGoto("listen", "check")
  /\ sock = "bound" /\ sock' = "listening"
  /\ UNCHANGED <<process, addresses, loopVars>>

(* Mutant: the result of listen is not looked at.                          *)
ListenUnchecked ==
  /\ MainGoto("listen", "check")
  /\ UNCHANGED <<process, sockVars, loopVars>>

(* listen fails, as it does on a number that is no listening socket's:     *)
(* run_server_logic returns.                                               *)
ListenFails ==
  /\ MainGoto("listen", "finish")
  /\ UNCHANGED <<process, sockVars, loopVars>>

(* The end of main.                                                        *)
Finish ==
  /\ MainGoto("finish", "done")
  /\ sock' = "closed"
  /\ UNCHANGED <<process, addresses, loopVars>>

-----------------------------------------------------------------------------
(* signal_handler, on SIGINT or SIGTERM, once it is set up.  A blocked     *)
(* accept returns EINTR; anywhere else main goes on to where it was going. *)
signal_handler ==
  /\ alive /\ main \notin {"open", "fork", "exit", "done"}
  /\ g_running' = FALSE
  /\ main' = IF main = "accept" THEN "check" ELSE main
  /\ UNCHANGED <<alive, sockVars, loopVars>>

(* The call join_completed_clients(list, flag), up to its first turn.      *)
Scan(list, flag) ==
  main' = "scan" /\ cancel' = flag /\ client' = TAILQ_FIRST(list)

(* The head of the main loop.                                              *)
CheckRunning ==
  /\ MainAt("check")
  /\ \/ g_running /\ main' = "call_accept" /\ UNCHANGED <<cancel, client>>
     \/ ~g_running /\ Scan(clients, TRUE)
  /\ UNCHANGED <<process, sockVars, accepted, next, memVars, peer_fd, open, threadVars, lockVars>>

(* The call enters the kernel and waits there.                             *)
CallAccept ==
  /\ MainGoto("call_accept", "accept")
  /\ UNCHANGED <<process, sockVars, loopVars>>

(* A connection arrives, and gets a descriptor that is free.               *)
Accept ==
  /\ MainGoto("accept", "start")
  /\ \E d \in FDs :
       /\ open[d] = NULL
       /\ accepted' = d
       /\ open' = [open EXCEPT ![d] = Nobody]
  /\ UNCHANGED <<process, sockVars, scanVars, memVars, peer_fd, threadVars, lockVars>>

(* Mutant: the result of accept is not looked at.                          *)
AcceptUnchecked ==
  /\ MainGoto("accept", "start")
  /\ UNCHANGED <<process, sockVars, loopVars>>

(* accept fails, as it does when no descriptor is left.                    *)
AcceptFails ==
  /\ MainGoto("accept", "check")
  /\ UNCHANGED <<process, sockVars, loopVars>>

(* start_client_processing returns to the main loop, which goes on with    *)
(* join_completed_clients(&clients, false).                                *)
Started(list) ==
  /\ MainAt("start")
  /\ accepted' = -1
  /\ clients' = list
  /\ Scan(list, FALSE)
  /\ UNCHANGED <<process, sockVars, next, cancelled, lockVars>>

(* The connections once the accepted one is client c's; and the mutant in  *)
(* which it is closed in this case too.                                    *)
GivenClosed(c) == [open EXCEPT ![accepted] = NULL]
Given(c) == [open EXCEPT ![accepted] = c]

(* start_client_processing with everything it needs.                       *)
StartClient(c) ==
  /\ c \notin alloc
  /\ Started(TAILQ_INSERT_TAIL(clients, c))
  /\ alloc' = alloc \cup {c}
  /\ files' = files \cup {c}
  /\ peer_fd' = [peer_fd EXCEPT ![c] = accepted]
  /\ open' = Given(c)
  /\ pc' = [pc EXCEPT ![c] = "recv"]

(* malloc or fopen fails: what was allocated is freed and the connection   *)
(* closed.                                                                 *)
StartFails ==
  /\ Started(clients)
  /\ open' = [open EXCEPT ![accepted] = NULL]
  /\ UNCHANGED <<alloc, files, peer_fd, pc>>

(* pthread_create fails: the client is freed and the connection closed,    *)
(* and the freed client goes into the list with its file open.  What       *)
(* join_completed_clients does with it then is undefined, and not          *)
(* modelled: main goes no further.                                         *)
StartNoThread(c) ==
  /\ c \notin alloc
  /\ MainGoto("start", "undefined")
  /\ files' = files \cup {c}
  /\ open' = [open EXCEPT ![accepted] = NULL]
  /\ clients' = TAILQ_INSERT_TAIL(clients, c)
  /\ UNCHANGED <<process, sockVars, accepted, scanVars, alloc, peer_fd, threadVars, lockVars>>

-----------------------------------------------------------------------------
(* The cancellation requests when a turn of join_completed_clients has     *)
(* made its own; and the mutant that only waits for the thread to end.     *)
RequestsUnsent == cancelled
Requests == IF cancel THEN cancelled \cup {client} ELSE cancelled

(* One turn of join_completed_clients, whose loop has saved the next       *)
(* client: a client that is to be cancelled or has marked itself done is   *)
(* joined, any other is passed over.                                       *)
ScanClient ==
  /\ MainAt("scan") /\ client # NULL
  /\ next' = TAILQ_NEXT(clients, client)
  /\ cancelled' = Requests
  /\ IF cancel \/ peer_fd[client] < 0
     THEN main' = "join" /\ UNCHANGED client
     ELSE client' = next' /\ UNCHANGED main
  /\ UNCHANGED <<process, sockVars, accepted, cancel, memVars, peer_fd, open, pc, lockVars>>

(* The connections once main has closed what the joined thread left; and   *)
(* the mutant that leaves this to the thread.                              *)
LeftoverKept == open
LeftoverClosed ==
  IF peer_fd[client] >= 0 THEN [open EXCEPT ![peer_fd[client]] = NULL] ELSE open

(* pthread_join returns, and what the thread left behind is released.      *)
JoinClient ==
  /\ MainGoto("join", "scan")
  /\ Goto(client, "exit", "none")
  /\ open' = LeftoverClosed
  /\ files' = files \ {client}
  /\ clients' = Scrap(TAILQ_REMOVE(clients, client), client)
  /\ alloc' = alloc \ {client}
  /\ cancelled' = cancelled \ {client}
  /\ peer_fd' = [peer_fd EXCEPT ![client] = -1]
  /\ client' = next
  /\ UNCHANGED <<process, sockVars, accepted, cancel, next, lockVars>>

(* The end of join_completed_clients: back to the main loop, or the end of *)
(* run_server_logic.                                                       *)
ScanDone ==
  /\ MainAt("scan") /\ client = NULL
  /\ main' = IF cancel THEN "finish" ELSE "check"
  /\ UNCHANGED <<process, sockVars, loopVars>>

-----------------------------------------------------------------------------
shared == <<process, main, sockVars, accepted, scanVars, memVars, cancelled>>

(* process_client: recv returns data that completes a packet.              *)
RecvPacket(c) ==
  /\ Goto(c, "recv", "wrlock")
  /\ UNCHANGED <<shared, peer_fd, open, lockVars>>

(* recv returns 0 or an error: the loop ends.                              *)
RecvEnd(c) ==
  /\ Goto(c, "recv", "close")
  /\ UNCHANGED <<shared, peer_fd, open, lockVars>>

(* write_new_packet: the packet is written, or the ioctl made, under the   *)
(* lock.  Without memory for the packet it goes straight to the reply.     *)
WriteLock(c) ==
  /\ Goto(c, "wrlock", "write")
  /\ readers = {} /\ writer = NULL
  /\ writer' = c
  /\ UNCHANGED <<shared, peer_fd, open, readers>>

WriteNoMem(c) ==
  /\ Goto(c, "wrlock", "rdlock")
  /\ UNCHANGED <<shared, peer_fd, open, lockVars>>

(* Mutant: a path that does not unlock.                                    *)
WriteKeepingLock(c) ==
  /\ Goto(c, "write", "rdlock")
  /\ UNCHANGED <<shared, peer_fd, open, lockVars>>

WriteUnlock(c) ==
  /\ Goto(c, "write", "rdlock")
  /\ writer' = NULL
  /\ UNCHANGED <<shared, peer_fd, open, readers>>

(* reply_to_client: the file is read and sent under the lock; then the     *)
(* next packet of what was received, or recv again.                        *)
ReplyLock(c) ==
  /\ Goto(c, "rdlock", "send")
  /\ writer = NULL
  /\ readers' = readers \cup {c}
  /\ UNCHANGED <<shared, peer_fd, open, writer>>

ReplyUnlock(c) ==
  /\ Goto(c, "send", "recv") \/ Goto(c, "send", "wrlock")
  /\ readers' = readers \ {c}
  /\ UNCHANGED <<shared, peer_fd, open, writer>>

(* The process is killed: by SIGPIPE, as the peer has left and send is     *)
(* told nothing else; or by the assertion of client_flow.c:144, after the  *)
(* reply to a packet of several fragments that there was no memory for     *)
(* (WriteNoMem; with one fragment the thread goes on).                     *)
ReplyKills(c) ==
  /\ alive /\ pc[c] = "send" /\ alive' = FALSE
  /\ UNCHANGED <<g_running, main, sockVars, loopVars>>

(* process_client_thread: the connection is closed, and then marked.       *)
Close(c) ==
  /\ Goto(c, "close", "mark")
  /\ open' = [open EXCEPT ![peer_fd[c]] = NULL]
  /\ UNCHANGED <<shared, peer_fd, lockVars>>

(* Mutant: the client is not marked as done.                               *)
MarkNothing(c) ==
  /\ Goto(c, "mark", "exit")
  /\ UNCHANGED <<shared, peer_fd, open, lockVars>>

Mark(c) ==
  /\ Goto(c, "mark", "exit")
  /\ peer_fd' = [peer_fd EXCEPT ![c] = -1]
  /\ UNCHANGED <<shared, open, lockVars>>

(* A cancelled thread ends at a cancellation point.  In close it may end   *)
(* before or after the descriptor is gone.                                 *)
Cancelled(c) ==
  /\ c \in cancelled
  /\ \E at \in {"recv", "write", "send", "close"} : Goto(c, at, "exit")
  /\ \/ UNCHANGED open
     \/ pc[c] = "close" /\ open' = [open EXCEPT ![peer_fd[c]] = NULL]
  /\ UNCHANGED <<shared, peer_fd, lockVars>>

-----------------------------------------------------------------------------
(* Steps of main that need no one else, and those that do.                 *)
MainRuns ==
  \/ TryAddress \/ Opened \/ Daemonize \/ Exit \/ Listen \/ ListenFails \/ Finish
  \/ CheckRunning \/ CallAccept \/ ScanClient \/ ScanDone \/ JoinClient
  \/ StartFails \/ \E c \in Clients : StartClient(c) \/ StartNoThread(c)

Lock(c) == WriteLock(c) \/ ReplyLock(c)

(* Steps of a client thread that wait for nothing.                         *)
ClientRuns(c) ==
  WriteUnlock(c) \/ ReplyUnlock(c) \/ Close(c) \/ Mark(c) \/ Cancelled(c)

(* main has returned or exited, or what it does next is undefined; or the  *)
(* process was killed.                                                     *)
Exited == (~alive \/ main \in {"done", "exit", "undefined"}) /\ UNCHANGED vars

Next ==
  \/ signal_handler \/ Accept \/ AcceptFails \/ MainRuns
  \/ \E c \in Clients :
       \/ RecvPacket(c) \/ RecvEnd(c) \/ WriteNoMem(c) \/ ReplyKills(c)
       \/ Lock(c) \/ ClientRuns(c)
  \/ Exited

Spec == Init /\ [][Next]_vars

(* Runnable threads run, rw_file_lock does not pass a waiter over for      *)
(* ever, a cancelled thread does not for ever miss the cancellation points *)
(* it comes to, and a peer reads what it is sent (ReplyUnlock).  Nothing   *)
(* else is promised by peers, signals and failures.                        *)
FairSpec ==
  /\ Spec
  /\ WF_vars(MainRuns)
  /\ \A c \in Clients : WF_vars(ClientRuns(c)) /\ SF_vars(Lock(c)) /\ SF_vars(Cancelled(c))

-----------------------------------------------------------------------------
(* The types of the variables; the descriptor given to                     *)
(* start_client_processing is one (the assertion of aesdsocket.c:102).     *)
TypeOK ==
  /\ alive \in BOOLEAN /\ g_running \in BOOLEAN
  /\ main \in {"open", "fork", "listen", "check", "call_accept", "accept", "start",
               "scan", "join", "finish", "done", "exit", "undefined"}
  /\ addresses \in 0 .. ADDRESSES
  /\ sock \in {"none", "closed", "bound", "listening"}
  /\ accepted \in FDs \cup {-1} /\ cancel \in BOOLEAN
  /\ main = "start" => accepted \in FDs
  /\ {client, next} \subseteq Clients \cup {NULL}
  /\ alloc \in SUBSET Clients /\ files \in SUBSET Clients
  /\ peer_fd \in [Clients -> FDs \cup {-1}]
  /\ open \in [FDs -> Clients \cup {NULL, Nobody}]
  /\ pc \in [Clients -> {"none", "recv", "wrlock", "write", "rdlock", "send",
                         "close", "mark", "exit"}]
  /\ cancelled \in SUBSET Clients
  /\ readers \in SUBSET Clients /\ writer \in Clients \cup {NULL}

(* Clients are accepted on a socket that was bound and listens, whichever  *)
(* of the steps that open it failed for whichever address.                 *)
ListenerIsBound ==
  main \in {"check", "call_accept", "accept", "start", "scan", "join"}
    => sock = "listening"

(* The pointers of the list link each client_info block in use, once, and  *)
(* no other, so that walking it forward, appending to it and removing from *)
(* it never touches freed memory; nor does the walk that removes the       *)
(* client it is at and goes on to the one it saved before.  The file of    *)
(* every client is open.  As long as every pthread_create succeeded.       *)
ListIsAllocated ==
  main # "undefined" =>
    /\ \E s \in SetToSeqs(alloc) : Represents(clients, s)
    /\ main = "scan" => client \in alloc \cup {NULL}
    /\ main = "join" => client \in alloc /\ next \in alloc \cup {NULL}
    /\ files = alloc

(* A thread works on its own block and its own connection: the block is    *)
(* not freed before the thread is joined, and the descriptor it receives   *)
(* from, sends to and closes has not meanwhile been closed and given to    *)
(* another connection.                                                     *)
ThreadsOwnTheirs ==
  /\ Threads \subseteq alloc
  /\ \A c \in Threads : pc[c] \notin {"mark", "exit"} => open[peer_fd[c]] = c

(* When main closes what a joined thread left, the descriptor is that      *)
(* thread's or nobody's: never one that was given to another client.       *)
MainClosesLeftovers ==
  main = "join" /\ pc[client] = "exit" /\ peer_fd[client] >= 0
    => open[peer_fd[client]] \in {client, NULL}

(* At the end everything has been given back: no client left in the list   *)
(* (the assertion of aesdsocket.c:287), no thread, no connection, no file, *)
(* no listening socket.                                                    *)
AllReleased ==
  main = "done" => /\ TAILQ_EMPTY(clients) /\ alloc = {} /\ files = {} /\ Threads = {}
                   /\ \A d \in FDs : open[d] = NULL
                   /\ sock = "closed"

(* From some time on there is memory for every packet.  A client without   *)
(* it replies again without having waited for the write lock: two of them  *)
(* can hold the read lock by turns and keep all writers out.               *)
MemoryReturns == <>[][\A c \in Clients : ~WriteNoMem(c)]_vars

(* A packet that was received is answered, whoever else writes, replies,   *)
(* leaves or is joined meanwhile: no path through the two critical         *)
(* sections keeps rw_file_lock, and no number of repliers keeps a writer   *)
(* out.  As long as the process lives, no signal comes, every              *)
(* pthread_create succeeds and memory does not run out again and again.    *)
PacketsAnswered ==
  [](alive /\ g_running /\ main # "undefined") /\ MemoryReturns
    => \A c \in Clients : pc[c] = "wrlock" ~> pc[c] = "send"

(* rw_file_lock is held by a thread that has ended.                        *)
LockOrphaned == \E c \in readers \cup ({writer} \ {NULL}) : pc[c] \in {"exit", "none"}

(* Once a signal has come and main is not about to wait in accept, the     *)
(* server ends: it leaves the loop, cancels every thread wherever it is,   *)
(* joins them all and returns, or is killed.  Only a thread cancelled with *)
(* rw_file_lock, a failed pthread_create, or clients that never again have *)
(* memory for their packets can keep it from this.                         *)
SignalEndsServer ==
  MemoryReturns =>
    (~g_running /\ main \notin {"call_accept", "accept"}
       ~> ~alive \/ main \in {"done", "exit", "undefined"} \/ LockOrphaned)

(* "Caught signal, exiting" (aesdsocket.c:282): after a signal the main    *)
(* loop is left.                                                           *)
SignalEndsLoop ==
  ~g_running ~> ~alive \/ main \in {"finish", "done", "exit", "undefined"} \/ cancel

(* Once the main loop is left, main cancels and joins all clients and      *)
(* reaches the assertion that the list is empty (aesdsocket.c:286-287),    *)
(* unless the process is killed.                                           *)
ShutdownCompletes == cancel ~> ~alive \/ main = "done"
=============================================================================
