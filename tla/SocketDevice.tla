---------------------------- MODULE SocketDevice ----------------------------
(***************************************************************************)
(* The server and its store together: client threads in write_new_packet   *)
(* and reply_to_client (server/client_flow.c) on /dev/aesdchar or, built   *)
(* without USE_AESD_CHAR_DEVICE, on a regular file.  Each client has a     *)
(* stream of its own, whose position stays where its last reply or seek    *)
(* left it, unless the build rewinds it.                                   *)
(*                                                                         *)
(* The device is that of LineDevice, which AesdChar implements; a read     *)
(* returns some of the bytes at the position, and nothing only at the end  *)
(* (AesdChar's ReadsTheStream).  stdio is external: it hands a packet to   *)
(* write(2) in pieces of its own choosing, drops the rest when one fails,  *)
(* as glibc and musl do, and once a stream has met its end fread returns   *)
(* nothing without looking again, as C says it does, or reads on, as glibc *)
(* does when the request is as large as its buffer.  The process that is   *)
(* killed when the peer of a send has left is AesdSocket's ReplyKills.     *)
(***************************************************************************)
EXTENDS Naturals, SequencesExt

CONSTANTS Clients, NULL,
          Packets,      \* the packets that are written
          SeekTos,      \* the <<write_cmd, write_cmd_offset>> of seek commands
          NL,
          MAX_WRITE_OPERATIONS,
          MAX_PACKETS   \* bound: how many packets and commands are sent

(* ClientFlow's PacketsAreLines: a packet ends in its only newline.        *)
ASSUME SocketDeviceAssumption ==
  /\ NULL \notin Clients
  /\ Packets \subseteq Seq(UNION {Range(p) : p \in Packets})
  /\ \A p \in Packets : p # <<>> /\ \A i \in DOMAIN p : p[i] = NL <=> i = Len(p)
  /\ SeekTos \subseteq Nat \X Nat
  /\ {MAX_WRITE_OPERATIONS, MAX_PACKETS} \subseteq Nat \ {0}

VARIABLES
  use_device,       \* USE_AESD_CHAR_DEVICE, the same throughout
  eof_stays,        \* what fread does at a stream's end, the same throughout
  lines, partial,   \* the device
  file,             \* the regular file
  f_pos,            \* of each client's stream
  eof,              \* the clients whose stream met its end and reads no more
  readers, writer,  \* rw_file_lock
  pc,
  packet,           \* a client's packet, <<>> when it has none
  put,              \* how much of it is written
  seekto,           \* the arguments of a client's seek command
  reply,            \* what the current reply has sent
  sent,             \* history: how many packets and commands came in
  log,              \* history: the packets written, in order, each with the
                    \*   pieces of failed packets before it
  torn,             \* history: the pieces of failed packets since
  got,              \* history: all a client was sent from the device
  own,              \* history: how many bytes there were when a client's
                    \*   last packet was in
  seeked            \* history: the clients that moved their position

device == <<lines, partial>>
store == <<use_device, eof_stays, device, file>>
stream == <<f_pos, eof>>
lock == <<readers, writer>>
input == <<packet, put, seekto, sent>>
output == <<reply, got>>
history == <<log, torn, own, seeked>>
vars == <<store, stream, lock, pc, input, output, history>>

Device == INSTANCE LineDevice WITH UserBuffers <- Packets

(* All there is to read, as one sequence of bytes.                         *)
Content == IF use_device THEN FlattenSeq(lines) ELSE file

Goto(c, from, to) == pc[c] = from /\ pc' = [pc EXCEPT ![c] = to]

Init ==
  /\ use_device \in BOOLEAN /\ eof_stays \in BOOLEAN
  /\ Device!Init /\ file = <<>>
  /\ f_pos = [c \in Clients |-> 0] /\ eof = {}
  /\ readers = {} /\ writer = NULL
  /\ pc = [c \in Clients |-> "recv"]
  /\ packet = [c \in Clients |-> <<>>] /\ put = [c \in Clients |-> 0]
  /\ seekto = [c \in Clients |-> <<0, 0>>] /\ sent = 0
  /\ reply = [c \in Clients |-> <<>>] /\ got = [c \in Clients |-> <<>>]
  /\ log = <<>> /\ torn = <<>>
  /\ own = [c \in Clients |-> 0] /\ seeked = {}

-----------------------------------------------------------------------------
(* A packet or a seek command has arrived and sscanf has told them apart;  *)
(* or there is no memory to flatten it: it is dropped and answered.        *)
Receive(c, to) ==
  /\ Goto(c, "recv", to)
  /\ sent < MAX_PACKETS /\ sent' = sent + 1
  /\ UNCHANGED <<store, stream, lock, put, output, history>>

ReceivePacket(c, p) ==
  Receive(c, "wrlock") /\ packet' = [packet EXCEPT ![c] = p] /\ UNCHANGED seekto

ReceiveSeek(c, s) ==
  Receive(c, "seeklock") /\ seekto' = [seekto EXCEPT ![c] = s] /\ UNCHANGED packet

ReceiveNoMem(c) ==
  Receive(c, "rdlock") /\ UNCHANGED <<packet, seekto>>

(* What pthread_rwlock_wrlock and pthread_rwlock_rdlock wait for; and the  *)
(* mutant without the call.                                                *)
NotLocked == TRUE
WriteFree == readers = {} /\ writer = NULL
ReadFree == writer = NULL

WriteLock(c) ==
  /\ Goto(c, "wrlock", "write") \/ Goto(c, "seeklock", "ioctl")
  /\ WriteFree
  /\ writer' = c
  /\ UNCHANGED <<store, stream, readers, input, output, history>>

(* One write(2) of n bytes to the device or the end of the file.           *)
Store(b) ==
  /\ IF use_device THEN Device!Write(b) /\ UNCHANGED file
                   ELSE file' = file \o b /\ UNCHANGED device
  /\ UNCHANGED <<use_device, eof_stays>>

(* The fseek after fwrite and fflush, in the build on a file; and the      *)
(* mutants without it, and with it in both builds.                         *)
RewindNothing(c) == UNCHANGED stream
RewindAlways(c) == f_pos' = [f_pos EXCEPT ![c] = 0] /\ eof' = eof \ {c}
Rewind(c) ==
  IF use_device THEN UNCHANGED stream
  ELSE f_pos' = [f_pos EXCEPT ![c] = 0] /\ eof' = eof \ {c}

(* How far the packet is written.                                          *)
Part(c) == SubSeq(packet[c], 1, put[c])

(* A write(2) of fwrite or fflush that is not the last one.                *)
WritePiece(c, n) ==
  /\ Goto(c, "write", "write")
  /\ put[c] + n < Len(packet[c])
  /\ put' = [put EXCEPT ![c] = @ + n]
  /\ Store(SubSeq(packet[c], put[c] + 1, put[c] + n))
  /\ UNCHANGED <<stream, lock, packet, seekto, sent, output, history>>

(* The last one: the packet is in.                                         *)
WriteRest(c) ==
  /\ Goto(c, "write", "unlock")
  /\ put' = [put EXCEPT ![c] = 0]
  /\ Store(SubSeq(packet[c], put[c] + 1, Len(packet[c])))
  /\ Rewind(c)
  /\ log' = Append(log, torn \o packet[c]) /\ torn' = <<>>
  /\ own' = [own EXCEPT ![c] = Len(Content')]
  /\ UNCHANGED <<lock, packet, seekto, sent, output, seeked>>

(* A write(2) fails: the device has no memory, the file system no room.    *)
(* Nobody looks at the results of fwrite and fflush.                       *)
WriteFails(c) ==
  /\ Goto(c, "write", "unlock")
  /\ put' = [put EXCEPT ![c] = 0]
  /\ Rewind(c)
  /\ torn' = torn \o Part(c)
  /\ UNCHANGED <<store, lock, packet, seekto, sent, output, log, own, seeked>>

(* aesd_circular_buffer_offset_at, on the lines: the position of a byte of *)
(* a line, or nothing.  A regular file has no such ioctl.                  *)
OffsetAt(s) ==
  IF use_device /\ s[1] < Len(lines) /\ s[2] < Len(lines[s[1] + 1])
  THEN {Len(FlattenSeq(SubSeq(lines, 1, s[1]))) + s[2]} ELSE {}

(* The ioctl; that it failed goes unnoticed.                               *)
Seek(c) ==
  /\ Goto(c, "ioctl", "unlock")
  /\ IF OffsetAt(seekto[c]) = {}
     THEN UNCHANGED <<f_pos, seeked>>
     ELSE /\ \E pos \in OffsetAt(seekto[c]) : f_pos' = [f_pos EXCEPT ![c] = pos]
          /\ seeked' = seeked \cup {c}
  /\ UNCHANGED <<store, eof, lock, input, output, log, torn, own>>

WriteUnlock(c) ==
  /\ Goto(c, "unlock", "rdlock")
  /\ writer' = NULL
  /\ UNCHANGED <<store, stream, readers, input, output, history>>

-----------------------------------------------------------------------------
ReplyLock(c) ==
  /\ Goto(c, "rdlock", "reply")
  /\ ReadFree
  /\ readers' = readers \cup {c}
  /\ UNCHANGED <<store, stream, writer, input, output, history>>

(* One turn of the loop: n bytes are read and sent.                        *)
ReadSend(c, n) ==
  LET read == SubSeq(Content, f_pos[c] + 1, f_pos[c] + n)
  IN  /\ Goto(c, "reply", "reply")
      /\ c \notin eof
      /\ n > 0 /\ f_pos[c] + n <= Len(Content)
      /\ f_pos' = [f_pos EXCEPT ![c] = @ + n]
      /\ reply' = [reply EXCEPT ![c] = @ \o read]
      /\ got' = IF use_device THEN [got EXCEPT ![c] = @ \o read] ELSE got
      /\ UNCHANGED <<store, eof, lock, input, history>>

(* fread returns nothing; and the mutant in which a short read ends it.    *)
AtEndOrShort(c) == reply[c] # <<>> \/ f_pos[c] >= Len(Content) \/ c \in eof
AtEnd(c) == f_pos[c] >= Len(Content) \/ c \in eof

(* The reply is over, and so is write_new_packet with its locals.          *)
ReplyDone(c) ==
  /\ Goto(c, "reply", "recv")
  /\ AtEnd(c)
  /\ eof' = IF eof_stays THEN eof \cup {c} ELSE eof
  /\ readers' = readers \ {c}
  /\ packet' = [packet EXCEPT ![c] = <<>>]
  /\ seekto' = [seekto EXCEPT ![c] = <<0, 0>>]
  /\ reply' = [reply EXCEPT ![c] = <<>>]
  /\ UNCHANGED <<store, f_pos, writer, put, sent, got, history>>

-----------------------------------------------------------------------------
(* The bound is reached and every packet is answered.                      *)
Finished ==
  sent = MAX_PACKETS /\ (\A c \in Clients : pc[c] = "recv") /\ UNCHANGED vars

Next ==
  \/ \E c \in Clients :
       \/ \E p \in Packets : ReceivePacket(c, p)
       \/ \E s \in SeekTos : ReceiveSeek(c, s)
       \/ ReceiveNoMem(c)
       \/ WriteLock(c) \/ WriteRest(c) \/ WriteFails(c) \/ Seek(c) \/ WriteUnlock(c)
       \/ ReplyLock(c) \/ ReplyDone(c)
       \/ \E n \in 1 .. Len(packet[c]) : WritePiece(c, n)
       \/ \E n \in 1 .. Len(Content) : ReadSend(c, n)
  \/ Finished

Spec == Init /\ [][Next]_vars

-----------------------------------------------------------------------------
(* The types of the variables; who holds rw_file_lock is who is between    *)
(* taking it and giving it back, and nobody reads while a client writes.   *)
TypeOK ==
  /\ use_device \in BOOLEAN /\ eof_stays \in BOOLEAN
  /\ f_pos \in [Clients -> Nat] /\ own \in [Clients -> Nat] /\ sent \in Nat
  /\ \A c \in Clients : put[c] \in 0 .. Len(packet[c])
  /\ readers = {c \in Clients : pc[c] = "reply"}
  /\ {c \in Clients : pc[c] \in {"write", "ioctl", "unlock"}} = {writer} \ {NULL}
  /\ writer # NULL => readers = {}
  /\ \A c \in Clients : pc[c] \in {"recv", "wrlock", "seeklock", "write", "ioctl",
                                   "unlock", "rdlock", "reply"}

(* The last n elements of s, or all of them.                               *)
LastOnes(s, n) == IF Len(s) <= n THEN s ELSE SubSeq(s, Len(s) - n + 1, Len(s))

(* Although stdio cuts a packet into several write(2) calls, and the       *)
(* device joins what writers send until a newline, packets are stored one  *)
(* after the other and none inside another.  The device's lines are the    *)
(* last packets, one line each, in the order they were written; a file is  *)
(* all of them.  What else is there is the part of the packet being        *)
(* written, and the parts of packets whose write(2) failed, which stay     *)
(* before the next packet.                                                 *)
LinesArePackets ==
  LET rest == torn \o (IF writer = NULL THEN <<>> ELSE Part(writer))
  IN  IF use_device
      THEN lines = LastOnes(log, MAX_WRITE_OPERATIONS) /\ partial = rest
      ELSE file = FlattenSeq(log) \o rest

(* "Atomically read the file" (client_flow.c:15): what a reply has sent is *)
(* at every moment what the store holds just before the position, so no    *)
(* other client's packet moved or split it.                                *)
ReplyIsSnapshot ==
  \A c \in Clients : pc[c] = "reply" =>
    reply[c] = SubSeq(Content, f_pos[c] - Len(reply[c]) + 1, f_pos[c])

(* On the device, as long as nothing was evicted and the client did not    *)
(* seek, all replies on a connection together are the device's bytes from  *)
(* the start, none missing and none twice.                                 *)
ExactlyOnce ==
  use_device /\ Len(log) <= MAX_WRITE_OPERATIONS =>
    \A c \in Clients \ seeked : got[c] = SubSeq(Content, 1, f_pos[c])

(* And no reply ends before the client's last packet is among them, be it  *)
(* the first or a later one and whatever others wrote after it, unless the *)
(* stream had met its end before and the C library reads no more.          *)
ReplyHoldsPacket ==
  [][\A c \in Clients \ (seeked \cup eof) :
       use_device /\ Len(log) <= MAX_WRITE_OPERATIONS /\ pc[c] = "reply" /\ pc'[c] = "recv"
         => Len(got[c]) >= own[c]]_vars

(* "Atomically read the file and send it to the client"                    *)
(* (client_flow.c:15): on a file the reply to a packet is the whole file,  *)
(* whatever else was written meanwhile.                                    *)
ReplyIsTheFile ==
  [][\A c \in Clients :
       ~use_device /\ packet[c] # <<>> /\ pc[c] = "reply" /\ pc'[c] = "recv"
         => reply[c] = Content]_vars

(* The same of the device: a reply to a packet is what the device holds.   *)
ReplyIsTheDevice ==
  [][\A c \in Clients :
       use_device /\ packet[c] # <<>> /\ pc[c] = "reply" /\ pc'[c] = "recv"
         => reply[c] = Content]_vars

(* "Atomically writes list of packet fragments to the file"                *)
(* (client_flow.c:73): every line of the device is a packet.               *)
PacketsStayWhole == Range(lines) \subseteq Packets
=============================================================================
