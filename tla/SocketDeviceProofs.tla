------------------------- MODULE SocketDeviceProofs -------------------------
(***************************************************************************)
(* Proofs about the client threads on their store, for any number of       *)
(* clients, packets and lines, and for packets of any length cut into any  *)
(* pieces.                                                                 *)
(***************************************************************************)
EXTENDS SocketDevice, FlattenProofs

Bytes == UNION {Range(p) : p \in Packets}

(* Packets are made of Bytes.                                              *)
LEMMA PacketBytes == Packets \subseteq Seq(Bytes)
BY SocketDeviceAssumption, Zenon DEF Bytes

(* What FlattenProofs says of every set.                                   *)
LEMMA Flattened == \A s \in Seq(Seq(Bytes)) : FlattenSeq(s) \in Seq(Bytes)
BY AllFlattenable DEF Flattenable

-----------------------------------------------------------------------------
PCs == {"recv", "wrlock", "seeklock", "write", "ioctl", "unlock", "rdlock", "reply"}
Writing == {"write", "ioctl", "unlock"}

StoreTypes ==
  /\ use_device \in BOOLEAN /\ eof_stays \in BOOLEAN
  /\ lines \in Seq(Seq(Bytes)) /\ partial \in Seq(Bytes) /\ file \in Seq(Bytes)
  /\ log \in Seq(Seq(Bytes)) /\ torn \in Seq(Bytes)

ClientTypes ==
  /\ f_pos \in [Clients -> Nat] /\ eof \in SUBSET Clients
  /\ pc \in [Clients -> PCs]
  /\ packet \in [Clients -> Packets \cup {<<>>}] /\ put \in [Clients -> Nat]
  /\ seekto \in [Clients -> Nat \X Nat] /\ sent \in Nat
  /\ reply \in [Clients -> Seq(Bytes)] /\ got \in [Clients -> Seq(Bytes)]
  /\ own \in [Clients -> Nat] /\ seeked \in SUBSET Clients

(* rw_file_lock.                                                           *)
LockOK ==
  /\ readers = {c \in Clients : pc[c] = "reply"}
  /\ writer \in Clients \cup {NULL}
  /\ \A c \in Clients : pc[c] \in Writing <=> writer = c
  /\ writer # NULL => readers = {}

(* Where a client has a packet, and how much of it and of the reply can be *)
(* done by then.                                                           *)
CallOK(c) ==
  /\ pc[c] \in {"wrlock", "write"} => packet[c] # <<>>
  /\ pc[c] \in {"recv", "seeklock", "ioctl"} => packet[c] = <<>>
  /\ pc[c] = "write" => put[c] < Len(packet[c])
  /\ pc[c] # "write" => put[c] = 0
  /\ pc[c] # "reply" => reply[c] = <<>>

(* A reply's bytes end where the position is.                              *)
EndsAt(r, x, f) == Len(r) <= f /\ r = SubSeq(x, f - Len(r) + 1, f)
ReplyOK(c) == pc[c] = "reply" => EndsAt(reply[c], Content, f_pos[c])

(* On the device, while nothing was evicted: what a client got, and that   *)
(* its last packet is still there.                                         *)
OnceOK(c) ==
  use_device /\ Len(log) <= MAX_WRITE_OPERATIONS /\ c \notin seeked =>
    /\ got[c] = SubSeq(Content, 1, f_pos[c])
    /\ f_pos[c] <= Len(Content) /\ own[c] <= Len(Content)

(* On a file: from the rewind on, the reply to a packet is all there is    *)
(* before the position.                                                    *)
FileOK(c) ==
  ~use_device /\ packet[c] # <<>> /\ pc[c] \in {"unlock", "rdlock", "reply"} =>
    c \notin eof /\ f_pos[c] = Len(reply[c]) /\ f_pos[c] <= Len(Content)

ClientOK(c) == CallOK(c) /\ ReplyOK(c) /\ OnceOK(c) /\ FileOK(c)

Inv == /\ StoreTypes /\ ClientTypes /\ LockOK /\ LinesArePackets
       /\ \A c \in Clients : ClientOK(c)

-----------------------------------------------------------------------------
(* The last lines of the log are lines.                                    *)
LEMMA LastOnesType ==
  ASSUME StoreTypes, NEW n \in Nat \ {0}
  PROVE  LastOnes(log, n) \in Seq(Seq(Bytes))
<1>1. log \in Seq(Seq(Bytes)) /\ Len(log) \in Nat
  BY DEF StoreTypes
<1>2. CASE Len(log) <= n
  BY <1>1, <1>2 DEF LastOnes
<1>3. CASE ~(Len(log) <= n)
  <2>1. Len(log) - n + 1 \in 1 .. Len(log)
    BY <1>1, <1>3
  <2> QED BY <1>1, <1>3, <2>1 DEF LastOnes
<1> QED BY <1>2, <1>3

(* What is read is a sequence of bytes.                                    *)
LEMMA ContentType ==
  ASSUME StoreTypes, LinesArePackets
  PROVE  Content \in Seq(Bytes) /\ Len(Content) \in Nat
<1>1. CASE use_device
  <2>1. FlattenSeq(lines) \in Seq(Bytes)
    BY Flattened DEF StoreTypes
  <2>2. Content \in Seq(Bytes)
    BY <1>1, <2>1 DEF Content
  <2> QED BY <2>2
<1>2. CASE ~use_device
  <2>1. Content \in Seq(Bytes)
    BY <1>2 DEF Content, StoreTypes
  <2> QED BY <2>1
<1> QED BY <1>1, <1>2

(* As an implication,                                                      *)
LEMMA ContentTyped ==
  StoreTypes /\ LinesArePackets => Content \in Seq(Bytes) /\ Len(Content) \in Nat
BY ContentType

(* of the next state.                                                      *)
LEMMA ContentTypeNext ==
  (StoreTypes /\ LinesArePackets)' => (Content \in Seq(Bytes) /\ Len(Content) \in Nat)'
BY ContentTyped, PTL

(* The bytes of packets that are not complete.                             *)
Rest == torn \o (IF writer = NULL THEN <<>> ELSE Part(writer))

(* LinesArePackets in these terms,                                         *)
LEMMA LinesRest ==
  LinesArePackets <=> IF use_device
                      THEN lines = LastOnes(log, MAX_WRITE_OPERATIONS) /\ partial = Rest
                      ELSE file = FlattenSeq(log) \o Rest
BY DEF LinesArePackets, Rest

(* in the next state too.                                                  *)
LEMMA LinesRestNext ==
  LinesArePackets' <=> IF use_device'
                       THEN lines' = LastOnes(log', MAX_WRITE_OPERATIONS) /\ partial' = Rest'
                       ELSE file' = FlattenSeq(log') \o Rest'
BY DEF LinesArePackets, Rest, LastOnes

(* A client's own variables stay.                                          *)
Same(d) ==
  /\ pc'[d] = pc[d] /\ packet'[d] = packet[d] /\ put'[d] = put[d] /\ reply'[d] = reply[d]
  /\ got'[d] = got[d] /\ own'[d] = own[d] /\ f_pos'[d] = f_pos[d]
  /\ (d \in eof' <=> d \in eof) /\ (d \in seeked' <=> d \in seeked)

(* What there is to read stays, or grows while nobody reads.               *)
Grows ==
  \/ UNCHANGED <<Content, log>>
  \/ /\ \A d \in Clients : pc[d] # "reply"
     /\ Len(log) <= Len(log')
     /\ ~use_device \/ Len(log') <= MAX_WRITE_OPERATIONS =>
          \E x \in Seq(Bytes) : Content' = Content \o x

(* A client that does nothing does not notice.                             *)
LEMMA Unaffected ==
  ASSUME StoreTypes, ClientTypes, LinesArePackets, StoreTypes', Grows,
         UNCHANGED <<use_device, eof_stays>>, NEW d \in Clients, ClientOK(d), Same(d)
  PROVE  ClientOK(d)'
<1>1. Content \in Seq(Bytes) /\ Len(Content) \in Nat /\ f_pos[d] \in Nat /\ own[d] \in Nat
  BY ContentType DEF ClientTypes
<1>2. CallOK(d)'
  BY DEF CallOK, ClientOK, Same
<1>3. CASE UNCHANGED <<Content, log>>
  BY <1>2, <1>3 DEF ClientOK, ReplyOK, OnceOK, FileOK, Same
<1>4. CASE Grows /\ ~UNCHANGED <<Content, log>>
  <2>1. pc'[d] # "reply" /\ Len(log) <= Len(log') /\ Len(log) \in Nat /\ Len(log') \in Nat
    BY <1>4 DEF Grows, Same, StoreTypes
  <2>2. CASE ~use_device \/ Len(log') <= MAX_WRITE_OPERATIONS
    <3>1. PICK x \in Seq(Bytes) : Content' = Content \o x
      BY <1>4, <2>2 DEF Grows
    <3>2. Len(Content) <= Len(Content')
      BY <1>1, <3>1
    <3>3. f_pos[d] <= Len(Content) => SubSeq(Content', 1, f_pos[d]) = SubSeq(Content, 1, f_pos[d])
      BY <1>1, <3>1
    <3>4. Len(Content') \in Nat
      BY <1>1, <3>1
    <3>5. OnceOK(d)'
      BY <1>1, <2>1, <3>2, <3>3, <3>4, SocketDeviceAssumption DEF ClientOK, OnceOK, Same
    <3>6. FileOK(d)'
      BY <1>1, <3>2, <3>4 DEF ClientOK, FileOK, Same
    <3> QED BY <1>2, <2>1, <3>5, <3>6 DEF ClientOK, ReplyOK
  <2>3. CASE use_device /\ ~(Len(log') <= MAX_WRITE_OPERATIONS)
    BY <1>2, <2>1, <2>3 DEF ClientOK, ReplyOK, OnceOK, FileOK
  <2> QED BY <2>2, <2>3 DEF StoreTypes
<1> QED BY <1>3, <1>4

(* A step of client c.                                                     *)
LEMMA StepInv ==
  ASSUME Inv, UNCHANGED <<use_device, eof_stays>>, Grows,
         NEW c \in Clients, \A d \in Clients \ {c} : Same(d),
         StoreTypes', ClientTypes', LockOK', LinesArePackets', ClientOK(c)'
  PROVE  Inv'
<1>1. \A d \in Clients \ {c} : ClientOK(d)'
  BY Unaffected DEF Inv
<1> QED BY <1>1 DEF Inv

(* One that leaves the store alone.                                        *)
LEMMA QuietStep ==
  ASSUME Inv, UNCHANGED <<use_device, eof_stays, lines, partial, file, log>>, torn' \in Seq(Bytes),
         NEW c \in Clients, \A d \in Clients \ {c} : Same(d),
         ClientTypes', LockOK', Rest' = Rest, Content' = Content => ClientOK(c)'
  PROVE  Inv'
<1>1. Content' = Content
  BY DEF Content
<1>2. StoreTypes'
  BY DEF Inv, StoreTypes
<1>3. LinesArePackets'
  <2>1. IF use_device THEN lines = LastOnes(log, MAX_WRITE_OPERATIONS) /\ partial = Rest
                      ELSE file = FlattenSeq(log) \o Rest
    BY LinesRest DEF Inv
  <2>2. LastOnes(log', MAX_WRITE_OPERATIONS) = LastOnes(log, MAX_WRITE_OPERATIONS)
        /\ FlattenSeq(log') = FlattenSeq(log)
    OBVIOUS
  <2> QED BY <2>1, <2>2, LinesRestNext
<1> QED BY <1>1, <1>2, <1>3, StepInv DEF Grows

(* What was torn off stays a sequence of bytes.                            *)
LEMMA TornType == ASSUME Inv, UNCHANGED torn PROVE torn' \in Seq(Bytes)
BY DEF Inv, StoreTypes

(* The holders of the lock, and the bytes of the packet being written,     *)
(* when a step does not concern them.                                      *)
LEMMA LockKept ==
  ASSUME LockOK, UNCHANGED lock, NEW c \in Clients, \A d \in Clients \ {c} : pc'[d] = pc[d],
         pc'[c] = "reply" <=> pc[c] = "reply", pc'[c] \in Writing <=> pc[c] \in Writing
  PROVE  LockOK'
BY DEF LockOK, lock

(* The same of the bytes behind the last line.                             *)
LEMMA RestKept ==
  ASSUME UNCHANGED <<torn, writer>>,
         writer # NULL => packet'[writer] = packet[writer] /\ put'[writer] = put[writer]
  PROVE  Rest' = Rest
BY DEF Rest, Part

(* Of a packet of which nothing is written there are no bytes.             *)
LEMMA RestIdle ==
  ASSUME StoreTypes, writer # NULL => put[writer] = 0 PROVE Rest = torn
<1>1. \A x : SubSeq(x, 1, 0) = <<>>
  OBVIOUS
<1>2. torn \o <<>> = torn
  BY DEF StoreTypes
<1> QED BY <1>1, <1>2 DEF Rest, Part

(* The same of the next state.                                             *)
LEMMA RestIdleNext ==
  ASSUME StoreTypes', writer' # NULL => put'[writer'] = 0 PROVE Rest' = torn'
<1>1. \A x : SubSeq(x, 1, 0) = <<>>
  OBVIOUS
<1>2. torn' \o <<>> = torn'
  BY DEF StoreTypes
<1> QED BY <1>1, <1>2 DEF Rest, Part

-----------------------------------------------------------------------------
(* A packet or a command comes in.                                         *)
LEMMA ReceiveInv ==
  ASSUME Inv, NEW c \in Clients,
         \/ \E p \in Packets : ReceivePacket(c, p)
         \/ \E s \in SeekTos : ReceiveSeek(c, s)
         \/ ReceiveNoMem(c)
  PROVE  Inv'
<1>1. /\ pc[c] = "recv"
      /\ \/ /\ pc' = [pc EXCEPT ![c] = "wrlock"] /\ seekto' = seekto
            /\ \E p \in Packets : packet' = [packet EXCEPT ![c] = p]
         \/ /\ pc' = [pc EXCEPT ![c] = "seeklock"] /\ packet' = packet
            /\ \E s \in SeekTos : seekto' = [seekto EXCEPT ![c] = s]
         \/ pc' = [pc EXCEPT ![c] = "rdlock"] /\ UNCHANGED <<packet, seekto>>
      /\ sent' = sent + 1
      /\ UNCHANGED <<use_device, eof_stays, lines, partial, file, f_pos, eof, readers, writer,
                     put, reply, got, log, torn, own, seeked>>
  BY DEF ReceivePacket, ReceiveSeek, ReceiveNoMem, Receive, Goto, store, device, stream, lock,
         output, history
<1>2. ClientTypes
  BY DEF Inv
<1>3. ClientTypes'
  <2>1. pc' \in [Clients -> PCs] /\ sent' \in Nat
    <3>1. \E p \in PCs : pc' = [pc EXCEPT ![c] = p]
      BY <1>1 DEF PCs
    <3>2. sent' = sent + 1
      BY <1>1
    <3> QED BY <1>2, <3>1, <3>2 DEF ClientTypes
  <2>2. packet' \in [Clients -> Packets \cup {<<>>}]
    BY <1>1, <1>2 DEF ClientTypes
  <2>3. seekto' \in [Clients -> Nat \X Nat]
    <3>1. SeekTos \subseteq Nat \X Nat /\ seekto \in [Clients -> Nat \X Nat]
      BY <1>2, SocketDeviceAssumption DEF ClientTypes
    <3>2. seekto' = seekto \/ \E s \in SeekTos : seekto' = [seekto EXCEPT ![c] = s]
      BY <1>1
    <3> QED BY <3>1, <3>2
  <2> QED BY <1>1, <1>2, <2>1, <2>2, <2>3 DEF ClientTypes
<1>4. \A d \in Clients \ {c} : Same(d)
  BY <1>1, <1>2 DEF ClientTypes, Same
<1>5. /\ pc'[c] \in {"wrlock", "seeklock", "rdlock"}
      /\ pc'[c] = "wrlock" => packet'[c] \in Packets
      /\ pc'[c] # "wrlock" => packet'[c] = packet[c]
  BY <1>1, <1>2 DEF ClientTypes
<1>6. LockOK'
  BY <1>1, <1>4, <1>5, LockKept DEF Inv, lock, Writing, Same
<1>7. writer # c /\ writer \in Clients \cup {NULL}
  BY <1>1 DEF Inv, LockOK, Writing
<1>8. Rest' = Rest
  BY <1>1, <1>4, <1>7, RestKept DEF Same
<1>9. ASSUME Content' = Content PROVE ClientOK(c)'
  <2>1. ClientOK(c)
    BY DEF Inv
  <2>2. CallOK(c)'
    BY <1>1, <1>5, <2>1, SocketDeviceAssumption DEF ClientOK, CallOK
  <2>3. OnceOK(c)'
    BY <1>1, <1>5, <1>9, <2>1 DEF ClientOK, OnceOK
  <2>4. ReplyOK(c)' /\ FileOK(c)'
    BY <1>1, <1>5, <2>1 DEF ClientOK, CallOK, ReplyOK, FileOK
  <2> QED BY <2>2, <2>3, <2>4 DEF ClientOK
<1> QED BY <1>1, <1>3, <1>4, <1>6, <1>8, <1>9, TornType, QuietStep

(* The write lock is taken or given back.                                  *)
LEMMA WriteLockInv ==
  ASSUME Inv, NEW c \in Clients, WriteLock(c) \/ WriteUnlock(c)
  PROVE  Inv'
<1>1. /\ \/ /\ pc[c] = "wrlock" /\ pc' = [pc EXCEPT ![c] = "write"]
            /\ readers = {} /\ writer = NULL /\ writer' = c
         \/ /\ pc[c] = "seeklock" /\ pc' = [pc EXCEPT ![c] = "ioctl"]
            /\ readers = {} /\ writer = NULL /\ writer' = c
         \/ pc[c] = "unlock" /\ pc' = [pc EXCEPT ![c] = "rdlock"] /\ writer' = NULL
      /\ UNCHANGED <<use_device, eof_stays, lines, partial, file, f_pos, eof, readers, packet,
                     put, seekto, sent, reply, got, log, torn, own, seeked>>
  BY DEF WriteLock, WriteUnlock, WriteFree, Goto, store, device, stream, input, output, history
<1>2. ClientTypes /\ StoreTypes /\ LockOK /\ NULL \notin Clients /\ ClientOK(c)
  BY SocketDeviceAssumption DEF Inv
<1>3. ClientTypes'
  BY <1>1, <1>2 DEF ClientTypes, PCs
<1>4. \A d \in Clients \ {c} : Same(d)
  BY <1>1, <1>2 DEF ClientTypes, Same
<1>5. \/ pc[c] = "wrlock" /\ pc'[c] = "write" /\ writer = NULL /\ writer' = c /\ readers = {}
      \/ pc[c] = "seeklock" /\ pc'[c] = "ioctl" /\ writer = NULL /\ writer' = c /\ readers = {}
      \/ pc[c] = "unlock" /\ pc'[c] = "rdlock" /\ writer = c /\ writer' = NULL /\ readers = {}
  BY <1>1, <1>2 DEF ClientTypes, LockOK, Writing
<1>6. LockOK'
  BY <1>1, <1>2, <1>4, <1>5 DEF LockOK, Writing, Same
<1>7. put[c] = 0
  BY <1>5, <1>2 DEF ClientOK, CallOK
<1>8. Rest' = Rest
  <2>1. Rest = torn
    BY <1>2, <1>5, <1>7, RestIdle
  <2>2. StoreTypes' /\ (writer' # NULL => put'[writer'] = 0)
    BY <1>1, <1>2, <1>5, <1>7 DEF StoreTypes
  <2>3. Rest' = torn'
    BY <2>2, RestIdleNext
  <2> QED BY <1>1, <2>1, <2>3
<1>9. ASSUME Content' = Content PROVE ClientOK(c)'
  <2>1. CallOK(c)' /\ ReplyOK(c)'
    <3>1. packet[c] # <<>> /\ pc[c] = "wrlock" => Len(packet[c]) > 0
      BY <1>2, SocketDeviceAssumption DEF ClientTypes
    <3> QED BY <1>1, <1>2, <1>5, <1>7, <3>1 DEF ClientOK, CallOK, ReplyOK
  <2>2. OnceOK(c)'
    BY <1>1, <1>2, <1>5, <1>9 DEF ClientOK, OnceOK
  <2>3. FileOK(c)'
    BY <1>1, <1>2, <1>5, <1>9 DEF ClientOK, FileOK
  <2> QED BY <2>1, <2>2, <2>3 DEF ClientOK
<1> QED BY <1>1, <1>3, <1>4, <1>6, <1>8, <1>9, TornType, QuietStep

-----------------------------------------------------------------------------
(* A reply begins.                                                         *)
LEMMA ReplyLockInv ==
  ASSUME Inv, NEW c \in Clients, ReplyLock(c) PROVE Inv'
<1>1. /\ pc[c] = "rdlock" /\ pc' = [pc EXCEPT ![c] = "reply"]
      /\ writer = NULL /\ writer' = writer /\ readers' = readers \cup {c}
      /\ UNCHANGED <<use_device, eof_stays, lines, partial, file, f_pos, eof, packet, put, seekto,
                     sent, reply, got, log, torn, own, seeked>>
  BY DEF ReplyLock, ReadFree, Goto, store, device, stream, input, output, history
<1>2. ClientTypes /\ LockOK /\ NULL \notin Clients /\ ClientOK(c)
  BY SocketDeviceAssumption DEF Inv
<1>3. ClientTypes'
  BY <1>1, <1>2 DEF ClientTypes, PCs
<1>4. \A d \in Clients \ {c} : Same(d)
  BY <1>1, <1>2 DEF ClientTypes, Same
<1>5. pc'[c] = "reply" /\ reply[c] = <<>> /\ put[c] = 0 /\ f_pos[c] \in Nat
  BY <1>1, <1>2 DEF ClientTypes, ClientOK, CallOK
<1>6. LockOK'
  BY <1>1, <1>2, <1>4, <1>5 DEF LockOK, Writing, Same
<1>7. Rest' = Rest
  BY <1>1, RestKept
<1>8. ASSUME Content' = Content PROVE ClientOK(c)'
  <2>1. CallOK(c)'
    BY <1>1, <1>5 DEF CallOK
  <2>2. ReplyOK(c)'
    <3>1. Len(<<>>) = 0 /\ SubSeq(Content, f_pos[c] - 0 + 1, f_pos[c]) = <<>>
      BY <1>5
    <3> QED BY <1>1, <1>5, <1>8, <3>1 DEF ReplyOK, EndsAt
  <2>3. OnceOK(c)' /\ FileOK(c)'
    BY <1>1, <1>2, <1>5, <1>8 DEF ClientOK, OnceOK, FileOK
  <2> QED BY <2>1, <2>2, <2>3 DEF ClientOK
<1> QED BY <1>1, <1>3, <1>4, <1>6, <1>7, <1>8, TornType, QuietStep

(* It ends.                                                                *)
LEMMA ReplyDoneInv ==
  ASSUME Inv, NEW c \in Clients, ReplyDone(c) PROVE Inv'
<1>1. /\ pc[c] = "reply" /\ pc' = [pc EXCEPT ![c] = "recv"]
      /\ f_pos[c] >= Len(Content) \/ c \in eof
      /\ eof' \in {eof, eof \cup {c}} /\ readers' = readers \ {c}
      /\ packet' = [packet EXCEPT ![c] = <<>>] /\ seekto' = [seekto EXCEPT ![c] = <<0, 0>>]
      /\ reply' = [reply EXCEPT ![c] = <<>>]
      /\ UNCHANGED <<use_device, eof_stays, lines, partial, file, f_pos, writer, put, sent, got,
                     log, torn, own, seeked>>
  BY DEF ReplyDone, AtEnd, Goto, store, device, history
<1>2. ClientTypes /\ LockOK /\ NULL \notin Clients /\ ClientOK(c)
  BY SocketDeviceAssumption DEF Inv
<1>3. ClientTypes'
  BY <1>1, <1>2 DEF ClientTypes, PCs
<1>4. \A d \in Clients \ {c} : Same(d)
  BY <1>1, <1>2 DEF ClientTypes, Same
<1>5. pc'[c] = "recv" /\ reply'[c] = <<>> /\ packet'[c] = <<>> /\ put[c] = 0 /\ writer = NULL
  BY <1>1, <1>2 DEF ClientTypes, ClientOK, CallOK, LockOK
<1>6. LockOK'
  BY <1>1, <1>2, <1>4, <1>5 DEF LockOK, Writing, Same
<1>7. Rest' = Rest
  BY <1>1, <1>5, RestKept
<1>8. ASSUME Content' = Content PROVE ClientOK(c)'
  <2>1. CallOK(c)' /\ ReplyOK(c)' /\ FileOK(c)'
    BY <1>1, <1>5 DEF CallOK, ReplyOK, FileOK
  <2>2. OnceOK(c)'
    <3>1. Len(Content) \in Nat /\ f_pos[c] \in Nat /\ own[c] \in Nat
      BY <1>2, ContentType DEF Inv, ClientTypes
    <3> QED BY <1>1, <1>2, <1>8, <3>1 DEF ClientOK, OnceOK
  <2> QED BY <2>1, <2>2 DEF ClientOK
<1> QED BY <1>1, <1>3, <1>4, <1>6, <1>7, <1>8, TornType, QuietStep

(* Two adjacent parts of a sequence are one.                               *)
LEMMA Adjacent ==
  ASSUME NEW x \in Seq(Bytes), NEW f \in Nat, NEW n \in Nat, f + n <= Len(x),
         NEW m \in 1 .. f + 1
  PROVE  SubSeq(x, m, f) \o SubSeq(x, f + 1, f + n) = SubSeq(x, m, f + n)
OBVIOUS

(* A part of what is read, n bytes from position f on.                     *)
LEMMA PartType ==
  ASSUME NEW x \in Seq(Bytes), NEW f \in Nat, NEW n \in Nat, f + n <= Len(x)
  PROVE  Len(SubSeq(x, f + 1, f + n)) = n /\ SubSeq(x, f + 1, f + n) \in Seq(Bytes)
OBVIOUS

(* A reply with that part added ends where the part does.                  *)
LEMMA EndsAtGrows ==
  ASSUME NEW x \in Seq(Bytes), NEW f \in Nat, NEW n \in Nat, f + n <= Len(x),
         NEW r \in Seq(Bytes), EndsAt(r, x, f)
  PROVE  EndsAt(r \o SubSeq(x, f + 1, f + n), x, f + n)
<1> DEFINE m == f - Len(r) + 1
           y == SubSeq(x, f + 1, f + n)
<1>1. Len(r) \in Nat /\ Len(r) <= f /\ r = SubSeq(x, m, f)
  BY DEF EndsAt
<1>2. m \in 1 .. f + 1
  BY <1>1
<1>3. Len(y) = n /\ y \in Seq(Bytes)
  BY PartType
<1>4. r \o y = SubSeq(x, m, f + n)
  <2> HIDE DEF m
  <2> QED BY <1>1, <1>2, Adjacent
<1>5. Len(r \o y) = Len(r) + n
  <2> HIDE DEF y
  <2> QED BY <1>3
<1> SUFFICES ASSUME NEW z, z = r \o y PROVE EndsAt(z, x, f + n)
  OBVIOUS
<1>6. Len(z) = Len(r) + n /\ z = SubSeq(x, m, f + n)
  <2> HIDE DEF y, m
  <2> QED BY <1>4, <1>5
<1>7. f + n - (Len(r) + n) + 1 = m /\ Len(r) + n <= f + n
  BY <1>1
<1> HIDE DEF y, m
<1> QED BY <1>6, <1>7 DEF EndsAt

(* Some bytes are read and sent.                                           *)
LEMMA ReadSendInv ==
  ASSUME Inv, NEW c \in Clients, NEW n \in 1 .. Len(Content), ReadSend(c, n) PROVE Inv'
<1> DEFINE f == f_pos[c]
           read == SubSeq(Content, f + 1, f + n)
<1>1. /\ pc[c] = "reply" /\ pc' = [pc EXCEPT ![c] = "reply"]
      /\ f + n <= Len(Content)
      /\ f_pos' = [f_pos EXCEPT ![c] = f + n]
      /\ reply' = [reply EXCEPT ![c] = reply[c] \o read]
      /\ got' = IF use_device THEN [got EXCEPT ![c] = got[c] \o read] ELSE got
      /\ UNCHANGED <<use_device, eof_stays, lines, partial, file, eof, readers, writer, packet,
                     put, seekto, sent, log, torn, own, seeked>>
  BY DEF ReadSend, Goto, store, device, lock, input, history
<1>2. /\ ClientTypes /\ LockOK /\ ClientOK(c)
      /\ Content \in Seq(Bytes) /\ Len(Content) \in Nat /\ n \in Nat /\ f \in Nat
  BY ContentType DEF Inv, ClientTypes
<1>3. Len(read) = n /\ read \in Seq(Bytes)
  BY <1>1, <1>2, PartType
<1>4. /\ reply[c] \in Seq(Bytes) /\ got[c] \in Seq(Bytes)
      /\ reply[c] \o read \in Seq(Bytes) /\ got[c] \o read \in Seq(Bytes)
      /\ Len(reply[c] \o read) = Len(reply[c]) + n /\ Len(reply[c]) \in Nat
  <2>1. \A x, y \in Seq(Bytes) : x \o y \in Seq(Bytes) /\ Len(x \o y) = Len(x) + Len(y) /\ Len(x) \in Nat
    OBVIOUS
  <2>2. reply[c] \in Seq(Bytes) /\ got[c] \in Seq(Bytes)
    BY <1>2 DEF ClientTypes
  <2> HIDE DEF read
  <2> QED BY <1>3, <2>1, <2>2
<1> HIDE DEF read, f
<1>5. ClientTypes'
  <2>1. f + n \in Nat
    BY <1>2
  <2>2. f_pos' \in [Clients -> Nat]
    BY <1>1, <1>2, <2>1 DEF ClientTypes
  <2>3. got' \in [Clients -> Seq(Bytes)] /\ reply' \in [Clients -> Seq(Bytes)]
    BY <1>1, <1>2, <1>4 DEF ClientTypes
  <2> QED BY <1>1, <1>2, <2>2, <2>3 DEF ClientTypes, PCs
<1>6. \A d \in Clients \ {c} : Same(d)
  BY <1>1, <1>2 DEF ClientTypes, Same
<1>7. /\ pc'[c] = "reply" /\ f_pos'[c] = f + n /\ reply'[c] = reply[c] \o read
      /\ use_device => got'[c] = got[c] \o read
  BY <1>1, <1>2 DEF ClientTypes
<1>8. LockOK'
  BY <1>1, <1>2, <1>6, <1>7, LockKept DEF Inv, lock, Writing, Same
<1>9. Rest' = Rest
  BY <1>1, RestKept
<1>10. ASSUME Content' = Content PROVE ClientOK(c)'
  <2>1. CallOK(c)'
    BY <1>1, <1>2, <1>7 DEF CallOK, ClientOK
  <2>2. ReplyOK(c)'
    <3>1. EndsAt(reply[c], Content, f)
      BY <1>1, <1>2 DEF ClientOK, ReplyOK, f
    <3>2. EndsAt(reply[c] \o read, Content, f + n)
      BY <1>1, <1>2, <1>4, <3>1, EndsAtGrows DEF read
    <3> QED BY <1>7, <1>10, <3>2 DEF ReplyOK
  <2>3. OnceOK(c)'
    <3>1. SubSeq(Content, 1, f) \o read = SubSeq(Content, 1, f + n)
      BY <1>1, <1>2, Adjacent DEF read
    <3>2. own[c] \in Nat
      BY <1>2 DEF ClientTypes
    <3>3. OnceOK(c) /\ f_pos[c] = f
      BY <1>2 DEF ClientOK, f
    <3> QED BY <1>1, <1>7, <1>10, <3>1, <3>2, <3>3 DEF OnceOK
  <2>4. FileOK(c)'
    BY <1>1, <1>2, <1>4, <1>7, <1>10 DEF ClientOK, FileOK, f
  <2> QED BY <2>1, <2>2, <2>3, <2>4 DEF ClientOK
<1> QED BY <1>1, <1>5, <1>6, <1>8, <1>9, <1>10, TornType, QuietStep

-----------------------------------------------------------------------------
(* A position the ioctl sets is a position.                                *)
LEMMA OffsetNat ==
  ASSUME Inv, NEW s \in Nat \X Nat, NEW pos \in OffsetAt(s) PROVE pos \in Nat
<1> DEFINE k == s[1]
<1>1. /\ k \in Nat /\ s[2] \in Nat /\ k < Len(lines)
      /\ pos = Len(FlattenSeq(SubSeq(lines, 1, k))) + s[2]
  BY DEF OffsetAt
<1>2. lines \in Seq(Seq(Bytes))
  BY DEF Inv, StoreTypes
<1> HIDE DEF k
<1>3. SubSeq(lines, 1, k) \in Seq(Seq(Bytes))
  BY <1>1, <1>2
<1>4. FlattenSeq(SubSeq(lines, 1, k)) \in Seq(Bytes)
  BY <1>3, Flattened
<1> QED BY <1>1, <1>4

(* The ioctl moves the position of its own stream, or does nothing.        *)
LEMMA SeekInv ==
  ASSUME Inv, NEW c \in Clients, Seek(c) PROVE Inv'
<1>1. /\ pc[c] = "ioctl" /\ pc' = [pc EXCEPT ![c] = "unlock"]
      /\ \/ UNCHANGED <<f_pos, seeked>>
         \/ /\ \E pos \in OffsetAt(seekto[c]) : f_pos' = [f_pos EXCEPT ![c] = pos]
            /\ seeked' = seeked \cup {c}
      /\ UNCHANGED <<use_device, eof_stays, lines, partial, file, eof, readers, writer, packet,
                     put, seekto, sent, reply, got, log, torn, own>>
  BY DEF Seek, Goto, store, device, lock, input, output
<1>2. ClientTypes /\ LockOK /\ ClientOK(c)
  BY DEF Inv
<1>3. \A pos \in OffsetAt(seekto[c]) : pos \in Nat
  BY <1>2, OffsetNat DEF ClientTypes
<1>4. ClientTypes'
  <2>1. f_pos' \in [Clients -> Nat] /\ seeked' \in SUBSET Clients
    BY <1>1, <1>2, <1>3 DEF ClientTypes
  <2> QED BY <1>1, <1>2, <2>1 DEF ClientTypes, PCs
<1>5. \A d \in Clients \ {c} : Same(d)
  BY <1>1, <1>2 DEF ClientTypes, Same
<1>6. pc'[c] = "unlock" /\ packet[c] = <<>> /\ put[c] = 0 /\ reply[c] = <<>>
  BY <1>1, <1>2 DEF ClientTypes, ClientOK, CallOK
<1>7. LockOK'
  BY <1>1, <1>2, <1>5, <1>6, LockKept DEF lock, Writing, Same
<1>8. Rest' = Rest
  BY <1>1, RestKept
<1>9. ASSUME Content' = Content PROVE ClientOK(c)'
  <2>1. CallOK(c)' /\ ReplyOK(c)' /\ FileOK(c)'
    BY <1>1, <1>6 DEF CallOK, ReplyOK, FileOK
  <2>2. OnceOK(c)'
    BY <1>1, <1>2, <1>6, <1>9 DEF ClientOK, OnceOK
  <2> QED BY <2>1, <2>2 DEF ClientOK
<1> QED BY <1>1, <1>4, <1>5, <1>7, <1>8, <1>9, TornType, QuietStep

(* A failed write: what is written of the packet stays where it is.        *)
LEMMA WriteFailsInv ==
  ASSUME Inv, NEW c \in Clients, WriteFails(c) PROVE Inv'
<1>1. /\ pc[c] = "write" /\ pc' = [pc EXCEPT ![c] = "unlock"]
      /\ put' = [put EXCEPT ![c] = 0] /\ torn' = torn \o Part(c)
      /\ \/ use_device /\ UNCHANGED <<f_pos, eof>>
         \/ ~use_device /\ f_pos' = [f_pos EXCEPT ![c] = 0] /\ eof' = eof \ {c}
      /\ UNCHANGED <<use_device, eof_stays, lines, partial, file, readers, writer, packet,
                     seekto, sent, reply, got, log, own, seeked>>
  BY DEF WriteFails, Rewind, Goto, store, device, stream, lock, output
<1>2. ClientTypes /\ StoreTypes /\ LockOK /\ ClientOK(c) /\ NULL \notin Clients
  BY SocketDeviceAssumption DEF Inv
<1>3. ClientTypes'
  <2>1. f_pos' \in [Clients -> Nat] /\ eof' \in SUBSET Clients
    <3>1. f_pos' = f_pos \/ f_pos' = [f_pos EXCEPT ![c] = 0]
      BY <1>1
    <3>2. eof' = eof \/ eof' = eof \ {c}
      BY <1>1
    <3>3. f_pos' \in [Clients -> Nat]
      <4>1. f_pos \in [Clients -> Nat]
        BY <1>2 DEF ClientTypes
      <4> QED BY <3>1, <4>1
    <3>4. eof' \in SUBSET Clients
      BY <1>2, <3>2, Zenon DEF ClientTypes
    <3> QED BY <3>3, <3>4
  <2> QED BY <1>1, <1>2, <2>1 DEF ClientTypes, PCs
<1>4. \A d \in Clients \ {c} : Same(d)
  BY <1>1, <1>2 DEF ClientTypes, Same
<1>5. /\ pc'[c] = "unlock" /\ put'[c] = 0 /\ reply[c] = <<>> /\ writer = c
      /\ put[c] \in Nat /\ put[c] < Len(packet[c]) /\ packet[c] \in Seq(Bytes)
  <2>1. packet[c] \in Packets
    BY <1>1, <1>2 DEF ClientTypes, ClientOK, CallOK
  <2>2. packet[c] \in Seq(Bytes)
    BY <2>1, PacketBytes
  <2> QED BY <1>1, <1>2, <2>2 DEF ClientTypes, ClientOK, CallOK, LockOK, Writing
<1>6. LockOK'
  BY <1>1, <1>2, <1>4, <1>5, LockKept DEF lock, Writing, Same
<1>7. torn' \in Seq(Bytes)
  <2>1. Part(c) \in Seq(Bytes)
    BY <1>5 DEF Part
  <2> QED BY <1>1, <1>2, <2>1 DEF StoreTypes
<1>8. Rest' = Rest
  <2>1. StoreTypes'
    BY <1>1, <1>2, <1>7 DEF StoreTypes
  <2>2. Rest' = torn'
    BY <1>1, <1>5, <2>1, RestIdleNext
  <2> QED BY <1>1, <1>2, <1>5, <2>2 DEF Rest
<1>9. ASSUME Content' = Content PROVE ClientOK(c)'
  <2>1. CallOK(c)' /\ ReplyOK(c)'
    BY <1>1, <1>5 DEF CallOK, ReplyOK
  <2>2. OnceOK(c)'
    BY <1>1, <1>2, <1>5, <1>9 DEF ClientOK, OnceOK
  <2>3. FileOK(c)'
    <3>1. Len(<<>>) = 0 /\ Len(Content) \in Nat
      BY ContentType DEF Inv
    <3> QED BY <1>1, <1>2, <1>5, <1>9, <3>1 DEF FileOK, ClientTypes
  <2> QED BY <2>1, <2>2, <2>3 DEF ClientOK
<1> QED BY <1>1, <1>3, <1>4, <1>6, <1>7, <1>8, <1>9, QuietStep

-----------------------------------------------------------------------------
(* Concatenation is associative.                                           *)
LEMMA Assoc ==
  ASSUME NEW x \in Seq(Bytes), NEW y \in Seq(Bytes), NEW z \in Seq(Bytes)
  PROVE  (x \o y) \o z = x \o (y \o z)
OBVIOUS

(* A concatenation has the bytes of both.                                  *)
LEMMA CatType ==
  ASSUME NEW x \in Seq(Bytes), NEW y \in Seq(Bytes)
  PROVE  x \o y \in Seq(Bytes) /\ Len(x \o y) = Len(x) + Len(y)
OBVIOUS

(* The last byte of a part.                                                *)
LEMMA LastOfPart ==
  ASSUME NEW x \in Seq(Bytes), NEW f \in Nat, NEW n \in Nat \ {0}, f + n <= Len(x)
  PROVE  LET y == SubSeq(x, f + 1, f + n) IN y[Len(y)] = x[f + n]
OBVIOUS

(* A client that writes has a packet, holds the lock and nobody reads.     *)
LEMMA WriterHas ==
  ASSUME Inv, NEW c \in Clients, pc[c] = "write"
  PROVE  /\ packet[c] \in Packets /\ packet[c] \in Seq(Bytes) /\ Len(packet[c]) \in Nat
         /\ put[c] \in Nat /\ put[c] < Len(packet[c]) /\ reply[c] = <<>> /\ writer = c
         /\ \A d \in Clients : pc[d] # "reply"
         /\ Part(c) \in Seq(Bytes) /\ Rest = torn \o Part(c) /\ torn \in Seq(Bytes)
         /\ \A i \in 1 .. Len(packet[c]) : packet[c][i] = NL <=> i = Len(packet[c])
<1>1. ClientTypes /\ CallOK(c) /\ LockOK /\ NULL \notin Clients /\ torn \in Seq(Bytes)
  BY SocketDeviceAssumption DEF Inv, ClientOK, StoreTypes
<1>2. packet[c] \in Packets /\ put[c] \in Nat /\ put[c] < Len(packet[c]) /\ reply[c] = <<>>
  BY <1>1 DEF ClientTypes, CallOK
<1>3. packet[c] \in Seq(Bytes)
  BY <1>2, PacketBytes
<1>4. writer = c /\ \A d \in Clients : pc[d] # "reply"
  BY <1>1 DEF LockOK, Writing
<1>5. Part(c) \in Seq(Bytes) /\ Len(packet[c]) \in Nat /\ DOMAIN packet[c] = 1 .. Len(packet[c])
  BY <1>2, <1>3 DEF Part
<1>6. \A i \in 1 .. Len(packet[c]) : packet[c][i] = NL <=> i = Len(packet[c])
  BY <1>2, <1>5, SocketDeviceAssumption
<1>7. Rest = torn \o Part(c)
  BY <1>1, <1>4 DEF Rest
<1> QED BY <1>1, <1>2, <1>3, <1>4, <1>5, <1>6, <1>7

(* A write(2) that is not the last: the bytes go behind the others of the  *)
(* packet, and do not end a line.                                          *)
LEMMA WritePieceInv ==
  ASSUME Inv, NEW c \in Clients, NEW n \in 1 .. Len(packet[c]), WritePiece(c, n) PROVE Inv'
<1> DEFINE piece == SubSeq(packet[c], put[c] + 1, put[c] + n)
<1>1. /\ pc[c] = "write" /\ pc' = [pc EXCEPT ![c] = "write"]
      /\ put[c] + n < Len(packet[c]) /\ put' = [put EXCEPT ![c] = put[c] + n]
      /\ Store(piece)
      /\ UNCHANGED <<f_pos, eof, readers, writer, packet, seekto, sent, reply, got, log, torn,
                     own, seeked>>
  BY DEF WritePiece, Goto, stream, lock, output, history
<1>2. /\ ClientTypes /\ StoreTypes /\ LockOK /\ LinesArePackets /\ ClientOK(c)
      /\ n \in Nat \ {0}
  BY WriterHas, <1>1 DEF Inv
<1>3. /\ packet[c] \in Seq(Bytes) /\ Len(packet[c]) \in Nat /\ put[c] \in Nat /\ writer = c
      /\ \A d \in Clients : pc[d] # "reply"
      /\ Part(c) \in Seq(Bytes) /\ Rest = torn \o Part(c) /\ torn \in Seq(Bytes)
  BY <1>1, WriterHas
<1>4. piece \in Seq(Bytes) /\ Part(c) \o piece = SubSeq(packet[c], 1, put[c] + n)
  <2>1. put[c] + n <= Len(packet[c]) /\ 1 \in 1 .. put[c] + 1 /\ n \in Nat
    BY <1>1, <1>2, <1>3
  <2> QED BY <1>3, <2>1, PartType, Adjacent DEF Part
<1>5. piece[Len(piece)] # NL
  <2>1. /\ put[c] + n \in 1 .. Len(packet[c]) /\ put[c] + n # Len(packet[c])
        /\ put[c] + n <= Len(packet[c])
    BY <1>1, <1>2, <1>3
  <2>2. packet[c][put[c] + n] # NL
    BY <1>1, <2>1, WriterHas
  <2> QED BY <1>2, <1>3, <2>1, <2>2, LastOfPart
<1>6. /\ UNCHANGED <<use_device, eof_stays>>
      /\ use_device => partial' = partial \o piece /\ UNCHANGED <<lines, file>>
      /\ ~use_device => file' = file \o piece /\ UNCHANGED <<lines, partial>>
  <2> HIDE DEF piece
  <2> QED BY <1>1, <1>5 DEF Store, Device!Write, device
<1> HIDE DEF piece
<1>7. /\ ClientTypes' /\ pc'[c] = "write" /\ put'[c] = put[c] + n
      /\ \A d \in Clients \ {c} : Same(d)
  <2>1. put' \in [Clients -> Nat] /\ put'[c] = put[c] + n /\ \A d \in Clients \ {c} : put'[d] = put[d]
    <3>1. put \in [Clients -> Nat] /\ put[c] + n \in Nat
      BY <1>2, <1>3 DEF ClientTypes
    <3> QED BY <1>1, <3>1
  <2>2. ClientTypes' /\ pc'[c] = "write"
    BY <1>1, <1>2, <2>1 DEF ClientTypes, PCs
  <2>3. \A d \in Clients \ {c} : Same(d)
    BY <1>1, <1>2, <2>1 DEF ClientTypes, Same
  <2> QED BY <2>1, <2>2, <2>3
<1>8. LockOK'
  BY <1>1, <1>2, <1>7, LockKept DEF lock, Writing, Same
<1>9. StoreTypes'
  <2>1. partial' \in Seq(Bytes) /\ file' \in Seq(Bytes)
    BY <1>2, <1>4, <1>6, CatType DEF StoreTypes
  <2> QED BY <1>1, <1>2, <1>6, <2>1 DEF StoreTypes
<1>10. Rest' = Rest \o piece
  <2>1. Rest' = torn \o SubSeq(packet[c], 1, put[c] + n)
    BY <1>1, <1>3, <1>7, SocketDeviceAssumption DEF Rest, Part
  <2>2. (torn \o Part(c)) \o piece = torn \o (Part(c) \o piece)
    BY <1>3, <1>4, Assoc
  <2> QED BY <1>3, <1>4, <2>1, <2>2
<1>11. LinesArePackets'
  <2>1. CASE use_device
    <3>1. partial' = Rest' /\ lines' = LastOnes(log', MAX_WRITE_OPERATIONS) /\ use_device'
      BY <1>1, <1>2, <1>6, <1>10, <2>1, LinesRest
    <3> QED BY <3>1, LinesRestNext
  <2>2. CASE ~use_device
    <3>1. FlattenSeq(log) \in Seq(Bytes) /\ Rest \in Seq(Bytes)
      BY <1>2, <1>3, Flattened, CatType DEF StoreTypes
    <3>2. file = FlattenSeq(log) \o Rest
      BY <1>2, <2>2, LinesRest
    <3>3. file' = FlattenSeq(log) \o Rest'
      BY <1>4, <1>6, <1>10, <2>2, <3>1, <3>2, Assoc
    <3>4. file' = FlattenSeq(log') \o Rest' /\ ~use_device'
      BY <1>1, <1>6, <2>2, <3>3
    <3> QED BY <3>4, LinesRestNext
  <2> QED BY <2>1, <2>2
<1>12. Grows
  <2>1. CASE use_device
    BY <1>1, <1>6, <2>1 DEF Grows, Content
  <2>2. CASE ~use_device
    <3>1. Content' = Content \o piece /\ Len(log) <= Len(log')
      BY <1>1, <1>2, <1>6, <2>2 DEF Content, StoreTypes
    <3> QED BY <1>3, <1>4, <3>1 DEF Grows
  <2> QED BY <2>1, <2>2
<1>13. ClientOK(c)'
  <2>1. CallOK(c)' /\ ReplyOK(c)' /\ FileOK(c)'
    BY <1>1, <1>2, <1>7 DEF ClientOK, CallOK, ReplyOK, FileOK
  <2>2. OnceOK(c)'
    BY <1>1, <1>2, <1>6, <1>7 DEF ClientOK, OnceOK, Content
  <2> QED BY <2>1, <2>2 DEF ClientOK
<1> QED BY <1>6, <1>7, <1>8, <1>9, <1>11, <1>12, <1>13, StepInv

-----------------------------------------------------------------------------
(* The last lines of the log without the oldest of them,                   *)
LEMMA TailOfPart ==
  ASSUME NEW S, NEW s \in Seq(S), NEW j \in Nat, 1 < j, j <= Len(s)
  PROVE  LET w == SubSeq(s, j, Len(s))
         IN  w \in Seq(S) /\ Len(w) = Len(s) - j + 1 /\ Tail(w) = SubSeq(s, j + 1, Len(s))
<1> DEFINE w == SubSeq(s, j, Len(s))
           v == SubSeq(s, j + 1, Len(s))
<1>1. w \in Seq(S) /\ Len(w) = Len(s) - j + 1 /\ \A i \in 1 .. Len(w) : w[i] = s[j + i - 1]
  OBVIOUS
<1>2. v \in Seq(S) /\ Len(v) = Len(s) - j /\ \A i \in 1 .. Len(v) : v[i] = s[j + i]
  OBVIOUS
<1> HIDE DEF w, v
<1>3. /\ Tail(w) \in Seq(S) /\ Len(Tail(w)) = Len(s) - j
      /\ \A i \in 1 .. Len(s) - j : Tail(w)[i] = s[j + i]
  BY <1>1
<1>4. Tail(w) = v
  <2>1. Len(Tail(w)) = Len(v) /\ \A i \in 1 .. Len(Tail(w)) : Tail(w)[i] = v[i]
    BY <1>2, <1>3
  <2> QED BY <1>2, <1>3, <2>1, SameElements
<1> QED BY <1>1, <1>4 DEF w, v

(* and with a new one.                                                     *)
LEMMA PartAppend ==
  ASSUME NEW S, NEW s \in Seq(S), NEW x \in S, NEW j \in Nat, 1 < j, j <= Len(s)
  PROVE  SubSeq(Append(s, x), j + 1, Len(s) + 1) = Append(SubSeq(s, j + 1, Len(s)), x)
<1> DEFINE t == Append(s, x)
           w == SubSeq(t, j + 1, Len(s) + 1)
           v == SubSeq(s, j + 1, Len(s))
<1>1. /\ t \in Seq(S) /\ Len(t) = Len(s) + 1 /\ \A i \in 1 .. Len(s) : t[i] = s[i]
      /\ t[Len(s) + 1] = x /\ Len(s) \in Nat
  BY AppendElements
<1>2. v \in Seq(S) /\ Len(v) = Len(s) - j /\ \A i \in 1 .. Len(v) : v[i] = s[j + i]
  OBVIOUS
<1> HIDE DEF t, v
<1>3. w \in Seq(S) /\ Len(w) = Len(s) - j + 1 /\ \A i \in 1 .. Len(w) : w[i] = t[j + i]
  BY <1>1
<1> HIDE DEF w
<1> DEFINE u == Append(v, x)
<1>4. /\ u \in Seq(S) /\ Len(u) = Len(v) + 1 /\ \A i \in 1 .. Len(v) : u[i] = v[i]
      /\ u[Len(v) + 1] = x
  <2>1. v \in Seq(S)
    BY <1>2
  <2>2. \A r \in Seq(S) : /\ Append(r, x) \in Seq(S) /\ Len(Append(r, x)) = Len(r) + 1
                           /\ \A i \in 1 .. Len(r) : Append(r, x)[i] = r[i]
                           /\ Append(r, x)[Len(r) + 1] = x
    BY AppendElements
  <2> QED BY <2>1, <2>2
<1> HIDE DEF u
<1>5. ASSUME NEW i \in 1 .. Len(s) - j + 1 PROVE w[i] = u[i]
  <2>1. w[i] = t[j + i]
    BY <1>3
  <2>2. CASE i = Len(s) - j + 1
    <3>1. j + i = Len(s) + 1 /\ i = Len(v) + 1
      BY <1>1, <1>2, <2>2
    <3> QED BY <1>1, <1>4, <2>1, <3>1
  <2>3. CASE i # Len(s) - j + 1
    <3>1. i \in 1 .. Len(v) /\ j + i \in 1 .. Len(s)
      BY <1>1, <1>2, <2>3
    <3> QED BY <1>1, <1>2, <1>4, <2>1, <3>1
  <2> QED BY <2>2, <2>3
<1>6. Len(w) = Len(u) /\ \A i \in 1 .. Len(w) : w[i] = u[i]
  BY <1>1, <1>2, <1>3, <1>4, <1>5
<1>7. w = u
  BY <1>3, <1>4, <1>6, SameElements
<1> QED BY <1>7 DEF t, u, v, w

(* One more line: the last ones are those of before without the oldest, if *)
(* there were n already, and the new one.                                  *)
LEMMA LastOnesAppend ==
  ASSUME NEW S, NEW s \in Seq(S), NEW x \in S, NEW n \in Nat \ {0}
  PROVE  LastOnes(Append(s, x), n)
           = Append(IF Len(LastOnes(s, n)) < n THEN LastOnes(s, n) ELSE Tail(LastOnes(s, n)), x)
<1>0. /\ Len(s) \in Nat /\ Append(s, x) \in Seq(S) /\ Len(Append(s, x)) = Len(s) + 1
      /\ n \in Nat /\ n > 0
  OBVIOUS
<1> SUFFICES ASSUME NEW t, t = Append(s, x), NEW k \in Nat, k = Len(s)
             PROVE  LastOnes(t, n) = Append(IF Len(LastOnes(s, n)) < n THEN LastOnes(s, n)
                                            ELSE Tail(LastOnes(s, n)), x)
  BY <1>0
<1>1. t \in Seq(S) /\ Len(t) = k + 1
  BY <1>0
<1>2. CASE k < n
  <2>1. k + 1 <= n /\ k <= n
    BY <1>0, <1>2
  <2>2. LastOnes(s, n) = s /\ LastOnes(t, n) = t
    BY <1>1, <2>1 DEF LastOnes
  <2> QED BY <1>2, <2>2
<1>3. CASE k = n
  <2>1. k <= n /\ ~(k + 1 <= n) /\ k + 1 - n + 1 = 2
    BY <1>0, <1>3
  <2>2. LastOnes(s, n) = s /\ LastOnes(t, n) = SubSeq(t, 2, k + 1)
    BY <1>1, <2>1 DEF LastOnes
  <2>3. SubSeq(t, 2, k + 1) = Append(Tail(s), x)
    BY <1>0, <1>1, <1>3
  <2>4. ~(Len(s) < n)
    BY <1>0, <1>3
  <2> QED BY <2>2, <2>3, <2>4
<1>4. CASE k > n
  <2> DEFINE j == k - n + 1
  <2>0. j \in Nat /\ j > 1 /\ j <= k
    BY <1>0, <1>4
  <2>1. ~(k <= n) /\ ~(k + 1 <= n) /\ k + 1 - n + 1 = j + 1 /\ k - j + 1 = n
    BY <1>0, <1>4, <2>0
  <2>2. LastOnes(s, n) = SubSeq(s, j, k) /\ LastOnes(t, n) = SubSeq(t, j + 1, k + 1)
    <3>1. ~(Len(s) <= n) /\ ~(Len(t) <= n) /\ Len(t) - n + 1 = j + 1 /\ Len(t) = k + 1
      BY <1>1, <2>1
    <3>2. LastOnes(s, n) = SubSeq(s, Len(s) - n + 1, Len(s))
      BY <3>1, Zenon DEF LastOnes
    <3>3. LastOnes(t, n) = SubSeq(t, Len(t) - n + 1, Len(t))
      BY <3>1, Zenon DEF LastOnes
    <3>4. LastOnes(t, n) = SubSeq(t, j + 1, k + 1)
      BY <3>1, <3>3, Zenon
    <3> QED BY <3>2, <3>4, Zenon
  <2> HIDE DEF j
  <2>3. /\ SubSeq(s, j, k) \in Seq(S) /\ Len(SubSeq(s, j, k)) = n
        /\ Tail(SubSeq(s, j, k)) = SubSeq(s, j + 1, k)
    BY <2>0, <2>1, TailOfPart
  <2>4. SubSeq(t, j + 1, k + 1) = Append(SubSeq(s, j + 1, k), x)
    BY <2>0, PartAppend
  <2>5. ~(n < n)
    BY <1>0
  <2> QED BY <2>2, <2>3, <2>4, <2>5
<1> QED BY <1>0, <1>2, <1>3, <1>4

(* The rest of a sequence completes it.                                    *)
LEMMA RestOfPart ==
  ASSUME NEW x \in Seq(Bytes), NEW f \in Nat, f < Len(x)
  PROVE  LET y == SubSeq(x, f + 1, Len(x))
         IN  y \in Seq(Bytes) /\ SubSeq(x, 1, f) \o y = x /\ y[Len(y)] = x[Len(x)]
<1>1. PICK n \in Nat \ {0} : f + n = Len(x)
  <2>1. Len(x) - f \in Nat \ {0} /\ f + (Len(x) - f) = Len(x)
    OBVIOUS
  <2> QED BY <2>1
<1>2. 1 \in 1 .. f + 1 /\ f + n <= Len(x) /\ SubSeq(x, 1, Len(x)) = x
  BY <1>1
<1>3. LET y == SubSeq(x, f + 1, f + n)
      IN  y \in Seq(Bytes) /\ SubSeq(x, 1, f) \o y = SubSeq(x, 1, f + n) /\ y[Len(y)] = x[f + n]
  BY <1>2, PartType, Adjacent, LastOfPart
<1> QED BY <1>1, <1>2, <1>3

(* One more packet in the log is one more at the end of its bytes.         *)
LEMMA LogGrows ==
  ASSUME StoreTypes, NEW x \in Seq(Bytes), log' = Append(log, x)
  PROVE  FlattenSeq(log') = FlattenSeq(log) \o x
BY FlattenAppend DEF StoreTypes

(* The last write(2): the packet is in.                                    *)
LEMMA WriteRestInv ==
  ASSUME Inv, NEW c \in Clients, WriteRest(c) PROVE Inv'
<1> DEFINE piece == SubSeq(packet[c], put[c] + 1, Len(packet[c]))
           new == torn \o packet[c]
           M == MAX_WRITE_OPERATIONS
<1>1. /\ pc[c] = "write" /\ pc' = [pc EXCEPT ![c] = "unlock"]
      /\ put' = [put EXCEPT ![c] = 0] /\ Store(piece)
      /\ \/ use_device /\ UNCHANGED <<f_pos, eof>>
         \/ ~use_device /\ f_pos' = [f_pos EXCEPT ![c] = 0] /\ eof' = eof \ {c}
      /\ log' = Append(log, new) /\ torn' = <<>>
      /\ own' = [own EXCEPT ![c] = Len(Content')]
      /\ UNCHANGED <<readers, writer, packet, seekto, sent, reply, got, seeked>>
  BY DEF WriteRest, Rewind, Goto, stream, lock, output
<1>2. /\ ClientTypes /\ StoreTypes /\ LockOK /\ LinesArePackets /\ ClientOK(c)
      /\ M \in Nat \ {0}
  BY SocketDeviceAssumption DEF Inv
<1>3. /\ packet[c] \in Seq(Bytes) /\ Len(packet[c]) \in Nat /\ put[c] \in Nat /\ writer = c
      /\ put[c] < Len(packet[c]) /\ reply[c] = <<>>
      /\ \A d \in Clients : pc[d] # "reply"
      /\ Part(c) \in Seq(Bytes) /\ Rest = torn \o Part(c) /\ torn \in Seq(Bytes)
  BY <1>1, WriterHas
<1>4. packet[c][Len(packet[c])] = NL
  <2>1. Len(packet[c]) \in 1 .. Len(packet[c])
    BY <1>3
  <2> QED BY <1>1, <2>1, WriterHas
<1>5. piece \in Seq(Bytes) /\ Part(c) \o piece = packet[c] /\ piece[Len(piece)] = NL
  BY <1>3, <1>4, RestOfPart DEF Part
<1> HIDE DEF piece
<1>6. Rest \o piece = new /\ new \in Seq(Bytes) /\ Rest \in Seq(Bytes)
  <2>1. (torn \o Part(c)) \o piece = torn \o (Part(c) \o piece)
    BY <1>3, <1>5, Assoc
  <2>2. new \in Seq(Bytes) /\ torn \o Part(c) \in Seq(Bytes)
    BY <1>3, CatType
  <2> QED BY <1>3, <1>5, <2>1, <2>2
<1> HIDE DEF new
<1>7. /\ UNCHANGED <<use_device, eof_stays>>
      /\ use_device => /\ lines' = Append(IF Len(lines) < M THEN lines ELSE Tail(lines), partial \o piece)
                       /\ partial' = <<>> /\ file' = file
      /\ ~use_device => file' = file \o piece /\ UNCHANGED <<lines, partial>>
  BY <1>1, <1>5 DEF Store, Device!Write, device
<1>8. FlattenSeq(log') = FlattenSeq(log) \o new
  BY <1>1, <1>2, <1>6, LogGrows
<1>9. LastOnes(log', M) = Append(IF Len(LastOnes(log, M)) < M THEN LastOnes(log, M)
                                 ELSE Tail(LastOnes(log, M)), new)
  BY <1>1, <1>2, <1>6, LastOnesAppend DEF StoreTypes
<1>10. /\ use_device => lines = LastOnes(log, M) /\ partial = Rest
       /\ ~use_device => file = FlattenSeq(log) \o Rest
  BY <1>2, LinesRest
<1>11. use_device => lines' = LastOnes(log', M)
  <2> SUFFICES ASSUME use_device PROVE lines' = LastOnes(log', M)
    OBVIOUS
  <2>1. lines = LastOnes(log, M) /\ partial \o piece = new
    BY <1>6, <1>10
  <2>2. lines' = Append(IF Len(lines) < M THEN lines ELSE Tail(lines), new)
    BY <1>7, <2>1
  <2> QED BY <1>9, <2>1, <2>2, Zenon
<1>12. ~use_device => file' = FlattenSeq(log')
  <2>1. FlattenSeq(log) \in Seq(Bytes)
    BY <1>2, Flattened DEF StoreTypes
  <2>2. (FlattenSeq(log) \o Rest) \o piece = FlattenSeq(log) \o (Rest \o piece)
    BY <1>5, <1>6, <2>1, Assoc
  <2> QED BY <1>6, <1>7, <1>8, <1>10, <2>2
<1>13. StoreTypes'
  <2>1. log' \in Seq(Seq(Bytes)) /\ torn' \in Seq(Bytes)
    BY <1>1, <1>2, <1>6 DEF StoreTypes
  <2>2. file' \in Seq(Bytes) /\ partial' \in Seq(Bytes)
    <3>1. file \in Seq(Bytes) /\ partial \in Seq(Bytes) /\ use_device \in BOOLEAN
      BY <1>2 DEF StoreTypes
    <3>2. file \o piece \in Seq(Bytes) /\ <<>> \in Seq(Bytes)
      BY <1>5, <3>1, CatType
    <3>3. (file' = file \/ file' = file \o piece) /\ (partial' = partial \/ partial' = <<>>)
      BY <1>7, <3>1, Zenon
    <3> QED BY <3>1, <3>2, <3>3
  <2>3. LastOnes(log', M) \in Seq(Seq(Bytes))
    <3>1. LastOnes(log, M) \in Seq(Seq(Bytes))
      BY <1>2, LastOnesType
    <3> QED BY <1>2, <1>6, <1>9, <3>1
  <2> QED BY <1>2, <1>7, <1>11, <2>1, <2>2, <2>3 DEF StoreTypes
<1>14. pc'[c] = "unlock" /\ put'[c] = 0
  BY <1>1, <1>2 DEF ClientTypes
<1>15. Rest' = <<>>
  BY <1>1, <1>3, <1>13, <1>14, RestIdleNext
<1>16. LinesArePackets'
  <2>1. CASE use_device
    BY <1>7, <1>11, <1>15, <2>1, LinesRestNext
  <2>2. CASE ~use_device
    <3>1. file' \o <<>> = file'
      BY <1>13 DEF StoreTypes
    <3> QED BY <1>7, <1>12, <1>15, <2>2, <3>1, LinesRestNext
  <2> QED BY <2>1, <2>2
<1>17. Content' \in Seq(Bytes) /\ Len(Content') \in Nat /\ Content \in Seq(Bytes)
       /\ Len(Content) \in Nat
  BY <1>2, <1>8, <1>13, <1>16, ContentTyped, ContentTypeNext
<1>18. Len(log) \in Nat /\ Len(log') = Len(log) + 1
  BY <1>1, <1>2, <1>6 DEF StoreTypes
<1>19. ~use_device \/ Len(log') <= M => \E x \in Seq(Bytes) : Content' = Content \o x
  <2>1. CASE ~use_device
    BY <1>5, <1>7, <2>1 DEF Content
  <2>2. CASE use_device /\ Len(log') <= M
    <3>1. Len(log) <= M
      BY <1>2, <1>18, <2>2
    <3>2. lines = log /\ lines' = log'
      BY <1>10, <1>11, <2>2, <3>1 DEF LastOnes
    <3>3. Content' = Content \o new
      BY <1>7, <1>8, <2>2, <3>2 DEF Content
    <3> QED BY <1>6, <3>3
  <2> QED BY <2>1, <2>2
<1>20. Grows
  <2>1. Len(log) <= Len(log')
    BY <1>18
  <2> QED BY <1>3, <1>19, <2>1 DEF Grows
<1>21. f_pos' \in [Clients -> Nat] /\ eof' \in SUBSET Clients
  <2>1. f_pos \in [Clients -> Nat] /\ eof \in SUBSET Clients
    BY <1>2 DEF ClientTypes
  <2>2. f_pos' = f_pos \/ f_pos' = [f_pos EXCEPT ![c] = 0]
    BY <1>1
  <2>3. eof' = eof \/ eof' = eof \ {c}
    BY <1>1
  <2>4. f_pos' \in [Clients -> Nat]
    BY <2>1, <2>2
  <2>5. eof' \in SUBSET Clients
    BY <2>1, <2>3, Zenon
  <2> QED BY <2>4, <2>5
<1>22. own' \in [Clients -> Nat] /\ \A d \in Clients \ {c} : own'[d] = own[d]
  <2>1. own \in [Clients -> Nat]
    BY <1>2 DEF ClientTypes
  <2> QED BY <1>1, <1>17, <2>1
<1>23. ClientTypes'
  <2>1. pc' \in [Clients -> PCs] /\ put' \in [Clients -> Nat]
    BY <1>1, <1>2 DEF ClientTypes, PCs
  <2> QED BY <1>1, <1>2, <1>21, <1>22, <2>1 DEF ClientTypes
<1>24. \A d \in Clients \ {c} : Same(d)
  BY <1>1, <1>2, <1>22 DEF ClientTypes, Same
<1>25. LockOK'
  BY <1>1, <1>2, <1>14, <1>24, LockKept DEF lock, Writing, Same
<1>26. OnceOK(c)'
  <2>1. CASE use_device /\ Len(log') <= M /\ c \notin seeked
    <3>1. PICK x \in Seq(Bytes) : Content' = Content \o x
      BY <1>19, <2>1
    <3>2. f_pos' = f_pos /\ got' = got /\ seeked' = seeked /\ f_pos[c] \in Nat
      BY <1>1, <1>2, <2>1 DEF ClientTypes
    <3>3. Len(log) <= M
      BY <1>2, <1>18, <2>1
    <3>4. /\ got[c] = SubSeq(Content, 1, f_pos[c])
          /\ f_pos[c] <= Len(Content)
      BY <1>2, <2>1, <3>3 DEF ClientOK, OnceOK
    <3>5. Len(Content) <= Len(Content') /\ f_pos[c] <= Len(Content')
      BY <1>17, <3>1, <3>2, <3>4
    <3>6. SubSeq(Content', 1, f_pos[c]) = SubSeq(Content, 1, f_pos[c])
      BY <1>17, <3>1, <3>2, <3>4
    <3>7. own'[c] <= Len(Content')
      BY <1>1, <1>2, <1>17 DEF ClientTypes
    <3> QED BY <1>14, <3>2, <3>4, <3>5, <3>6, <3>7 DEF OnceOK
  <2> QED BY <1>1, <1>7, <2>1 DEF OnceOK
<1>27. FileOK(c)'
  <2>1. Len(<<>>) = 0
    OBVIOUS
  <2>2. ~use_device => f_pos'[c] = 0 /\ c \notin eof'
    BY <1>1, <1>2 DEF ClientTypes
  <2> QED BY <1>1, <1>3, <1>7, <1>17, <2>1, <2>2 DEF FileOK
<1>28. ClientOK(c)'
  <2>1. CallOK(c)' /\ ReplyOK(c)'
    BY <1>1, <1>3, <1>14 DEF CallOK, ReplyOK
  <2> QED BY <1>26, <1>27, <2>1 DEF ClientOK
<1> QED BY <1>7, <1>8, <1>13, <1>16, <1>20, <1>23, <1>24, <1>25, <1>28, StepInv
-----------------------------------------------------------------------------
(* The invariant holds at first.                                           *)
LEMMA InitInv == Init => Inv
<1> SUFFICES ASSUME Init PROVE Inv
  OBVIOUS
<1>1. /\ lines = <<>> /\ partial = <<>> /\ file = <<>> /\ log = <<>> /\ torn = <<>>
      /\ use_device \in BOOLEAN /\ eof_stays \in BOOLEAN /\ writer = NULL /\ readers = {}
  BY DEF Init, Device!Init
<1>2. StoreTypes
  BY <1>1 DEF StoreTypes
<1>3. ClientTypes
  <2>1. <<>> \in Seq(Bytes) /\ <<0, 0>> \in Nat \X Nat /\ 0 \in Nat
    OBVIOUS
  <2> QED BY <2>1 DEF Init, ClientTypes, PCs
<1>4. LockOK
  BY SocketDeviceAssumption DEF Init, LockOK, Writing
<1>5. Rest = <<>>
  BY <1>1, <1>2, RestIdle
<1>6. LinesArePackets
  <2>1. LastOnes(<<>>, MAX_WRITE_OPERATIONS) = <<>>
    BY SocketDeviceAssumption DEF LastOnes
  <2>2. FlattenSeq(log) = <<>> /\ <<>> \o <<>> = <<>>
    BY <1>1, FlatEmpty
  <2> QED BY <1>1, <1>5, <2>1, <2>2, LinesRest
<1>8. Content = <<>>
  BY <1>1, FlatEmpty DEF Content
<1>9. ASSUME NEW c \in Clients PROVE ClientOK(c)
  <2>1. /\ pc[c] = "recv" /\ packet[c] = <<>> /\ put[c] = 0 /\ reply[c] = <<>> /\ got[c] = <<>>
        /\ f_pos[c] = 0 /\ own[c] = 0
    BY DEF Init
  <2>2. SubSeq(<<>>, 1, 0) = <<>> /\ Len(<<>>) = 0
    OBVIOUS
  <2>3. CallOK(c) /\ ReplyOK(c) /\ FileOK(c)
    BY <2>1 DEF CallOK, ReplyOK, FileOK
  <2>4. OnceOK(c)
    BY <1>8, <2>1, <2>2 DEF OnceOK
  <2> QED BY <2>3, <2>4 DEF ClientOK
<1> QED BY <1>2, <1>3, <1>4, <1>6, <1>9 DEF Inv

(* A step that changes nothing keeps it.                                   *)
LEMMA StutterInv == ASSUME Inv, UNCHANGED vars PROVE Inv'
<1>1. UNCHANGED <<use_device, eof_stays, lines, partial, file, f_pos, eof, readers, writer, pc,
                  packet, put, seekto, reply, sent, log, torn, got, own, seeked>>
  BY DEF vars, store, device, stream, lock, input, output, history
<1>2. StoreTypes' /\ ClientTypes' /\ LockOK'
  BY <1>1 DEF Inv, StoreTypes, ClientTypes, LockOK
<1>3. LinesArePackets'
  BY <1>1 DEF Inv, LinesArePackets, LastOnes, Part
<1>4. Content' = Content
  BY <1>1 DEF Content
<1>5. ASSUME NEW c \in Clients PROVE ClientOK(c)'
  <2>1. Grows /\ Same(c) /\ ClientOK(c) /\ UNCHANGED <<use_device, eof_stays>>
    BY <1>1, <1>4 DEF Inv, Grows, Same
  <2>2. StoreTypes /\ ClientTypes /\ LinesArePackets
    BY DEF Inv
  <2> QED BY <1>2, <2>1, <2>2, Unaffected
<1> QED BY <1>2, <1>3, <1>5 DEF Inv

(* Every step of every client keeps it.                                    *)
LEMMA NextInv == Inv /\ [Next]_vars => Inv'
<1> SUFFICES ASSUME Inv, [Next]_vars PROVE Inv'
  OBVIOUS
<1>1. ASSUME NEW c \in Clients,
             \/ \E p \in Packets : ReceivePacket(c, p)
             \/ \E s \in SeekTos : ReceiveSeek(c, s)
             \/ ReceiveNoMem(c)
      PROVE  Inv'
  BY <1>1, ReceiveInv
<1>2. ASSUME NEW c \in Clients, WriteLock(c) \/ WriteUnlock(c) PROVE Inv'
  BY <1>2, WriteLockInv
<1>3. ASSUME NEW c \in Clients, WriteRest(c) PROVE Inv'
  BY <1>3, WriteRestInv
<1>4. ASSUME NEW c \in Clients, WriteFails(c) PROVE Inv'
  BY <1>4, WriteFailsInv
<1>5. ASSUME NEW c \in Clients, Seek(c) PROVE Inv'
  BY <1>5, SeekInv
<1>6. ASSUME NEW c \in Clients, ReplyLock(c) PROVE Inv'
  BY <1>6, ReplyLockInv
<1>7. ASSUME NEW c \in Clients, ReplyDone(c) PROVE Inv'
  BY <1>7, ReplyDoneInv
<1>8. ASSUME NEW c \in Clients, NEW n \in 1 .. Len(packet[c]), WritePiece(c, n) PROVE Inv'
  BY <1>8, WritePieceInv
<1>9. ASSUME NEW c \in Clients, NEW n \in 1 .. Len(Content), ReadSend(c, n) PROVE Inv'
  BY <1>9, ReadSendInv
<1>10. CASE Finished
  BY <1>10, StutterInv DEF Finished
<1>11. CASE UNCHANGED vars
  BY <1>11, StutterInv
<1> QED BY <1>1, <1>2, <1>3, <1>4, <1>5, <1>6, <1>7, <1>8, <1>9, <1>10, <1>11 DEF Next

(* The invariant holds at every moment.                                    *)
LEMMA Invariance == Spec => []Inv
BY InitInv, NextInv, PTL DEF Spec

(* The types hold; rw_file_lock is held by exactly the clients between     *)
(* taking it and giving it back, and never by a reader and a writer.       *)
THEOREM TypesHold == Spec => []TypeOK
<1>1. ASSUME Inv PROVE TypeOK
  <2>1. StoreTypes /\ ClientTypes /\ LockOK /\ NULL \notin Clients
    BY <1>1, SocketDeviceAssumption DEF Inv
  <2>2. ASSUME NEW c \in Clients PROVE put[c] \in 0 .. Len(packet[c])
    <3>1. put[c] \in Nat /\ Len(packet[c]) \in Nat
      <4>1. packet[c] \in Packets \cup {<<>>} /\ put[c] \in Nat
        BY <2>1 DEF ClientTypes
      <4>2. <<>> \in Seq(Bytes)
        OBVIOUS
      <4>3. packet[c] \in Seq(Bytes)
        BY <4>1, <4>2, PacketBytes
      <4> QED BY <4>1, <4>3
    <3>2. put[c] = 0 \/ put[c] < Len(packet[c])
      BY <1>1 DEF Inv, ClientOK, CallOK
    <3> QED BY <3>1, <3>2
  <2>3. {c \in Clients : pc[c] \in Writing} = {writer} \ {NULL}
    BY <2>1 DEF LockOK
  <2>4. /\ use_device \in BOOLEAN /\ eof_stays \in BOOLEAN
        /\ f_pos \in [Clients -> Nat] /\ own \in [Clients -> Nat] /\ sent \in Nat
    BY <2>1 DEF StoreTypes, ClientTypes
  <2>5. \A c \in Clients : pc[c] \in PCs
    BY <2>1 DEF ClientTypes
  <2>6. readers = {c \in Clients : pc[c] = "reply"} /\ (writer # NULL => readers = {})
    BY <2>1 DEF LockOK
  <2> QED BY <2>2, <2>3, <2>4, <2>5, <2>6 DEF TypeOK, PCs, Writing
<1> QED BY <1>1, Invariance, PTL

(* Packets are stored one after the other and none inside another, in      *)
(* whatever pieces stdio hands them to write(2) and wherever one fails:    *)
(* the device holds the last MAX_WRITE_OPERATIONS of them as its lines, a  *)
(* file all of them.                                                       *)
THEOREM PacketsAreNotMixed == Spec => []LinesArePackets
<1>1. Inv => LinesArePackets
  BY DEF Inv
<1> QED BY <1>1, Invariance, PTL

(* What a reply has sent is what the store holds before the position: no   *)
(* writer moves it while reply_to_client reads.                            *)
THEOREM RepliesAreSnapshots == Spec => []ReplyIsSnapshot
<1>1. ASSUME Inv PROVE ReplyIsSnapshot
  BY <1>1 DEF Inv, ClientOK, ReplyOK, EndsAt, ReplyIsSnapshot
<1> QED BY <1>1, Invariance, PTL

(* On the device, while nothing is evicted, a client that does not seek is *)
(* sent every byte once and in order.                                      *)
THEOREM EveryByteOnce == Spec => []ExactlyOnce
<1>1. Inv => ExactlyOnce
  BY DEF Inv, ClientOK, OnceOK, ExactlyOnce
<1> QED BY <1>1, Invariance, PTL

(* Only the end of a reply takes a client from replying to receiving, and  *)
(* only when fread returns nothing.                                        *)
LEMMA RepliesEnd ==
  ASSUME Inv, Next, NEW c \in Clients, pc[c] = "reply", pc'[c] = "recv"
  PROVE  AtEnd(c)
<1>1. pc \in [Clients -> PCs]
  BY DEF Inv, ClientTypes
<1>2. ASSUME NEW d \in Clients, NEW from, NEW to, Goto(d, from, to), from # "reply" \/ to # "recv"
      PROVE  FALSE
  <2>1. pc[d] = from /\ pc'[d] = to /\ (c # d => pc'[c] = pc[c])
    BY <1>1, <1>2 DEF Goto
  <2> QED BY <1>2, <2>1
<1>3. PICK d \in Clients :
        \/ \E p \in Packets : ReceivePacket(d, p)
        \/ \E s \in SeekTos : ReceiveSeek(d, s)
        \/ ReceiveNoMem(d)
        \/ WriteLock(d) \/ WriteRest(d) \/ WriteFails(d) \/ Seek(d) \/ WriteUnlock(d)
        \/ ReplyLock(d) \/ ReplyDone(d)
        \/ \E n \in 1 .. Len(packet[d]) : WritePiece(d, n)
        \/ \E n \in 1 .. Len(Content) : ReadSend(d, n)
  <2>1. ~Finished
    BY DEF Finished
  <2> QED BY <2>1, Zenon DEF Next
<1>4. CASE ReplyDone(d)
  <2>1. pc' = [pc EXCEPT ![d] = "recv"] /\ AtEnd(d)
    BY <1>4 DEF ReplyDone, Goto
  <2>2. d = c
    BY <1>1, <2>1
  <2> QED BY <2>1, <2>2
<1>5. CASE ~ReplyDone(d)
  <2>1. \E from, to : Goto(d, from, to) /\ (from # "reply" \/ to # "recv")
    BY <1>3, <1>5 DEF ReceivePacket, ReceiveSeek, ReceiveNoMem, Receive, WriteLock, WriteRest,
       WriteFails, Seek, WriteUnlock, ReplyLock, WritePiece, ReadSend
  <2> QED BY <1>2, <2>1
<1> QED BY <1>4, <1>5

(* And it is not left waiting for its last packet: every reply that fread  *)
(* is still asked for goes on until that packet is sent, whatever others   *)
(* write behind it.                                                        *)
THEOREM PacketIsSentBack == Spec => ReplyHoldsPacket
<1> DEFINE Holds == \A c \in Clients \ (seeked \cup eof) :
             use_device /\ Len(log) <= MAX_WRITE_OPERATIONS /\ pc[c] = "reply" /\ pc'[c] = "recv"
               => Len(got[c]) >= own[c]
<1>1. Inv /\ Next => Holds
  <2> SUFFICES ASSUME Inv, Next, NEW c \in Clients \ (seeked \cup eof), use_device,
                      Len(log) <= MAX_WRITE_OPERATIONS, pc[c] = "reply", pc'[c] = "recv"
               PROVE  Len(got[c]) >= own[c]
    OBVIOUS
  <2>1. /\ OnceOK(c) /\ Content \in Seq(Bytes) /\ Len(Content) \in Nat
        /\ f_pos[c] \in Nat /\ own[c] \in Nat
    BY ContentType DEF Inv, ClientOK, ClientTypes
  <2>2. /\ got[c] = SubSeq(Content, 1, f_pos[c])
        /\ f_pos[c] <= Len(Content) /\ own[c] <= Len(Content)
    BY <2>1 DEF OnceOK
  <2>3. f_pos[c] >= Len(Content)
    BY RepliesEnd DEF AtEnd
  <2>4. Len(got[c]) = f_pos[c]
    BY <2>1, <2>2
  <2> QED BY <2>1, <2>2, <2>3, <2>4
<1>2. Inv /\ [Next]_vars => [Holds]_vars
  BY <1>1
<1> QED BY <1>2, Invariance, PTL DEF Spec, ReplyHoldsPacket

(* On a file the reply to a packet is the whole file, however many reads   *)
(* it took and whatever other clients did before, between and after.       *)
THEOREM WholeFileIsSent == Spec => ReplyIsTheFile
<1> DEFINE Whole == \A c \in Clients :
             ~use_device /\ packet[c] # <<>> /\ pc[c] = "reply" /\ pc'[c] = "recv"
               => reply[c] = Content
<1>1. Inv /\ Next => Whole
  <2> SUFFICES ASSUME Inv, Next, NEW c \in Clients, ~use_device, packet[c] # <<>>, pc[c] = "reply",
                      pc'[c] = "recv"
               PROVE  reply[c] = Content
    OBVIOUS
  <2>1. /\ FileOK(c) /\ ReplyOK(c) /\ Content \in Seq(Bytes) /\ Len(Content) \in Nat
        /\ f_pos[c] \in Nat
    BY ContentType DEF Inv, ClientOK, ClientTypes
  <2>2. f_pos[c] = Len(Content) /\ Len(reply[c]) = f_pos[c]
    BY <2>1, RepliesEnd DEF FileOK, AtEnd
  <2>3. reply[c] = SubSeq(Content, f_pos[c] - Len(reply[c]) + 1, f_pos[c])
    BY <2>1 DEF ReplyOK, EndsAt
  <2>4. reply[c] = SubSeq(Content, 1, Len(Content))
    BY <2>1, <2>2, <2>3
  <2> QED BY <2>1, <2>4
<1>2. Inv /\ [Next]_vars => [Whole]_vars
  BY <1>1
<1> QED BY <1>2, Invariance, PTL DEF Spec, ReplyIsTheFile
=============================================================================
