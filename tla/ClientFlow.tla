----------------------------- MODULE ClientFlow -----------------------------
(***************************************************************************)
(* process_client of server/client_flow.c: how the bytes of one connection *)
(* become packets.  recv delivers them in chunks of its own choosing, a    *)
(* chunk may end within a packet or hold several, and a packet that spans  *)
(* chunks is kept in a list of fragments until its newline comes.          *)
(*                                                                         *)
(* The linked list is a sequence of the blocks it is made of.  malloc may  *)
(* fail.  What a packet does once it is complete (lock, write or ioctl,    *)
(* reply) is in AesdSocket and SocketDevice; here it joins `packets'.      *)
(***************************************************************************)
EXTENDS Naturals, SequencesExt

CONSTANTS Frags,        \* blocks for a struct packet_fragment
          NULL,
          BUFFER_SIZE,  \* how much fits in one
          Bytes, NL,    \* the bytes received, the newline among them
          MAX_STREAM    \* bound: how many bytes a peer sends

ASSUME ClientFlowAssumption ==
  /\ NULL \notin Frags /\ NL \in Bytes
  /\ BUFFER_SIZE \in Nat \ {0} /\ MAX_STREAM \in Nat

VARIABLES
  sent,       \* all the peer will ever send
  received,   \* how many bytes of it recv has returned
  alloc,      \* the blocks in use
  fragments,  \* the list client->fragments, a sequence of blocks
  data,       \* the bytes of a fragment that count: size bytes from data on
  curr,       \* curr_fragment
  left,       \* the bytes_left bytes at curr_fragment->data
  packets,    \* what became of each packet: its bytes, and whether it was stored
  pc

vars == <<sent, received, alloc, fragments, data, curr, left, packets, pc>>

(* packet_fragment_alloc: a new block, or NULL.                            *)
packet_fragment_alloc == (Frags \ alloc) \cup {NULL}

(* packet_fragments_free: the blocks that stay when the list is freed.     *)
packet_fragments_free == alloc \ ToSet(fragments)

(* alloc with block f, which may be NULL, added.                           *)
With(f) == alloc \cup ({f} \ {NULL})

(* The list with block f, which may be NULL, linked behind it.             *)
Linked(f) == IF f = NULL THEN fragments ELSE Append(fragments, f)

Init ==
  /\ sent \in BoundedSeq(Bytes, MAX_STREAM)
  /\ received = 0
  /\ alloc = {} /\ fragments = <<>>
  /\ data = [f \in Frags |-> <<>>]
  /\ curr = NULL
  /\ left = <<>> /\ packets = <<>>
  /\ pc = "start"

-----------------------------------------------------------------------------
(* The first fragment.                                                     *)
Start ==
  /\ pc = "start" /\ pc' = "recv"
  /\ \E f \in packet_fragment_alloc :
       /\ alloc' = With(f) /\ fragments' = Linked(f) /\ curr' = f
  /\ UNCHANGED <<sent, received, data, left, packets>>

(* recv returns some of the bytes there are, into a fragment's buffer.     *)
Recv ==
  /\ pc = "recv" /\ pc' = "scan"
  /\ curr # NULL
  /\ \E n \in 1 .. BUFFER_SIZE :
       /\ received + n <= Len(sent)
       /\ left' = SubSeq(sent, received + 1, received + n)
       /\ received' = received + n
  /\ UNCHANGED <<sent, alloc, fragments, data, curr, packets>>

(* recv returns 0 when the peer has closed, or fails: the connection is    *)
(* gone, or there was no fragment to receive into.  What is left of an     *)
(* unfinished packet is freed.                                             *)
RecvEnd ==
  /\ pc = "recv" /\ pc' = "done"
  /\ alloc' = packet_fragments_free
  /\ fragments' = <<>>
  /\ UNCHANGED <<sent, received, data, curr, left, packets>>

-----------------------------------------------------------------------------
(* Where memchr finds the newline in the bytes that are left, 0 if nowhere. *)
newline_pos == SelectInSeq(left, LAMBDA x : x = NL)

(* The packet that ends with the first n bytes that are left: curr's size  *)
(* is set, and the fragments are laid end to end.                          *)
Sized(n) == [data EXCEPT ![curr] = SubSeq(left, 1, n)]
Flat(n) == FlattenSeq([i \in DOMAIN fragments |-> Sized(n)[fragments[i]]])

(* The blocks in use once all fragments but the last are freed; and the    *)
(* mutant that only unlinks them.                                          *)
FlattenedKept == alloc
FlattenedFreed == alloc \ ToSet(Front(fragments))

(* A packet is complete, and there is memory to flatten it: it is stored   *)
(* and all its fragments but the last are freed.                           *)
PacketStored ==
  /\ pc = "scan" /\ newline_pos > 0
  /\ packets' = Append(packets, [bytes |-> Flat(newline_pos), stored |-> TRUE])
  /\ data' = Sized(newline_pos)
  /\ fragments' = <<Last(fragments)>>
  /\ alloc' = FlattenedFreed
  /\ left' = SubSeq(left, newline_pos + 1, Len(left))
  /\ UNCHANGED <<sent, received, curr, pc>>

(* There is none: nothing is written and nothing is freed.  The assertion  *)
(* that follows ends the process unless the packet was in one fragment.    *)
PacketNoMem ==
  /\ pc = "scan" /\ newline_pos > 0
  /\ packets' = Append(packets, [bytes |-> Flat(newline_pos), stored |-> FALSE])
  /\ data' = Sized(newline_pos)
  /\ left' = SubSeq(left, newline_pos + 1, Len(left))
  /\ pc' = IF Head(fragments) = curr THEN pc ELSE "abort"
  /\ UNCHANGED <<sent, received, alloc, fragments, curr>>

(* What an unfinished packet leaves in its fragment, and the fragment to   *)
(* go on with; and mutants that do not set the size, or do not move on.    *)
RestUnsized == data
Rest == Sized(Len(left))
SameFragment(f) == curr
NextFragment(f) == f

(* The chunk ends within a packet: its rest stays in this fragment, and    *)
(* the next chunk goes into a new one.                                     *)
KeepRest ==
  /\ pc = "scan" /\ newline_pos = 0 /\ left # <<>>
  /\ pc' = "recv"
  /\ data' = Rest
  /\ left' = <<>>
  /\ \E f \in packet_fragment_alloc :
       /\ alloc' = With(f) /\ fragments' = Linked(f) /\ curr' = NextFragment(f)
  /\ UNCHANGED <<sent, received, packets>>

(* The chunk ends with a packet: the fragment is used again.               *)
NothingLeft ==
  /\ pc = "scan" /\ left = <<>>
  /\ pc' = "recv"
  /\ UNCHANGED <<sent, received, alloc, fragments, data, curr, left, packets>>

(* The thread has left process_client, or the process has aborted.         *)
Ended == pc \in {"done", "abort"} /\ UNCHANGED vars

Next == Start \/ Recv \/ RecvEnd \/ PacketStored \/ PacketNoMem \/ KeepRest \/ NothingLeft \/ Ended

Spec == Init /\ [][Next]_vars

-----------------------------------------------------------------------------
(* The types of the variables; the fragment recv writes to is the last of  *)
(* the list.                                                               *)
TypeOK ==
  /\ sent \in Seq(Bytes) /\ received \in 0 .. Len(sent)
  /\ alloc \in SUBSET Frags /\ fragments \in Seq(Frags)
  /\ data \in [Frags -> Seq(Bytes)]
  /\ curr \in Frags \cup {NULL} /\ left \in Seq(Bytes)
  /\ packets \in Seq([bytes : Seq(Bytes), stored : BOOLEAN])
  /\ pc \in {"start", "recv", "scan", "done", "abort"}
  /\ pc \in {"recv", "scan"} /\ curr # NULL => curr = Last(fragments)

(* The fragments in use are those of the list, each once: none leaks when  *)
(* a packet is flattened or the connection ends, none is freed and still   *)
(* linked.                                                                 *)
FragmentsOwned ==
  IsInjective(fragments) /\ ToSet(fragments) = alloc

(* The bytes kept for a packet that is not complete.                       *)
Kept ==
  FlattenSeq([i \in DOMAIN fragments |->
                IF fragments[i] = curr THEN <<>> ELSE data[fragments[i]]])

(* However the bytes are cut into chunks, every byte received is, in       *)
(* order, in exactly one packet or kept for the next; a packet ends in a   *)
(* newline and holds no other.                                             *)
PacketsAreLines ==
  /\ pc \in {"recv", "scan"} =>
       FlattenSeq([i \in DOMAIN packets |-> packets[i].bytes]) \o Kept \o left
         = SubSeq(sent, 1, received)
  /\ \A i \in DOMAIN packets : SelectInSeq(packets[i].bytes, LAMBDA x : x = NL)
                                 = Len(packets[i].bytes)
=============================================================================
