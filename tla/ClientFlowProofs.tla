-------------------------- MODULE ClientFlowProofs --------------------------
(***************************************************************************)
(* Proofs about process_client, for streams and chunks of any length and   *)
(* any number of fragments.                                                *)
(***************************************************************************)
EXTENDS ClientFlow, FlattenProofs

(* Streams are sequences of Bytes: what FlattenProofs says of every set.   *)
LEMMA AllFlattens == \A s \in Seq(Seq(Bytes)) : FlattenSeq(s) \in Seq(Bytes)
BY AllFlattenable DEF Flattenable

(* One more sequence is one more at the end.                               *)
LEMMA FlattenMore ==
  ASSUME NEW s \in Seq(Seq(Bytes)), NEW x \in Seq(Bytes)
  PROVE  FlattenSeq(s) \in Seq(Bytes) /\ FlattenSeq(Append(s, x)) = FlattenSeq(s) \o x
BY FlattenAppend

(* Concatenation of streams is associative.                                *)
LEMMA Assoc ==
  ASSUME NEW x \in Seq(Bytes), NEW y \in Seq(Bytes), NEW z \in Seq(Bytes)
  PROVE  (x \o y) \o z = x \o (y \o z)
OBVIOUS

(* The concatenation of streams is a stream, as long as both.              *)
LEMMA CatType ==
  ASSUME NEW x \in Seq(Bytes), NEW y \in Seq(Bytes)
  PROVE  x \o y \in Seq(Bytes) /\ Len(x \o y) = Len(x) + Len(y)
OBVIOUS

-----------------------------------------------------------------------------
(* What the fragments fr hold, d being their data; all but the last; and,  *)
(* as in Kept, all but c.                                                  *)
AllData(fr, d) == [i \in DOMAIN fr |-> d[fr[i]]]
Before(fr, d) == [i \in 1 .. Len(fr) - 1 |-> d[fr[i]]]
Others(fr, d, c) == [i \in DOMAIN fr |-> IF fr[i] = c THEN <<>> ELSE d[fr[i]]]

(* They are sequences of streams.                                          *)
LEMMA DataTypes ==
  ASSUME NEW fr \in Seq(Frags), NEW d \in [Frags -> Seq(Bytes)]
  PROVE  /\ AllData(fr, d) \in Seq(Seq(Bytes)) /\ Len(AllData(fr, d)) = Len(fr)
         /\ fr # <<>> => Before(fr, d) \in Seq(Seq(Bytes)) /\ Len(Before(fr, d)) = Len(fr) - 1
<1>1. Len(fr) \in Nat /\ DOMAIN fr = 1 .. Len(fr) /\ \A i \in 1 .. Len(fr) : fr[i] \in Frags
  OBVIOUS
<1>2. \A i \in 1 .. Len(fr) : d[fr[i]] \in Seq(Bytes)
  BY <1>1
<1>3. AllData(fr, d) \in Seq(Seq(Bytes)) /\ Len(AllData(fr, d)) = Len(fr)
  BY <1>1, <1>2 DEF AllData
<1>4. ASSUME fr # <<>>
      PROVE  Before(fr, d) \in Seq(Seq(Bytes)) /\ Len(Before(fr, d)) = Len(fr) - 1
  <2>1. Len(fr) - 1 \in Nat /\ \A i \in 1 .. Len(fr) - 1 : i \in 1 .. Len(fr)
    BY <1>1, <1>4
  <2> QED BY <1>2, <2>1 DEF Before
<1> QED BY <1>3, <1>4

(* The last fragment is none of the others: what is stored in it comes     *)
(* behind what they hold.                                                  *)
LEMMA StoreLast ==
  ASSUME NEW fr \in Seq(Frags), fr # <<>>, IsInjective(fr), NEW d \in [Frags -> Seq(Bytes)],
         NEW x \in Seq(Bytes)
  PROVE  /\ [d EXCEPT ![Last(fr)] = x] \in [Frags -> Seq(Bytes)]
         /\ AllData(fr, [d EXCEPT ![Last(fr)] = x]) = Append(Before(fr, d), x)
<1> DEFINE n == Len(fr)
           e == [d EXCEPT ![Last(fr)] = x]
<1>1. n \in Nat /\ n > 0 /\ DOMAIN fr = 1 .. n /\ \A i \in 1 .. n : fr[i] \in Frags
  OBVIOUS
<1>2. Last(fr) = fr[n] /\ \A i \in 1 .. n - 1 : fr[i] # fr[n]
  <2>1. ASSUME NEW i \in 1 .. n - 1 PROVE fr[i] # fr[n]
    <3> HIDE DEF n
    <3>1. i \in 1 .. n /\ n \in 1 .. n /\ i # n
      BY <1>1
    <3> QED BY <1>1, <3>1 DEF IsInjective
  <2> QED BY <2>1 DEF Last
<1>3. e \in [Frags -> Seq(Bytes)] /\ e[fr[n]] = x /\ \A i \in 1 .. n - 1 : e[fr[i]] = d[fr[i]]
  BY <1>1, <1>2
<1> HIDE DEF e
<1> DEFINE u == AllData(fr, e)
           b == Before(fr, d)
           v == Append(b, x)
<1>4. u \in Seq(Seq(Bytes)) /\ Len(u) = n /\ b \in Seq(Seq(Bytes)) /\ Len(b) = n - 1
  BY <1>3, DataTypes
<1>5. /\ \A i \in 1 .. n : u[i] = e[fr[i]]
      /\ \A i \in 1 .. n - 1 : b[i] = d[fr[i]]
  BY <1>1 DEF AllData, Before
<1> HIDE DEF u, b
<1>6. \A r \in Seq(Seq(Bytes)) : /\ Append(r, x) \in Seq(Seq(Bytes)) /\ Len(Append(r, x)) = Len(r) + 1
                                  /\ \A i \in 1 .. Len(r) : Append(r, x)[i] = r[i]
                                  /\ Append(r, x)[Len(r) + 1] = x
  BY AppendElements
<1>7. /\ v \in Seq(Seq(Bytes)) /\ Len(v) = Len(b) + 1 /\ \A i \in 1 .. Len(b) : v[i] = b[i]
      /\ v[Len(b) + 1] = x
  BY <1>4, <1>6
<1> HIDE DEF v, n
<1>8. ASSUME NEW i \in 1 .. Len(u) PROVE u[i] = v[i]
  <2>1. CASE i = n
    <3>1. i = Len(b) + 1 /\ u[i] = x
      BY <1>1, <1>3, <1>4, <1>5, <2>1
    <3> QED BY <1>7, <3>1
  <2>2. CASE i # n
    <3>1. i \in 1 .. Len(b) /\ i \in 1 .. n - 1 /\ i \in 1 .. n
      BY <1>1, <1>4, <2>2
    <3> QED BY <1>3, <1>5, <1>7, <3>1
  <2> QED BY <2>1, <2>2
<1>9. u = v
  <2>1. Len(u) = Len(v)
    BY <1>1, <1>4, <1>7
  <2>2. \A y, z \in Seq(Seq(Bytes)) :
          Len(y) = Len(z) /\ (\A i \in 1 .. Len(y) : y[i] = z[i]) => y = z
    BY SameElements
  <2> QED BY <1>4, <1>7, <1>8, <2>1, <2>2
<1> QED BY <1>3, <1>9 DEF u, v, b, e

(* With the last fragment current, what is kept is in those before it.     *)
LEMMA OthersLast ==
  ASSUME NEW fr \in Seq(Frags), fr # <<>>, IsInjective(fr), NEW d \in [Frags -> Seq(Bytes)]
  PROVE  Others(fr, d, Last(fr)) = Append(Before(fr, d), <<>>)
<1> DEFINE e == [d EXCEPT ![Last(fr)] = <<>>]
<1>1. <<>> \in Seq(Bytes)
  OBVIOUS
<1>2. AllData(fr, e) = Append(Before(fr, d), <<>>)
  BY <1>1, StoreLast
<1>3. \A i \in DOMAIN fr : fr[i] \in Frags
  OBVIOUS
<1>4. \A i \in DOMAIN fr : e[fr[i]] = IF fr[i] = Last(fr) THEN <<>> ELSE d[fr[i]]
  BY <1>3
<1>5. AllData(fr, e) = Others(fr, d, Last(fr))
  <2> HIDE DEF e
  <2> QED BY <1>4 DEF AllData, Others
<1> QED BY <1>2, <1>5

(* With no fragment current, what is kept is in all.                       *)
LEMMA OthersNone ==
  ASSUME NEW fr \in Seq(Frags), NEW d
  PROVE  Others(fr, d, NULL) = AllData(fr, d)
<1>1. \A i \in DOMAIN fr : fr[i] # NULL
  <2>1. \A i \in DOMAIN fr : fr[i] \in Frags
    OBVIOUS
  <2> QED BY <2>1, ClientFlowAssumption
<1> QED BY <1>1 DEF Others, AllData

(* A block that is linked behind the others.                               *)
LEMMA LinkBehind ==
  ASSUME NEW fr \in Seq(Frags), IsInjective(fr), NEW f \in Frags, f \notin ToSet(fr)
  PROVE  /\ Append(fr, f) \in Seq(Frags) /\ Append(fr, f) # <<>> /\ IsInjective(Append(fr, f))
         /\ Last(Append(fr, f)) = f /\ ToSet(Append(fr, f)) = ToSet(fr) \cup {f}
<1> DEFINE t == Append(fr, f)
           n == Len(fr)
<1>1. /\ t \in Seq(Frags) /\ Len(t) = n + 1 /\ n \in Nat /\ t[n + 1] = f
      /\ \A i \in 1 .. n : t[i] = fr[i]
  BY AppendElements
<1>2. DOMAIN t = 1 .. n + 1 /\ DOMAIN fr = 1 .. n
  BY <1>1
<1> HIDE DEF t, n
<1>3. \A i \in 1 .. n : fr[i] # f
  BY <1>2 DEF ToSet
<1>4. ASSUME NEW a \in 1 .. n + 1, NEW b \in 1 .. n + 1, t[a] = t[b] PROVE a = b
  <2>1. CASE a = n + 1
    <3>1. b \notin 1 .. n
      BY <1>1, <1>3, <1>4, <2>1
    <3> QED BY <1>1, <2>1, <3>1
  <2>2. CASE b = n + 1
    <3>1. a \notin 1 .. n
      BY <1>1, <1>3, <1>4, <2>2
    <3> QED BY <1>1, <2>2, <3>1
  <2>3. CASE a # n + 1 /\ b # n + 1
    <3>1. a \in 1 .. n /\ b \in 1 .. n
      BY <1>1, <2>3
    <3> QED BY <1>1, <1>2, <1>4, <3>1 DEF IsInjective
  <2> QED BY <2>1, <2>2, <2>3
<1>5. IsInjective(t)
  BY <1>2, <1>4 DEF IsInjective
<1>6. ToSet(t) = ToSet(fr) \cup {f}
  <2>1. 1 .. n + 1 = 1 .. n \cup {n + 1}
    BY <1>1
  <2>2. ASSUME NEW y \in ToSet(t) PROVE y \in ToSet(fr) \cup {f}
    BY <1>1, <1>2, <2>1 DEF ToSet
  <2>3. ASSUME NEW y \in ToSet(fr) \cup {f} PROVE y \in ToSet(t)
    BY <1>1, <1>2, <2>1 DEF ToSet
  <2> QED BY <2>2, <2>3
<1>7. Last(t) = f /\ t # <<>>
  BY <1>1 DEF Last
<1> QED BY <1>1, <1>5, <1>6, <1>7 DEF t

(* With a new fragment current, what is kept is in all there were.         *)
LEMMA OthersNew ==
  ASSUME NEW fr \in Seq(Frags), IsInjective(fr), NEW f \in Frags, f \notin ToSet(fr),
         NEW d \in [Frags -> Seq(Bytes)]
  PROVE  Others(Append(fr, f), d, f) = Append(AllData(fr, d), <<>>)
<1> DEFINE t == Append(fr, f)
<1>1. t \in Seq(Frags) /\ t # <<>> /\ IsInjective(t) /\ Last(t) = f
  BY LinkBehind
<1>2. /\ Len(t) = Len(fr) + 1 /\ Len(fr) \in Nat /\ DOMAIN fr = 1 .. Len(fr)
      /\ \A i \in 1 .. Len(fr) : t[i] = fr[i]
  BY AppendElements
<1> HIDE DEF t
<1>3. Others(t, d, f) = Append(Before(t, d), <<>>)
  BY <1>1, OthersLast
<1>4. Len(t) - 1 = Len(fr)
  BY <1>2
<1>5. Before(t, d) = AllData(fr, d)
  BY <1>2, <1>4 DEF Before, AllData
<1> QED BY <1>3, <1>5 DEF t

-----------------------------------------------------------------------------
(* What memchr finds.                                                      *)
NoNewline(x) == \A i \in 1 .. Len(x) : x[i] # NL
IsLine(x) == Len(x) > 0 /\ \A i \in 1 .. Len(x) : x[i] = NL <=> i = Len(x)

Newlines(x) == {i \in 1 .. Len(x) : x[i] = NL}
First(x) == IF Newlines(x) # {} THEN Min(Newlines(x)) ELSE 0

(* newline_pos of process_client is the first newline of what is left,     *)
LEMMA NewlinePos == newline_pos = First(left)
BY DEF newline_pos, SelectInSeq, First, Newlines

(* and so is any search for a newline.                                     *)
LEMMA PacketNewline ==
  ASSUME NEW x PROVE SelectInSeq(x, LAMBDA y : y = NL) = First(x)
BY DEF SelectInSeq, First, Newlines

(* It is one, and there is none before it.                                 *)
LEMMA FirstNewline ==
  ASSUME NEW x \in Seq(Bytes)
  PROVE  /\ First(x) \in 0 .. Len(x)
         /\ First(x) = 0 => NoNewline(x)
         /\ First(x) > 0 => x[First(x)] = NL /\ \A i \in 1 .. First(x) - 1 : x[i] # NL
<1>1. CASE Newlines(x) = {}
  BY <1>1 DEF First, NoNewline, Newlines
<1>2. CASE Newlines(x) # {}
  <2>1. Newlines(x) \subseteq Nat
    BY DEF Newlines
  <2>2. First(x) \in Newlines(x) /\ \A y \in Newlines(x) : First(x) <= y
    BY <1>2, <2>1, MinOfNaturals DEF First
  <2> QED BY <2>2 DEF Newlines
<1> QED BY <1>1, <1>2

(* The first newline of a line is its last byte.                           *)
LEMMA FirstOfLine ==
  ASSUME NEW x \in Seq(Bytes), IsLine(x) PROVE First(x) = Len(x)
<1>1. Len(x) \in Newlines(x) /\ Newlines(x) \subseteq Nat /\ \A i \in Newlines(x) : i = Len(x)
  BY DEF IsLine, Newlines
<1>2. Min(Newlines(x)) \in Newlines(x)
  BY <1>1, MinOfNaturals
<1> QED BY <1>1, <1>2 DEF First

-----------------------------------------------------------------------------
(* What goes with the place process_client is at.                          *)
CallOK ==
  /\ pc = "start" => fragments = <<>> /\ curr = NULL /\ packets = <<>> /\ received = 0
  /\ pc \in {"start", "recv", "done"} => left = <<>>
  /\ pc = "scan" => curr # NULL
  /\ pc \in {"recv", "scan"} /\ curr # NULL => fragments # <<>>

(* The bytes of the packets; they and those that are kept and left are all *)
(* that was received.                                                      *)
PacketBytes == [i \in DOMAIN packets |-> packets[i].bytes]
StreamOK ==
  pc \in {"recv", "scan"} =>
    (FlattenSeq(PacketBytes) \o Kept) \o left = SubSeq(sent, 1, received)

(* No newline is kept: a packet would have been complete.                  *)
NewlinesOK ==
  /\ pc \in {"recv", "scan"} => NoNewline(Kept)
  /\ \A i \in DOMAIN packets : IsLine(packets[i].bytes)

Inv == TypeOK /\ FragmentsOwned /\ CallOK /\ StreamOK /\ NewlinesOK

(* Kept in these terms,                                                    *)
LEMMA KeptIs == Kept = FlattenSeq(Others(fragments, data, curr))
BY DEF Kept, Others

(* in the next state too.                                                  *)
LEMMA KeptIsNext == Kept' = FlattenSeq(Others(fragments', data', curr'))
BY DEF Kept, Others

(* The bytes of the fragments before the last, and with it.                *)
LEMMA FlattenBefore ==
  ASSUME NEW fr \in Seq(Frags), fr # <<>>, IsInjective(fr), NEW d \in [Frags -> Seq(Bytes)]
  PROVE  /\ FlattenSeq(Before(fr, d)) \in Seq(Bytes)
         /\ FlattenSeq(Others(fr, d, Last(fr))) = FlattenSeq(Before(fr, d))
<1>1. Before(fr, d) \in Seq(Seq(Bytes)) /\ <<>> \in Seq(Bytes)
  BY DataTypes
<1>2. /\ FlattenSeq(Before(fr, d)) \in Seq(Bytes)
      /\ FlattenSeq(Append(Before(fr, d), <<>>)) = FlattenSeq(Before(fr, d)) \o <<>>
  BY <1>1, FlattenMore
<1>3. \A x \in Seq(Bytes) : x \o <<>> = x
  OBVIOUS
<1> QED BY <1>2, <1>3, OthersLast

(* When the last fragment holds x, the bytes of all end in x.              *)
LEMMA FlattenAll ==
  ASSUME NEW fr \in Seq(Frags), fr # <<>>, IsInjective(fr), NEW d \in [Frags -> Seq(Bytes)],
         NEW x \in Seq(Bytes)
  PROVE  FlattenSeq(AllData(fr, [d EXCEPT ![Last(fr)] = x])) = FlattenSeq(Before(fr, d)) \o x
<1>1. Before(fr, d) \in Seq(Seq(Bytes))
  BY DataTypes
<1> QED BY <1>1, FlattenMore, StoreLast

(* While a fragment is being filled.                                       *)
LEMMA Filling ==
  ASSUME Inv, pc \in {"recv", "scan"}, curr # NULL
  PROVE  /\ fragments \in Seq(Frags) /\ fragments # <<>> /\ IsInjective(fragments)
         /\ curr = Last(fragments) /\ curr \in Frags /\ data \in [Frags -> Seq(Bytes)]
         /\ Kept \in Seq(Bytes) /\ Kept = FlattenSeq(Before(fragments, data))
<1>1. /\ fragments \in Seq(Frags) /\ fragments # <<>> /\ IsInjective(fragments)
      /\ curr = Last(fragments) /\ curr \in Frags /\ data \in [Frags -> Seq(Bytes)]
  BY DEF Inv, TypeOK, FragmentsOwned, CallOK
<1> QED BY <1>1, FlattenBefore, KeptIs

(* A line behind bytes without a newline is a line with them.              *)
LEMMA LineOf ==
  ASSUME NEW k \in Seq(Bytes), NoNewline(k), NEW x \in Seq(Bytes), IsLine(x)
  PROVE  k \o x \in Seq(Bytes) /\ IsLine(k \o x)
<1> DEFINE y == k \o x
<1>1. /\ y \in Seq(Bytes) /\ Len(y) = Len(k) + Len(x) /\ Len(k) \in Nat /\ Len(x) \in Nat
      /\ \A i \in 1 .. Len(k) : y[i] = k[i]
      /\ \A i \in 1 .. Len(x) : y[Len(k) + i] = x[i]
  OBVIOUS
<1> HIDE DEF y
<1>2. Len(y) > 0
  BY <1>1 DEF IsLine
<1>3. ASSUME NEW i \in 1 .. Len(y) PROVE y[i] = NL <=> i = Len(y)
  <2>1. CASE i <= Len(k)
    <3>1. i \in 1 .. Len(k) /\ i # Len(y)
      BY <1>1, <2>1 DEF IsLine
    <3> QED BY <1>1, <3>1 DEF NoNewline
  <2>2. CASE ~(i <= Len(k))
    <3>1. PICK j \in 1 .. Len(x) : i = Len(k) + j
      <4>1. i - Len(k) \in 1 .. Len(x) /\ i = Len(k) + (i - Len(k))
        BY <1>1, <2>2
      <4> QED BY <4>1
    <3>2. y[i] = x[j] /\ (j = Len(x) <=> i = Len(y))
      BY <1>1, <3>1
    <3> QED BY <3>2 DEF IsLine
  <2> QED BY <2>1, <2>2
<1> QED BY <1>1, <1>2, <1>3 DEF IsLine, y

(* Bytes up to the first newline are a line, and the rest are the rest.    *)
LEMMA CutLine ==
  ASSUME NEW x \in Seq(Bytes), NEW n \in 1 .. Len(x), x[n] = NL,
         \A i \in 1 .. n - 1 : x[i] # NL
  PROVE  LET y == SubSeq(x, 1, n)
             z == SubSeq(x, n + 1, Len(x))
         IN  y \in Seq(Bytes) /\ z \in Seq(Bytes) /\ IsLine(y) /\ y \o z = x
<1>1. SubSeq(x, 1, n) \in Seq(Bytes) /\ SubSeq(x, n + 1, Len(x)) \in Seq(Bytes)
  OBVIOUS
<1>2. IsLine(SubSeq(x, 1, n))
  BY DEF IsLine
<1>3. SubSeq(x, 1, n) \o SubSeq(x, n + 1, Len(x)) = x
  OBVIOUS
<1> QED BY <1>1, <1>2, <1>3

(* What the packets hold are streams.                                      *)
LEMMA PacketTypes == ASSUME TypeOK PROVE PacketBytes \in Seq(Seq(Bytes))
<1> DEFINE P == [bytes : Seq(Bytes), stored : BOOLEAN]
<1>1. packets \in Seq(P)
  BY DEF TypeOK
<1>2. \A q \in P : q.bytes \in Seq(Bytes)
  OBVIOUS
<1> HIDE DEF P
<1> QED BY <1>1, <1>2 DEF PacketBytes

(* The bytes of the packets when there is one more.                        *)
LEMMA PacketAdded ==
  ASSUME TypeOK, NEW x \in Seq(Bytes), NEW b \in BOOLEAN,
         packets' = Append(packets, [bytes |-> x, stored |-> b])
  PROVE  /\ packets' \in Seq([bytes : Seq(Bytes), stored : BOOLEAN])
         /\ PacketBytes \in Seq(Seq(Bytes)) /\ PacketBytes' = Append(PacketBytes, x)
         /\ (\A i \in DOMAIN packets : IsLine(packets[i].bytes)) /\ IsLine(x)
              => \A i \in DOMAIN packets' : IsLine(packets'[i].bytes)
<1> DEFINE P == [bytes : Seq(Bytes), stored : BOOLEAN]
           p == [bytes |-> x, stored |-> b]
           n == Len(packets)
<1>1. p \in P /\ p.bytes = x /\ packets \in Seq(P)
  BY DEF TypeOK
<1>2. \A q \in P : q.bytes \in Seq(Bytes)
  OBVIOUS
<1> HIDE DEF P, p
<1>3. \A i \in 1 .. n : packets[i] \in P
  BY <1>1
<1>4. /\ packets' \in Seq(P) /\ Len(packets') = n + 1 /\ n \in Nat
      /\ \A i \in 1 .. n : packets'[i] = packets[i]
      /\ packets'[n + 1] = p
  BY <1>1, AppendElements DEF p
<1>5. DOMAIN packets = 1 .. n /\ DOMAIN packets' = 1 .. n + 1
  BY <1>1, <1>4
<1> HIDE DEF n
<1>6. PacketBytes \in Seq(Seq(Bytes)) /\ Len(PacketBytes) = n /\ \A i \in 1 .. n : PacketBytes[i] = packets[i].bytes
  BY <1>2, <1>3, <1>4, <1>5 DEF PacketBytes
<1> DEFINE r == PacketBytes'
           t == Append(PacketBytes, x)
<1>7. r = [i \in 1 .. n + 1 |-> packets'[i].bytes]
  BY <1>5 DEF PacketBytes
<1>8. \A i \in 1 .. n + 1 : packets'[i].bytes \in Seq(Bytes)
  BY <1>1, <1>2, <1>3, <1>4
<1> HIDE DEF r
<1>9. r \in Seq(Seq(Bytes)) /\ Len(r) = n + 1 /\ \A i \in 1 .. n + 1 : r[i] = packets'[i].bytes
  BY <1>4, <1>7, <1>8
<1>10. \A s \in Seq(Seq(Bytes)) : /\ Append(s, x) \in Seq(Seq(Bytes)) /\ Len(Append(s, x)) = Len(s) + 1
                                   /\ \A i \in 1 .. Len(s) : Append(s, x)[i] = s[i]
                                   /\ Append(s, x)[Len(s) + 1] = x
  BY AppendElements
<1>11. /\ t \in Seq(Seq(Bytes)) /\ Len(t) = n + 1 /\ \A i \in 1 .. n : t[i] = packets[i].bytes
       /\ t[n + 1] = x
  BY <1>6, <1>10
<1> HIDE DEF t
<1>12. ASSUME NEW i \in 1 .. n + 1 PROVE r[i] = t[i]
  <2>1. CASE i = n + 1
    BY <1>1, <1>4, <1>9, <1>11, <2>1
  <2>2. CASE i # n + 1
    <3>1. i \in 1 .. n
      BY <1>4, <2>2
    <3> QED BY <1>4, <1>9, <1>11, <3>1
  <2> QED BY <2>1, <2>2
<1>13. r = t
  <2>1. \A y, z \in Seq(Seq(Bytes)) :
          Len(y) = Len(z) /\ (\A i \in 1 .. Len(y) : y[i] = z[i]) => y = z
    BY SameElements
  <2> QED BY <1>9, <1>11, <1>12, <2>1
<1>14. ASSUME \A i \in DOMAIN packets : IsLine(packets[i].bytes), IsLine(x), NEW i \in DOMAIN packets'
       PROVE  IsLine(packets'[i].bytes)
  <2>1. i \in 1 .. n \/ i = n + 1
    BY <1>4, <1>5
  <2> QED BY <1>1, <1>4, <1>5, <1>14, <2>1
<1> QED BY <1>4, <1>6, <1>13, <1>14 DEF P, r, t

(* A packet is cut off: it is what was kept and the bytes to the newline.  *)
LEMMA PacketCut ==
  ASSUME Inv, pc = "scan", newline_pos > 0, NEW b \in BOOLEAN,
         packets' = Append(packets, [bytes |-> Flat(newline_pos), stored |-> b]),
         left' = SubSeq(left, newline_pos + 1, Len(left)), data' = Sized(newline_pos)
  PROVE  /\ packets' \in Seq([bytes : Seq(Bytes), stored : BOOLEAN])
         /\ left' \in Seq(Bytes) /\ data' \in [Frags -> Seq(Bytes)]
         /\ FlattenSeq(PacketBytes') \in Seq(Bytes)
         /\ FlattenSeq(PacketBytes') \o left' = SubSeq(sent, 1, received)
         /\ \A i \in DOMAIN packets' : IsLine(packets'[i].bytes)
<1> DEFINE n == First(left)
           y == SubSeq(left, 1, n)
           A == FlattenSeq(PacketBytes)
<1>1. TypeOK /\ curr # NULL /\ left \in Seq(Bytes) /\ newline_pos = n
  BY NewlinePos DEF Inv, CallOK, TypeOK
<1>2. n \in 1 .. Len(left) /\ left[n] = NL /\ \A i \in 1 .. n - 1 : left[i] # NL
  <2>1. n \in 0 .. Len(left) /\ n > 0
    BY <1>1, FirstNewline
  <2> HIDE DEF n
  <2>2. left[n] = NL /\ \A i \in 1 .. n - 1 : left[i] # NL
    BY <1>1, <2>1, FirstNewline DEF n
  <2> QED BY <2>1, <2>2
<1> HIDE DEF n
<1>3. y \in Seq(Bytes) /\ left' \in Seq(Bytes) /\ IsLine(y) /\ y \o left' = left
  BY <1>1, <1>2, CutLine
<1>4. /\ fragments \in Seq(Frags) /\ fragments # <<>> /\ IsInjective(fragments)
      /\ curr = Last(fragments) /\ data \in [Frags -> Seq(Bytes)] /\ Kept \in Seq(Bytes)
      /\ Kept = FlattenSeq(Before(fragments, data)) /\ NoNewline(Kept)
  BY <1>1, Filling DEF Inv, NewlinesOK
<1> HIDE DEF y
<1>5. data' = [data EXCEPT ![Last(fragments)] = y] /\ Flat(newline_pos) = FlattenSeq(AllData(fragments, data'))
  BY <1>1, <1>4 DEF Sized, Flat, AllData, y
<1>6. Flat(newline_pos) = Kept \o y
  BY <1>3, <1>4, <1>5, FlattenAll
<1>7. Kept \o y \in Seq(Bytes) /\ IsLine(Kept \o y)
  BY <1>3, <1>4, LineOf
<1>8. /\ packets' \in Seq([bytes : Seq(Bytes), stored : BOOLEAN])
      /\ PacketBytes \in Seq(Seq(Bytes)) /\ PacketBytes' = Append(PacketBytes, Kept \o y)
      /\ \A i \in DOMAIN packets' : IsLine(packets'[i].bytes)
  <2>1. packets' = Append(packets, [bytes |-> Kept \o y, stored |-> b])
    BY <1>6
  <2>2. \A i \in DOMAIN packets : IsLine(packets[i].bytes)
    BY DEF Inv, NewlinesOK
  <2> HIDE DEF A
  <2> QED BY <1>1, <1>7, <2>1, <2>2, PacketAdded
<1>9. A \in Seq(Bytes) /\ FlattenSeq(PacketBytes') = A \o (Kept \o y)
  BY <1>7, <1>8, FlattenMore
<1> HIDE DEF A
<1>10. FlattenSeq(PacketBytes') \in Seq(Bytes)
  BY <1>7, <1>9, CatType
<1>11. (A \o (Kept \o y)) \o left' = (A \o Kept) \o left
  <2>1. A \o (Kept \o y) = (A \o Kept) \o y /\ A \o Kept \in Seq(Bytes)
    BY <1>3, <1>4, <1>9, Assoc, CatType
  <2>2. ((A \o Kept) \o y) \o left' = (A \o Kept) \o (y \o left')
    BY <1>3, <2>1, Assoc
  <2> QED BY <1>3, <2>1, <2>2
<1>12. (A \o Kept) \o left = SubSeq(sent, 1, received)
  BY DEF Inv, StreamOK, A
<1>13. data' \in [Frags -> Seq(Bytes)]
  BY <1>3, <1>4, <1>5, StoreLast
<1> QED BY <1>3, <1>8, <1>9, <1>10, <1>11, <1>12, <1>13

-----------------------------------------------------------------------------
(* A chunk is received.                                                    *)
LEMMA RecvInv == ASSUME Inv, Recv PROVE Inv'
<1>1. /\ pc = "recv" /\ pc' = "scan" /\ curr # NULL
      /\ UNCHANGED <<sent, alloc, fragments, data, curr, packets>>
  BY DEF Recv
<1>2. PICK n \in 1 .. BUFFER_SIZE : /\ received + n <= Len(sent)
                                    /\ left' = SubSeq(sent, received + 1, received + n)
                                    /\ received' = received + n
  BY DEF Recv
<1>3. /\ sent \in Seq(Bytes) /\ received \in Nat /\ n \in Nat /\ Len(sent) \in Nat
      /\ received <= Len(sent) /\ left = <<>>
  BY <1>1, <1>2, ClientFlowAssumption DEF Inv, TypeOK, CallOK
<1>4. left' \in Seq(Bytes) /\ received' \in 0 .. Len(sent)
  BY <1>2, <1>3
<1>5. TypeOK' /\ FragmentsOwned' /\ CallOK'
  <2>1. TypeOK'
    BY <1>1, <1>4 DEF Inv, TypeOK
  <2>2. FragmentsOwned'
    BY <1>1 DEF Inv, FragmentsOwned, IsInjective, ToSet
  <2>3. CallOK'
    BY <1>1 DEF Inv, CallOK
  <2> QED BY <2>1, <2>2, <2>3
<1>6. Kept' = Kept /\ PacketBytes' = PacketBytes
  BY <1>1 DEF Kept, PacketBytes
<1>7. FlattenSeq(PacketBytes) \o Kept = SubSeq(sent, 1, received)
  <2>1. (FlattenSeq(PacketBytes) \o Kept) \o <<>> = SubSeq(sent, 1, received)
    BY <1>1, <1>3 DEF Inv, StreamOK
  <2>2. FlattenSeq(PacketBytes) \in Seq(Bytes) /\ Kept \in Seq(Bytes)
    <3>1. PacketBytes \in Seq(Seq(Bytes))
      BY PacketTypes DEF Inv
    <3> QED BY <1>1, <3>1, AllFlattens, Filling
  <2>3. FlattenSeq(PacketBytes) \o Kept \in Seq(Bytes)
    BY <2>2, CatType
  <2>4. \A x \in Seq(Bytes) : x \o <<>> = x
    OBVIOUS
  <2> QED BY <2>1, <2>3, <2>4
<1>8. SubSeq(sent, 1, received) \o left' = SubSeq(sent, 1, received')
  BY <1>2, <1>3
<1>9. StreamOK'
  BY <1>1, <1>6, <1>7, <1>8 DEF StreamOK
<1>10. NewlinesOK'
  BY <1>1, <1>6 DEF Inv, NewlinesOK
<1> QED BY <1>5, <1>9, <1>10 DEF Inv

(* Nothing was left: the fragment is used again.                           *)
LEMMA NothingLeftInv == ASSUME Inv, NothingLeft PROVE Inv'
<1>1. /\ pc = "scan" /\ pc' = "recv" /\ left = <<>>
      /\ UNCHANGED <<sent, received, alloc, fragments, data, curr, left, packets>>
  BY DEF NothingLeft
<1>2. TypeOK' /\ FragmentsOwned' /\ CallOK'
  BY <1>1 DEF Inv, TypeOK, FragmentsOwned, IsInjective, ToSet, CallOK
<1>3. Kept' = Kept /\ PacketBytes' = PacketBytes
  BY <1>1 DEF Kept, PacketBytes
<1>4. StreamOK' /\ NewlinesOK'
  BY <1>1, <1>3 DEF Inv, StreamOK, NewlinesOK
<1> QED BY <1>2, <1>4 DEF Inv

(* The connection ends: the list is freed.                                 *)
LEMMA RecvEndInv == ASSUME Inv, RecvEnd PROVE Inv'
<1>1. /\ pc = "recv" /\ pc' = "done" /\ alloc' = alloc \ ToSet(fragments) /\ fragments' = <<>>
      /\ UNCHANGED <<sent, received, data, curr, left, packets>>
  BY DEF RecvEnd, packet_fragments_free
<1>2. alloc' = {}
  BY <1>1 DEF Inv, FragmentsOwned
<1>3. TypeOK' /\ FragmentsOwned' /\ CallOK'
  BY <1>1, <1>2 DEF Inv, TypeOK, FragmentsOwned, IsInjective, ToSet, CallOK
<1>4. StreamOK' /\ NewlinesOK'
  BY <1>1 DEF Inv, StreamOK, NewlinesOK
<1> QED BY <1>3, <1>4 DEF Inv

(* A step that changes nothing keeps the invariant.                        *)
LEMMA StutterInv == ASSUME Inv, UNCHANGED vars PROVE Inv'
<1>1. Kept' = Kept /\ PacketBytes' = PacketBytes
  BY DEF vars, Kept, PacketBytes
<1>2. TypeOK' /\ FragmentsOwned' /\ CallOK'
  BY DEF Inv, vars, TypeOK, FragmentsOwned, IsInjective, ToSet, CallOK
<1>3. StreamOK' /\ NewlinesOK'
  BY <1>1 DEF Inv, vars, StreamOK, NewlinesOK
<1> QED BY <1>2, <1>3 DEF Inv

(* It holds at first.                                                      *)
LEMMA InitInv == Init => Inv
<1> SUFFICES ASSUME Init PROVE Inv
  OBVIOUS
<1>1. sent \in Seq(Bytes)
  <2>1. PICK m \in 0 .. MAX_STREAM : sent \in [1 .. m -> Bytes]
    BY DEF Init, BoundedSeq, SeqOf
  <2>2. m \in Nat
    BY <2>1, ClientFlowAssumption
  <2> QED BY <2>1, <2>2
<1>2. TypeOK
  <2>1. <<>> \in Seq(Bytes)
    OBVIOUS
  <2> QED BY <1>1, <2>1 DEF Init, TypeOK
<1>3. FragmentsOwned /\ CallOK /\ StreamOK /\ NewlinesOK
  BY DEF Init, FragmentsOwned, IsInjective, ToSet, CallOK, StreamOK, NewlinesOK
<1> QED BY <1>2, <1>3 DEF Inv

-----------------------------------------------------------------------------
(* The list with a new block, if there was memory for one: what it holds   *)
(* but for the new block is what it held.                                  *)
LinkTo(fr, f) == IF f = NULL THEN fr ELSE Append(fr, f)

(* Such a list has every block once, and holds what it held.               *)
LEMMA LinkNext ==
  ASSUME NEW fr \in Seq(Frags), IsInjective(fr), NEW d \in [Frags -> Seq(Bytes)],
         NEW f \in (Frags \ ToSet(fr)) \cup {NULL}
  PROVE  /\ LinkTo(fr, f) \in Seq(Frags) /\ IsInjective(LinkTo(fr, f))
         /\ ToSet(LinkTo(fr, f)) = ToSet(fr) \cup ({f} \ {NULL})
         /\ f # NULL => LinkTo(fr, f) # <<>> /\ f = Last(LinkTo(fr, f))
         /\ FlattenSeq(Others(LinkTo(fr, f), d, f)) = FlattenSeq(AllData(fr, d))
         /\ FlattenSeq(AllData(fr, d)) \in Seq(Bytes)
<1> DEFINE to == LinkTo(fr, f)
<1>1. AllData(fr, d) \in Seq(Seq(Bytes)) /\ <<>> \in Seq(Bytes)
  BY DataTypes
<1>2. /\ FlattenSeq(AllData(fr, d)) \in Seq(Bytes)
      /\ FlattenSeq(Append(AllData(fr, d), <<>>)) = FlattenSeq(AllData(fr, d)) \o <<>>
  BY <1>1, FlattenMore
<1>3. \A x \in Seq(Bytes) : x \o <<>> = x
  OBVIOUS
<1>4. CASE f = NULL
  <2>1. to = fr /\ Others(to, d, f) = AllData(fr, d)
    BY <1>4, OthersNone DEF LinkTo
  <2> QED BY <1>2, <1>4, <2>1
<1>5. CASE f # NULL
  <2>1. f \in Frags /\ f \notin ToSet(fr) /\ to = Append(fr, f) /\ {f} \ {NULL} = {f}
    BY <1>5 DEF LinkTo
  <2>2. /\ to \in Seq(Frags) /\ to # <<>> /\ IsInjective(to) /\ Last(to) = f
        /\ ToSet(to) = ToSet(fr) \cup {f}
    BY <2>1, LinkBehind
  <2>3. Others(to, d, f) = Append(AllData(fr, d), <<>>)
    BY <2>1, OthersNew
  <2> QED BY <1>2, <1>3, <2>1, <2>2, <2>3
<1> QED BY <1>4, <1>5

(* The first fragment.                                                     *)
LEMMA StartInv == ASSUME Inv, Start PROVE Inv'
<1>1. /\ pc = "start" /\ pc' = "recv" /\ fragments = <<>> /\ packets = <<>> /\ received = 0
      /\ left = <<>> /\ UNCHANGED <<sent, received, data, left, packets>>
      /\ sent \in Seq(Bytes) /\ data \in [Frags -> Seq(Bytes)]
      /\ fragments \in Seq(Frags) /\ IsInjective(fragments) /\ ToSet(fragments) = alloc
  BY DEF Inv, TypeOK, FragmentsOwned, CallOK, Start
<1>2. PICK f \in (Frags \ alloc) \cup {NULL} :
        /\ alloc' = alloc \cup ({f} \ {NULL}) /\ curr' = f
        /\ fragments' = LinkTo(fragments, f)
  BY DEF Start, packet_fragment_alloc, With, Linked, LinkTo
<1>3. /\ fragments' \in Seq(Frags) /\ IsInjective(fragments') /\ ToSet(fragments') = alloc'
      /\ f # NULL => fragments' # <<>> /\ f = Last(fragments')
      /\ FlattenSeq(Others(fragments', data, f)) = FlattenSeq(AllData(fragments, data))
  <2>1. f \in (Frags \ ToSet(fragments)) \cup {NULL} /\ alloc' = ToSet(fragments) \cup ({f} \ {NULL})
    BY <1>1, <1>2
  <2>2. fragments \in Seq(Frags) /\ IsInjective(fragments) /\ data \in [Frags -> Seq(Bytes)]
    BY <1>1
  <2> QED BY <1>2, <2>1, <2>2, LinkNext
<1>4. Kept' = <<>>
  <2>1. AllData(fragments, data) = <<>>
    BY <1>1 DEF AllData
  <2> QED BY <1>1, <1>2, <1>3, <2>1, FlatEmpty, KeptIsNext
<1>5. alloc' \in SUBSET Frags
  BY <1>2 DEF Inv, TypeOK
<1>6. TypeOK' /\ FragmentsOwned' /\ CallOK'
  <2>1. TypeOK'
    BY <1>1, <1>2, <1>3, <1>5 DEF Inv, TypeOK
  <2>2. FragmentsOwned' /\ CallOK'
    BY <1>1, <1>2, <1>3 DEF FragmentsOwned, CallOK
  <2> QED BY <2>1, <2>2
<1>7. StreamOK'
  <2>1. PacketBytes' = <<>> /\ SubSeq(sent, 1, 0) = <<>> /\ (<<>> \o <<>>) \o <<>> = <<>>
    BY <1>1 DEF PacketBytes
  <2> QED BY <1>1, <1>4, <2>1, FlatEmpty DEF StreamOK
<1>8. NewlinesOK'
  BY <1>1, <1>4 DEF NewlinesOK, NoNewline
<1> QED BY <1>6, <1>7, <1>8 DEF Inv

(* An unfinished packet is kept, and the next chunk gets a fragment.       *)
LEMMA KeepRestInv == ASSUME Inv, KeepRest PROVE Inv'
<1> DEFINE A == FlattenSeq(PacketBytes)
<1>1. /\ pc = "scan" /\ pc' = "recv" /\ First(left) = 0 /\ curr # NULL /\ left' = <<>>
      /\ UNCHANGED <<sent, received, packets>> /\ left \in Seq(Bytes)
      /\ data' = [data EXCEPT ![curr] = SubSeq(left, 1, Len(left))]
  BY NewlinePos DEF Inv, TypeOK, CallOK, KeepRest, Rest, Sized
<1>2. /\ fragments \in Seq(Frags) /\ fragments # <<>> /\ IsInjective(fragments)
      /\ curr = Last(fragments) /\ data \in [Frags -> Seq(Bytes)] /\ Kept \in Seq(Bytes)
      /\ Kept = FlattenSeq(Before(fragments, data)) /\ NoNewline(Kept)
      /\ ToSet(fragments) = alloc /\ alloc \in SUBSET Frags
  BY <1>1, Filling DEF Inv, NewlinesOK, FragmentsOwned, TypeOK
<1>3. PICK f \in (Frags \ alloc) \cup {NULL} :
        /\ alloc' = alloc \cup ({f} \ {NULL}) /\ curr' = f
        /\ fragments' = LinkTo(fragments, f)
  BY DEF KeepRest, packet_fragment_alloc, With, Linked, LinkTo, NextFragment
<1>4. SubSeq(left, 1, Len(left)) = left
  BY <1>1
<1>5. /\ data' = [data EXCEPT ![Last(fragments)] = left] /\ data' \in [Frags -> Seq(Bytes)]
      /\ FlattenSeq(AllData(fragments, data')) = Kept \o left
  <2>1. data' = [data EXCEPT ![Last(fragments)] = left]
    BY <1>1, <1>2, <1>4
  <2>2. left \in Seq(Bytes)
    BY <1>1
  <2>3. [data EXCEPT ![Last(fragments)] = left] \in [Frags -> Seq(Bytes)]
    BY <1>2, <2>2, StoreLast
  <2>4. FlattenSeq(AllData(fragments, [data EXCEPT ![Last(fragments)] = left])) = Kept \o left
    BY <1>2, <2>2, FlattenAll
  <2> QED BY <2>1, <2>3, <2>4
<1>6. /\ fragments' \in Seq(Frags) /\ IsInjective(fragments') /\ ToSet(fragments') = alloc'
      /\ f # NULL => fragments' # <<>> /\ f = Last(fragments')
      /\ FlattenSeq(Others(fragments', data', f)) = FlattenSeq(AllData(fragments, data'))
  <2>1. f \in (Frags \ ToSet(fragments)) \cup {NULL} /\ alloc' = ToSet(fragments) \cup ({f} \ {NULL})
    BY <1>2, <1>3
  <2>2. fragments \in Seq(Frags) /\ IsInjective(fragments) /\ data' \in [Frags -> Seq(Bytes)]
    BY <1>2, <1>5
  <2> QED BY <1>3, <2>1, <2>2, LinkNext
<1>7. Kept' = Kept \o left
  BY <1>3, <1>5, <1>6, KeptIsNext
<1>8. alloc' \in SUBSET Frags /\ <<>> \in Seq(Bytes)
  BY <1>2, <1>3
<1>9. TypeOK' /\ FragmentsOwned' /\ CallOK'
  <2>1. TypeOK'
    BY <1>1, <1>3, <1>5, <1>6, <1>8 DEF Inv, TypeOK
  <2>2. FragmentsOwned' /\ CallOK'
    BY <1>1, <1>3, <1>6 DEF FragmentsOwned, CallOK
  <2> QED BY <2>1, <2>2
<1>10. PacketBytes' = PacketBytes /\ A \in Seq(Bytes)
  <2>1. PacketBytes \in Seq(Seq(Bytes))
    BY PacketTypes DEF Inv
  <2> QED BY <1>1, <2>1, AllFlattens DEF PacketBytes
<1>11. (A \o Kept) \o left = SubSeq(sent, 1, received)
  BY <1>1 DEF Inv, StreamOK
<1> HIDE DEF A
<1>12. (A \o (Kept \o left)) \o <<>> = SubSeq(sent, 1, received)
  <2>1. (A \o Kept) \o left = A \o (Kept \o left)
    BY <1>1, <1>2, <1>10, Assoc
  <2>2. A \o (Kept \o left) \in Seq(Bytes)
    BY <1>1, <1>2, <1>10, CatType
  <2>3. \A x \in Seq(Bytes) : x \o <<>> = x
    OBVIOUS
  <2> QED BY <1>11, <2>1, <2>2, <2>3
<1>13. StreamOK'
  BY <1>1, <1>7, <1>10, <1>12 DEF StreamOK, A
<1>14. NewlinesOK'
  <2>1. NoNewline(left)
    BY <1>1, FirstNewline
  <2>2. NoNewline(Kept \o left)
    BY <1>1, <1>2, <2>1 DEF NoNewline
  <2>3. \A i \in DOMAIN packets' : IsLine(packets'[i].bytes)
    BY <1>1 DEF Inv, NewlinesOK
  <2> QED BY <1>7, <2>2, <2>3 DEF NewlinesOK
<1> QED BY <1>9, <1>13, <1>14 DEF Inv

-----------------------------------------------------------------------------
(* A list of one fragment keeps nothing.                                   *)
LEMMA OneFragment ==
  ASSUME NEW c \in Frags, NEW d \in [Frags -> Seq(Bytes)]
  PROVE  /\ <<c>> \in Seq(Frags) /\ <<c>> # <<>> /\ IsInjective(<<c>>) /\ Last(<<c>>) = c
         /\ ToSet(<<c>>) = {c} /\ FlattenSeq(Others(<<c>>, d, c)) = <<>>
<1>1. /\ <<c>> \in Seq(Frags) /\ <<c>> # <<>> /\ Len(<<c>>) = 1 /\ <<c>>[1] = c
      /\ DOMAIN <<c>> = {1}
  OBVIOUS
<1>2. IsInjective(<<c>>) /\ Last(<<c>>) = c /\ ToSet(<<c>>) = {c}
  BY <1>1 DEF IsInjective, Last, ToSet
<1>3. Before(<<c>>, d) = <<>>
  BY <1>1 DEF Before
<1>4. FlattenSeq(Others(<<c>>, d, Last(<<c>>))) = FlattenSeq(Before(<<c>>, d))
  BY <1>1, <1>2, FlattenBefore
<1> QED BY <1>1, <1>2, <1>3, <1>4, FlatEmpty

(* When all fragments but the last are freed, the last is in use.          *)
LEMMA FrontFreed ==
  ASSUME NEW fr \in Seq(Frags), fr # <<>>, IsInjective(fr)
  PROVE  ToSet(fr) \ ToSet(Front(fr)) = {Last(fr)} /\ Last(fr) \in Frags
<1> DEFINE n == Len(fr)
           r == Front(fr)
<1>1. n \in Nat /\ n > 0 /\ DOMAIN fr = 1 .. n /\ Last(fr) = fr[n] /\ fr[n] \in Frags
  BY DEF Last
<1>2. DOMAIN r = 1 .. n - 1 /\ \A i \in 1 .. n - 1 : r[i] = fr[i]
  BY <1>1 DEF Front
<1> HIDE DEF n, r
<1>3. 1 .. n = (1 .. n - 1) \cup {n} /\ n \notin 1 .. n - 1
  BY <1>1
<1>4. fr[n] \in ToSet(fr) /\ fr[n] \notin ToSet(r)
  BY <1>1, <1>2, <1>3 DEF ToSet, IsInjective
<1>5. \A y \in ToSet(fr) : y = fr[n] \/ y \in ToSet(r)
  BY <1>1, <1>2, <1>3 DEF ToSet
<1> QED BY <1>1, <1>4, <1>5 DEF r

(* A packet leaves its last fragment, with what comes behind the newline.  *)
LEMMA PacketInv ==
  ASSUME Inv, PacketStored \/ PacketNoMem PROVE Inv'
<1>1. /\ pc = "scan" /\ newline_pos > 0 /\ curr # NULL
      /\ \E b \in BOOLEAN : packets' = Append(packets, [bytes |-> Flat(newline_pos), stored |-> b])
      /\ left' = SubSeq(left, newline_pos + 1, Len(left)) /\ data' = Sized(newline_pos)
      /\ UNCHANGED <<sent, received, curr>>
      /\ \/ pc' = pc /\ fragments' = <<Last(fragments)>> /\ alloc' = alloc \ ToSet(Front(fragments))
         \/ pc' = pc /\ Head(fragments) = curr /\ UNCHANGED <<fragments, alloc>>
         \/ pc' = "abort" /\ UNCHANGED <<fragments, alloc>>
  BY DEF PacketStored, PacketNoMem, FlattenedFreed, Inv, CallOK
<1>2. /\ packets' \in Seq([bytes : Seq(Bytes), stored : BOOLEAN])
      /\ left' \in Seq(Bytes) /\ data' \in [Frags -> Seq(Bytes)]
      /\ FlattenSeq(PacketBytes') \in Seq(Bytes)
      /\ FlattenSeq(PacketBytes') \o left' = SubSeq(sent, 1, received)
      /\ \A i \in DOMAIN packets' : IsLine(packets'[i].bytes)
  BY <1>1, PacketCut
<1>3. /\ fragments \in Seq(Frags) /\ fragments # <<>> /\ IsInjective(fragments)
      /\ curr = Last(fragments) /\ curr \in Frags
      /\ ToSet(fragments) = alloc /\ alloc \in SUBSET Frags
  BY <1>1, Filling DEF Inv, FragmentsOwned, TypeOK
<1>4. CASE pc' = "abort" /\ UNCHANGED <<fragments, alloc>>
  <2>1. TypeOK'
    BY <1>1, <1>2, <1>4 DEF Inv, TypeOK
  <2>2. FragmentsOwned' /\ CallOK' /\ StreamOK'
    BY <1>1, <1>3, <1>4 DEF FragmentsOwned, CallOK, StreamOK
  <2>3. NewlinesOK'
    BY <1>2, <1>4 DEF NewlinesOK
  <2> QED BY <2>1, <2>2, <2>3 DEF Inv
<1>5. CASE pc' = pc
  <2>1. fragments' = <<curr>> /\ alloc' = {curr}
    <3>1. CASE fragments' = <<Last(fragments)>> /\ alloc' = alloc \ ToSet(Front(fragments))
      BY <1>3, <3>1, FrontFreed
    <3>2. CASE Head(fragments) = curr /\ UNCHANGED <<fragments, alloc>>
      <4>1. fragments = <<curr>>
        <5>1. /\ Len(fragments) \in Nat /\ Len(fragments) > 0 /\ DOMAIN fragments = 1 .. Len(fragments)
              /\ fragments[1] = curr /\ fragments[Len(fragments)] = curr
          BY <1>3, <3>2 DEF Last
        <5>2. Len(fragments) = 1
          <6>1. 1 \in 1 .. Len(fragments) /\ Len(fragments) \in 1 .. Len(fragments)
            BY <5>1
          <6> QED BY <1>3, <5>1, <6>1 DEF IsInjective
        <5> QED BY <1>3, <5>1, <5>2
      <4>2. ToSet(<<curr>>) = {curr}
        BY <1>2, <1>3, OneFragment
      <4> QED BY <1>3, <3>2, <4>1, <4>2
    <3> QED BY <1>1, <1>5, <3>1, <3>2
  <2>2. /\ fragments' \in Seq(Frags) /\ fragments' # <<>> /\ IsInjective(fragments')
        /\ Last(fragments') = curr /\ ToSet(fragments') = alloc'
        /\ FlattenSeq(Others(fragments', data', curr)) = <<>>
    BY <1>2, <1>3, <2>1, OneFragment
  <2>3. Kept' = <<>>
    BY <1>1, <2>2, KeptIsNext
  <2>4. TypeOK'
    <3>1. alloc' \in SUBSET Frags
      BY <1>3, <2>1
    <3> QED BY <1>1, <1>2, <1>5, <2>2, <3>1 DEF Inv, TypeOK
  <2>5. FragmentsOwned' /\ CallOK'
    BY <1>1, <1>5, <2>2 DEF FragmentsOwned, CallOK
  <2>6. StreamOK'
    <3>1. \A x \in Seq(Bytes) : x \o <<>> = x
      OBVIOUS
    <3>2. (FlattenSeq(PacketBytes') \o Kept') \o left' = SubSeq(sent', 1, received')
      BY <1>1, <1>2, <2>3, <3>1
    <3> QED BY <3>2 DEF StreamOK
  <2>7. NewlinesOK'
    BY <1>2, <2>3 DEF NewlinesOK, NoNewline
  <2> QED BY <2>4, <2>5, <2>6, <2>7 DEF Inv
<1> QED BY <1>1, <1>4, <1>5

(* Every step of the connection keeps it.                                  *)
LEMMA NextInv == Inv /\ [Next]_vars => Inv'
<1> SUFFICES ASSUME Inv, [Next]_vars PROVE Inv'
  OBVIOUS
<1>1. CASE Start
  BY <1>1, StartInv
<1>2. CASE Recv
  BY <1>2, RecvInv
<1>3. CASE RecvEnd
  BY <1>3, RecvEndInv
<1>4. CASE PacketStored \/ PacketNoMem
  BY <1>4, PacketInv
<1>5. CASE KeepRest
  BY <1>5, KeepRestInv
<1>6. CASE NothingLeft
  BY <1>6, NothingLeftInv
<1>7. CASE Ended \/ UNCHANGED vars
  BY <1>7, StutterInv DEF Ended
<1> QED BY <1>1, <1>2, <1>3, <1>4, <1>5, <1>6, <1>7 DEF Next

(* The invariant holds at every moment.                                    *)
LEMMA Invariance == Spec => []Inv
BY InitInv, NextInv, PTL DEF Spec

(* The types hold, and recv writes to the last fragment of the list.       *)
THEOREM TypesHold == Spec => []TypeOK
<1>1. Inv => TypeOK
  BY DEF Inv
<1> QED BY <1>1, Invariance, PTL

(* The fragments in use are those of the list, each once: packets of any   *)
(* number of fragments leave none behind and free none that is linked.     *)
THEOREM NoFragmentLeaks == Spec => []FragmentsOwned
<1>1. Inv => FragmentsOwned
  BY DEF Inv
<1> QED BY <1>1, Invariance, PTL

(* However recv cuts the stream, every byte received is, in order, in      *)
(* exactly one packet or kept for the next, and every packet is a line.    *)
THEOREM StreamBecomesLines == Spec => []PacketsAreLines
<1>1. ASSUME Inv PROVE PacketsAreLines
  <2>1. pc \in {"recv", "scan"} =>
          FlattenSeq([i \in DOMAIN packets |-> packets[i].bytes]) \o Kept \o left
            = SubSeq(sent, 1, received)
    BY <1>1 DEF Inv, StreamOK, PacketBytes
  <2>2. ASSUME NEW i \in DOMAIN packets
        PROVE  SelectInSeq(packets[i].bytes, LAMBDA x : x = NL) = Len(packets[i].bytes)
    <3>1. packets[i].bytes \in Seq(Bytes)
      <4>1. PacketBytes \in Seq(Seq(Bytes))
        BY <1>1, PacketTypes DEF Inv
      <4>2. i \in DOMAIN PacketBytes /\ PacketBytes[i] = packets[i].bytes
        BY DEF PacketBytes
      <4> QED BY <4>1, <4>2
    <3>2. IsLine(packets[i].bytes)
      BY <1>1 DEF Inv, NewlinesOK
    <3> QED BY <3>1, <3>2, FirstOfLine, PacketNewline
  <2> QED BY <2>1, <2>2 DEF PacketsAreLines
<1> QED BY <1>1, Invariance, PTL
=============================================================================
