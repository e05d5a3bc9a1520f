---------------------------- MODULE FlattenProofs ----------------------------
(***************************************************************************)
(* Laying sequences end to end, as FlattenSeq does, over any set: that it  *)
(* is defined on every sequence, what one more element adds, and where the *)
(* elements of each part are in the whole.  Entries of the buffer, lines   *)
(* of the device and packets of a stream are all laid end to end.          *)
(***************************************************************************)
EXTENDS SequencesExt, Integers, FiniteSetTheorems, WellFoundedInduction, TLAPS

(* A set of natural numbers that is not empty has a least element: among   *)
(* the intervals 0..n, n in S, one includes no other.                      *)
LEMMA MinOfNaturals ==
  ASSUME NEW S, S \subseteq Nat, S # {}
  PROVE  /\ Min(S) \in S
         /\ \A y \in S : Min(S) <= y
<1> DEFINE T == {0 .. n : n \in S}
<1>1. IsWellFoundedOn(StrictSubsetOrdering(Nat), FiniteSubsetsOf(Nat))
  BY FS_StrictSubsetOrderingWellFounded, Zenon
<1>2. T \subseteq FiniteSubsetsOf(Nat)
  <2>1. ASSUME NEW n \in S PROVE 0 .. n \in SUBSET Nat /\ IsFiniteSet(0 .. n)
    <3>1. n \in Int /\ 0 \in Int
      OBVIOUS
    <3>2. IsFiniteSet(0 .. n)
      BY <3>1, FS_Interval, Zenon
    <3> QED BY <3>2
  <2> QED BY <2>1, Zenon DEF FiniteSubsetsOf
<1>3. T # {}
  OBVIOUS
<1>4. PICK X \in T : \A Y \in T : ~(<<Y, X>> \in StrictSubsetOrdering(Nat))
  BY <1>1, <1>2, <1>3, WFMin, Zenon
<1>5. PICK m \in S : X = 0 .. m
  OBVIOUS
<1>6. ASSUME NEW y \in S PROVE m <= y
  <2>1. 0 .. y \in T
    OBVIOUS
  <2>2. SUFFICES ASSUME y < m PROVE FALSE
    OBVIOUS
  <2>3. 0 .. y \subseteq 0 .. m /\ 0 .. y # 0 .. m /\ 0 .. m \subseteq Nat /\ 0 .. y \subseteq Nat
    <3>1. m \in 0 .. m /\ m \notin 0 .. y
      BY <2>2
    <3> QED BY <3>1, <2>2
  <2>4. <<0 .. y, 0 .. m>> \in StrictSubsetOrdering(Nat)
    BY <2>3 DEF StrictSubsetOrdering
  <2> QED BY <2>1, <2>4, <1>4, <1>5
<1>7. \E x \in S : \A y \in S : x =< y
  BY <1>6
<1> QED BY <1>7, Zenon DEF Min

-----------------------------------------------------------------------------
(* Laying sequences end to end.  FlattenSeq is a recursive function; that  *)
(* it is defined on s, and what it is on one more element, is              *)
(* Flattenable(S, s).  It holds of every s: a shortest one of which it did *)
(* not would be one more element behind one of which it does.              *)
Cat(x, y) == x \o y
Turn(s, f, i) == IF i = 1 THEN s[i] ELSE Cat(f[i - 1], s[i])
Flattens(s, f) == f = [i \in 1 .. Len(s) |-> Turn(s, f, i)]
Flattening(s) == CHOOSE f : Flattens(s, f)

(* FlattenSeq with its recursive function by name.                         *)
LEMMA FlattenDef ==
  ASSUME NEW s
  PROVE  FlattenSeq(s) = IF Len(s) = 0 THEN s ELSE Flattening(s)[Len(s)]
BY DEF FlattenSeq, Flattens, Flattening, Turn, Cat

(* What it is to be that function, turn by turn.                           *)
LEMMA FlattensPoint ==
  ASSUME NEW s, NEW f
  PROVE  Flattens(s, f) <=> /\ f = [i \in 1 .. Len(s) |-> f[i]]
                            /\ \A i \in 1 .. Len(s) : f[i] = Turn(s, f, i)
BY DEF Flattens

Flattenable(S, s) ==
  /\ s \in Seq(Seq(S))
  /\ Flattens(s, Flattening(s)) /\ FlattenSeq(s) \in Seq(S)
  /\ \A g : Flattens(s, g) => g = Flattening(s)

(* No sequences make the empty one.                                        *)
LEMMA FlatEmpty ==
  ASSUME NEW S
  PROVE  Flattenable(S, <<>>) /\ FlattenSeq(<<>>) = <<>>
<1>1. \A g : Flattens(<<>>, g) <=> g = <<>>
  <2>1. ASSUME NEW g PROVE Flattens(<<>>, g) <=> g = [i \in 1 .. 0 |-> g[i]]
    <3>1. Len(<<>>) = 0 /\ 1 .. 0 = {}
      OBVIOUS
    <3> QED BY <3>1, FlattensPoint
  <2>2. \A g : g = [i \in 1 .. 0 |-> g[i]] <=> g = <<>>
    OBVIOUS
  <2> QED BY <2>1, <2>2
<1>2. Flattening(<<>>) = <<>>
  BY <1>1, Zenon DEF Flattening
<1>3. FlattenSeq(<<>>) = <<>>
  BY FlattenDef
<1>4. <<>> \in Seq(S) /\ <<>> \in Seq(Seq(S))
  OBVIOUS
<1> QED BY <1>1, <1>2, <1>3, <1>4 DEF Flattenable

(* One more sequence is one more turn.                                     *)
LEMMA FlatAppend ==
  ASSUME NEW S, NEW s, Flattenable(S, s), NEW x \in Seq(S)
  PROVE  Flattenable(S, Append(s, x)) /\ FlattenSeq(Append(s, x)) = FlattenSeq(s) \o x
<1> DEFINE t == Append(s, x)
           n == Len(s)
           F == Flattening(s)
           e == IF n = 0 THEN x ELSE Cat(F[n], x)
           h == [i \in 1 .. n + 1 |-> IF i <= n THEN F[i] ELSE e]
<1>1. /\ n \in Nat /\ t \in Seq(Seq(S)) /\ Len(t) = n + 1 /\ t[n + 1] = x
      /\ \A i \in 1 .. n : t[i] = s[i]
  BY DEF Flattenable
<1>2. \A i \in 1 .. n : F[i] = Turn(s, F, i)
  BY FlattensPoint DEF Flattenable
<1> HIDE DEF t, n, F
<1>3. \A i \in 1 .. n + 1 : h[i] = Turn(t, h, i)
  BY <1>1, <1>2 DEF Turn
<1>4. Flattens(t, h)
  BY <1>1, <1>3, FlattensPoint
<1>5. ASSUME NEW g, Flattens(t, g) PROVE g = h
  <2> DEFINE r == [i \in 1 .. n |-> g[i]]
  <2>0. g = [i \in 1 .. n + 1 |-> g[i]]
    BY <1>1, <1>5, FlattensPoint
  <2>1. \A i \in 1 .. n + 1 : g[i] = Turn(t, g, i)
    BY <1>1, <1>5, FlattensPoint
  <2>2. \A i \in 1 .. n : r[i] = Turn(s, r, i)
    BY <1>1, <2>1 DEF Turn
  <2>3. Flattens(s, r)
    BY <2>2, FlattensPoint DEF n
  <2>4. r = F
    BY <2>3 DEF Flattenable, F
  <2>5. \A i \in 1 .. n : g[i] = F[i]
    BY <2>4
  <2>6. g[n + 1] = e
    BY <1>1, <2>1, <2>5 DEF Turn
  <2> HIDE DEF e
  <2>7. \A i \in 1 .. n + 1 : g[i] = h[i]
    BY <1>1, <2>5, <2>6
  <2> QED BY <2>0, <2>7
<1>6. Flattening(t) = h
  BY <1>4, <1>5 DEF Flattening
<1>7. FlattenSeq(t) = e
  <2>1. FlattenSeq(t) = Flattening(t)[n + 1]
    BY <1>1, FlattenDef
  <2> HIDE DEF e
  <2> QED BY <1>1, <1>6, <2>1
<1>8. e = FlattenSeq(s) \o x
  <2>1. CASE n = 0
    <3>1. s = <<>> /\ <<>> \o x = x
      BY <2>1 DEF Flattenable, n
    <3> QED BY <2>1, <3>1, FlatEmpty
  <2>2. CASE n # 0
    BY <2>2, FlattenDef DEF n, F, Cat
  <2> QED BY <2>1, <2>2
<1>9. FlattenSeq(s) \o x \in Seq(S)
  BY DEF Flattenable
<1>10. Flattenable(S, t)
  <2> HIDE DEF e, h
  <2> QED BY <1>1, <1>4, <1>5, <1>6, <1>7, <1>8, <1>9 DEF Flattenable
<1> QED BY <1>7, <1>8, <1>10 DEF t

(* Hence it is true of all.                                                *)
LEMMA AllFlattenable ==
  ASSUME NEW S
  PROVE  \A s \in Seq(Seq(S)) : Flattenable(S, s)
<1> DEFINE Bad == {n \in Nat : \E s \in Seq(Seq(S)) : Len(s) = n /\ ~Flattenable(S, s)}
           m == Min(Bad)
<1> SUFFICES ASSUME Bad # {} PROVE FALSE
  OBVIOUS
<1>1. m \in Bad /\ \A y \in Bad : m <= y
  <2>1. Bad \subseteq Nat
    OBVIOUS
  <2> HIDE DEF Bad
  <2> QED BY <2>1, MinOfNaturals
<1>2. PICK s \in Seq(Seq(S)) : Len(s) = m /\ ~Flattenable(S, s)
  BY <1>1
<1> HIDE DEF m
<1>3. m \in Nat
  BY <1>1
<1>4. CASE m = 0
  <2>1. s = <<>>
    BY <1>2, <1>4
  <2> QED BY <1>2, <2>1, FlatEmpty
<1>5. CASE m # 0
  <2> DEFINE r == SubSeq(s, 1, m - 1)
  <2>1. /\ r \in Seq(Seq(S)) /\ Len(r) = m - 1 /\ m - 1 \in Nat /\ s[m] \in Seq(S)
        /\ s = Append(r, s[m])
    BY <1>2, <1>3, <1>5
  <2> HIDE DEF r
  <2>2. m - 1 \notin Bad
    <3>1. ~(m <= m - 1)
      BY <1>3
    <3> HIDE DEF Bad
    <3> QED BY <1>1, <3>1
  <2>3. Flattenable(S, r)
    BY <2>1, <2>2
  <2>4. Flattenable(S, Append(r, s[m]))
    BY <2>1, <2>3, FlatAppend
  <2> QED BY <1>2, <2>1, <2>4
<1> QED BY <1>4, <1>5

(* What one more sequence adds.                                            *)
LEMMA FlattenAppend ==
  ASSUME NEW S, NEW s \in Seq(Seq(S)), NEW x \in Seq(S)
  PROVE  FlattenSeq(s) \in Seq(S) /\ FlattenSeq(Append(s, x)) = FlattenSeq(s) \o x
<1>1. Flattenable(S, s)
  BY AllFlattenable, Zenon
<1> QED BY <1>1, FlatAppend DEF Flattenable

(* Sequences with the same elements are the same.                          *)
LEMMA SameElements ==
  ASSUME NEW S, NEW x \in Seq(S), NEW y \in Seq(S), Len(x) = Len(y),
         \A i \in 1 .. Len(x) : x[i] = y[i]
  PROVE  x = y
OBVIOUS

(* The elements of a sequence with one more.                               *)
LEMMA AppendElements ==
  ASSUME NEW S, NEW s \in Seq(S), NEW x \in S
  PROVE  /\ Append(s, x) \in Seq(S) /\ Len(Append(s, x)) = Len(s) + 1 /\ Len(s) \in Nat
         /\ \A i \in 1 .. Len(s) : Append(s, x)[i] = s[i]
         /\ Append(s, x)[Len(s) + 1] = x
OBVIOUS

(* Element j of the k-th sequence of s is element B[k - 1] + j of the      *)
(* whole, B being the lengths added up.  A shortest beginning of s of      *)
(* which this is not true would be one sequence longer than one of which   *)
(* it is.                                                                  *)
Laid(s, B, n) ==
  LET f == FlattenSeq(SubSeq(s, 1, n))
  IN  /\ Len(f) = B[n]
      /\ \A k \in 1 .. n : /\ B[k] <= B[n]
                            /\ \A j \in 1 .. Len(s[k]) : f[B[k - 1] + j] = s[k][j]

(* One sequence longer.                                                    *)
LEMMA LaidOn ==
  ASSUME NEW S, NEW s \in Seq(Seq(S)), NEW B \in [0 .. Len(s) -> Nat], B[0] = 0,
         \A k \in 1 .. Len(s) : B[k] = B[k - 1] + Len(s[k]),
         NEW n \in 1 .. Len(s), Laid(s, B, n - 1)
  PROVE  Laid(s, B, n)
<1> DEFINE r == SubSeq(s, 1, n - 1)
           f == FlattenSeq(r)
           x == s[n]
           g == FlattenSeq(SubSeq(s, 1, n))
<1>1. /\ n \in Nat /\ n - 1 \in Nat /\ n - 1 \in 0 .. Len(s) /\ n \in 0 .. Len(s)
      /\ r \in Seq(Seq(S)) /\ x \in Seq(S) /\ SubSeq(s, 1, n) = Append(r, x)
  OBVIOUS
<1>2. /\ B[n] = B[n - 1] + Len(x) /\ B[n] \in Nat /\ B[n - 1] \in Nat /\ Len(x) \in Nat
      /\ \A k \in 1 .. Len(s) : /\ B[k] = B[k - 1] + Len(s[k]) /\ Len(s[k]) \in Nat
                                 /\ B[k] \in Nat /\ B[k - 1] \in Nat
  <2>1. ASSUME NEW k \in 1 .. Len(s)
        PROVE  /\ B[k] = B[k - 1] + Len(s[k]) /\ Len(s[k]) \in Nat
               /\ B[k] \in Nat /\ B[k - 1] \in Nat
    <3>1. k \in 0 .. Len(s) /\ k - 1 \in 0 .. Len(s) /\ s[k] \in Seq(S)
      OBVIOUS
    <3>2. B[k] \in Nat /\ B[k - 1] \in Nat
      BY <3>1
    <3>3. Len(s[k]) \in Nat
      BY <3>1
    <3> QED BY <3>2, <3>3
  <2> QED BY <1>1, <2>1
<1>3. /\ Len(f) = B[n - 1]
      /\ \A k \in 1 .. n - 1 : /\ B[k] <= B[n - 1]
                                /\ \A j \in 1 .. Len(s[k]) : f[B[k - 1] + j] = s[k][j]
  BY DEF Laid
<1> HIDE DEF r, x
<1>4. f \in Seq(S) /\ g = f \o x
  BY <1>1, FlattenAppend
<1> HIDE DEF f, g
<1>5. /\ Len(g) = Len(f) + Len(x)
      /\ \A i \in 1 .. Len(f) : g[i] = f[i]
      /\ \A j \in 1 .. Len(x) : g[Len(f) + j] = x[j]
  BY <1>1, <1>4
<1>6. ASSUME NEW k \in 1 .. n
      PROVE  B[k] <= B[n] /\ \A j \in 1 .. Len(s[k]) : g[B[k - 1] + j] = s[k][j]
  <2>1. CASE k = n
    BY <1>2, <1>3, <1>5, <2>1 DEF x
  <2>2. CASE k # n
    <3>1. k \in 1 .. n - 1 /\ k \in 1 .. Len(s)
      BY <1>1, <2>2
    <3>2. B[k] <= B[n - 1] /\ \A j \in 1 .. Len(s[k]) : f[B[k - 1] + j] = s[k][j]
      BY <1>3, <3>1
    <3>3. B[k] = B[k - 1] + Len(s[k]) /\ Len(s[k]) \in Nat /\ B[k] \in Nat /\ B[k - 1] \in Nat
      BY <1>2, <3>1
    <3>4. ASSUME NEW j \in 1 .. Len(s[k]) PROVE g[B[k - 1] + j] = s[k][j]
      <4>1. B[k - 1] + j \in 1 .. Len(f)
        <5>1. ASSUME NEW a \in Nat, NEW l \in Nat, NEW c \in Nat, NEW i \in 1 .. l, a + l <= c
              PROVE  a + i \in 1 .. c
          BY <5>1
        <5>2. B[k - 1] + Len(s[k]) <= Len(f) /\ Len(f) \in Nat
          BY <1>2, <1>3, <3>2, <3>3
        <5> QED BY <5>1, <5>2, <3>3
      <4> QED BY <1>5, <3>2, <4>1
    <3>5. B[k] <= B[n]
      BY <1>2, <3>2, <3>3
    <3> QED BY <3>4, <3>5
  <2> QED BY <2>1, <2>2
<1> QED BY <1>2, <1>3, <1>5, <1>6 DEF Laid, g

(* B holds the lengths of the sequences of s added up; f has them in it    *)
(* where B says.                                                           *)
Sums(s, B) ==
  /\ B \in [0 .. Len(s) -> Nat] /\ B[0] = 0
  /\ \A k \in 1 .. Len(s) : B[k] = B[k - 1] + Len(s[k])

Placed(s, B, f) ==
  /\ Len(f) = B[Len(s)]
  /\ \A k \in 1 .. Len(s) : /\ B[k] <= B[Len(s)]
                             /\ \A j \in 1 .. Len(s[k]) : f[B[k - 1] + j] = s[k][j]

(* Every element is where the lengths say.                                 *)
LEMMA FlattenElements ==
  ASSUME NEW S, NEW s \in Seq(Seq(S)), NEW B, Sums(s, B)
  PROVE  FlattenSeq(s) \in Seq(S) /\ Placed(s, B, FlattenSeq(s))
<1> DEFINE Bad == {n \in 0 .. Len(s) : ~Laid(s, B, n)}
           m == Min(Bad)
<1>1. Bad = {}
  <2> SUFFICES ASSUME Bad # {} PROVE FALSE
    OBVIOUS
  <2>1. m \in Bad /\ \A y \in Bad : m <= y
    <3>1. Bad \subseteq Nat
      OBVIOUS
    <3> HIDE DEF Bad
    <3> QED BY <3>1, MinOfNaturals
  <2>2. m \in 0 .. Len(s) /\ ~Laid(s, B, m)
    BY <2>1
  <2>3. m # 0
    <3>1. Laid(s, B, 0)
      <4>1. SubSeq(s, 1, 0) = <<>>
        OBVIOUS
      <4>2. FlattenSeq(SubSeq(s, 1, 0)) = <<>>
        BY <4>1, FlatEmpty
      <4> QED BY <4>2 DEF Laid, Sums
    <3> QED BY <2>2, <3>1
  <2>4. m \in 1 .. Len(s) /\ m - 1 \in 0 .. Len(s) /\ ~(m <= m - 1)
    BY <2>2, <2>3
  <2>5. Laid(s, B, m - 1)
    BY <2>1, <2>4
  <2> HIDE DEF m, Bad
  <2> QED BY <2>2, <2>4, <2>5, LaidOn DEF Sums
<1>2. Laid(s, B, Len(s)) /\ SubSeq(s, 1, Len(s)) = s
  BY <1>1
<1>3. FlattenSeq(s) \in Seq(S)
  <2>1. Flattenable(S, s)
    BY AllFlattenable, Zenon
  <2> QED BY <2>1 DEF Flattenable
<1> QED BY <1>2, <1>3 DEF Laid, Placed
==============================================================================
