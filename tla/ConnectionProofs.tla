-------------------------- MODULE ConnectionProofs --------------------------
(***************************************************************************)
(* The connection and its format, for every base Radix > 2, every set of   *)
(* packets that the format can express and any number of them.             *)
(*                                                                         *)
(* Codec: a struct that is written is read back (RoundTrip), and no proper *)
(* prefix of what was written is read as a struct (CutRefused).            *)
(*                                                                         *)
(* NetworkSession: the bytes between the two ends are at every moment the  *)
(* frames of the packets that are sent and not yet handled (Conserved), so *)
(* that the packet that is read is the one in front.                       *)
(*                                                                         *)
(* Connection: with both, each of its steps is one of ClientAsyncHandler   *)
(* or changes nothing there, so that the pairing of answers and requests   *)
(* that ClientAsyncHandlerProofs shows for whole packets holds for bytes.  *)
(***************************************************************************)
EXTENDS Connection, SequenceTheorems, WellFoundedInduction, TLAPS

-----------------------------------------------------------------------------
(***************************************************************************)
(* Induction.  The induction theorems of the library have an operator as a *)
(* parameter; with a set in its place the prover can apply them.           *)
(***************************************************************************)

\* A set that has 0 and with each number the next has all numbers.
LEMMA SetInduction ==
    ASSUME NEW T, 0 \in T, \A n \in Nat : n \in T => n + 1 \in T
    PROVE  Nat \subseteq T
<1> DEFINE U == Nat \ T
<1> SUFFICES ASSUME U # {} PROVE FALSE
  OBVIOUS
<1>1. \E x \in U : \A y \in U : ~ (<<y, x>> \in OpToRel(<, Nat))
  <2>1. U \subseteq Nat
    OBVIOUS
  <2> HIDE DEF U
  <2> QED
    BY <2>1, WFMin, NatLessThanWellFounded
<1>2. PICK x \in U : \A y \in U : ~ (<<y, x>> \in OpToRel(<, Nat))
  BY <1>1
<1>3. x - 1 \in Nat /\ x - 1 \in T /\ (x - 1) + 1 = x
  <2>1. x # 0
    OBVIOUS
  <2>2. x - 1 \in Nat /\ x - 1 < x
    BY <2>1
  <2>3. <<x - 1, x>> \in OpToRel(<, Nat)
    BY <2>2 DEF OpToRel
  <2>4. x - 1 \notin U
    BY <1>2, <2>3
  <2> QED
    BY <2>2, <2>4
<1> QED
  BY <1>3

\* The same up to a bound.
LEMMA RangeInduction ==
    ASSUME NEW n \in Nat, NEW T, 0 \in T, \A i \in 0..(n - 1) : i \in T => i + 1 \in T
    PROVE  \A i \in 0..n : i \in T
<1> DEFINE U == {i \in Nat : i <= n => i \in T}
<1>1. 0 \in U
  OBVIOUS
<1>2. \A i \in Nat : i \in U => i + 1 \in U
  <2> SUFFICES ASSUME NEW i \in Nat, i \in U, i + 1 <= n PROVE i + 1 \in T
    OBVIOUS
  <2>1. i \in 0..(n - 1) /\ i \in T
    OBVIOUS
  <2> QED
    BY <2>1
<1>3. Nat \subseteq U
  <2> HIDE DEF U
  <2> QED
    BY <1>1, <1>2, SetInduction
<1> QED
  BY <1>3

-----------------------------------------------------------------------------
(***************************************************************************)
(* Concatenations.                                                         *)
(***************************************************************************)

\* The concatenation of the first i sequences.
FlatTo(seqs) ==
    CHOOSE f : f = [i \in 1..Len(seqs) |-> IF i = 1 THEN seqs[i] ELSE f[i - 1] \o seqs[i]]

Prefix(seqs, i) == IF i = 0 THEN << >> ELSE FlatTo(seqs)[i]

\* The recursive function in FlattenSeq exists, for any number of sequences.
LEMMA FlatExists ==
    ASSUME NEW seqs, NEW m \in Nat
    PROVE  \E f : f = [i \in 1..m |-> IF i = 1 THEN seqs[i] ELSE f[i - 1] \o seqs[i]]
<1> DEFINE T == {n \in Nat : \E f :
                    f = [i \in 1..n |-> IF i = 1 THEN seqs[i] ELSE f[i - 1] \o seqs[i]]}
<1>1. 0 \in T
  <2> DEFINE f == [i \in 1..0 |-> seqs[i]]
  <2>1. f = [i \in 1..0 |-> IF i = 1 THEN seqs[i] ELSE f[i - 1] \o seqs[i]]
    OBVIOUS
  <2> HIDE DEF f
  <2> QED
    BY <2>1
<1>2. \A n \in Nat : n \in T => n + 1 \in T
  <2> SUFFICES ASSUME NEW n \in Nat, n \in T PROVE n + 1 \in T
    OBVIOUS
  <2>1. PICK f : f = [i \in 1..n |-> IF i = 1 THEN seqs[i] ELSE f[i - 1] \o seqs[i]]
    OBVIOUS
  <2> DEFINE g == [i \in 1..(n + 1) |->
                      IF i = n + 1 THEN (IF i = 1 THEN seqs[i] ELSE f[n] \o seqs[i]) ELSE f[i]]
             h == [i \in 1..(n + 1) |-> IF i = 1 THEN seqs[i] ELSE g[i - 1] \o seqs[i]]
  <2>2. \A i \in 1..(n + 1) : g[i] = h[i]
    <3> TAKE i \in 1..(n + 1)
    <3>1. CASE i = n + 1 /\ i # 1
      <4>1. i - 1 = n /\ n \in 1..(n + 1) /\ n # n + 1
        BY <3>1
      <4>2. g[n] = f[n]
        BY <4>1
      <4> QED
        BY <3>1, <4>1, <4>2
    <3>2. CASE i = n + 1 /\ i = 1
      BY <3>2
    <3>3. CASE i # n + 1
      <4>1. i \in 1..n /\ g[i] = f[i]
        BY <3>3
      <4>2. f[i] = IF i = 1 THEN seqs[i] ELSE f[i - 1] \o seqs[i]
        BY <2>1, <4>1
      <4>3. i # 1 => i - 1 \in 1..(n + 1) /\ i - 1 # n + 1
        BY <4>1
      <4>4. i # 1 => g[i - 1] = f[i - 1]
        BY <4>3
      <4> QED
        BY <4>1, <4>2, <4>4
    <3> QED
      BY <3>1, <3>2, <3>3
  <2>3. g = h
    BY <2>2
  <2>4. \E e : e = [i \in 1..(n + 1) |-> IF i = 1 THEN seqs[i] ELSE e[i - 1] \o seqs[i]]
    <3> HIDE DEF g
    <3> QED
      BY <2>3
  <2>5. n + 1 \in Nat
    OBVIOUS
  <2> QED
    BY <2>4, <2>5
<1>3. m \in T
  <2> HIDE DEF T
  <2> QED
    BY <1>1, <1>2, SetInduction
<1> QED
  BY <1>3

\* FlattenSeq step by step.
LEMMA PrefixFacts ==
    ASSUME NEW S, NEW seqs \in Seq(Seq(S))
    PROVE  /\ Prefix(seqs, 0) = << >>
           /\ \A i \in 1..Len(seqs) : Prefix(seqs, i) = Prefix(seqs, i - 1) \o seqs[i]
           /\ \A i \in 0..Len(seqs) : Prefix(seqs, i) \in Seq(S)
           /\ FlattenSeq(seqs) = Prefix(seqs, Len(seqs))
<1> DEFINE n == Len(seqs)
           F == FlatTo(seqs)
<1>1. n \in Nat /\ \A i \in 1..n : seqs[i] \in Seq(S)
  BY LenProperties, ElementOfSeq
<1>2. F = [i \in 1..n |-> IF i = 1 THEN seqs[i] ELSE F[i - 1] \o seqs[i]]
  <2>1. \E f : f = [i \in 1..n |-> IF i = 1 THEN seqs[i] ELSE f[i - 1] \o seqs[i]]
    BY <1>1, FlatExists
  <2> QED
    BY <2>1 DEF FlatTo
<1>3. Prefix(seqs, 0) = << >>
  BY DEF Prefix
<1>4. ASSUME NEW i \in 1..n PROVE Prefix(seqs, i) = Prefix(seqs, i - 1) \o seqs[i]
  <2>0. i # 0 /\ Prefix(seqs, i) = F[i]
    BY DEF Prefix
  <2> HIDE DEF F
  <2>1. F[i] = IF i = 1 THEN seqs[i] ELSE F[i - 1] \o seqs[i]
    BY <1>2
  <2>2. CASE i = 1
    BY <2>0, <2>1, <2>2, <1>1, <1>3, ConcatEmptySeq
  <2>3. CASE i # 1
    <3>1. i - 1 # 0
      BY <1>1, <2>3
    <3> QED
      BY <2>0, <2>1, <2>3, <3>1 DEF Prefix, F
  <2> QED
    BY <2>2, <2>3
<1>5. \A i \in 0..n : Prefix(seqs, i) \in Seq(S)
  <2> DEFINE T == {i \in 0..n : Prefix(seqs, i) \in Seq(S)}
  <2>1. 0 \in T
    <3>1. << >> \in Seq(S) /\ 0 \in 0..n
      BY <1>1, EmptySeq
    <3> QED
      BY <1>3, <3>1
  <2>2. \A i \in 0..(n - 1) : i \in T => i + 1 \in T
    <3> SUFFICES ASSUME NEW i \in 0..(n - 1), Prefix(seqs, i) \in Seq(S)
                 PROVE  i + 1 \in 0..n /\ Prefix(seqs, i + 1) \in Seq(S)
      OBVIOUS
    <3>1. i + 1 \in 1..n /\ (i + 1) - 1 = i
      BY <1>1
    <3>2. Prefix(seqs, i + 1) = Prefix(seqs, i) \o seqs[i + 1]
      BY <1>4, <3>1
    <3>3. seqs[i + 1] \in Seq(S)
      BY <1>1, <3>1
    <3>4. Prefix(seqs, i) \o seqs[i + 1] \in Seq(S)
      BY <3>3, ConcatProperties
    <3>5. i + 1 \in 0..n
      BY <1>1
    <3> QED
      BY <3>2, <3>4, <3>5
  <2> HIDE DEF T
  <2>3. \A i \in 0..n : i \in T
    BY <1>1, <2>1, <2>2, RangeInduction
  <2> QED
    BY <2>3 DEF T
<1>6. FlattenSeq(seqs) = Prefix(seqs, n)
  <2>1. CASE n = 0
    BY <2>1, EmptySeq DEF FlattenSeq, Prefix
  <2>2. CASE n # 0
    BY <2>2 DEF FlattenSeq, Prefix, FlatTo
  <2> QED
    BY <2>1, <2>2
<1> QED
  BY <1>3, <1>4, <1>5, <1>6

\* Nothing, one sequence more at the end, and one at the front.
LEMMA FlattenEmpty == FlattenSeq(<< >>) = << >>
BY EmptySeq DEF FlattenSeq

\* Concatenation is associative.
LEMMA Associative ==
    ASSUME NEW S
    PROVE  \A s, u, v \in Seq(S) : (s \o u) \o v = s \o (u \o v)
BY ConcatAssociative

\* A last element comes last.
LEMMA FlattenAppend ==
    ASSUME NEW S, NEW q \in Seq(Seq(S)), NEW e \in Seq(S)
    PROVE  FlattenSeq(Append(q, e)) = FlattenSeq(q) \o e
<1> DEFINE n == Len(q)
           r == Append(q, e)
<1>1. /\ n \in Nat /\ r \in Seq(Seq(S)) /\ Len(r) = n + 1
      /\ \A i \in 1..n : r[i] = q[i]
      /\ r[n + 1] = e
  BY LenProperties, AppendProperties
<1> HIDE DEF r
<1>2. /\ Prefix(q, 0) = << >> /\ Prefix(r, 0) = << >>
      /\ \A i \in 1..n : Prefix(q, i) = Prefix(q, i - 1) \o q[i]
      /\ \A i \in 1..(n + 1) : Prefix(r, i) = Prefix(r, i - 1) \o r[i]
      /\ FlattenSeq(q) = Prefix(q, n) /\ FlattenSeq(r) = Prefix(r, n + 1)
  BY <1>1, PrefixFacts
<1> DEFINE T == {i \in 0..n : Prefix(r, i) = Prefix(q, i)}
<1>3. 0 \in T
  BY <1>1, <1>2
<1>4. \A i \in 0..(n - 1) : i \in T => i + 1 \in T
  <2> SUFFICES ASSUME NEW i \in 0..(n - 1), Prefix(r, i) = Prefix(q, i)
               PROVE  i + 1 \in 0..n /\ Prefix(r, i + 1) = Prefix(q, i + 1)
    OBVIOUS
  <2>1. i + 1 \in 1..n /\ i + 1 \in 1..(n + 1) /\ (i + 1) - 1 = i
    BY <1>1
  <2> HIDE DEF n
  <2>2. Prefix(r, i + 1) = Prefix(r, i) \o r[i + 1] /\ Prefix(q, i + 1) = Prefix(q, i) \o q[i + 1]
    BY <1>2, <2>1
  <2>3. r[i + 1] = q[i + 1] /\ i + 1 \in 0..n
    BY <1>1, <2>1
  <2> QED
    BY <2>2, <2>3
<1>5. Prefix(r, n) = Prefix(q, n)
  <2> HIDE DEF T
  <2>1. \A i \in 0..n : i \in T
    BY <1>1, <1>3, <1>4, RangeInduction
  <2> QED
    BY <1>1, <2>1 DEF T
<1>6. Prefix(r, n + 1) = Prefix(r, n) \o e
  <2>1. n + 1 \in 1..(n + 1) /\ (n + 1) - 1 = n
    BY <1>1
  <2> HIDE DEF n
  <2> QED
    BY <1>1, <1>2, <2>1
<1> QED
  BY <1>2, <1>5, <1>6 DEF r

\* The first element comes first.
LEMMA FlattenHead ==
    ASSUME NEW S, NEW q \in Seq(Seq(S)), q # << >>
    PROVE  /\ Head(q) \in Seq(S) /\ Tail(q) \in Seq(Seq(S))
           /\ FlattenSeq(Tail(q)) \in Seq(S)
           /\ FlattenSeq(q) = Head(q) \o FlattenSeq(Tail(q))
<1> DEFINE n == Len(Tail(q))
           r == Tail(q)
           h == Head(q)
<1>0. \A s, u, v \in Seq(S) : (s \o u) \o v = s \o (u \o v)
  BY Associative
<1>1. /\ n \in Nat /\ r \in Seq(Seq(S)) /\ Len(q) = n + 1
      /\ \A i \in 1..n : r[i] = q[i + 1] /\ r[i] \in Seq(S)
      /\ h = q[1] /\ h \in Seq(S)
  <2>1. Tail(q) \in Seq(Seq(S)) /\ Head(q) \in Seq(S) /\ Len(Tail(q)) = Len(q) - 1
        /\ \A i \in 1..Len(Tail(q)) : Tail(q)[i] = q[i + 1]
    BY HeadTailProperties
  <2>2. Len(q) \in Nat \ {0} /\ Len(Tail(q)) \in Nat
    BY <2>1, EmptySeq, LenProperties
  <2>3. \A i \in 1..n : r[i] \in Seq(S)
    BY <2>1, ElementOfSeq
  <2>4. h = q[1]
    OBVIOUS
  <2> QED
    BY <2>1, <2>2, <2>3, <2>4
<1> HIDE DEF r, n, h
<1>2. /\ Prefix(q, 0) = << >> /\ Prefix(r, 0) = << >>
      /\ \A i \in 1..n : Prefix(r, i) = Prefix(r, i - 1) \o r[i]
      /\ \A i \in 0..n : Prefix(r, i) \in Seq(S)
      /\ \A i \in 1..(n + 1) : Prefix(q, i) = Prefix(q, i - 1) \o q[i]
      /\ FlattenSeq(r) = Prefix(r, n) /\ FlattenSeq(q) = Prefix(q, n + 1)
  <2>1. Len(r) = n
    BY DEF r, n
  <2>2. /\ Prefix(r, 0) = << >>
        /\ \A i \in 1..Len(r) : Prefix(r, i) = Prefix(r, i - 1) \o r[i]
        /\ \A i \in 0..Len(r) : Prefix(r, i) \in Seq(S)
        /\ FlattenSeq(r) = Prefix(r, Len(r))
    BY <1>1, PrefixFacts
  <2>3. /\ Prefix(q, 0) = << >>
        /\ \A i \in 1..Len(q) : Prefix(q, i) = Prefix(q, i - 1) \o q[i]
        /\ FlattenSeq(q) = Prefix(q, Len(q))
    BY PrefixFacts
  <2> QED
    BY <1>1, <2>1, <2>2, <2>3
<1> DEFINE T == {i \in 0..n : Prefix(q, i + 1) = h \o Prefix(r, i)}
<1>3. 0 \in T
  <2>1. 1 \in 1..(n + 1) /\ 1 - 1 = 0 /\ 0 \in 0..n /\ 0 + 1 = 1
    BY <1>1
  <2>2. Prefix(q, 1) = << >> \o q[1]
    BY <1>2, <2>1
  <2>3. Prefix(q, 1) = h \o << >>
    BY <1>1, <2>2, ConcatEmptySeq
  <2> QED
    BY <1>2, <2>1, <2>3
<1>4. \A i \in 0..(n - 1) : i \in T => i + 1 \in T
  <2> SUFFICES ASSUME NEW i \in 0..(n - 1), Prefix(q, i + 1) = h \o Prefix(r, i)
               PROVE  i + 1 \in 0..n /\ Prefix(q, (i + 1) + 1) = h \o Prefix(r, i + 1)
    OBVIOUS
  <2>1. /\ i + 1 \in 1..n /\ (i + 1) + 1 \in 1..(n + 1)
        /\ (i + 1) - 1 = i /\ ((i + 1) + 1) - 1 = i + 1 /\ i \in 0..n /\ i + 1 \in 0..n
    BY <1>1
  <2>2. /\ Prefix(r, i + 1) = Prefix(r, i) \o r[i + 1]
        /\ Prefix(q, (i + 1) + 1) = Prefix(q, i + 1) \o q[(i + 1) + 1]
        /\ Prefix(r, i) \in Seq(S)
    BY <1>2, <2>1
  <2>3. q[(i + 1) + 1] = r[i + 1] /\ r[i + 1] \in Seq(S)
    BY <1>1, <2>1
  <2>4. (h \o Prefix(r, i)) \o r[i + 1] = h \o (Prefix(r, i) \o r[i + 1])
    <3>1. h \in Seq(S) /\ Prefix(r, i) \in Seq(S) /\ r[i + 1] \in Seq(S)
      BY <1>1, <2>2, <2>3
    <3> QED
      BY <1>0, <3>1
  <2> QED
    BY <2>1, <2>2, <2>3, <2>4
<1>5. Prefix(q, n + 1) = h \o Prefix(r, n)
  <2> HIDE DEF T
  <2>1. \A i \in 0..n : i \in T
    BY <1>1, <1>3, <1>4, RangeInduction
  <2> QED
    BY <1>1, <2>1 DEF T
<1>6. Prefix(r, n) \in Seq(S)
  BY <1>1, <1>2
<1> QED
  BY <1>1, <1>2, <1>5, <1>6 DEF r, h

-----------------------------------------------------------------------------
(***************************************************************************)
(* Parts of a body.                                                        *)
(***************************************************************************)

\* The bytes s are in b behind the first o.
Holds(b, o, s) == o + Len(s) <= Len(b) /\ \A i \in 1..Len(s) : b[o + i] = s[i]

\* A part of a part, and both parts of a concatenation.
LEMMA HoldsPart ==
    ASSUME NEW S, NEW b \in Seq(S), NEW s \in Seq(S), NEW u \in Seq(S),
           NEW o \in Nat, NEW k \in Nat,
           Holds(b, o, s), Holds(s, k, u)
    PROVE  Holds(b, o + k, u)
<1>1. Len(b) \in Nat /\ Len(s) \in Nat /\ Len(u) \in Nat
  BY LenProperties
<1>2. (o + k) + Len(u) <= Len(b)
  BY <1>1 DEF Holds
<1>3. ASSUME NEW i \in 1..Len(u) PROVE b[(o + k) + i] = u[i]
  <2>1. k + i \in 1..Len(s) /\ o + (k + i) = (o + k) + i
    BY <1>1 DEF Holds
  <2> QED
    BY <2>1 DEF Holds
<1> QED
  BY <1>2, <1>3 DEF Holds

\* A concatenation holds both its parts.
LEMMA HoldsConcat ==
    ASSUME NEW S, NEW s \in Seq(S), NEW u \in Seq(S)
    PROVE  Holds(s \o u, 0, s) /\ Holds(s \o u, Len(s), u)
<1>1. Len(s) \in Nat /\ Len(u) \in Nat /\ Len(s \o u) = Len(s) + Len(u)
  BY LenProperties, ConcatProperties
<1>2. \A i \in 1..(Len(s) + Len(u)) : (s \o u)[i] = IF i <= Len(s) THEN s[i] ELSE u[i - Len(s)]
  BY ConcatProperties
<1> DEFINE m == Len(s)
           n == Len(u)
<1> HIDE DEF m, n
<1>3. /\ m \in Nat /\ n \in Nat /\ Len(s \o u) = m + n
      /\ \A i \in 1..(m + n) : (s \o u)[i] = IF i <= m THEN s[i] ELSE u[i - m]
  BY <1>1, <1>2 DEF m, n
<1>4. \A i \in 1..m : (s \o u)[0 + i] = s[i]
  BY <1>3
<1>5. \A i \in 1..n : (s \o u)[m + i] = u[i]
  <2> TAKE i \in 1..n
  <2>1. m + i \in 1..(m + n) /\ ~ (m + i <= m) /\ (m + i) - m = i
    BY <1>3
  <2> QED
    BY <1>3, <2>1
<1> QED
  BY <1>1, <1>4, <1>5 DEF Holds, m, n

\* Where a concatenation has its sequences.
LEMMA PrefixHolds ==
    ASSUME NEW S, NEW seqs \in Seq(Seq(S)), NEW i \in 1..Len(seqs)
    PROVE  /\ Len(Prefix(seqs, i - 1)) \in Nat /\ Len(Prefix(seqs, i)) \in Nat
           /\ Len(Prefix(seqs, i)) = Len(Prefix(seqs, i - 1)) + Len(seqs[i])
           /\ Len(Prefix(seqs, i)) <= Len(FlattenSeq(seqs))
           /\ Holds(FlattenSeq(seqs), Len(Prefix(seqs, i - 1)), seqs[i])
<1> DEFINE n == Len(seqs)
<1>1. n \in Nat /\ seqs[i] \in Seq(S) /\ i - 1 \in 0..n /\ i \in 0..n /\ i \in 1..n
  BY LenProperties, ElementOfSeq
<1>2. /\ \A j \in 1..n : Prefix(seqs, j) = Prefix(seqs, j - 1) \o seqs[j]
      /\ \A j \in 0..n : Prefix(seqs, j) \in Seq(S) /\ Len(Prefix(seqs, j)) \in Nat
      /\ FlattenSeq(seqs) = Prefix(seqs, n)
  BY PrefixFacts, LenProperties
<1>3. /\ Len(Prefix(seqs, i - 1)) \in Nat /\ Len(Prefix(seqs, i)) \in Nat /\ Len(seqs[i]) \in Nat
      /\ Prefix(seqs, i - 1) \in Seq(S) /\ Prefix(seqs, i) \in Seq(S)
      /\ Prefix(seqs, i) = Prefix(seqs, i - 1) \o seqs[i]
  BY <1>1, <1>2, LenProperties
<1>4. Len(Prefix(seqs, i)) = Len(Prefix(seqs, i - 1)) + Len(seqs[i])
  BY <1>1, <1>3, ConcatProperties
<1>5. Holds(Prefix(seqs, i), Len(Prefix(seqs, i - 1)), seqs[i])
  BY <1>1, <1>3, HoldsConcat
<1> DEFINE T == {j \in 0..n : i <= j => Holds(Prefix(seqs, j), 0, Prefix(seqs, i))}
<1>6. 0 \in T
  BY <1>1
<1>7. \A j \in 0..(n - 1) : j \in T => j + 1 \in T
  <2> SUFFICES ASSUME NEW j \in 0..(n - 1), j \in T, i <= j + 1
               PROVE  j + 1 \in 0..n /\ Holds(Prefix(seqs, j + 1), 0, Prefix(seqs, i))
    BY <1>1
  <2>1. j + 1 \in 0..n /\ j + 1 \in 1..n /\ j \in 0..n /\ (j + 1) - 1 = j
    BY <1>1
  <2>2. CASE i = j + 1
    <3>1. \A k \in 1..Len(Prefix(seqs, i)) : Prefix(seqs, i)[0 + k] = Prefix(seqs, i)[k]
      BY <1>3
    <3> QED
      BY <1>3, <2>1, <2>2, <3>1 DEF Holds
  <2>3. CASE i <= j
    <3>1. Holds(Prefix(seqs, j), 0, Prefix(seqs, i))
      BY <2>3
    <3>2. /\ Prefix(seqs, j + 1) = Prefix(seqs, j) \o seqs[j + 1]
          /\ Prefix(seqs, j) \in Seq(S) /\ Prefix(seqs, j + 1) \in Seq(S)
      BY <1>2, <2>1
    <3>3. seqs[j + 1] \in Seq(S)
      BY <2>1, ElementOfSeq
    <3>4. Holds(Prefix(seqs, j + 1), 0, Prefix(seqs, j))
      BY <3>2, <3>3, HoldsConcat
    <3>5. Holds(Prefix(seqs, j + 1), 0 + 0, Prefix(seqs, i))
      BY <1>3, <3>1, <3>2, <3>4, HoldsPart
    <3> QED
      BY <2>1, <3>5
  <2> QED
    BY <1>1, <2>1, <2>2, <2>3
<1>8. Holds(Prefix(seqs, n), 0, Prefix(seqs, i))
  <2> HIDE DEF T
  <2>1. \A j \in 0..n : j \in T
    BY <1>1, <1>6, <1>7, RangeInduction
  <2>2. n \in T /\ i <= n
    BY <1>1, <2>1
  <2> QED
    BY <2>2 DEF T
<1>9. Prefix(seqs, n) \in Seq(S) /\ Len(Prefix(seqs, n)) \in Nat
  BY <1>1, <1>2
<1>10. Holds(Prefix(seqs, n), 0 + Len(Prefix(seqs, i - 1)), seqs[i])
  BY <1>1, <1>3, <1>5, <1>8, <1>9, HoldsPart
<1>11. Len(Prefix(seqs, i)) <= Len(Prefix(seqs, n))
  <2> DEFINE k == Len(Prefix(seqs, i))
             m == Len(Prefix(seqs, n))
  <2>1. 0 + k <= m /\ k \in Nat /\ m \in Nat
    BY <1>3, <1>8, <1>9 DEF Holds
  <2> HIDE DEF k, m
  <2>2. k <= m
    BY <2>1
  <2> QED
    BY <2>2 DEF k, m
<1> QED
  <2>1. 0 + Len(Prefix(seqs, i - 1)) = Len(Prefix(seqs, i - 1))
    BY <1>3
  <2>2. Holds(FlattenSeq(seqs), Len(Prefix(seqs, i - 1)), seqs[i])
    BY <1>2, <1>10, <2>1
  <2> HIDE DEF n
  <2> QED
    BY <1>2, <1>3, <1>4, <1>11, <2>2

-----------------------------------------------------------------------------
(***************************************************************************)
(* Integers.                                                               *)
(***************************************************************************)

\* What a uint32_t counts to, and that the numbers of the types fit.
LEMMA WordFacts ==
    /\ Radix \in Nat /\ Radix > 2 /\ Word \in Nat /\ Word > 18
    /\ Word * Word \in Nat
    /\ Word = Radix * (Radix * (Radix * Radix))
<1>1. Radix \in Nat /\ Radix > 2
  BY RadixAssumption
<1>2. PICK s \in Nat : s = Radix * Radix
  BY <1>1
<1>3. s >= 9
  <2>1. Radix * Radix >= 3 * Radix
    BY <1>1
  <2> QED
    BY <1>1, <1>2, <2>1
<1>4. s * s >= 9 * s
  BY <1>3
<1>5. Word = s * s /\ Word = Radix * (Radix * (Radix * Radix))
  <2>1. ((Radix * Radix) * Radix) * Radix = (Radix * Radix) * (Radix * Radix)
    BY <1>1
  <2>2. ((Radix * Radix) * Radix) * Radix = Radix * (Radix * (Radix * Radix))
    BY <1>1
  <2> QED
    BY <1>2, <2>1, <2>2 DEF Word
<1>6. Word \in Nat /\ Word > 18
  BY <1>3, <1>4, <1>5
<1>7. Word * Word \in Nat
  BY <1>6
<1> QED
  BY <1>1, <1>5, <1>6, <1>7

\* Division by a positive number.
LEMMA DivMod ==
    ASSUME NEW m \in Nat, m > 0, NEW v \in Int
    PROVE  /\ v \div m \in Int /\ v % m \in 0..(m - 1)
           /\ v = m * (v \div m) + (v % m)
OBVIOUS

\* The quotient is the only one.
LEMMA QuotientUnique ==
    ASSUME NEW m \in Nat, NEW p \in Int, NEW q \in Int, NEW r \in 0..(m - 1), NEW s \in 0..(m - 1),
           m * p + r = m * q + s
    PROVE  p = q /\ r = s
<1>1. m \in Int /\ m > 0 /\ r \in Int /\ s \in Int /\ 0 <= r /\ r < m /\ 0 <= s /\ s < m
  OBVIOUS
<1>2. m * (p - q) = s - r
  <2>1. m * (p - q) = m * p - m * q
    BY <1>1
  <2>2. m * p \in Int /\ m * q \in Int
    BY <1>1
  <2> QED
    BY <1>1, <2>1, <2>2
<1>3. PICK d \in Int : d = p - q
  OBVIOUS
<1>4. ~ (d >= 1)
  <2> SUFFICES ASSUME d >= 1 PROVE FALSE
    OBVIOUS
  <2>1. m * d >= m
    BY <1>1
  <2> QED
    BY <1>1, <1>2, <1>3, <2>1
<1>5. ~ (d <= -1)
  <2> SUFFICES ASSUME d <= -1 PROVE FALSE
    OBVIOUS
  <2>1. m * d <= -m
    BY <1>1
  <2> QED
    BY <1>1, <1>2, <1>3, <2>1
<1>6. d = 0
  BY <1>4, <1>5
<1>7. p = q
  BY <1>3, <1>6
<1> QED
  BY <1>1, <1>7

\* Four bytes are a number below Word.
LEMMA NumberInWord ==
    ASSUME NEW b, \A i \in 1..4 : b[i] \in Byte
    PROVE  Number(b) \in 0..(Word - 1)
<1>1. Radix \in Nat /\ Radix > 2 /\ Word = Radix * (Radix * (Radix * Radix))
  BY WordFacts
<1>2. /\ b[1] \in 0..(Radix - 1) /\ b[2] \in 0..(Radix - 1)
      /\ b[3] \in 0..(Radix - 1) /\ b[4] \in 0..(Radix - 1)
  BY DEF Byte
<1>3. \A m \in Nat, x \in Nat, y \in 0..(Radix - 1) :
          x <= m - 1 => x * Radix + y \in Nat /\ x * Radix + y <= Radix * m - 1
  <2> SUFFICES ASSUME NEW m \in Nat, NEW x \in Nat, NEW y \in 0..(Radix - 1), x <= m - 1
               PROVE  x * Radix + y \in Nat /\ x * Radix + y <= Radix * m - 1
    OBVIOUS
  <2>1. PICK k \in Nat : m = x + 1 + k
    <3>1. m - 1 - x \in Nat /\ m = x + 1 + (m - 1 - x)
      OBVIOUS
    <3> QED
      BY <3>1
  <2>2. Radix * m = Radix * x + Radix + Radix * k
    BY <1>1, <2>1
  <2>3. Radix * x \in Nat /\ Radix * k \in Nat /\ x * Radix = Radix * x
    BY <1>1
  <2> QED
    BY <1>1, <2>2, <2>3
<1>4. b[1] * Radix + b[2] \in Nat /\ b[1] * Radix + b[2] <= Radix * Radix - 1
  BY <1>1, <1>2, <1>3
<1>5. PICK x \in Nat : x = b[1] * Radix + b[2] /\ x <= Radix * Radix - 1
  BY <1>4
<1>6. PICK m \in Nat : m = Radix * Radix
  BY <1>1
<1>7. x * Radix + b[3] \in Nat /\ x * Radix + b[3] <= Radix * m - 1
  BY <1>2, <1>3, <1>5, <1>6
<1>8. PICK y \in Nat, k \in Nat : y = x * Radix + b[3] /\ k = Radix * m
  BY <1>1, <1>7
<1>9. y * Radix + b[4] \in Nat /\ y * Radix + b[4] <= Radix * k - 1
  BY <1>2, <1>3, <1>7, <1>8
<1>10. Number(b) = y * Radix + b[4] /\ Word = Radix * k
  BY <1>1, <1>5, <1>6, <1>8 DEF Number
<1> QED
  BY <1>9, <1>10, WordFacts

\* pack_ui32 writes a number up to a multiple of Word, and what fits exactly.
LEMMA Packed32 ==
    ASSUME NEW v \in Int
    PROVE  /\ pack_ui32(v) \in Seq(Byte) /\ Len(pack_ui32(v)) = 4
           /\ Number(pack_ui32(v)) \in 0..(Word - 1)
           /\ \E q \in Int : v = Word * q + Number(pack_ui32(v))
           /\ v \in 0..(Word - 1) => Number(pack_ui32(v)) = v
<1> DEFINE v1 == v \div Radix
           v2 == v1 \div Radix
           v3 == v2 \div Radix
           v4 == v3 \div Radix
           d1 == v3 % Radix
           d2 == v2 % Radix
           d3 == v1 % Radix
           d4 == v % Radix
           p == pack_ui32(v)
<1>1. Radix \in Nat /\ Radix > 0 /\ Word = Radix * (Radix * (Radix * Radix)) /\ Word \in Nat
  BY WordFacts
<1>2. v1 \in Int /\ d4 \in 0..(Radix - 1) /\ v = Radix * v1 + d4
  BY <1>1, DivMod
<1>3. v2 \in Int /\ d3 \in 0..(Radix - 1) /\ v1 = Radix * v2 + d3
  <2> HIDE DEF v1
  <2> QED
    BY <1>1, <1>2, DivMod
<1>4. v3 \in Int /\ d2 \in 0..(Radix - 1) /\ v2 = Radix * v3 + d2
  <2> HIDE DEF v2
  <2> QED
    BY <1>1, <1>3, DivMod
<1>5. v4 \in Int /\ d1 \in 0..(Radix - 1) /\ v3 = Radix * v4 + d1
  <2> HIDE DEF v3
  <2> QED
    BY <1>1, <1>4, DivMod
<1>6. p = <<d1, d2, d3, d4>>
  BY DEF pack_ui32
<1> HIDE DEF v1, v2, v3, v4, d1, d2, d3, d4, p
<1>7. p \in Seq(Byte) /\ Len(p) = 4 /\ p[1] = d1 /\ p[2] = d2 /\ p[3] = d3 /\ p[4] = d4
  BY <1>2, <1>3, <1>4, <1>5, <1>6 DEF Byte
<1>8. Number(p) \in 0..(Word - 1)
  <2>1. \A i \in 1..4 : p[i] \in Byte
    BY <1>2, <1>3, <1>4, <1>5, <1>7 DEF Byte
  <2> QED
    BY <2>1, NumberInWord
<1>9. v = Word * v4 + Number(p)
  <2>1. d1 \in Int /\ d2 \in Int /\ d3 \in Int /\ d4 \in Int /\ Radix \in Int
    BY <1>1, <1>2, <1>3, <1>4, <1>5
  <2>2. d1 * Radix + d2 = v2 - Radix * Radix * v4
    BY <1>4, <1>5, <2>1
  <2>3. PICK x \in Int, a \in Int : x = d1 * Radix + d2 /\ a = Radix * Radix * v4
    BY <1>5, <2>1
  <2>4. x * Radix + d3 = v1 - Radix * a
    <3>1. x = v2 - a
      BY <2>2, <2>3
    <3>2. x * Radix = Radix * v2 - Radix * a
      BY <1>3, <2>1, <2>3, <3>1
    <3>3. Radix * v2 \in Int /\ Radix * a \in Int
      BY <1>3, <2>1, <2>3
    <3> QED
      BY <1>3, <2>1, <3>2, <3>3
  <2>5. PICK y \in Int, c \in Int : y = x * Radix + d3 /\ c = Radix * a
    BY <2>1, <2>3
  <2>6. y * Radix + d4 = v - Radix * c
    BY <1>2, <2>1, <2>4, <2>5
  <2>7. Number(p) = y * Radix + d4
    BY <1>7, <2>3, <2>5 DEF Number
  <2>8. Radix * c = Word * v4
    BY <1>1, <1>5, <2>1, <2>3, <2>5
  <2>9. Word * v4 \in Int
    BY <1>1, <1>5
  <2> QED
    BY <2>1, <2>6, <2>7, <2>8, <2>9
<1>10. ASSUME v \in 0..(Word - 1) PROVE Number(p) = v
  <2>1. Word * 0 + v = Word * v4 + Number(p)
    BY <1>1, <1>9
  <2> QED
    BY <1>1, <1>5, <1>8, <1>10, <2>1, QuotientUnique
<1> QED
  BY <1>5, <1>7, <1>8, <1>9, <1>10 DEF p

\* Both halves of an int64_t.
Number64(b) == Number(b) * Word + Number([i \in 1..4 |-> b[4 + i]])

\* pack_i64 writes the two's complement of a value, from which Signed finds it.
LEMMA Packed64 ==
    ASSUME NEW v \in Int64
    PROVE  /\ pack_i64(v) \in Seq(Byte) /\ Len(pack_i64(v)) = 8
           /\ Signed(Number64(pack_i64(v))) = v
<1> DEFINE h == v \div Word
           p == pack_ui32(h)
           l == pack_ui32(v)
           s == p \o l
           W == Word * Word
           half == W \div 2
<1>1. Word \in Nat /\ Word > 0 /\ W \in Nat /\ half \in Nat /\ 2 * half <= W
  <2>1. Word \in Nat /\ Word > 0 /\ W \in Nat
    BY WordFacts
  <2> HIDE DEF W
  <2> QED
    BY <2>1
<1>2. v \in Int /\ -half <= v /\ v < half
  <2>1. v \in (-half)..(half - 1)
    BY DEF Int64
  <2> HIDE DEF half
  <2> QED
    BY <1>1, <2>1
<1>3. h \in Int /\ v % Word \in 0..(Word - 1) /\ v = Word * h + (v % Word)
  BY <1>1, <1>2, DivMod
<1> HIDE DEF h
<1>4. /\ p \in Seq(Byte) /\ Len(p) = 4 /\ Number(p) \in 0..(Word - 1)
      /\ \E q \in Int : h = Word * q + Number(p)
  BY <1>3, Packed32
<1>5. /\ l \in Seq(Byte) /\ Len(l) = 4 /\ Number(l) \in 0..(Word - 1)
      /\ \E q \in Int : v = Word * q + Number(l)
  BY <1>2, Packed32
<1> HIDE DEF p, l
<1>6. PICK q2 \in Int : h = Word * q2 + Number(p)
  BY <1>4
<1>7. v = Word * h + Number(l)
  <2>1. PICK q \in Int : v = Word * q + Number(l)
    BY <1>5
  <2>2. PICK r \in 0..(Word - 1), k \in 0..(Word - 1) : r = v % Word /\ k = Number(l)
    BY <1>3, <1>5
  <2>3. Word * h + r = Word * q + k
    BY <1>3, <2>1, <2>2
  <2>4. q = h
    BY <1>1, <1>3, <2>1, <2>3, QuotientUnique
  <2> QED
    BY <2>1, <2>4
<1>8. /\ s \in Seq(Byte) /\ Len(s) = 8
      /\ \A i \in 1..8 : s[i] = IF i <= 4 THEN p[i] ELSE l[i - 4]
  <2>1. /\ s \in Seq(Byte) /\ Len(s) = Len(p) + Len(l)
        /\ \A i \in 1..(Len(p) + Len(l)) : s[i] = IF i <= Len(p) THEN p[i] ELSE l[i - Len(p)]
    BY <1>4, <1>5, ConcatProperties
  <2>2. Len(p) + Len(l) = 8 /\ Len(p) = 4
    BY <1>4, <1>5
  <2> HIDE DEF s
  <2> QED
    BY <2>1, <2>2
<1> DEFINE N == Number(p) * Word + Number(l)
<1>9. Number64(s) = N
  <2> HIDE DEF s
  <2>1. s[1] = p[1] /\ s[2] = p[2] /\ s[3] = p[3] /\ s[4] = p[4]
    BY <1>8
  <2>2. Number(s) = Number(p)
    BY <2>1 DEF Number
  <2>3. s[4 + 1] = l[1] /\ s[4 + 2] = l[2] /\ s[4 + 3] = l[3] /\ s[4 + 4] = l[4]
    BY <1>8
  <2>4. Number([i \in 1..4 |-> s[4 + i]]) = Number(l)
    BY <2>3 DEF Number
  <2> QED
    BY <2>2, <2>4 DEF Number64
<1>10. N \in 0..(W - 1) /\ v = W * q2 + N
  <2>1. PICK a \in 0..(Word - 1), b \in 0..(Word - 1) : a = Number(p) /\ b = Number(l)
    BY <1>4, <1>5
  <2>2. a * Word + b \in Nat
    BY <1>1
  <2>3. a * Word <= (Word - 1) * Word
    BY <1>1
  <2>4. (Word - 1) * Word = W - Word
    BY <1>1
  <2>5. a * Word + b <= W - 1
    <3>1. a * Word \in Nat
      BY <1>1
    <3> HIDE DEF W
    <3> QED
      BY <1>1, <2>3, <2>4, <3>1
  <2>6. Word * h = W * q2 + Word * a
    BY <1>1, <1>6, <2>1
  <2>7. v = W * q2 + (a * Word + b)
    <3>1. W * q2 \in Int /\ Word * a = a * Word /\ a * Word \in Int
      BY <1>1
    <3> HIDE DEF W
    <3> QED
      BY <1>7, <2>1, <2>6, <3>1
  <2> HIDE DEF W
  <2> QED
    BY <1>1, <2>1, <2>2, <2>5, <2>7
<1> HIDE DEF W, N, half, s
<1>11. Signed(N) = IF N >= half THEN N - W ELSE N
  BY DEF Signed, W, half
<1>12. N \in Int /\ 0 <= N /\ N < W
  BY <1>1, <1>10
<1>13. CASE v >= 0
  <2>1. v \in 0..(W - 1) /\ W * 0 + v = W * q2 + N
    BY <1>1, <1>2, <1>10, <1>13
  <2>2. v = N
    BY <1>1, <1>10, <2>1, QuotientUnique
  <2> QED
    BY <1>1, <1>2, <1>8, <1>9, <1>11, <1>12, <2>2 DEF pack_i64, s, p, l, h
<1>14. CASE v < 0
  <2>1. v + W \in 0..(W - 1) /\ W * (-1) + (v + W) = W * q2 + N
    BY <1>1, <1>2, <1>10, <1>14
  <2>2. v + W = N
    BY <1>1, <1>10, <2>1, QuotientUnique
  <2>3. N >= half /\ N - W = v
    BY <1>1, <1>2, <2>2
  <2> QED
    BY <1>1, <1>2, <1>8, <1>9, <1>11, <1>12, <2>3 DEF pack_i64, s, p, l, h
<1> QED
  BY <1>2, <1>13, <1>14

-----------------------------------------------------------------------------
(***************************************************************************)
(* What was written is read.                                               *)
(***************************************************************************)

\* The fields of a reader.
LEMMA ReadingFacts ==
    \A vals, o : /\ Reading(vals, o).values = vals /\ Reading(vals, o).offset = o
                 /\ Reading(vals, o).failed = FALSE
BY DEF Reading

\* A reader that takes a value.
LEMMA TookFacts ==
    \A vals, o, n, v : Took(Reading(vals, o), n, v) = Reading(Append(vals, v), o + n)
BY DEF Reading, Took

\* The bytes at the offset.
LEMMA AtFinds ==
    ASSUME NEW body \in Seq(Byte), NEW s \in Seq(Byte), NEW o \in Nat, NEW junk, Holds(body, o, s)
    PROVE  At(body, o, Len(s), junk) = s
<1>1. Len(body) \in Nat /\ Len(s) \in Nat /\ s = [i \in 1..Len(s) |-> s[i]]
  BY LenProperties
<1>2. \A i \in 1..Len(s) : o + i <= Len(body) /\ body[o + i] = s[i]
  BY <1>1 DEF Holds
<1> QED
  BY <1>1, <1>2 DEF At

\* A number that was packed is read back.
LEMMA ReadNumber ==
    ASSUME NEW body \in Seq(Byte), NEW v \in 0..(Word - 1), NEW o \in Nat, NEW junk,
           Holds(body, o, pack_ui32(v))
    PROVE  Number(At(body, o, 4, junk)) = v /\ o + 4 <= Len(body)
<1>1. v \in Int /\ Len(body) \in Nat
  BY WordFacts, LenProperties
<1>2. pack_ui32(v) \in Seq(Byte) /\ Len(pack_ui32(v)) = 4 /\ Number(pack_ui32(v)) = v
  BY <1>1, Packed32
<1>3. At(body, o, 4, junk) = pack_ui32(v)
  BY <1>2, AtFinds
<1>4. o + 4 <= Len(body)
  BY <1>2 DEF Holds
<1> QED
  BY <1>2, <1>3, <1>4

\* A text is written with its length and read with it.
LEMMA PackFacts ==
    ASSUME NEW s \in Text
    PROVE  /\ Len(s) \in 0..(Word - 1) /\ Len(s) \in Int /\ s \in Seq(Byte)
           /\ pack_ui32(Len(s)) \in Seq(Byte) /\ Len(pack_ui32(Len(s))) = 4
           /\ pack(s) \in Seq(Byte) /\ Len(pack(s)) = 4 + Len(s)
           /\ Holds(pack(s), 0, pack_ui32(Len(s))) /\ Holds(pack(s), 4, s)
<1>1. s \in Seq(Byte) /\ Len(s) \in Nat /\ Len(s) < Word
  BY LenProperties DEF Text
<1>2. Len(s) \in 0..(Word - 1) /\ Len(s) \in Int
  BY <1>1, WordFacts
<1>3. pack_ui32(Len(s)) \in Seq(Byte) /\ Len(pack_ui32(Len(s))) = 4
  BY <1>2, Packed32
<1>4. pack(s) \in Seq(Byte) /\ Len(pack(s)) = 4 + Len(s)
  <2> DEFINE a == pack_ui32(Len(s))
  <2>1. a \in Seq(Byte) /\ s \in Seq(Byte) /\ Len(a) = 4
    BY <1>1, <1>3
  <2>2. pack(s) = a \o s
    BY DEF pack
  <2> HIDE DEF a
  <2>3. a \o s \in Seq(Byte) /\ Len(a \o s) = Len(a) + Len(s)
    BY <2>1, ConcatProperties
  <2> QED
    BY <2>1, <2>2, <2>3
<1>5. Holds(pack(s), 0, pack_ui32(Len(s))) /\ Holds(pack(s), 4, s)
  <2>1. Holds(pack_ui32(Len(s)) \o s, 0, pack_ui32(Len(s)))
        /\ Holds(pack_ui32(Len(s)) \o s, Len(pack_ui32(Len(s))), s)
    BY <1>1, <1>3, HoldsConcat
  <2> QED
    BY <1>3, <2>1 DEF pack
<1> QED
  BY <1>1, <1>2, <1>3, <1>4, <1>5

\* A text that was packed is read back (unpack and its two bounds checks).
LEMMA ReadText ==
    ASSUME NEW body \in Seq(Byte), NEW s \in Text, NEW vals, NEW o \in Nat, Holds(body, o, pack(s))
    PROVE  LET rd == Reading(vals, o)
           IN  /\ ~ TooShort(rd, body)
               /\ Number(At(body, rd.offset, 4, 0)) = Len(s)
               /\ Packed(rd, body) = s
               /\ unpack(rd, body) = Reading(Append(vals, s), o + (4 + Len(s)))
<1> DEFINE rd == Reading(vals, o)
           l == Number(At(body, rd.offset, 4, 0))
<1>1. /\ Len(s) \in 0..(Word - 1) /\ Len(s) \in Nat /\ s \in Seq(Byte)
      /\ pack_ui32(Len(s)) \in Seq(Byte)
      /\ pack(s) \in Seq(Byte) /\ Len(pack(s)) = 4 + Len(s)
      /\ Holds(pack(s), 0, pack_ui32(Len(s))) /\ Holds(pack(s), 4, s)
  BY PackFacts
<1>2. rd.offset = o /\ o + 4 \in Nat
      /\ Took(rd, 4 + Len(s), s) = Reading(Append(vals, s), o + (4 + Len(s)))
  <2>1. o + 4 \in Nat
    OBVIOUS
  <2>2. rd.offset = o
    BY ReadingFacts
  <2>3. Took(rd, 4 + Len(s), s) = Reading(Append(vals, s), o + (4 + Len(s)))
    BY TookFacts
  <2> QED
    BY <2>1, <2>2, <2>3
<1>3. Holds(body, o + 0, pack_ui32(Len(s))) /\ Holds(body, o + 4, s)
  BY <1>1, HoldsPart
<1>4. o + 0 = o
  OBVIOUS
<1> HIDE DEF rd
<1>5. l = Len(s) /\ ~ Beyond(rd, body, 4)
  <2>1. Number(At(body, o, 4, 0)) = Len(s) /\ o + 4 <= Len(body)
    BY <1>1, <1>3, <1>4, ReadNumber
  <2>2. Len(body) \in Nat
    BY LenProperties
  <2> QED
    BY <1>2, <2>1, <2>2 DEF Beyond
<1>6. ~ Beyond(rd, body, 4 + Len(s))
  <2>1. o + (4 + Len(s)) <= Len(body)
    BY <1>1 DEF Holds
  <2>2. Len(body) \in Nat
    BY LenProperties
  <2> QED
    BY <1>1, <1>2, <2>1, <2>2 DEF Beyond
<1>7. ~ TooShort(rd, body)
  BY <1>5, <1>6 DEF TooShort
<1>8. Packed(rd, body) = s
  <2>1. At(body, o + 4, Len(s), 0) = s
    BY <1>1, <1>2, <1>3, AtFinds
  <2> QED
    BY <1>2, <1>5, <2>1 DEF Packed
<1>9. unpack(rd, body) = Took(rd, 4 + Len(s), s)
  BY <1>5, <1>7, <1>8 DEF unpack
<1> QED
  BY <1>2, <1>5, <1>7, <1>8, <1>9 DEF rd

PlainKind == {"string", "int64", "error"}

\* The bytes of a value without elements.
LEMMA PlainBytes ==
    ASSUME NEW kind \in PlainKind, NEW v \in Values(kind)
    PROVE  /\ SerializePlain(kind, v) \in Seq(Byte)
           /\ Len(SerializePlain(kind, v)) \in Nat /\ Len(SerializePlain(kind, v)) >= 4
<1>1. CASE kind = "string"
  <2>1. v \in Text /\ SerializePlain(kind, v) = pack(v)
    BY <1>1 DEF Values, SerializePlain
  <2> QED
    BY <2>1, PackFacts
<1>2. CASE kind = "int64"
  <2>1. v \in Int64 /\ SerializePlain(kind, v) = pack_i64(v)
    BY <1>2 DEF Values, SerializePlain
  <2>2. pack_i64(v) \in Seq(Byte) /\ Len(pack_i64(v)) = 8
    BY <2>1, Packed64
  <2> QED
    BY <2>1, <2>2
<1>3. CASE kind = "error"
  <2>1. v \in 0..(Word - 1) /\ SerializePlain(kind, v) = pack_ui32(v)
    BY <1>3 DEF Values, SerializePlain
  <2>2. v \in Int
    BY <2>1, WordFacts
  <2>3. pack_ui32(v) \in Seq(Byte) /\ Len(pack_ui32(v)) = 4
    BY <2>2, Packed32
  <2> QED
    BY <2>1, <2>3
<1> QED
  BY <1>1, <1>2, <1>3 DEF PlainKind

\* A value without elements is read back (Deserializer of string, int64_t, ErrorCode).
LEMMA ReadPlain ==
    ASSUME NEW body \in Seq(Byte), NEW kind \in PlainKind, NEW v \in Values(kind),
           NEW vals, NEW o \in Nat, Holds(body, o, SerializePlain(kind, v))
    PROVE  DeserializePlain(Reading(vals, o), body, kind)
               = Reading(Append(vals, v), o + Len(SerializePlain(kind, v)))
<1> DEFINE rd == Reading(vals, o)
<1>0. Len(body) \in Nat /\ rd.offset = o /\ ~ rd.failed
      /\ \A n, u : Took(rd, n, u) = Reading(Append(vals, u), o + n)
  <2>1. Len(body) \in Nat
    BY LenProperties
  <2>2. rd.offset = o /\ ~ rd.failed
    BY ReadingFacts
  <2>3. \A n, u : Took(rd, n, u) = Reading(Append(vals, u), o + n)
    BY TookFacts
  <2> QED
    BY <2>1, <2>2, <2>3
<1>1. CASE kind = "string"
  <2>1. v \in Text /\ SerializePlain(kind, v) = pack(v)
    BY <1>1 DEF Values, SerializePlain
  <2>2. unpack(rd, body) = Reading(Append(vals, v), o + (4 + Len(v)))
    BY <2>1, ReadText
  <2>3. Len(pack(v)) = 4 + Len(v)
    BY <2>1, PackFacts
  <2> HIDE DEF rd
  <2>4. DeserializePlain(rd, body, kind) = unpack(rd, body)
    BY <1>0, <1>1 DEF DeserializePlain
  <2> QED
    BY <2>1, <2>2, <2>3, <2>4 DEF rd
<1>2. CASE kind = "int64"
  <2> HIDE DEF rd
  <2>1. v \in Int64 /\ SerializePlain(kind, v) = pack_i64(v)
    BY <1>2 DEF Values, SerializePlain
  <2>2. /\ pack_i64(v) \in Seq(Byte) /\ Len(pack_i64(v)) = 8
        /\ Signed(Number64(pack_i64(v))) = v
    BY <2>1, Packed64
  <2>3. At(body, rd.offset, 8, 0) = pack_i64(v)
    BY <1>0, <2>1, <2>2, AtFinds
  <2>4. ~ Beyond(rd, body, 8)
    BY <1>0, <2>1, <2>2 DEF Holds, Beyond
  <2>5. unpack_i64(rd, body) = Took(rd, 8, v)
    BY <2>2, <2>3, <2>4 DEF unpack_i64, Number64
  <2>6. DeserializePlain(rd, body, kind) = unpack_i64(rd, body)
    BY <1>0, <1>2 DEF DeserializePlain
  <2> QED
    BY <1>0, <2>1, <2>2, <2>5, <2>6 DEF rd
<1>3. CASE kind = "error"
  <2> HIDE DEF rd
  <2>1. v \in 0..(Word - 1) /\ SerializePlain(kind, v) = pack_ui32(v)
    BY <1>3 DEF Values, SerializePlain
  <2>2. v \in Int
    BY <2>1, WordFacts
  <2>3. Len(pack_ui32(v)) = 4
    BY <2>2, Packed32
  <2>4. Number(At(body, rd.offset, 4, 0)) = v /\ ~ Beyond(rd, body, 4)
    <3>1. Number(At(body, o, 4, 0)) = v /\ o + 4 <= Len(body)
      BY <2>1, ReadNumber
    <3> QED
      BY <1>0, <3>1 DEF Beyond
  <2>5. unpack_ui32(rd, body) = Took(rd, 4, v)
    BY <2>4 DEF unpack_ui32
  <2>6. DeserializePlain(rd, body, kind) = unpack_ui32(rd, body)
    BY <1>0, <1>3 DEF DeserializePlain
  <2> QED
    BY <1>0, <2>1, <2>3, <2>5, <2>6 DEF rd
<1> QED
  BY <1>1, <1>2, <1>3 DEF PlainKind

\* The parts of an entry.
LEMMA EntryBytes ==
    ASSUME NEW v \in Entries
    PROVE  /\ v[1] \in Text /\ v[2] \in Text /\ v[3] \in Int64 /\ v = <<v[1], v[2], v[3]>>
           /\ SerializeEntry(v) \in Text
           /\ Len(pack(v[1])) \in Nat /\ Len(pack(v[2])) \in Nat
           /\ Holds(SerializeEntry(v), 0, pack(v[1]))
           /\ Holds(SerializeEntry(v), Len(pack(v[1])), pack(v[2]))
           /\ Holds(SerializeEntry(v), Len(pack(v[1])) + Len(pack(v[2])), pack_i64(v[3]))
<1> DEFINE p == pack(v[1])
           q == pack(v[2])
           r == pack_i64(v[3])
<1>1. v[1] \in Text /\ v[2] \in Text /\ v[3] \in Int64 /\ v = <<v[1], v[2], v[3]>>
      /\ Len(SerializeEntry(v)) < Word
  BY DEF Entries
<1>2. p \in Seq(Byte) /\ q \in Seq(Byte) /\ r \in Seq(Byte)
  BY <1>1, PackFacts, Packed64
<1>3. SerializeEntry(v) = (p \o q) \o r
  BY DEF SerializeEntry
<1> HIDE DEF p, q, r
<1>4. /\ p \o q \in Seq(Byte) /\ (p \o q) \o r \in Seq(Byte) /\ Len(p) \in Nat /\ Len(q) \in Nat
      /\ Len(p \o q) = Len(p) + Len(q)
  BY <1>2, ConcatProperties, LenProperties
<1>5. Holds(p \o q, 0, p) /\ Holds(p \o q, Len(p), q)
  BY <1>2, HoldsConcat
<1>6. Holds((p \o q) \o r, 0, p \o q) /\ Holds((p \o q) \o r, Len(p \o q), r)
  BY <1>2, <1>4, HoldsConcat
<1>7. Holds((p \o q) \o r, 0 + 0, p) /\ Holds((p \o q) \o r, 0 + Len(p), q)
  BY <1>2, <1>4, <1>5, <1>6, HoldsPart
<1>8. 0 + 0 = 0 /\ 0 + Len(p) = Len(p)
  BY <1>4
<1>9. SerializeEntry(v) \in Text
  BY <1>1, <1>3, <1>4 DEF Text
<1> QED
  BY <1>1, <1>3, <1>4, <1>6, <1>7, <1>8, <1>9 DEF p, q, r

\* The values that the reader of an entry collects.
LEMMA ThreeAppended ==
    ASSUME NEW S, NEW x \in S, NEW y \in S, NEW z \in S
    PROVE  Append(Append(Append(<< >>, x), y), z) = <<x, y, z>>
<1> DEFINE s == Append(<< >>, x)
           t == Append(s, y)
           u == Append(t, z)
<1>1. << >> \in Seq(S) /\ Len(<< >>) = 0
  BY EmptySeq
<1>2. s \in Seq(S) /\ Len(s) = 1 /\ s[1] = x
  BY <1>1, AppendProperties
<1> HIDE DEF s
<1>3. t \in Seq(S) /\ Len(t) = 2 /\ t[1] = x /\ t[2] = y
  <2>1. /\ t \in Seq(S) /\ Len(t) = Len(s) + 1
        /\ \A i \in 1..Len(s) : t[i] = s[i]
        /\ t[Len(s) + 1] = y
    BY <1>2, AppendProperties
  <2> HIDE DEF t
  <2>2. Len(s) + 1 = 2 /\ 1 \in 1..Len(s)
    BY <1>2
  <2> QED
    BY <1>2, <2>1, <2>2
<1> HIDE DEF t
<1>4. u \in Seq(S) /\ Len(u) = 3 /\ u[1] = x /\ u[2] = y /\ u[3] = z
  <2>1. /\ u \in Seq(S) /\ Len(u) = Len(t) + 1
        /\ \A i \in 1..Len(t) : u[i] = t[i]
        /\ u[Len(t) + 1] = z
    BY <1>3, AppendProperties
  <2> HIDE DEF u
  <2>2. Len(t) + 1 = 3 /\ 1 \in 1..Len(t) /\ 2 \in 1..Len(t)
    BY <1>3
  <2> QED
    BY <1>3, <2>1, <2>2
<1> HIDE DEF u
<1>5. u = <<x, y, z>>
  <2>1. <<x, y, z>> \in Seq(S) /\ Len(<<x, y, z>>) = 3
    OBVIOUS
  <2>2. \A i \in 1..3 : u[i] = <<x, y, z>>[i]
    BY <1>4
  <2> QED
    BY <1>4, <2>1, <2>2, SeqEqual
<1> QED
  BY <1>5 DEF u, t, s

\* The reader of a struct of its own finds the values of an entry.
LEMMA ReadEntry ==
    ASSUME NEW body \in Seq(Byte), NEW v \in Entries, NEW vals, NEW o \in Nat,
           Holds(body, o, pack(SerializeEntry(v)))
    PROVE  DeserializeEntry(Reading(vals, o), body)
               = Reading(Append(vals, v), o + Len(pack(SerializeEntry(v))))
<1> DEFINE rd == Reading(vals, o)
           s == SerializeEntry(v)
           bytes == Packed(rd, body)
           first == DeserializePlain(Reader, bytes, "string")
           second == DeserializePlain(first, bytes, "string")
           third == DeserializePlain(second, bytes, "int64")
           m == Len(pack(v[1]))
           n == Len(pack(v[2]))
<1>1. /\ v[1] \in Text /\ v[2] \in Text /\ v[3] \in Int64 /\ v = <<v[1], v[2], v[3]>>
      /\ s \in Text /\ s \in Seq(Byte) /\ m \in Nat /\ n \in Nat
      /\ Holds(s, 0, pack(v[1])) /\ Holds(s, m, pack(v[2])) /\ Holds(s, m + n, pack_i64(v[3]))
  BY EntryBytes DEF Text
<1>2. /\ ~ TooShort(rd, body) /\ Number(At(body, rd.offset, 4, 0)) = Len(s)
      /\ bytes = s
  BY <1>1, ReadText
<1>3. /\ "string" \in PlainKind /\ "int64" \in PlainKind
      /\ v[1] \in Values("string") /\ v[2] \in Values("string") /\ v[3] \in Values("int64")
      /\ SerializePlain("string", v[1]) = pack(v[1]) /\ SerializePlain("string", v[2]) = pack(v[2])
      /\ SerializePlain("int64", v[3]) = pack_i64(v[3])
  BY <1>1 DEF PlainKind, Values, SerializePlain
<1>4. Len(pack(s)) = 4 + Len(s)
  BY <1>1, PackFacts
<1> HIDE DEF m, n, s
<1>5. first = Reading(Append(<< >>, v[1]), m)
  <2>1. first = Reading(Append(<< >>, v[1]), 0 + Len(pack(v[1])))
    <3> HIDE DEF bytes
    <3>1. Reader = Reading(<< >>, 0) /\ 0 \in Nat /\ bytes \in Seq(Byte)
          /\ Holds(bytes, 0, SerializePlain("string", v[1]))
      BY <1>1, <1>2, <1>3 DEF Reader
    <3>2. \A vs : DeserializePlain(Reading(vs, 0), bytes, "string")
                     = Reading(Append(vs, v[1]), 0 + Len(SerializePlain("string", v[1])))
      BY <1>3, <3>1, ReadPlain
    <3> QED
      BY <1>3, <3>1, <3>2
  <2> QED
    BY <1>1, <2>1 DEF m
<1> HIDE DEF first, bytes
<1>6. second = Reading(Append(Append(<< >>, v[1]), v[2]), m + n)
  <2>1. second = Reading(Append(Append(<< >>, v[1]), v[2]), m + Len(pack(v[2])))
    BY <1>1, <1>2, <1>3, <1>5, ReadPlain
  <2> QED
    BY <2>1 DEF n
<1> HIDE DEF second
<1>7. third.values = v /\ third.failed = FALSE
  <2>1. m + n \in Nat
    BY <1>1
  <2>2. third = Reading(Append(Append(Append(<< >>, v[1]), v[2]), v[3]),
                        (m + n) + Len(pack_i64(v[3])))
    BY <1>1, <1>2, <1>3, <1>6, <2>1, ReadPlain
  <2> HIDE DEF third
  <2>3. third.values = Append(Append(Append(<< >>, v[1]), v[2]), v[3]) /\ third.failed = FALSE
    BY <2>2, ReadingFacts
  <2>4. v[1] \in Text \cup Int64 /\ v[2] \in Text \cup Int64 /\ v[3] \in Text \cup Int64
    BY <1>1
  <2>5. Append(Append(Append(<< >>, v[1]), v[2]), v[3]) = <<v[1], v[2], v[3]>>
    BY <2>4, ThreeAppended
  <2> QED
    BY <1>1, <2>3, <2>5
<1> HIDE DEF third
<1>8. rd.failed = FALSE
  BY ReadingFacts
<1>9. DeserializeEntry(rd, body) = Took(rd, 4 + Len(s), v)
  <2> HIDE DEF rd
  <2> QED
    BY <1>2, <1>7, <1>8 DEF DeserializeEntry, third, second, first, bytes
<1> QED
  BY <1>4, <1>9, TookFacts DEF s

-----------------------------------------------------------------------------
(***************************************************************************)
(* A body that may be cut short.                                           *)
(***************************************************************************)

\* The body is the beginning of b, or all of it.
Beginning(body, b) == Len(body) <= Len(b) /\ \A i \in 1..Len(body) : body[i] = b[i]

\* What b holds before the cut the body holds.
LEMMA HoldsBeginning ==
    ASSUME NEW b \in Seq(Byte), NEW body \in Seq(Byte), Beginning(body, b), NEW s \in Seq(Byte),
           NEW o \in Nat, Holds(b, o, s), o + Len(s) <= Len(body)
    PROVE  Holds(body, o, s)
<1>1. Len(b) \in Nat /\ Len(body) \in Nat /\ Len(s) \in Nat
  BY LenProperties
<1>2. \A i \in 1..Len(s) : o + i \in 1..Len(body)
  BY <1>1
<1> QED
  BY <1>2 DEF Beginning, Holds

\* A reader that has failed, and what makes one.
LEMMA FailedFacts == \A rd : Failed(rd).failed = TRUE
BY DEF Failed

\* A text that is cut is too short, and so is one whose length is not there.
LEMMA CutText ==
    ASSUME NEW b \in Seq(Byte), NEW body \in Seq(Byte), Beginning(body, b), NEW s \in Text,
           NEW vals, NEW o \in Nat, Holds(b, o, pack(s)), o + Len(pack(s)) > Len(body)
    PROVE  TooShort(Reading(vals, o), body)
<1> DEFINE rd == Reading(vals, o)
<1>1. /\ Len(s) \in 0..(Word - 1) /\ Len(s) \in Nat /\ s \in Seq(Byte)
      /\ pack_ui32(Len(s)) \in Seq(Byte) /\ Len(pack_ui32(Len(s))) = 4
      /\ pack(s) \in Seq(Byte) /\ Len(pack(s)) = 4 + Len(s)
      /\ Holds(pack(s), 0, pack_ui32(Len(s)))
  BY PackFacts
<1>2. Len(body) \in Nat /\ rd.offset = o
  BY ReadingFacts, LenProperties
<1> HIDE DEF rd
<1>3. CASE o + 4 > Len(body)
  <2>1. Beyond(rd, body, 4)
    BY <1>2, <1>3 DEF Beyond
  <2> QED
    BY <2>1 DEF TooShort, rd
<1>4. CASE ~ (o + 4 > Len(body))
  <2>1. Holds(b, o + 0, pack_ui32(Len(s)))
    BY <1>1, HoldsPart
  <2>2. o + 0 = o /\ o + Len(pack_ui32(Len(s))) <= Len(body)
    BY <1>1, <1>2, <1>4
  <2>3. Holds(body, o, pack_ui32(Len(s)))
    BY <1>1, <2>1, <2>2, HoldsBeginning
  <2>4. Number(At(body, o, 4, 0)) = Len(s)
    BY <1>1, <2>3, ReadNumber
  <2>5. Beyond(rd, body, 4 + Len(s))
    BY <1>1, <1>2 DEF Beyond
  <2>6. TooShort(rd, body)
    BY <1>2, <2>4, <2>5 DEF TooShort
  <2> QED
    BY <2>6 DEF rd
<1> QED
  BY <1>3, <1>4 DEF rd

\* A plain value is read if all of it is there, and refused otherwise.
LEMMA ReadPlainCut ==
    ASSUME NEW b \in Seq(Byte), NEW body \in Seq(Byte), Beginning(body, b),
           NEW kind \in PlainKind, NEW v \in Values(kind), NEW vals, NEW o \in Nat,
           Holds(b, o, SerializePlain(kind, v))
    PROVE  LET rd == DeserializePlain(Reading(vals, o), body, kind)
               end == o + Len(SerializePlain(kind, v))
           IN  /\ end <= Len(body) => rd = Reading(Append(vals, v), end)
               /\ end > Len(body) => rd.failed
<1> DEFINE old == Reading(vals, o)
           rd == DeserializePlain(old, body, kind)
           end == o + Len(SerializePlain(kind, v))
<1>1. SerializePlain(kind, v) \in Seq(Byte) /\ Len(SerializePlain(kind, v)) \in Nat
  BY PlainBytes
<1>2. ASSUME end <= Len(body) PROVE rd = Reading(Append(vals, v), end)
  <2>1. Holds(body, o, SerializePlain(kind, v))
    BY <1>1, <1>2, HoldsBeginning
  <2> QED
    BY <2>1, ReadPlain
<1>3. ASSUME end > Len(body) PROVE rd.failed = TRUE
  <2>0. old.offset = o /\ old.failed = FALSE /\ Failed(old).failed = TRUE /\ Len(body) \in Nat
    BY ReadingFacts, FailedFacts, LenProperties
  <2>1. CASE kind = "string"
    <3>1. v \in Text /\ SerializePlain(kind, v) = pack(v)
      BY <2>1 DEF Values, SerializePlain
    <3>2. TooShort(old, body)
      BY <1>3, <3>1, CutText
    <3> HIDE DEF old
    <3> QED
      BY <2>0, <2>1, <3>2 DEF DeserializePlain, unpack
  <2>2. CASE kind = "int64"
    <3>1. v \in Int64 /\ SerializePlain(kind, v) = pack_i64(v)
      BY <2>2 DEF Values, SerializePlain
    <3>2. Len(pack_i64(v)) = 8
      BY <3>1, Packed64
    <3> HIDE DEF old
    <3>3. Beyond(old, body, 8)
      BY <1>3, <2>0, <3>1, <3>2 DEF Beyond
    <3> QED
      BY <2>0, <2>2, <3>3 DEF DeserializePlain, unpack_i64
  <2>3. CASE kind = "error"
    <3>1. v \in 0..(Word - 1) /\ SerializePlain(kind, v) = pack_ui32(v)
      BY <2>3 DEF Values, SerializePlain
    <3>2. Len(pack_ui32(v)) = 4
      BY <3>1, WordFacts, Packed32
    <3> HIDE DEF old
    <3>3. Beyond(old, body, 4)
      BY <1>3, <2>0, <3>1, <3>2 DEF Beyond
    <3> QED
      BY <2>0, <2>3, <3>3 DEF DeserializePlain, unpack_ui32
  <2> QED
    BY <2>1, <2>2, <2>3 DEF PlainKind
<1> HIDE DEF old, rd, end
<1>4. /\ end <= Len(body) => rd = Reading(Append(vals, v), end)
      /\ end > Len(body) => rd.failed
  BY <1>2, <1>3
<1> QED
  BY <1>4 DEF old, rd, end

\* Nothing plain is found behind the end, and after an exception nothing is read.
LEMMA ReadPlainPast ==
    ASSUME NEW body \in Seq(Byte), NEW kind \in PlainKind, NEW vals, NEW o \in Nat,
           o + 4 > Len(body)
    PROVE  DeserializePlain(Reading(vals, o), body, kind).failed
<1> DEFINE old == Reading(vals, o)
<1>1. old.offset = o /\ old.failed = FALSE /\ Failed(old).failed = TRUE /\ Len(body) \in Nat
  BY ReadingFacts, FailedFacts, LenProperties
<1> HIDE DEF old
<1>2. Beyond(old, body, 4) /\ Beyond(old, body, 8)
  BY <1>1 DEF Beyond
<1>3. DeserializePlain(old, body, kind) = Failed(old)
  BY <1>1, <1>2 DEF PlainKind, DeserializePlain, unpack, unpack_i64, unpack_ui32, TooShort
<1>4. DeserializePlain(old, body, kind).failed = TRUE
  BY <1>1, <1>3
<1> QED
  BY <1>4 DEF old

-----------------------------------------------------------------------------
(***************************************************************************)
(* Vectors.                                                                *)
(***************************************************************************)

VectorKind == {"vector<string>", "vector<Entry>"}

Elements(kind) == IF kind = "vector<string>" THEN Text ELSE Entries

\* The bytes that are packed for an element.
Content(kind, v) == IF kind = "vector<string>" THEN v ELSE SerializeEntry(v)
Packs(kind, v) == [i \in DOMAIN v |-> pack(Content(kind, v[i]))]

\* An element is read if all of it is there, and refused otherwise.
LEMMA ReadElementCut ==
    ASSUME NEW b \in Seq(Byte), NEW body \in Seq(Byte), Beginning(body, b),
           NEW kind \in VectorKind, NEW v \in Elements(kind), NEW vals, NEW o \in Nat,
           Holds(b, o, pack(Content(kind, v)))
    PROVE  LET rd == DeserializeElement(Reading(vals, o), body, kind)
               end == o + Len(pack(Content(kind, v)))
           IN  /\ end <= Len(body) => rd = Reading(Append(vals, v), end)
               /\ end > Len(body) => rd.failed
<1> DEFINE old == Reading(vals, o)
           rd == DeserializeElement(old, body, kind)
           end == o + Len(pack(Content(kind, v)))
<1>1. CASE kind = "vector<string>"
  <2>1. /\ v \in Text /\ Content(kind, v) = v /\ rd = DeserializePlain(old, body, "string")
        /\ "string" \in PlainKind /\ v \in Values("string") /\ SerializePlain("string", v) = pack(v)
    BY <1>1 DEF Elements, Content, DeserializeElement, PlainKind, Values, SerializePlain
  <2> QED
    BY <2>1, ReadPlainCut
<1>2. CASE kind = "vector<Entry>"
  <2>1. /\ v \in Entries /\ Content(kind, v) = SerializeEntry(v) /\ rd = DeserializeEntry(old, body)
    BY <1>2 DEF Elements, Content, DeserializeElement
  <2>2. SerializeEntry(v) \in Text
    BY <2>1, EntryBytes
  <2>3. pack(SerializeEntry(v)) \in Seq(Byte)
    BY <2>2, PackFacts
  <2>4. ASSUME end <= Len(body) PROVE rd = Reading(Append(vals, v), end)
    <3>1. Holds(body, o, pack(SerializeEntry(v)))
      BY <2>1, <2>3, <2>4, HoldsBeginning
    <3> QED
      BY <2>1, <3>1, ReadEntry
  <2>5. ASSUME end > Len(body) PROVE rd.failed = TRUE
    <3>1. TooShort(old, body)
      BY <2>1, <2>2, <2>5, CutText
    <3>2. Failed(old).failed = TRUE
      BY FailedFacts
    <3> HIDE DEF old
    <3> QED
      BY <2>1, <3>1, <3>2 DEF DeserializeEntry
  <2> QED
    BY <2>4, <2>5
<1> QED
  BY <1>1, <1>2 DEF VectorKind

\* An element is not read from behind the body.
LEMMA ReadElementPast ==
    ASSUME NEW body \in Seq(Byte), NEW kind \in VectorKind, NEW vals, NEW o \in Nat,
           o + 4 > Len(body)
    PROVE  DeserializeElement(Reading(vals, o), body, kind).failed
<1> DEFINE old == Reading(vals, o)
<1>1. CASE kind = "vector<string>"
  <2>1. DeserializePlain(old, body, "string").failed
    BY ReadPlainPast DEF PlainKind
  <2> QED
    BY <1>1, <2>1 DEF DeserializeElement
<1>2. CASE kind = "vector<Entry>"
  <2>1. old.offset = o /\ Failed(old).failed = TRUE /\ Len(body) \in Nat
    BY ReadingFacts, FailedFacts, LenProperties
  <2> HIDE DEF old
  <2>2. Beyond(old, body, 4)
    BY <2>1 DEF Beyond
  <2>3. DeserializeElement(old, body, kind) = Failed(old)
    BY <1>2, <2>2 DEF DeserializeElement, DeserializeEntry, TooShort
  <2> QED
    BY <2>1, <2>3 DEF old
<1> QED
  BY <1>1, <1>2 DEF VectorKind

\* The recursive function in DeserializeVector.
VectorStep(f, start, body, kind, m) ==
    [i \in 0..m |->
        IF i = 0 THEN start
        ELSE LET before == f[i - 1]
             IN  IF before.failed THEN before ELSE DeserializeElement(before, body, kind)]

VectorTo(start, body, kind, m) == CHOOSE f : f = VectorStep(f, start, body, kind, m)

\* The recursive function of DeserializeVector exists.
LEMMA VectorExists ==
    ASSUME NEW start, NEW body, NEW kind, NEW m \in Nat
    PROVE  \E f : f = VectorStep(f, start, body, kind, m)
<1> DEFINE Step(x) == IF x.failed THEN x ELSE DeserializeElement(x, body, kind)
           T == {n \in Nat : \E f : f = [i \in 0..n |-> IF i = 0 THEN start ELSE Step(f[i - 1])]}
<1>1. 0 \in T
  <2> DEFINE f == [i \in 0..0 |-> start]
  <2>1. f = [i \in 0..0 |-> IF i = 0 THEN start ELSE Step(f[i - 1])]
    OBVIOUS
  <2> HIDE DEF f
  <2> QED
    BY <2>1
<1>2. \A n \in Nat : n \in T => n + 1 \in T
  <2> SUFFICES ASSUME NEW n \in Nat, n \in T PROVE n + 1 \in T
    OBVIOUS
  <2>1. PICK f : f = [i \in 0..n |-> IF i = 0 THEN start ELSE Step(f[i - 1])]
    OBVIOUS
  <2> HIDE DEF Step
  <2> DEFINE g == [i \in 0..(n + 1) |-> IF i = n + 1 THEN Step(f[n]) ELSE f[i]]
             h == [i \in 0..(n + 1) |-> IF i = 0 THEN start ELSE Step(g[i - 1])]
  <2>2. \A i \in 0..(n + 1) : g[i] = h[i]
    <3> TAKE i \in 0..(n + 1)
    <3>1. CASE i = n + 1
      <4>1. i - 1 = n /\ n \in 0..(n + 1) /\ n # n + 1 /\ i # 0
        BY <3>1
      <4>2. g[n] = f[n]
        BY <4>1
      <4> QED
        BY <3>1, <4>1, <4>2
    <3>2. CASE i # n + 1
      <4>1. i \in 0..n /\ g[i] = f[i]
        BY <3>2
      <4>2. f[i] = IF i = 0 THEN start ELSE Step(f[i - 1])
        BY <2>1, <4>1
      <4>3. i # 0 => i - 1 \in 0..(n + 1) /\ i - 1 # n + 1
        BY <4>1
      <4>4. i # 0 => g[i - 1] = f[i - 1]
        BY <4>3
      <4> QED
        BY <4>1, <4>2, <4>4
    <3> QED
      BY <3>1, <3>2
  <2>3. g = h
    BY <2>2
  <2>4. \E e : e = [i \in 0..(n + 1) |-> IF i = 0 THEN start ELSE Step(e[i - 1])]
    <3> HIDE DEF g
    <3> QED
      BY <2>3
  <2>5. n + 1 \in Nat
    OBVIOUS
  <2> QED
    BY <2>4, <2>5
<1>3. m \in T
  <2> HIDE DEF T
  <2> QED
    BY <1>1, <1>2, SetInduction
<1> QED
  BY <1>3 DEF VectorStep

\* DeserializeVector step by step.
LEMMA VectorSteps ==
    ASSUME NEW rd, NEW body, NEW kind, NEW junk, NEW size \in Nat,
           size = Number(At(body, rd.offset, 4, junk))
    PROVE  \E f : /\ f[0] = Reading(<< >>, rd.offset + 4)
                  /\ \A i \in 1..size :
                        f[i] = IF f[i - 1].failed THEN f[i - 1]
                               ELSE DeserializeElement(f[i - 1], body, kind)
                  /\ DeserializeVector(rd, body, kind, junk) =
                        IF rd.failed \/ f[size].failed THEN Failed(rd)
                        ELSE Took(rd, f[size].offset - rd.offset, f[size].values)
<1> DEFINE start == Reading(<< >>, rd.offset + 4)
           F == VectorTo(start, body, kind, size)
<1>1. F = VectorStep(F, start, body, kind, size)
  BY VectorExists DEF VectorTo
<1>2. DeserializeVector(rd, body, kind, junk) =
          IF rd.failed \/ F[size].failed THEN Failed(rd)
          ELSE Took(rd, F[size].offset - rd.offset, F[size].values)
  BY DEF DeserializeVector, VectorTo, VectorStep
<1> HIDE DEF F
<1>3. F[0] = start
  BY <1>1 DEF VectorStep
<1>4. ASSUME NEW i \in 1..size
      PROVE  F[i] = IF F[i - 1].failed THEN F[i - 1] ELSE DeserializeElement(F[i - 1], body, kind)
  <2>1. i \in 0..size /\ i # 0
    OBVIOUS
  <2> HIDE DEF start
  <2> QED
    BY <1>1, <2>1 DEF VectorStep
<1> QED
  BY <1>2, <1>3, <1>4

\* The first elements of a sequence, one more at a time.
LEMMA SubSeqStep ==
    ASSUME NEW S, NEW s \in Seq(S)
    PROVE  /\ SubSeq(s, 1, 0) = << >> /\ SubSeq(s, 1, Len(s)) = s
           /\ \A i \in 0..(Len(s) - 1) : Append(SubSeq(s, 1, i), s[i + 1]) = SubSeq(s, 1, i + 1)
<1>1. SubSeq(s, 1, 0) = << >> /\ SubSeq(s, 1, Len(s)) = s
  BY SubSeqEmpty, SubSeqFull
<1>2. ASSUME NEW i \in 0..(Len(s) - 1)
      PROVE  Append(SubSeq(s, 1, i), s[i + 1]) = SubSeq(s, 1, i + 1)
  <2> DEFINE t == SubSeq(s, 1, i)
             u == SubSeq(s, 1, i + 1)
             r == Append(t, s[i + 1])
  <2>1. Len(s) \in Nat /\ i \in Nat /\ i + 1 \in 1..Len(s) /\ \A j \in 1..Len(s) : s[j] \in S
    BY LenProperties, ElementOfSeq
  <2>2. t \in Seq(S) /\ Len(t) = i /\ \A j \in 1..i : t[j] = s[j]
    <3>1. /\ t \in Seq(S) /\ Len(t) = (IF 1 <= i THEN i - 1 + 1 ELSE 0)
          /\ \A j \in 1..(i - 1 + 1) : t[j] = s[1 + j - 1]
      BY <2>1, SubSeqProperties
    <3> HIDE DEF t
    <3> QED
      BY <2>1, <3>1
  <2>3. u \in Seq(S) /\ Len(u) = i + 1 /\ \A j \in 1..(i + 1) : u[j] = s[j]
    <3>1. /\ u \in Seq(S) /\ Len(u) = (IF 1 <= i + 1 THEN (i + 1) - 1 + 1 ELSE 0)
          /\ \A j \in 1..((i + 1) - 1 + 1) : u[j] = s[1 + j - 1]
      BY <2>1, SubSeqProperties
    <3> HIDE DEF u
    <3> QED
      BY <2>1, <3>1
  <2> HIDE DEF t, u
  <2>4. r \in Seq(S) /\ Len(r) = i + 1 /\ (\A j \in 1..i : r[j] = t[j]) /\ r[i + 1] = s[i + 1]
    <3>1. s[i + 1] \in S
      BY <2>1
    <3>2. r \in Seq(S) /\ Len(r) = Len(t) + 1 /\ (\A j \in 1..Len(t) : r[j] = t[j])
          /\ r[Len(t) + 1] = s[i + 1]
      BY <2>2, <3>1, AppendProperties
    <3> HIDE DEF r
    <3> QED
      BY <2>2, <3>2
  <2> HIDE DEF r
  <2>5. \A j \in 1..(i + 1) : r[j] = u[j]
    <3> TAKE j \in 1..(i + 1)
    <3>1. j \in 1..i \/ j = i + 1
      BY <2>1
    <3> QED
      BY <2>2, <2>3, <2>4, <3>1
  <2>6. r = u
    BY <2>1, <2>3, <2>4, <2>5, SeqEqual
  <2> QED
    BY <2>6 DEF r, u, t
<1> QED
  BY <1>1, <1>2

\* The bytes of a vector.
LEMMA VectorBytes ==
    ASSUME NEW kind \in VectorKind, NEW v \in Values(kind)
    PROVE  /\ v \in Seq(Elements(kind)) /\ Len(v) \in 0..(Word - 1)
           /\ Packs(kind, v) \in Seq(Seq(Byte)) /\ Len(Packs(kind, v)) = Len(v)
           /\ \A i \in 1..Len(v) : Packs(kind, v)[i] = pack(Content(kind, v[i]))
                                   /\ v[i] \in Elements(kind)
           /\ Serialize(kind, v) = pack_ui32(Len(v)) \o FlattenSeq(Packs(kind, v))
           /\ pack_ui32(Len(v)) \in Seq(Byte) /\ Len(pack_ui32(Len(v))) = 4
           /\ FlattenSeq(Packs(kind, v)) \in Seq(Byte)
<1>1. v \in Seq(Elements(kind)) /\ Len(v) < Word
  BY DEF VectorKind, Values, Elements
<1>2. Len(v) \in Nat /\ DOMAIN v = 1..Len(v) /\ \A i \in 1..Len(v) : v[i] \in Elements(kind)
  BY <1>1, LenProperties, ElementOfSeq
<1>3. Len(v) \in 0..(Word - 1) /\ Len(v) \in Int
  BY <1>1, <1>2, WordFacts
<1>4. ASSUME NEW i \in 1..Len(v) PROVE pack(Content(kind, v[i])) \in Seq(Byte)
  <2>1. Content(kind, v[i]) \in Text
    BY <1>2, EntryBytes DEF Content, Elements, VectorKind
  <2> QED
    BY <2>1, PackFacts
<1>5. Packs(kind, v) \in Seq(Seq(Byte)) /\ Len(Packs(kind, v)) = Len(v)
  <2> DEFINE p(i) == pack(Content(kind, v[i]))
             n == Len(v)
  <2>1. \A i \in 1..n : p(i) \in Seq(Byte)
    BY <1>4
  <2> HIDE DEF p
  <2>2. [i \in 1..n |-> p(i)] \in Seq(Seq(Byte)) /\ Len([i \in 1..n |-> p(i)]) = n
    <3> HIDE DEF n
    <3>1. n \in Nat
      BY <1>2 DEF n
    <3> QED
      BY <2>1, <3>1
  <2> QED
    BY <1>2, <2>2 DEF Packs, p
<1>6. pack_ui32(Len(v)) \in Seq(Byte) /\ Len(pack_ui32(Len(v))) = 4
  BY <1>3, Packed32
<1>7. FlattenSeq(Packs(kind, v)) \in Seq(Byte)
  <2>1. Len(Packs(kind, v)) \in 0..Len(Packs(kind, v))
    BY <1>2, <1>5
  <2> QED
    BY <1>5, <2>1, PrefixFacts
<1>8. Serialize(kind, v) = pack_ui32(Len(v)) \o FlattenSeq(Packs(kind, v))
  BY DEF Serialize, Packs, VectorKind, Content
<1>9. \A i \in 1..Len(v) : Packs(kind, v)[i] = pack(Content(kind, v[i]))
  BY <1>2 DEF Packs
<1> QED
  BY <1>1, <1>2, <1>3, <1>5, <1>6, <1>7, <1>8, <1>9

\* A reader that has failed, or stands behind the end because the size of a vector did.
Past(rd, body) == rd.failed \/ \E vs : \E o \in Nat : rd = Reading(vs, o) /\ o > Len(body)

\* The size of a vector that is not there is some number.
LEMMA ReadVectorPast ==
    ASSUME NEW body \in Seq(Byte), NEW kind \in VectorKind, NEW vals, NEW o \in Nat,
           NEW junk \in Byte, o + 4 > Len(body)
    PROVE  Past(DeserializeVector(Reading(vals, o), body, kind, junk), body)
<1> DEFINE rd == Reading(vals, o)
           size == Number(At(body, rd.offset, 4, junk))
           result == DeserializeVector(rd, body, kind, junk)
<1>0. /\ rd.offset = o /\ rd.failed = FALSE /\ Len(body) \in Nat
      /\ o + 4 \in Nat /\ (o + 4) + 4 > Len(body)
      /\ \A n, u : Took(rd, n, u) = Reading(Append(vals, u), o + n)
  <2>1. Len(body) \in Nat /\ rd.offset = o /\ rd.failed = FALSE
    BY ReadingFacts, LenProperties
  <2>2. o + 4 \in Nat /\ (o + 4) + 4 > Len(body)
    BY <2>1
  <2>3. \A n, u : Took(rd, n, u) = Reading(Append(vals, u), o + n)
    BY TookFacts
  <2> QED
    BY <2>1, <2>2, <2>3
<1> HIDE DEF rd
<1>1. size \in Nat
  <2>1. \A i \in 1..4 : At(body, rd.offset, 4, junk)[i] \in Byte
    <3> TAKE i \in 1..4
    <3>1. At(body, rd.offset, 4, junk)[i] = IF o + i <= Len(body) THEN body[o + i] ELSE junk
      BY <1>0 DEF At
    <3>2. o + i <= Len(body) => o + i \in 1..Len(body)
      BY <1>0
    <3> QED
      BY <3>1, <3>2, ElementOfSeq
  <2>2. size \in 0..(Word - 1)
    BY <2>1, NumberInWord
  <2> QED
    BY <2>2, WordFacts
<1>2. PICK f : /\ f[0] = Reading(<< >>, rd.offset + 4)
               /\ \A i \in 1..size :
                     f[i] = IF f[i - 1].failed THEN f[i - 1]
                            ELSE DeserializeElement(f[i - 1], body, kind)
               /\ result = IF rd.failed \/ f[size].failed THEN Failed(rd)
                           ELSE Took(rd, f[size].offset - rd.offset, f[size].values)
  <2> HIDE DEF size
  <2> QED
    BY <1>1, VectorSteps DEF size
<1> HIDE DEF size
<1>3. CASE size = 0
  <2>1. f[size].failed = FALSE /\ f[size].offset = o + 4
    BY <1>0, <1>2, <1>3, ReadingFacts
  <2>2. result = Took(rd, (o + 4) - o, f[size].values)
    BY <1>0, <1>2, <2>1
  <2>3. result = Reading(Append(vals, f[size].values), o + ((o + 4) - o))
    BY <1>0, <2>2
  <2>4. o + ((o + 4) - o) = o + 4 /\ o + 4 \in Nat /\ o + 4 > Len(body)
    BY <1>0
  <2> QED
    BY <2>3, <2>4 DEF Past, rd
<1>4. CASE size # 0
  <2>1. f[1].failed
    <3>1. 1 \in 1..size /\ 1 - 1 = 0
      BY <1>1, <1>4
    <3>2. f[1] = IF f[0].failed THEN f[0] ELSE DeserializeElement(f[0], body, kind)
      BY <1>2, <3>1
    <3>3. f[0] = Reading(<< >>, o + 4) /\ f[0].failed = FALSE
      BY <1>0, <1>2, ReadingFacts
    <3>4. \A vs : DeserializeElement(Reading(vs, o + 4), body, kind).failed
      BY <1>0, ReadElementPast
    <3> QED
      BY <3>2, <3>3, <3>4
  <2> DEFINE T == {i \in 0..size : i = 0 \/ f[i].failed}
  <2>2. 0 \in T
    BY <1>1
  <2>3. \A i \in 0..(size - 1) : i \in T => i + 1 \in T
    <3> SUFFICES ASSUME NEW i \in 0..(size - 1), i = 0 \/ f[i].failed
                 PROVE  i + 1 \in 0..size /\ f[i + 1].failed
      OBVIOUS
    <3>1. i + 1 \in 1..size /\ i + 1 \in 0..size /\ (i + 1) - 1 = i
      BY <1>1
    <3>2. f[i + 1] = IF f[i].failed THEN f[i] ELSE DeserializeElement(f[i], body, kind)
      BY <1>2, <3>1
    <3> QED
      BY <2>1, <3>1, <3>2
  <2>4. size \in T
    <3> HIDE DEF T
    <3>1. size \in 0..size
      BY <1>1
    <3> QED
      BY <1>1, <2>2, <2>3, <3>1, RangeInduction
  <2>5. f[size].failed
    BY <1>4, <2>4
  <2>6. result = Failed(rd) /\ Failed(rd).failed = TRUE
    BY <1>2, <2>5, FailedFacts
  <2> QED
    BY <2>6 DEF Past, rd
<1> QED
  BY <1>3, <1>4

\* A vector is read if all of it is there; if it is cut, the reader fails or is past the end.
LEMMA ReadVectorCut ==
    ASSUME NEW b \in Seq(Byte), NEW body \in Seq(Byte), Beginning(body, b),
           NEW kind \in VectorKind, NEW v \in Values(kind), NEW vals, NEW o \in Nat,
           NEW junk \in Byte, Holds(b, o, Serialize(kind, v))
    PROVE  LET rd == DeserializeVector(Reading(vals, o), body, kind, junk)
               end == o + Len(Serialize(kind, v))
           IN  /\ end <= Len(body) => rd = Reading(Append(vals, v), end)
               /\ end > Len(body) => Past(rd, body)
<1> DEFINE rd == Reading(vals, o)
           result == DeserializeVector(rd, body, kind, junk)
           s == Serialize(kind, v)
           end == o + Len(s)
           seqs == Packs(kind, v)
           flat == FlattenSeq(seqs)
           n == Len(v)
           At4 == o + 4
           P(i) == Len(Prefix(seqs, i))
           L == Len(body)
<1>1. /\ v \in Seq(Elements(kind)) /\ n \in 0..(Word - 1) /\ n \in Nat
      /\ seqs \in Seq(Seq(Byte)) /\ Len(seqs) = n
      /\ \A i \in 1..n : seqs[i] = pack(Content(kind, v[i])) /\ v[i] \in Elements(kind)
      /\ s = pack_ui32(n) \o flat
      /\ pack_ui32(n) \in Seq(Byte) /\ Len(pack_ui32(n)) = 4
      /\ flat \in Seq(Byte)
  BY VectorBytes, LenProperties
<1> HIDE DEF seqs, flat, n, s
<1>2. /\ s \in Seq(Byte) /\ Len(s) = 4 + Len(flat) /\ Len(flat) \in Nat /\ L \in Nat /\ At4 \in Nat
      /\ Holds(s, 0, pack_ui32(n)) /\ Holds(s, 4, flat)
  <2>1. s \in Seq(Byte) /\ Len(s) = Len(pack_ui32(n)) + Len(flat)
    BY <1>1, ConcatProperties
  <2>2. Holds(s, 0, pack_ui32(n)) /\ Holds(s, Len(pack_ui32(n)), flat)
    BY <1>1, HoldsConcat
  <2>3. Len(flat) \in Nat /\ L \in Nat /\ At4 \in Nat
    BY <1>1, LenProperties
  <2> QED
    BY <1>1, <2>1, <2>2, <2>3
<1>3. Holds(b, o + 0, pack_ui32(n)) /\ Holds(b, At4, flat)
  <2>1. Holds(b, o, s)
    BY DEF s
  <2> QED
    BY <1>1, <1>2, <2>1, HoldsPart
<1>4. CASE At4 > L
  <2>1. Past(result, body)
    BY <1>4, ReadVectorPast
  <2>2. ~ (end <= L)
    BY <1>2, <1>4
  <2> QED
    BY <2>1, <2>2 DEF s
<1>5. CASE At4 <= L
  <2>1. Number(At(body, o, 4, junk)) = n
    <3>1. o + 0 = o /\ o + Len(pack_ui32(n)) <= L
      BY <1>1, <1>5
    <3>2. Holds(body, o, pack_ui32(n))
      BY <1>1, <1>3, <3>1, HoldsBeginning
    <3> QED
      BY <1>1, <3>2, ReadNumber
  <2>2. /\ rd.offset = o /\ rd.failed = FALSE
        /\ \A k, u : Took(rd, k, u) = Reading(Append(vals, u), o + k)
    <3>1. rd.offset = o /\ rd.failed = FALSE
      BY ReadingFacts
    <3>2. \A k, u : Took(rd, k, u) = Reading(Append(vals, u), o + k)
      BY TookFacts
    <3> QED
      BY <3>1, <3>2
  <2> HIDE DEF rd
  <2> DEFINE size == Number(At(body, rd.offset, 4, junk))
  <2>a. size = n /\ size \in Nat
    BY <1>1, <2>1, <2>2
  <2>b. PICK f : /\ f[0] = Reading(<< >>, rd.offset + 4)
                 /\ \A i \in 1..size :
                       f[i] = IF f[i - 1].failed THEN f[i - 1]
                              ELSE DeserializeElement(f[i - 1], body, kind)
                 /\ result = IF rd.failed \/ f[size].failed THEN Failed(rd)
                             ELSE Took(rd, f[size].offset - rd.offset, f[size].values)
    <3> HIDE DEF size
    <3>1. size \in Nat
      BY <2>a
    <3> QED
      BY <3>1, VectorSteps DEF size
  <2> HIDE DEF size
  <2>3. /\ f[0] = Reading(<< >>, rd.offset + 4)
        /\ \A i \in 1..n :
              f[i] = IF f[i - 1].failed THEN f[i - 1]
                     ELSE DeserializeElement(f[i - 1], body, kind)
        /\ result = IF rd.failed \/ f[n].failed THEN Failed(rd)
                    ELSE Took(rd, f[n].offset - rd.offset, f[n].values)
    BY <2>a, <2>b
  <2> HIDE DEF L, At4, result
  <2>4. /\ P(0) = 0 /\ P(n) = Len(flat)
        /\ \A i \in 1..n : /\ P(i - 1) \in Nat /\ P(i) \in Nat
                           /\ P(i) = P(i - 1) + Len(pack(Content(kind, v[i])))
                           /\ Len(pack(Content(kind, v[i]))) \in Nat
                           /\ Holds(b, At4 + P(i - 1), pack(Content(kind, v[i])))
    <3>1. Prefix(seqs, 0) = << >> /\ flat = Prefix(seqs, n)
      BY <1>1, PrefixFacts DEF flat
    <3>2. P(0) = 0
      BY <3>1, EmptySeq
    <3>3. ASSUME NEW i \in 1..n
          PROVE  /\ P(i - 1) \in Nat /\ P(i) \in Nat
                 /\ P(i) = P(i - 1) + Len(pack(Content(kind, v[i])))
                 /\ Len(pack(Content(kind, v[i]))) \in Nat
                 /\ Holds(b, At4 + P(i - 1), pack(Content(kind, v[i])))
      <4>1. seqs[i] = pack(Content(kind, v[i])) /\ seqs[i] \in Seq(Byte) /\ Len(seqs[i]) \in Nat
        BY <1>1, ElementOfSeq, LenProperties
      <4>2. P(i - 1) \in Nat /\ P(i) \in Nat /\ P(i) = P(i - 1) + Len(seqs[i])
            /\ Holds(flat, P(i - 1), seqs[i])
        BY <1>1, PrefixHolds DEF flat
      <4>3. Holds(b, At4 + P(i - 1), seqs[i])
        BY <1>1, <1>2, <1>3, <4>1, <4>2, HoldsPart
      <4> QED
        BY <4>1, <4>2, <4>3
    <3> QED
      BY <3>1, <3>2, <3>3
  <2> HIDE DEF P
  <2>5. /\ SubSeq(v, 1, 0) = << >> /\ SubSeq(v, 1, n) = v
        /\ \A i \in 0..(n - 1) : Append(SubSeq(v, 1, i), v[i + 1]) = SubSeq(v, 1, i + 1)
    BY <1>1, SubSeqStep DEF n
  <2> DEFINE Read(i) == At4 + P(i) <= L /\ f[i] = Reading(SubSeq(v, 1, i), At4 + P(i))
             Refused(i) == At4 + P(i) > L /\ f[i].failed = TRUE
             T == {i \in 0..n : P(i) \in Nat /\ (Read(i) \/ Refused(i))}
  <2>6. 0 \in T
    <3>1. At4 + P(0) = At4 /\ P(0) \in Nat /\ 0 \in 0..n
      BY <1>1, <1>2, <2>4
    <3>2. f[0] = Reading(<< >>, At4)
      BY <2>2, <2>3 DEF At4
    <3> QED
      BY <1>5, <2>5, <3>1, <3>2
  <2>7. \A i \in 0..(n - 1) : i \in T => i + 1 \in T
    <3> SUFFICES ASSUME NEW i \in 0..(n - 1), P(i) \in Nat, Read(i) \/ Refused(i)
                 PROVE  i + 1 \in 0..n /\ P(i + 1) \in Nat /\ (Read(i + 1) \/ Refused(i + 1))
      OBVIOUS
    <3>1. i + 1 \in 1..n /\ i + 1 \in 0..n /\ (i + 1) - 1 = i
      BY <1>1
    <3> DEFINE c == pack(Content(kind, v[i + 1]))
    <3>2. /\ P(i + 1) \in Nat /\ P(i + 1) = P(i) + Len(c) /\ Len(c) \in Nat
          /\ Holds(b, At4 + P(i), c) /\ v[i + 1] \in Elements(kind)
          /\ f[i + 1] = IF f[i].failed THEN f[i] ELSE DeserializeElement(f[i], body, kind)
      <4>1. /\ P(i + 1) \in Nat /\ P(i + 1) = P(i) + Len(c) /\ Len(c) \in Nat
            /\ Holds(b, At4 + P(i), c)
        BY <2>4, <3>1
      <4>2. v[i + 1] \in Elements(kind)
        BY <1>1, <3>1
      <4>3. f[i + 1] = IF f[i].failed THEN f[i] ELSE DeserializeElement(f[i], body, kind)
        BY <2>3, <3>1
      <4> QED
        BY <4>1, <4>2, <4>3
    <3>3. CASE Read(i)
      <4>1. f[i].failed = FALSE
        BY <3>3, ReadingFacts
      <4> DEFINE q == At4 + P(i)
                 e == q + Len(c)
      <4>2. q \in Nat /\ e = At4 + P(i + 1)
        BY <1>2, <3>2
      <4>3. \A vs : /\ e <= L => DeserializeElement(Reading(vs, q), body, kind)
                                    = Reading(Append(vs, v[i + 1]), e)
                    /\ e > L => DeserializeElement(Reading(vs, q), body, kind).failed
        <5> TAKE vs
        <5> HIDE DEF q
        <5>1. Holds(b, q, c)
          BY <3>2 DEF q
        <5>2. /\ q + Len(c) <= Len(body) => DeserializeElement(Reading(vs, q), body, kind)
                                      = Reading(Append(vs, v[i + 1]), q + Len(c))
              /\ q + Len(c) > Len(body) => DeserializeElement(Reading(vs, q), body, kind).failed
          BY <3>2, <4>2, <5>1, ReadElementCut
        <5> QED
          BY <5>2 DEF L
      <4>4. f[i + 1] = DeserializeElement(Reading(SubSeq(v, 1, i), q), body, kind)
        BY <3>2, <3>3, <4>1
      <4> HIDE DEF q, e, c
      <4>5. CASE e <= L
        <5>1. f[i + 1] = Reading(SubSeq(v, 1, i + 1), e)
          BY <2>5, <4>3, <4>4, <4>5
        <5> QED
          BY <3>1, <3>2, <4>2, <4>5, <5>1
      <4>6. CASE ~ (e <= L)
        <5>1. e > L
          BY <1>2, <3>2, <4>2, <4>6
        <5>2. f[i + 1].failed
          BY <4>3, <4>4, <5>1
        <5>3. f[i + 1].failed = TRUE
          BY <5>2
        <5> QED
          BY <3>1, <3>2, <4>2, <5>1, <5>3
      <4> QED
        BY <4>5, <4>6
    <3>4. CASE Refused(i)
      <4>1. f[i + 1] = f[i]
        BY <3>2, <3>4
      <4>2. At4 + P(i + 1) > L
        BY <1>2, <3>2, <3>4
      <4> QED
        BY <3>1, <3>2, <3>4, <4>1, <4>2
    <3> QED
      BY <3>3, <3>4
  <2>8. Read(n) \/ Refused(n)
    <3>1. n \in T
      <4> HIDE DEF T
      <4>1. n \in 0..n
        BY <1>1
      <4> QED
        BY <1>1, <2>6, <2>7, <4>1, RangeInduction
    <3> QED
      BY <3>1
  <2>9. end = At4 + P(n) /\ end \in Nat
    BY <1>2, <2>4 DEF At4
  <2>10. CASE Read(n)
    <3>1. f[n] = Reading(v, end) /\ end <= L
      BY <2>5, <2>9, <2>10
    <3> HIDE DEF end
    <3>2. f[n].failed = FALSE /\ f[n].offset = end /\ f[n].values = v
      BY <3>1, ReadingFacts
    <3>3. result = Reading(Append(vals, v), o + (end - o))
      BY <2>2, <2>3, <3>2
    <3>4. o + (end - o) = end /\ ~ (end > L)
      BY <1>2, <2>9, <3>1
    <3>5. /\ end <= L => result = Reading(Append(vals, v), end)
          /\ end > L => Past(result, body)
      BY <3>3, <3>4
    <3> QED
      BY <3>5 DEF end, s, L, result, rd
  <2>11. CASE Refused(n)
    <3>1. result = Failed(rd) /\ Failed(rd).failed = TRUE
      BY <2>3, <2>11, FailedFacts
    <3>2. Past(result, body)
      BY <3>1 DEF Past
    <3>3. ~ (end <= L)
      BY <1>2, <2>9, <2>11
    <3> QED
      BY <3>2, <3>3 DEF end, s, L, result, rd
  <2> QED
    BY <2>8, <2>10, <2>11
<1>6. At4 > L \/ At4 <= L
  BY <1>2
<1> QED
  BY <1>4, <1>5, <1>6

-----------------------------------------------------------------------------
(***************************************************************************)
(* Fields and structs.                                                     *)
(***************************************************************************)

Kind == PlainKind \cup VectorKind

\* Every struct has fields, and the last one is no vector.
LEMMA FieldsFacts ==
    ASSUME NEW struct \in DOMAIN Fields
    PROVE  /\ Fields[struct] \in Seq(Kind) /\ Len(Fields[struct]) \in Nat \ {0}
           /\ DOMAIN Fields[struct] = 1..Len(Fields[struct])
           /\ \A i \in 1..Len(Fields[struct]) : Fields[struct][i] \in Kind
           /\ Fields[struct][Len(Fields[struct])] \in PlainKind
<1> DEFINE One == {<<"error">>, <<"string">>}
           Two == {<<"string", "string">>, <<"string", "error">>, <<"vector<Entry>", "error">>}
           Three == {<<"string", "string", "string">>, <<"string", "string", "int64">>,
                     <<"vector<string>", "vector<string>", "error">>}
<1>1. Fields[struct] \in One \cup Two \cup Three
  BY SMTT(60) DEF Fields
<1> DEFINE kinds == Fields[struct]
<1> HIDE DEF kinds
<1>2. kinds \in Seq(Kind) /\ Len(kinds) \in Nat \ {0} /\ kinds[Len(kinds)] \in PlainKind
  <2>1. CASE kinds \in One
    <3>1. PICK k \in PlainKind : kinds = <<k>>
      BY <2>1 DEF PlainKind
    <3>2. k \in Kind
      BY DEF Kind
    <3> QED
      BY <3>1, <3>2
  <2>2. CASE kinds \in Two
    <3>1. PICK k \in Kind, l \in PlainKind : kinds = <<k, l>>
      BY <2>2 DEF Kind, PlainKind, VectorKind
    <3>2. l \in Kind
      BY DEF Kind
    <3> QED
      BY <3>1, <3>2
  <2>3. CASE kinds \in Three
    <3>1. PICK k \in Kind, l \in Kind, m \in PlainKind : kinds = <<k, l, m>>
      BY <2>3 DEF Kind, PlainKind, VectorKind
    <3>2. m \in Kind
      BY DEF Kind
    <3> QED
      BY <3>1, <3>2
  <2>4. kinds \in One \cup Two \cup Three
    BY <1>1 DEF kinds
  <2> QED
    BY <2>1, <2>2, <2>3, <2>4
<1>3. DOMAIN kinds = 1..Len(kinds) /\ \A i \in 1..Len(kinds) : kinds[i] \in Kind
  BY <1>2, LenProperties, ElementOfSeq
<1> QED
  BY <1>2, <1>3 DEF kinds

\* The bytes of a field.
LEMMA FieldBytes ==
    ASSUME NEW kind \in Kind, NEW v \in Values(kind)
    PROVE  Serialize(kind, v) \in Seq(Byte) /\ Len(Serialize(kind, v)) \in Nat
           /\ Len(Serialize(kind, v)) >= 4
<1>1. CASE kind \in PlainKind
  <2>1. Serialize(kind, v) = SerializePlain(kind, v)
    BY <1>1 DEF Serialize, PlainKind
  <2> QED
    BY <1>1, <2>1, PlainBytes
<1>2. CASE kind \in VectorKind
  <2> DEFINE p == pack_ui32(Len(v))
             q == FlattenSeq(Packs(kind, v))
  <2>1. Serialize(kind, v) = p \o q /\ p \in Seq(Byte) /\ Len(p) = 4 /\ q \in Seq(Byte)
    BY <1>2, VectorBytes
  <2> HIDE DEF p, q
  <2>2. p \o q \in Seq(Byte) /\ Len(p \o q) = Len(p) + Len(q) /\ Len(q) \in Nat
    BY <2>1, ConcatProperties, LenProperties
  <2> QED
    BY <2>1, <2>2
<1> QED
  BY <1>1, <1>2 DEF Kind

\* A field is read if all of it is there; only a vector may leave a reader that is past the end.
LEMMA ReadFieldCut ==
    ASSUME NEW b \in Seq(Byte), NEW body \in Seq(Byte), Beginning(body, b),
           NEW kind \in Kind, NEW v \in Values(kind), NEW vals, NEW o \in Nat, NEW junk \in Byte,
           Holds(b, o, Serialize(kind, v))
    PROVE  LET rd == Deserialize(Reading(vals, o), body, kind, junk)
               end == o + Len(Serialize(kind, v))
           IN  /\ end <= Len(body) => rd = Reading(Append(vals, v), end)
               /\ end > Len(body) => Past(rd, body) /\ (kind \in PlainKind => rd.failed)
<1>1. CASE kind \in PlainKind
  <2>1. /\ Serialize(kind, v) = SerializePlain(kind, v)
        /\ Deserialize(Reading(vals, o), body, kind, junk)
              = DeserializePlain(Reading(vals, o), body, kind)
    BY <1>1 DEF Serialize, Deserialize, PlainKind
  <2>2. Holds(b, o, SerializePlain(kind, v))
    BY <2>1
  <2> DEFINE rd == DeserializePlain(Reading(vals, o), body, kind)
             end == o + Len(SerializePlain(kind, v))
  <2>3. /\ end <= Len(body) => rd = Reading(Append(vals, v), end)
        /\ end > Len(body) => rd.failed
    BY <1>1, <2>2, ReadPlainCut
  <2> QED
    BY <2>1, <2>3 DEF Past
<1>2. CASE kind \in VectorKind
  <2>1. /\ Deserialize(Reading(vals, o), body, kind, junk)
              = DeserializeVector(Reading(vals, o), body, kind, junk)
        /\ kind \notin PlainKind
    BY <1>2 DEF Deserialize, PlainKind, VectorKind
  <2> DEFINE rd == DeserializeVector(Reading(vals, o), body, kind, junk)
             end == o + Len(Serialize(kind, v))
  <2>3. /\ end <= Len(body) => rd = Reading(Append(vals, v), end)
        /\ end > Len(body) => Past(rd, body)
    BY <1>2, ReadVectorCut
  <2> QED
    BY <2>1, <2>3
<1> QED
  BY <1>1, <1>2 DEF Kind

\* A reader that has failed or is past the end stays so, and fails on a plain field.
LEMMA ReadFieldPast ==
    ASSUME NEW body \in Seq(Byte), NEW kind \in Kind, NEW rd, Past(rd, body), NEW junk \in Byte
    PROVE  /\ Past(Deserialize(rd, body, kind, junk), body)
           /\ kind \in PlainKind => Deserialize(rd, body, kind, junk).failed
<1>1. CASE rd.failed
  <2>1. Failed(rd).failed = TRUE
    BY FailedFacts
  <2> DEFINE new == Deserialize(rd, body, kind, junk)
  <2>2. new = rd \/ new = Failed(rd)
    BY <1>1 DEF Deserialize, DeserializePlain, DeserializeVector
  <2> HIDE DEF new
  <2>3. new.failed
    BY <1>1, <2>1, <2>2
  <2>4. Past(new, body)
    BY <2>3 DEF Past
  <2> QED
    BY <2>3, <2>4 DEF new
<1>2. CASE ~ rd.failed
  <2>0. PICK vs : \E o \in Nat : rd = Reading(vs, o) /\ o > Len(body)
    BY <1>2 DEF Past
  <2>1. PICK o \in Nat : rd = Reading(vs, o) /\ o > Len(body)
    BY <2>0
  <2>2. o + 4 > Len(body)
    BY <2>1, LenProperties
  <2>3. CASE kind \in PlainKind
    <3>1. Deserialize(rd, body, kind, junk) = DeserializePlain(rd, body, kind)
      BY <2>3 DEF Deserialize, PlainKind
    <3>2. DeserializePlain(rd, body, kind).failed
      BY <2>1, <2>2, <2>3, ReadPlainPast
    <3> QED
      BY <3>1, <3>2 DEF Past
  <2>4. CASE kind \in VectorKind
    <3>1. Deserialize(rd, body, kind, junk) = DeserializeVector(rd, body, kind, junk)
          /\ kind \notin PlainKind
      BY <2>4 DEF Deserialize, PlainKind, VectorKind
    <3>2. Past(DeserializeVector(rd, body, kind, junk), body)
      BY <2>1, <2>2, <2>4, ReadVectorPast
    <3> QED
      BY <3>1, <3>2
  <2> QED
    BY <2>3, <2>4 DEF Kind
<1> QED
  BY <1>1, <1>2

\* The recursive function in deserialize.
StructStep(f, body, kinds, junk, m) ==
    [i \in 0..m |-> IF i = 0 THEN Reader ELSE Deserialize(f[i - 1], body, kinds[i], junk)]

StructTo(body, kinds, junk, m) == CHOOSE f : f = StructStep(f, body, kinds, junk, m)

\* The recursive function of deserialize exists.
LEMMA StructExists ==
    ASSUME NEW body, NEW kinds, NEW junk, NEW m \in Nat
    PROVE  \E f : f = StructStep(f, body, kinds, junk, m)
<1> DEFINE Step(x, i) == Deserialize(x, body, kinds[i], junk)
           T == {n \in Nat : \E f :
                    f = [i \in 0..n |-> IF i = 0 THEN Reader ELSE Step(f[i - 1], i)]}
<1>1. 0 \in T
  <2> DEFINE f == [i \in 0..0 |-> Reader]
  <2>1. f = [i \in 0..0 |-> IF i = 0 THEN Reader ELSE Step(f[i - 1], i)]
    OBVIOUS
  <2> HIDE DEF f
  <2> QED
    BY <2>1
<1>2. \A n \in Nat : n \in T => n + 1 \in T
  <2> SUFFICES ASSUME NEW n \in Nat, n \in T PROVE n + 1 \in T
    OBVIOUS
  <2>1. PICK f : f = [i \in 0..n |-> IF i = 0 THEN Reader ELSE Step(f[i - 1], i)]
    OBVIOUS
  <2> HIDE DEF Step
  <2> DEFINE g == [i \in 0..(n + 1) |-> IF i = n + 1 THEN Step(f[n], i) ELSE f[i]]
             h == [i \in 0..(n + 1) |-> IF i = 0 THEN Reader ELSE Step(g[i - 1], i)]
  <2>2. \A i \in 0..(n + 1) : g[i] = h[i]
    <3> TAKE i \in 0..(n + 1)
    <3>1. CASE i = n + 1
      <4>1. i - 1 = n /\ n \in 0..(n + 1) /\ n # n + 1 /\ i # 0
        BY <3>1
      <4>2. g[n] = f[n]
        BY <4>1
      <4> QED
        BY <3>1, <4>1, <4>2
    <3>2. CASE i # n + 1
      <4>1. i \in 0..n /\ g[i] = f[i]
        BY <3>2
      <4>2. f[i] = IF i = 0 THEN Reader ELSE Step(f[i - 1], i)
        BY <2>1, <4>1
      <4>3. i # 0 => i - 1 \in 0..(n + 1) /\ i - 1 # n + 1
        BY <4>1
      <4>4. i # 0 => g[i - 1] = f[i - 1]
        BY <4>3
      <4> QED
        BY <4>1, <4>2, <4>4
    <3> QED
      BY <3>1, <3>2
  <2>3. g = h
    BY <2>2
  <2>4. \E e : e = [i \in 0..(n + 1) |-> IF i = 0 THEN Reader ELSE Step(e[i - 1], i)]
    <3> HIDE DEF g
    <3> QED
      BY <2>3
  <2>5. n + 1 \in Nat
    OBVIOUS
  <2> QED
    BY <2>4, <2>5
<1>3. m \in T
  <2> HIDE DEF T
  <2> QED
    BY <1>1, <1>2, SetInduction
<1> QED
  BY <1>3 DEF StructStep

\* deserialize step by step.
StructRun(f, struct, body, junk) ==
    /\ f[0] = Reading(<< >>, 0)
    /\ \A i \in 1..Len(Fields[struct]) :
          f[i] = Deserialize(f[i - 1], body, Fields[struct][i], junk)
    /\ deserialize(struct, body, junk) = f[Len(Fields[struct])]

\* deserialize reads the fields one after the other.
LEMMA StructSteps ==
    ASSUME NEW struct \in DOMAIN Fields, NEW body, NEW junk
    PROVE  \E f : StructRun(f, struct, body, junk)
<1> DEFINE kinds == Fields[struct]
           n == Len(kinds)
           F == StructTo(body, kinds, junk, n)
<1>0. n \in Nat
  BY FieldsFacts
<1>1. F = StructStep(F, body, kinds, junk, n)
  <2> HIDE DEF kinds, n
  <2> QED
    BY <1>0, StructExists DEF StructTo
<1>2. deserialize(struct, body, junk) = F[n]
  BY DEF deserialize, StructTo, StructStep
<1> HIDE DEF F, n
<1>3. F[0] = Reading(<< >>, 0)
  BY <1>0, <1>1 DEF StructStep, Reader
<1>4. ASSUME NEW i \in 1..n PROVE F[i] = Deserialize(F[i - 1], body, kinds[i], junk)
  <2>1. i \in 0..n /\ i # 0
    BY <1>0
  <2> HIDE DEF kinds
  <2> QED
    BY <1>1, <2>1 DEF StructStep
<1>5. StructRun(F, struct, body, junk)
  BY <1>2, <1>3, <1>4 DEF n, StructRun
<1> QED
  BY <1>5

\* The bytes of the fields of a struct.
Parts(struct, vs) == [i \in DOMAIN Fields[struct] |-> Serialize(Fields[struct][i], vs[i])]

\* A struct is written as bytes, the parts of its fields one behind the other.
LEMMA StructBytes ==
    ASSUME NEW struct \in DOMAIN Fields, NEW vs, Expressible(struct, vs)
    PROVE  /\ Parts(struct, vs) \in Seq(Seq(Byte))
           /\ Len(Parts(struct, vs)) = Len(Fields[struct])
           /\ \A i \in 1..Len(Fields[struct]) :
                 /\ vs[i] \in Values(Fields[struct][i])
                 /\ Parts(struct, vs)[i] = Serialize(Fields[struct][i], vs[i])
           /\ serialize(struct, vs) = FlattenSeq(Parts(struct, vs))
           /\ serialize(struct, vs) \in Seq(Byte) /\ Len(serialize(struct, vs)) \in 0..(Word - 1)
           /\ vs = [i \in 1..Len(Fields[struct]) |-> vs[i]]
<1> DEFINE kinds == Fields[struct]
           n == Len(kinds)
           p(i) == Serialize(kinds[i], vs[i])
<1>1. n \in Nat /\ DOMAIN kinds = 1..n /\ \A i \in 1..n : kinds[i] \in Kind
  BY FieldsFacts
<1>2. \A i \in 1..n : vs[i] \in Values(kinds[i])
  BY <1>1 DEF Expressible
<1>3. vs = [i \in 1..n |-> vs[i]]
  BY <1>1 DEF Expressible
<1>4. \A i \in 1..n : p(i) \in Seq(Byte)
  BY <1>1, <1>2, FieldBytes
<1>5. [i \in 1..n |-> p(i)] \in Seq(Seq(Byte)) /\ Len([i \in 1..n |-> p(i)]) = n
  <2> HIDE DEF n, p
  <2> QED
    BY <1>1, <1>4
<1>6. Parts(struct, vs) = [i \in 1..n |-> p(i)]
  BY <1>1 DEF Parts
<1>7. serialize(struct, vs) = FlattenSeq(Parts(struct, vs))
  BY DEF serialize, Parts
<1>8. serialize(struct, vs) \in Seq(Byte)
  <2> DEFINE parts == Parts(struct, vs)
  <2> HIDE DEF n, p
  <2>1. parts \in Seq(Seq(Byte)) /\ Len(parts) \in Nat
    BY <1>5, <1>6, LenProperties
  <2> HIDE DEF parts
  <2>2. Len(parts) \in 0..Len(parts)
    BY <2>1
  <2>3. FlattenSeq(parts) \in Seq(Byte)
    BY <2>1, <2>2, PrefixFacts
  <2> QED
    BY <1>7, <2>3 DEF parts
<1>9. Len(serialize(struct, vs)) \in 0..(Word - 1)
  <2>1. Len(serialize(struct, vs)) < Word
    BY DEF Expressible
  <2> QED
    BY <1>8, <2>1, WordFacts, LenProperties
<1> HIDE DEF p
<1>10. \A i \in 1..n : Parts(struct, vs)[i] = p(i)
  BY <1>6
<1> QED
  BY <1>2, <1>3, <1>5, <1>6, <1>7, <1>8, <1>9, <1>10 DEF p

\* The beginning of a body is read as the struct if it is all of it, and refused otherwise.
LEMMA ReadStruct ==
    ASSUME NEW struct \in DOMAIN Fields, NEW vs, Expressible(struct, vs),
           NEW body \in Seq(Byte), Beginning(body, serialize(struct, vs)), NEW junk \in Byte
    PROVE  LET b == serialize(struct, vs)
               rd == deserialize(struct, body, junk)
           IN  /\ Len(body) = Len(b) => rd = Reading(vs, Len(b))
               /\ Len(body) < Len(b) => rd.failed
<1> DEFINE b == serialize(struct, vs)
           result == deserialize(struct, body, junk)
           kinds == Fields[struct]
           n == Len(kinds)
           seqs == Parts(struct, vs)
           P(i) == Len(Prefix(seqs, i))
           L == Len(body)
           S == {vs[i] : i \in 1..n}
<1>1. n \in Nat \ {0} /\ n \in Nat /\ (\A i \in 1..n : kinds[i] \in Kind) /\ kinds[n] \in PlainKind
      /\ L \in Nat
  BY FieldsFacts, LenProperties
<1>2. /\ seqs \in Seq(Seq(Byte)) /\ Len(seqs) = n
      /\ \A i \in 1..n : vs[i] \in Values(kinds[i]) /\ seqs[i] = Serialize(kinds[i], vs[i])
      /\ b = FlattenSeq(seqs) /\ b \in Seq(Byte)
      /\ vs = [i \in 1..n |-> vs[i]]
  BY StructBytes
<1>3. vs \in Seq(S) /\ Len(vs) = n
  <2>1. \A i \in 1..n : vs[i] \in S
    OBVIOUS
  <2> HIDE DEF S, n
  <2>2. [i \in 1..n |-> vs[i]] \in Seq(S) /\ Len([i \in 1..n |-> vs[i]]) = n
    BY <1>1, <2>1
  <2> QED
    BY <1>2, <2>2
<1>4. PICK f : /\ f[0] = Reading(<< >>, 0)
               /\ \A i \in 1..n : f[i] = Deserialize(f[i - 1], body, kinds[i], junk)
               /\ result = f[n]
  <2>1. PICK f : StructRun(f, struct, body, junk)
    BY StructSteps
  <2> QED
    BY <2>1 DEF StructRun
<1> HIDE DEF S, seqs, L, result, n, kinds
<1>5. /\ P(0) = 0 /\ P(n) = Len(b)
      /\ \A i \in 1..n : /\ P(i - 1) \in Nat /\ P(i) \in Nat
                         /\ P(i) = P(i - 1) + Len(Serialize(kinds[i], vs[i]))
                         /\ Len(Serialize(kinds[i], vs[i])) \in Nat
                         /\ Holds(b, P(i - 1), Serialize(kinds[i], vs[i]))
  <2> HIDE DEF b
  <2>1. Prefix(seqs, 0) = << >> /\ b = Prefix(seqs, n)
    BY <1>2, PrefixFacts
  <2>2. P(0) = 0
    BY <2>1, EmptySeq
  <2>3. ASSUME NEW i \in 1..n
        PROVE  /\ P(i - 1) \in Nat /\ P(i) \in Nat
               /\ P(i) = P(i - 1) + Len(Serialize(kinds[i], vs[i]))
               /\ Len(Serialize(kinds[i], vs[i])) \in Nat
               /\ Holds(b, P(i - 1), Serialize(kinds[i], vs[i]))
    <3>1. seqs[i] = Serialize(kinds[i], vs[i]) /\ seqs[i] \in Seq(Byte) /\ Len(seqs[i]) \in Nat
      BY <1>2, ElementOfSeq, LenProperties
    <3>2. P(i - 1) \in Nat /\ P(i) \in Nat /\ P(i) = P(i - 1) + Len(seqs[i])
          /\ Holds(b, P(i - 1), seqs[i])
      BY <1>2, PrefixHolds
    <3> QED
      BY <3>1, <3>2
  <2> QED
    BY <2>1, <2>2, <2>3
<1> HIDE DEF P
<1>6. /\ SubSeq(vs, 1, 0) = << >> /\ SubSeq(vs, 1, n) = vs
      /\ \A i \in 0..(n - 1) : Append(SubSeq(vs, 1, i), vs[i + 1]) = SubSeq(vs, 1, i + 1)
  BY <1>3, SubSeqStep
<1> DEFINE Read(i) == P(i) <= L /\ f[i] = Reading(SubSeq(vs, 1, i), P(i))
           Lost(i) == /\ P(i) > L /\ Past(f[i], body)
                      /\ i # 0 => (kinds[i] \in PlainKind => f[i].failed)
           T == {i \in 0..n : P(i) \in Nat /\ (Read(i) \/ Lost(i))}
<1>7. 0 \in T
  <2>1. 0 \in 0..n /\ P(0) \in Nat /\ P(0) <= L
    BY <1>1, <1>5
  <2>2. f[0] = Reading(SubSeq(vs, 1, 0), P(0))
    BY <1>4, <1>5, <1>6
  <2> QED
    BY <2>1, <2>2
<1>8. \A i \in 0..(n - 1) : i \in T => i + 1 \in T
  <2> SUFFICES ASSUME NEW i \in 0..(n - 1), P(i) \in Nat, Read(i) \/ Lost(i)
               PROVE  i + 1 \in 0..n /\ P(i + 1) \in Nat /\ (Read(i + 1) \/ Lost(i + 1))
    OBVIOUS
  <2>1. i + 1 \in 1..n /\ i + 1 \in 0..n /\ (i + 1) - 1 = i /\ i + 1 # 0
    BY <1>1
  <2> DEFINE c == Serialize(kinds[i + 1], vs[i + 1])
             kind == kinds[i + 1]
  <2>2. /\ P(i + 1) \in Nat /\ P(i + 1) = P(i) + Len(c) /\ Len(c) \in Nat
        /\ Holds(b, P(i), c) /\ vs[i + 1] \in Values(kind) /\ kind \in Kind
        /\ f[i + 1] = Deserialize(f[i], body, kind, junk)
    <3>1. /\ P(i + 1) \in Nat /\ P(i + 1) = P(i) + Len(c) /\ Len(c) \in Nat
          /\ Holds(b, P(i), c)
      BY <1>5, <2>1
    <3>2. vs[i + 1] \in Values(kind) /\ kind \in Kind
      BY <1>1, <1>2, <2>1
    <3>3. f[i + 1] = Deserialize(f[i], body, kind, junk)
      BY <1>4, <2>1
    <3> QED
      BY <3>1, <3>2, <3>3
  <2>3. CASE Read(i)
    <3> DEFINE q == P(i)
               e == q + Len(c)
    <3>1. \A vals : /\ e <= L => Deserialize(Reading(vals, q), body, kind, junk)
                                    = Reading(Append(vals, vs[i + 1]), e)
                    /\ e > L => /\ Past(Deserialize(Reading(vals, q), body, kind, junk), body)
                                /\ kind \in PlainKind
                                   => Deserialize(Reading(vals, q), body, kind, junk).failed
      <4> TAKE vals
      <4> HIDE DEF q
      <4>1. Holds(b, q, c) /\ q \in Nat
        BY <2>2 DEF q
      <4> DEFINE rd == Deserialize(Reading(vals, q), body, kind, junk)
      <4>2. /\ q + Len(c) <= Len(body) => rd = Reading(Append(vals, vs[i + 1]), q + Len(c))
            /\ q + Len(c) > Len(body) => Past(rd, body) /\ (kind \in PlainKind => rd.failed)
        BY <1>2, <2>2, <4>1, ReadFieldCut
      <4> QED
        BY <4>2 DEF L
    <3>2. f[i + 1] = Deserialize(Reading(SubSeq(vs, 1, i), q), body, kind, junk) /\ e = P(i + 1)
      BY <2>2, <2>3
    <3> HIDE DEF q, e, c
    <3>3. CASE e <= L
      <4>1. f[i + 1] = Reading(SubSeq(vs, 1, i + 1), e)
        BY <1>6, <3>1, <3>2, <3>3
      <4> QED
        BY <2>1, <2>2, <3>2, <3>3, <4>1
    <3>4. CASE ~ (e <= L)
      <4>1. e > L
        BY <1>1, <2>2, <3>2, <3>4
      <4>2. Past(f[i + 1], body) /\ (kind \in PlainKind => f[i + 1].failed)
        BY <3>1, <3>2, <4>1
      <4> QED
        BY <2>1, <2>2, <3>2, <4>1, <4>2
    <3> QED
      BY <3>3, <3>4
  <2>4. CASE Lost(i)
    <3>1. P(i + 1) > L
      BY <1>1, <2>2, <2>4
    <3>2. Past(f[i + 1], body) /\ (kind \in PlainKind => f[i + 1].failed)
      BY <2>2, <2>4, ReadFieldPast
    <3> QED
      BY <2>1, <2>2, <3>1, <3>2
  <2> QED
    BY <2>3, <2>4
<1>9. Read(n) \/ Lost(n)
  <2>1. n \in T
    <3> HIDE DEF T
    <3>1. n \in 0..n
      BY <1>1
    <3> QED
      BY <1>1, <1>7, <1>8, <3>1, RangeInduction
  <2> QED
    BY <2>1
<1>10. ASSUME L = Len(b) PROVE result = Reading(vs, Len(b))
  <2>1. P(n) = L
    BY <1>5, <1>10
  <2>2. ~ (P(n) > L)
    BY <1>1, <2>1
  <2>3. f[n] = Reading(SubSeq(vs, 1, n), P(n))
    BY <1>9, <2>2
  <2> QED
    BY <1>4, <1>6, <1>10, <2>1, <2>3
<1>11. ASSUME L < Len(b) PROVE result.failed = TRUE
  <2>1. P(n) = Len(b) /\ P(n) \in Nat /\ n # 0
    BY <1>1, <1>5
  <2>2. ~ Read(n)
    BY <1>1, <1>11, <2>1
  <2> QED
    BY <1>1, <1>4, <1>9, <2>1, <2>2
<1> HIDE DEF b
<1>12. /\ L = Len(b) => result = Reading(vs, Len(b))
       /\ L < Len(b) => result.failed
  BY <1>10, <1>11
<1> QED
  BY <1>12 DEF b, L, result

\* Whatever is serialized is deserialized with the same values, and all of it is read:
\* Serializable::serialize and deserialize are inverse for every struct of the protocol and
\* every value that the format can express.
THEOREM RoundTrip ==
    ASSUME NEW struct \in DOMAIN Fields, NEW vs, Expressible(struct, vs), NEW junk \in Byte
    PROVE  deserialize(struct, serialize(struct, vs), junk)
               = Reading(vs, Len(serialize(struct, vs)))
<1> DEFINE b == serialize(struct, vs)
<1>1. b \in Seq(Byte) /\ Len(b) \in Nat
  BY StructBytes, LenProperties
<1>2. Beginning(b, b)
  BY <1>1 DEF Beginning
<1> QED
  BY <1>1, <1>2, ReadStruct

\* No body that is cut short is read as a struct, whatever value it was written for and
\* whatever byte lies behind it when the size of a vector is read.
THEOREM CutRefused ==
    ASSUME NEW struct \in DOMAIN Fields, NEW vs, Expressible(struct, vs),
           NEW n \in 0..(Len(serialize(struct, vs)) - 1), NEW junk \in Byte
    PROVE  deserialize(struct, SubSeq(serialize(struct, vs), 1, n), junk).failed
<1> DEFINE b == serialize(struct, vs)
           body == SubSeq(b, 1, n)
<1>1. b \in Seq(Byte) /\ Len(b) \in Nat /\ \A i \in 1..Len(b) : b[i] \in Byte
  BY StructBytes, LenProperties, ElementOfSeq
<1>2. junk \in Byte
  OBVIOUS
<1>3. body \in Seq(Byte) /\ Len(body) = n /\ \A i \in 1..n : body[i] = b[i]
  <2>0. n \in 0..(Len(b) - 1)
    OBVIOUS
  <2> HIDE DEF b
  <2>1. n \in Nat /\ 1 \in Int /\ n \in Int /\ \A i \in 1..n : b[i] \in Byte
    BY <1>1, <2>0
  <2>2. /\ body \in Seq(Byte) /\ Len(body) = (IF 1 <= n THEN n - 1 + 1 ELSE 0)
        /\ \A i \in 1..(n - 1 + 1) : body[i] = b[1 + i - 1]
    BY <2>1, SubSeqProperties
  <2> HIDE DEF body
  <2> QED
    BY <2>1, <2>2
<1> HIDE DEF body
<1>4. Beginning(body, b) /\ Len(body) < Len(b)
  BY <1>1, <1>3 DEF Beginning
<1>5. deserialize(struct, body, junk).failed
  BY <1>2, <1>3, <1>4, ReadStruct
<1> QED
  BY <1>5 DEF body

\* In particular behind the bytes that the runs try.
LEMMA PrefixesAreRefused ==
    ASSUME NEW struct \in DOMAIN Fields, NEW vs, Expressible(struct, vs)
    PROVE  PrefixesRefused(struct, vs)
<1>1. \A junk \in {0, 1} : junk \in Byte
  BY RadixAssumption DEF RadixAssumption, Byte
<1> QED
  BY <1>1, CutRefused DEF PrefixesRefused

\* The structs of the packets are structs.
LEMMA StructFacts ==
    /\ \A type \in RequestType : RequestStruct[type] \in DOMAIN Fields
    /\ \A type \in RequestType \ {"LOGOUT"} : ResponseStruct[type] \in DOMAIN Fields
    /\ \A type \in DOMAIN PushStruct : PushStruct[type] \in DOMAIN Fields
<1>1. RequestType = {"TOKEN_VERIFY", "REGISTER", "LOGIN", "FRIEND_REQUEST", "FRIEND_ACCEPT",
                     "FRIEND_REJECT", "FRIEND_LIST", "MESSAGE_HISTORY", "CHAT_LIST",
                     "LOGOUT", "MESSAGE", "DIRECT_MESSAGE"}
  BY DEF RequestType, AnswerSignal
<1>2. \A type \in RequestType : RequestStruct[type] \in DOMAIN Fields
  BY <1>1 DEF RequestStruct, Fields
<1>3. \A type \in RequestType \ {"LOGOUT"} : ResponseStruct[type] \in DOMAIN Fields
  BY <1>1 DEF ResponseStruct, Fields
<1>4. \A type \in DOMAIN PushStruct : PushStruct[type] \in DOMAIN Fields
  BY DEF PushStruct, Fields
<1> QED
  BY <1>2, <1>3, <1>4

\* A body that is cut short anywhere is refused, never decoded as something that was not
\* sent, for every packet that the client or the server can send (Serializer<vector> reads
\* a size that it does not check, the field behind it then fails).
THEOREM TruncationIsRefused == Spec => []TruncationRefused
<1>1. TruncationRefused
  BY ConnectionAssumption, StructFacts, PrefixesAreRefused
     DEF TruncationRefused, ConnectionAssumption
<1> QED
  BY <1>1, PTL

-----------------------------------------------------------------------------
(***************************************************************************)
(* The bytes under way.  Behind the header that is read, what is on the    *)
(* wire, in the write_queue and posted are the frames of the packets sent  *)
(* and not yet handled, in order and without a byte more or less.          *)
(***************************************************************************)

\* What a packet sent is on the wire.
Frame(packet) ==
    full_packet(Code(packet.type), serialize(RequestStruct[packet.type], packet.values))

Frames(queue) == [i \in DOMAIN queue |-> Frame(queue[i])]

\* The header that is read, the packets in the write_queue that are not written.
Unread == IF header = NoHeader THEN << >> ELSE pack_ui32(header.type) \o pack_ui32(header.length)

Unwritten ==
    IF write_queue = << >> THEN << >>
    ELSE SubSeq(Head(write_queue), done + 1, Len(Head(write_queue)))
             \o FlattenSeq(Tail(write_queue))

Flow == Unread \o (wire \o (Unwritten \o FlattenSeq(posted)))

Conserved == connected => Flow = FlattenSeq(Frames(sent))

\* The queues hold bytes, and a write under way is one of the first packet.
QueuesOK ==
    /\ posted \in Seq(Seq(Byte)) /\ write_queue \in Seq(Seq(Byte)) /\ wire \in Seq(Byte)
    /\ header \in {NoHeader} \cup [type: 0..(Word - 1), length: 0..(Word - 1)]
    /\ writing => write_queue # << >>
    /\ done \in Nat
    /\ IF write_queue = << >> THEN done = 0 ELSE done <= Len(Head(write_queue))

\* A packet is one of the requests.
Requested(packet) == packet.type \in RequestType /\ packet.values \in Request[packet.type]

CallOK == call # Handler!NoCall => Requested(call)
SentOK == \A i \in 1..Len(sent) : Requested(sent[i])

\* The body of a packet from the server is what its values are written as.
Encoded(packet) ==
    IF packet.type = "RESULT"
    THEN /\ packet.to \in RequestType \ {"LOGOUT"} /\ packet.values \in Answer[packet.to]
         /\ packet.body = serialize(ResponseStruct[packet.to], packet.values)
    ELSE /\ packet.type \in PushType /\ packet.values \in Push[packet.type]
         /\ packet.type \in DOMAIN PushStruct
                => packet.body = serialize(PushStruct[packet.type], packet.values)

ReceivedOK == \A i \in 1..Len(received) : Encoded(received[i])

\* Concatenations that are equal, with first parts that are equally long.
LEMMA SameParts ==
    ASSUME NEW S, NEW s \in Seq(S), NEW t \in Seq(S), NEW u \in Seq(S), NEW v \in Seq(S),
           s \o t = u \o v, Len(s) = Len(u)
    PROVE  s = u /\ t = v
<1>1. Len(s) \in Nat /\ Len(t) \in Nat /\ Len(u) \in Nat /\ Len(v) \in Nat
  BY LenProperties
<1>2. \A i \in 1..Len(s) : s[i] = u[i]
  <2> TAKE i \in 1..Len(s)
  <2>1. i \in 1..(Len(s) + Len(t)) /\ i \in 1..(Len(u) + Len(v)) /\ i <= Len(s) /\ i <= Len(u)
    BY <1>1
  <2>2. (s \o t)[i] = s[i]
    BY <2>1, ConcatProperties
  <2>3. (u \o v)[i] = u[i]
    BY <2>1, ConcatProperties
  <2> QED
    BY <2>2, <2>3
<1>3. s = u
  BY <1>2, SeqEqual
<1>4. s \o t = s \o v
  BY <1>3
<1>5. t = v
  BY <1>4, ConcatSimplifications
<1> QED
  BY <1>3, <1>5

\* A sequence in two parts.
LEMMA TwoParts ==
    ASSUME NEW S, NEW s \in Seq(S), NEW k \in 0..Len(s)
    PROVE  /\ SubSeq(s, 1, k) \in Seq(S) /\ SubSeq(s, k + 1, Len(s)) \in Seq(S)
           /\ Len(SubSeq(s, 1, k)) = k
           /\ \A i \in 1..k : SubSeq(s, 1, k)[i] = s[i]
           /\ s = SubSeq(s, 1, k) \o SubSeq(s, k + 1, Len(s))
<1>1. Len(s) \in Nat /\ k \in Nat /\ \A i \in 1..Len(s) : s[i] \in S
  BY LenProperties, ElementOfSeq
<1>2. SubSeq(s, k + 1, Len(s)) \in Seq(S)
  <2>1. k + 1 \in Int /\ Len(s) \in Int /\ \A i \in (k + 1)..Len(s) : s[i] \in S
    BY <1>1
  <2> QED
    BY <2>1, SubSeqProperties
<1>3. /\ SubSeq(s, 1, k) \in Seq(S) /\ Len(SubSeq(s, 1, k)) = k
      /\ \A i \in 1..k : SubSeq(s, 1, k)[i] = s[i]
  <2> DEFINE t == SubSeq(s, 1, k)
  <2>1. 1 \in Int /\ k \in Int /\ \A i \in 1..k : s[i] \in S
    BY <1>1
  <2>2. /\ t \in Seq(S) /\ Len(t) = (IF 1 <= k THEN k - 1 + 1 ELSE 0)
        /\ \A i \in 1..(k - 1 + 1) : t[i] = s[1 + i - 1]
    BY <2>1, SubSeqProperties
  <2> HIDE DEF t
  <2>3. t \in Seq(S) /\ Len(t) = k /\ \A i \in 1..k : t[i] = s[i]
    BY <1>1, <2>2
  <2> QED
    BY <2>3 DEF t
<1>4. s = SubSeq(s, 1, k) \o SubSeq(s, k + 1, Len(s))
  <2>1. 1 \in 1..(Len(s) + 1) /\ k \in (1 - 1)..Len(s) /\ Len(s) \in k..Len(s)
    BY <1>1
  <2>2. SubSeq(s, 1, k) \o SubSeq(s, k + 1, Len(s)) = SubSeq(s, 1, Len(s))
    BY <2>1, ConcatAdjacentSubSeq
  <2> QED
    BY <2>2, SubSeqFull
<1> QED
  BY <1>2, <1>3, <1>4

\* Concatenation of bytes.
LEMMA JoinAssociative == \A s, t, u \in Seq(Byte) : (s \o t) \o u = s \o (t \o u)
BY Associative

\* The same in the other direction.
LEMMA JoinAgain ==
    ASSUME NEW s \in Seq(Byte), NEW t \in Seq(Byte), NEW u \in Seq(Byte)
    PROVE  s \o (t \o u) = (s \o t) \o u
BY Associative

\* Bytes behind bytes are bytes.
LEMMA JoinBytes == \A s, t \in Seq(Byte) : s \o t \in Seq(Byte)
BY ConcatProperties

\* An empty part.
LEMMA JoinEmpty == \A s \in Seq(Byte) : s \o << >> = s /\ << >> \o s = s
BY ConcatEmptySeq

\* The first part of what is on the wire.
LEMMA WireBegins ==
    ASSUME NEW w \in Seq(Byte), NEW r \in Seq(Byte), NEW b \in Seq(Byte), NEW x \in Seq(Byte),
           w \o r = b \o x, Len(w) >= Len(b)
    PROVE  SubSeq(w, 1, Len(b)) = b /\ SubSeq(w, Len(b) + 1, Len(w)) \o r = x
<1> DEFINE k == Len(b)
           f == SubSeq(w, 1, k)
           g == SubSeq(w, k + 1, Len(w))
<1>1. k \in 0..Len(w)
  BY LenProperties
<1>2. f \in Seq(Byte) /\ g \in Seq(Byte) /\ Len(f) = k /\ w = f \o g
  BY <1>1, TwoParts
<1> HIDE DEF f, g
<1>3. (f \o g) \o r = b \o x
  BY <1>2
<1>4. (f \o g) \o r = f \o (g \o r)
  BY <1>2, JoinAssociative
<1>5. g \o r \in Seq(Byte) /\ f \o (g \o r) = b \o x
  BY <1>2, <1>3, <1>4, ConcatProperties
<1>6. f = b /\ g \o r = x
  BY <1>2, <1>5, SameParts
<1> QED
  BY <1>6 DEF f, g, k

\* Dividing by the base takes the last digit away.
LEMMA LastDigit ==
    ASSUME NEW x \in Int, NEW d \in Byte
    PROVE  /\ x * Radix + d \in Int
           /\ (x * Radix + d) \div Radix = x /\ (x * Radix + d) % Radix = d
<1> DEFINE v == x * Radix + d
           q == v \div Radix
           r == v % Radix
<1>1. Radix \in Nat /\ Radix > 0 /\ d \in 0..(Radix - 1) /\ d \in Int
  BY RadixAssumption DEF RadixAssumption, Byte
<1>2. v \in Int /\ Radix * x + d = v
  BY <1>1
<1> HIDE DEF v
<1>3. q \in Int /\ r \in 0..(Radix - 1) /\ v = Radix * q + r
  BY <1>1, <1>2, DivMod
<1> HIDE DEF q, r
<1>4. Radix * x + d = Radix * q + r
  BY <1>2, <1>3
<1>5. x = q /\ d = r
  BY <1>1, <1>3, <1>4, QuotientUnique
<1> QED
  BY <1>2, <1>5 DEF v, q, r

\* Four bytes are what their number is written as.
LEMMA PackNumber ==
    ASSUME NEW b \in Seq(Byte), Len(b) = 4
    PROVE  pack_ui32(Number(b)) = b /\ Number(b) \in 0..(Word - 1)
<1>1. b[1] \in Byte /\ b[2] \in Byte /\ b[3] \in Byte /\ b[4] \in Byte
  <2>1. \A i \in 1..Len(b) : b[i] \in Byte
    BY ElementOfSeq
  <2> QED
    BY <2>1
<1>2. Byte \subseteq Int /\ \A i \in 1..4 : b[i] \in Byte
  BY <1>1 DEF Byte
<1> DEFINE x == b[1]
           y == x * Radix + b[2]
           z == y * Radix + b[3]
           v == z * Radix + b[4]
<1>3. y \in Int /\ y \div Radix = x /\ y % Radix = b[2]
  BY <1>1, <1>2, LastDigit
<1> HIDE DEF y
<1>4. z \in Int /\ z \div Radix = y /\ z % Radix = b[3]
  BY <1>1, <1>3, LastDigit
<1> HIDE DEF z
<1>5. v \in Int /\ v \div Radix = z /\ v % Radix = b[4]
  BY <1>1, <1>4, LastDigit
<1> HIDE DEF v
<1>6. x % Radix = x
  <2>1. Radix \in Nat /\ Radix > 0 /\ 0 * Radix + b[1] = b[1]
    <3>1. Radix \in Nat /\ Radix > 0
      BY RadixAssumption DEF RadixAssumption
    <3>2. PICK e \in Int : e = b[1]
      BY <1>1, <1>2
    <3>3. 0 * Radix + e = e
      BY <3>1
    <3> QED
      BY <3>1, <3>2, <3>3
  <2>2. (0 * Radix + b[1]) % Radix = b[1]
    BY <1>1, LastDigit
  <2> QED
    BY <2>1, <2>2
<1>7. Number(b) = v
  BY DEF Number, x, y, z, v
<1>8. pack_ui32(v) = <<x % Radix, y % Radix, z % Radix, v % Radix>>
  BY <1>3, <1>4, <1>5 DEF pack_ui32
<1>9. pack_ui32(v) = <<b[1], b[2], b[3], b[4]>>
  BY <1>3, <1>4, <1>5, <1>6, <1>8
<1>10. b = <<b[1], b[2], b[3], b[4]>>
  <2> DEFINE c == <<b[1], b[2], b[3], b[4]>>
  <2>1. c \in Seq(Byte) /\ Len(c) = 4 /\ c[1] = b[1] /\ c[2] = b[2] /\ c[3] = b[3] /\ c[4] = b[4]
    BY <1>1
  <2> HIDE DEF c
  <2>2. \A i \in 1..4 : b[i] = c[i]
    BY <2>1
  <2>3. b = c
    BY <2>1, <2>2, SeqEqual
  <2> QED
    BY <2>3 DEF c
<1> QED
  BY <1>2, <1>7, <1>9, <1>10, NumberInWord

\* The number of a type of request fits into the header and gives the type back.
LEMMA CodeFacts ==
    ASSUME NEW type \in RequestType
    PROVE  Code(type) \in 0..(Word - 1) /\ PacketTypes[Code(type)] = type
<1>1. \E i \in DOMAIN PacketTypes : PacketTypes[i] = type
  BY DEF RequestType, AnswerSignal, PacketTypes
<1>2. Code(type) \in DOMAIN PacketTypes /\ PacketTypes[Code(type)] = type
  BY <1>1 DEF Code
<1>3. DOMAIN PacketTypes = 1..18
  BY DEF PacketTypes
<1> QED
  BY <1>2, <1>3, WordFacts

\* A frame is a header of eight bytes and the body.
LEMMA FrameFacts ==
    ASSUME NEW packet, Requested(packet)
    PROVE  LET body == serialize(RequestStruct[packet.type], packet.values)
           IN  /\ Expressible(RequestStruct[packet.type], packet.values)
               /\ RequestStruct[packet.type] \in DOMAIN Fields
               /\ body \in Seq(Byte) /\ Len(body) \in 0..(Word - 1)
               /\ Code(packet.type) \in 0..(Word - 1)
               /\ Frame(packet) = (pack_ui32(Code(packet.type)) \o pack_ui32(Len(body))) \o body
               /\ Frame(packet) \in Seq(Byte)
<1> DEFINE body == serialize(RequestStruct[packet.type], packet.values)
           t == pack_ui32(Code(packet.type))
           l == pack_ui32(Len(body))
<1>1. Expressible(RequestStruct[packet.type], packet.values)
      /\ RequestStruct[packet.type] \in DOMAIN Fields
  BY ConnectionAssumption, StructFacts DEF Requested, ConnectionAssumption
<1>2. body \in Seq(Byte) /\ Len(body) \in 0..(Word - 1)
  BY <1>1, StructBytes
<1>3. Code(packet.type) \in 0..(Word - 1)
  BY CodeFacts DEF Requested
<1>4. t \in Seq(Byte) /\ l \in Seq(Byte)
  <2>1. Code(packet.type) \in Int /\ Len(body) \in Int
    BY <1>2, <1>3, WordFacts
  <2> QED
    BY <2>1, Packed32
<1>5. Frame(packet) = (t \o l) \o body
  BY DEF Frame, full_packet
<1>6. (t \o l) \o body \in Seq(Byte)
  <2> HIDE DEF t, l, body
  <2> QED
    BY <1>2, <1>4, JoinBytes
<1> QED
  BY <1>1, <1>2, <1>3, <1>5, <1>6

\* FlattenSeq of byte sequences.
LEMMA AppendBytes ==
    \A q \in Seq(Seq(Byte)), e \in Seq(Byte) : FlattenSeq(Append(q, e)) = FlattenSeq(q) \o e
BY FlattenAppend

\* A queue of packets as bytes.
LEMMA FlattenBytes ==
    /\ \A q \in Seq(Seq(Byte)) : FlattenSeq(q) \in Seq(Byte)
    /\ \A q \in Seq(Seq(Byte)) : q # << >> =>
          /\ Head(q) \in Seq(Byte) /\ Tail(q) \in Seq(Seq(Byte))
          /\ FlattenSeq(q) = Head(q) \o FlattenSeq(Tail(q))
<1>1. ASSUME NEW q \in Seq(Seq(Byte)) PROVE FlattenSeq(q) \in Seq(Byte)
  <2>1. Len(q) \in 0..Len(q)
    BY LenProperties
  <2> QED
    BY <2>1, PrefixFacts
<1>2. ASSUME NEW q \in Seq(Seq(Byte)), q # << >>
      PROVE  /\ Head(q) \in Seq(Byte) /\ Tail(q) \in Seq(Seq(Byte))
             /\ FlattenSeq(q) = Head(q) \o FlattenSeq(Tail(q))
  BY <1>2, FlattenHead
<1> QED
  BY <1>1, <1>2

\* All the bytes under way are bytes.
LEMMA FlowBytes ==
    ASSUME QueuesOK
    PROVE  /\ Unread \in Seq(Byte) /\ wire \in Seq(Byte) /\ Unwritten \in Seq(Byte)
           /\ FlattenSeq(posted) \in Seq(Byte) /\ Flow \in Seq(Byte)
<1>1. Unread \in Seq(Byte)
  <2>1. CASE header = NoHeader
    BY <2>1, EmptySeq DEF Unread
  <2>2. CASE header # NoHeader
    <3>1. header.type \in Int /\ header.length \in Int
      BY <2>2, WordFacts DEF QueuesOK
    <3>2. pack_ui32(header.type) \in Seq(Byte) /\ pack_ui32(header.length) \in Seq(Byte)
      BY <3>1, Packed32
    <3> QED
      BY <2>2, <3>2, JoinBytes DEF Unread
  <2> QED
    BY <2>1, <2>2
<1>2. \A q \in Seq(Seq(Byte)) : FlattenSeq(q) \in Seq(Byte)
  BY FlattenBytes
<1>3. Unwritten \in Seq(Byte)
  <2>1. CASE write_queue = << >>
    BY <2>1, EmptySeq DEF Unwritten
  <2>2. CASE write_queue # << >>
    <3> DEFINE h == Head(write_queue)
    <3>1. h \in Seq(Byte) /\ Tail(write_queue) \in Seq(Seq(Byte)) /\ done \in 0..Len(h)
      <4>1. h \in Seq(Byte) /\ Tail(write_queue) \in Seq(Seq(Byte))
        BY <2>2, HeadTailProperties DEF QueuesOK
      <4>2. done \in Nat /\ done <= Len(h) /\ Len(h) \in Nat
        BY <2>2, <4>1, LenProperties DEF QueuesOK
      <4> QED
        BY <4>1, <4>2
    <3>2. SubSeq(h, done + 1, Len(h)) \in Seq(Byte)
      BY <3>1, TwoParts
    <3>3. FlattenSeq(Tail(write_queue)) \in Seq(Byte)
      BY <1>2, <3>1
    <3> QED
      BY <2>2, <3>2, <3>3, JoinBytes DEF Unwritten
  <2> QED
    BY <2>1, <2>2
<1>4. wire \in Seq(Byte) /\ FlattenSeq(posted) \in Seq(Byte)
  BY <1>2 DEF QueuesOK
<1>5. Flow \in Seq(Byte)
  <2>1. Unwritten \o FlattenSeq(posted) \in Seq(Byte)
    BY <1>3, <1>4, JoinBytes
  <2>2. wire \o (Unwritten \o FlattenSeq(posted)) \in Seq(Byte)
    BY <1>4, <2>1, JoinBytes
  <2> QED
    BY <1>1, <2>2, JoinBytes DEF Flow
<1> QED
  BY <1>1, <1>3, <1>4, <1>5

\* send_packet adds a frame behind them.
LEMMA SendFlow ==
    ASSUME NEW type, NEW body, full_packet(type, body) \in Seq(Byte)
    PROVE  QueuesOK /\ send_packet(type, body)
               => QueuesOK' /\ Flow' = Flow \o full_packet(type, body)
<1> DEFINE e == full_packet(type, body)
<1> SUFFICES ASSUME QueuesOK, send_packet(type, body) PROVE QueuesOK' /\ Flow' = Flow \o e
  OBVIOUS
<1>1. posted \in Seq(Seq(Byte)) /\ posted' = Append(posted, e)
      /\ UNCHANGED <<write_queue, writing, done, wire, header>>
  BY DEF QueuesOK, send_packet
<1> HIDE DEF e
<1>2. posted' \in Seq(Seq(Byte))
  BY <1>1, AppendProperties DEF e
<1>3. QueuesOK'
  BY <1>1, <1>2 DEF QueuesOK
<1>4. FlattenSeq(posted') = FlattenSeq(posted) \o e /\ e \in Seq(Byte)
  BY <1>1, AppendBytes DEF e
<1>5. Unread' = Unread /\ Unwritten' = Unwritten /\ wire' = wire
  BY <1>1 DEF Unread, Unwritten
<1> DEFINE p == FlattenSeq(posted)
<1>6. Flow' = Unread \o (wire \o (Unwritten \o (p \o e)))
  BY <1>4, <1>5 DEF Flow
<1>7. Flow = Unread \o (wire \o (Unwritten \o p))
  BY DEF Flow
<1>8. Unread \in Seq(Byte) /\ wire \in Seq(Byte) /\ Unwritten \in Seq(Byte) /\ p \in Seq(Byte)
  BY FlowBytes
<1> DEFINE x == Unwritten \o p
           y == wire \o x
<1> HIDE DEF p
<1>9. e \in Seq(Byte) /\ Unread \in Seq(Byte) /\ wire \in Seq(Byte)
  BY <1>4, <1>8
<1>10. Unwritten \o (p \o e) = (Unwritten \o p) \o e
  BY <1>8, <1>9, JoinAgain
<1>11. x \in Seq(Byte)
  BY <1>8, JoinBytes
<1> HIDE DEF x
<1>12. wire \o (x \o e) = (wire \o x) \o e
  BY <1>9, <1>11, JoinAgain
<1>13. y \in Seq(Byte)
  BY <1>9, <1>11, JoinBytes
<1> HIDE DEF y
<1>14. Unread \o (y \o e) = (Unread \o y) \o e
  BY <1>9, <1>13, JoinAgain
<1>15. Flow' = Unread \o (y \o e) /\ Flow = Unread \o y
  BY <1>6, <1>7, <1>10, <1>12 DEF x, y
<1> QED
  BY <1>3, <1>14, <1>15 DEF e

\* The posted function moves one from the one queue to the other.
LEMMA PostedFlow == QueuesOK /\ Posted => QueuesOK' /\ Flow' = Flow
<1> SUFFICES ASSUME QueuesOK, Posted PROVE QueuesOK' /\ Flow' = Flow
  OBVIOUS
<1> DEFINE e == Head(posted)
           p == FlattenSeq(Tail(posted))
<1>1. /\ posted \in Seq(Seq(Byte)) /\ posted # << >> /\ posted' = Tail(posted)
      /\ write_queue \in Seq(Seq(Byte)) /\ write_queue' = Append(write_queue, e)
      /\ UNCHANGED <<done, wire, header>>
  BY DEF QueuesOK, Posted
<1>2. /\ e \in Seq(Byte) /\ Tail(posted) \in Seq(Seq(Byte)) /\ p \in Seq(Byte)
      /\ FlattenSeq(posted) = e \o p
  BY <1>1, FlattenHead
<1> HIDE DEF e
<1>3. /\ write_queue' \in Seq(Seq(Byte)) /\ write_queue' # << >>
      /\ Head(write_queue') = IF write_queue = << >> THEN e ELSE Head(write_queue)
      /\ Tail(write_queue') = IF write_queue = << >> THEN << >> ELSE Append(Tail(write_queue), e)
  BY <1>1, <1>2, AppendProperties, HeadTailAppend
<1>4. QueuesOK'
  <2>1. done' <= Len(Head(write_queue'))
    <3>1. Len(e) \in Nat
      BY <1>2, LenProperties
    <3> QED
      BY <1>1, <1>3, <3>1 DEF QueuesOK
  <2>2. posted' \in Seq(Seq(Byte))
    BY <1>1, <1>2
  <2> QED
    BY <1>1, <1>3, <2>1, <2>2 DEF QueuesOK
<1>5. Unread' = Unread /\ wire' = wire /\ FlattenSeq(posted') = p
  BY <1>1 DEF Unread
<1> HIDE DEF p
<1>6. Unwritten' = Unwritten \o e
  <2>1. CASE write_queue = << >>
    <3>1. Unwritten = << >> /\ done' = 0
      BY <1>1, <2>1 DEF Unwritten, QueuesOK
    <3>2. Head(write_queue') = e /\ Tail(write_queue') = << >>
      BY <1>3, <2>1
    <3>3. Unwritten' = SubSeq(e, done' + 1, Len(e)) \o FlattenSeq(<< >>)
      BY <1>3, <3>2 DEF Unwritten
    <3>4. SubSeq(e, done' + 1, Len(e)) = e
      BY <1>2, <3>1, SubSeqFull
    <3>5. Unwritten' = e \o << >>
      BY <3>3, <3>4, FlattenEmpty
    <3> QED
      BY <1>2, <3>1, <3>5, JoinEmpty
  <2>2. CASE write_queue # << >>
    <3> DEFINE h == SubSeq(Head(write_queue), done + 1, Len(Head(write_queue)))
               t == Tail(write_queue)
    <3>1. Unwritten = h \o FlattenSeq(t)
      BY <2>2 DEF Unwritten
    <3>2. Head(write_queue') = Head(write_queue) /\ Tail(write_queue') = Append(t, e)
      BY <1>3, <2>2
    <3>3. Unwritten' = h \o FlattenSeq(Append(t, e))
      BY <1>1, <1>3, <3>2 DEF Unwritten
    <3>4. t \in Seq(Seq(Byte)) /\ FlattenSeq(t) \in Seq(Byte)
      BY <1>1, <2>2, FlattenHead
    <3>5. h \in Seq(Byte)
      <4>1. Head(write_queue) \in Seq(Byte) /\ done \in Nat /\ done <= Len(Head(write_queue))
        BY <1>1, <2>2, FlattenHead DEF QueuesOK
      <4>2. done \in 0..Len(Head(write_queue))
        BY <4>1, LenProperties
      <4> QED
        BY <4>1, <4>2, TwoParts
    <3> HIDE DEF h, t
    <3>6. FlattenSeq(Append(t, e)) = FlattenSeq(t) \o e
      <4>1. t \in Seq(Seq(Byte)) /\ e \in Seq(Byte)
        BY <1>2, <3>4
      <4> QED
        BY <4>1, AppendBytes
    <3>7. h \o (FlattenSeq(t) \o e) = (h \o FlattenSeq(t)) \o e
      BY <1>2, <3>4, <3>5, JoinAssociative
    <3> QED
      BY <3>1, <3>3, <3>6, <3>7
  <2> QED
    BY <2>1, <2>2
<1>7. Unwritten \in Seq(Byte)
  BY FlowBytes
<1>8. (Unwritten \o e) \o p = Unwritten \o (e \o p)
  BY <1>2, <1>7, JoinAssociative DEF p
<1>9. Flow' = Unread \o (wire \o ((Unwritten \o e) \o p))
  BY <1>5, <1>6 DEF Flow
<1>10. Flow = Unread \o (wire \o (Unwritten \o (e \o p)))
  BY <1>2 DEF Flow
<1> QED
  BY <1>4, <1>8, <1>9, <1>10

\* A write takes bytes of the first packet to the wire.
LEMMA WriteFlow ==
    ASSUME NEW n \in 1..(8 + 8 * Radix)
    PROVE  QueuesOK /\ do_write(n) => QueuesOK' /\ Flow' = Flow
<1> SUFFICES ASSUME QueuesOK, do_write(n) PROVE QueuesOK' /\ Flow' = Flow
  OBVIOUS
<1> DEFINE h == Head(write_queue)
           f == SubSeq(h, done + 1, done + n)
           g == SubSeq(h, done + n + 1, Len(h))
           t == FlattenSeq(Tail(write_queue))
           p == FlattenSeq(posted)
<1>1. n \in Nat
  BY RadixAssumption DEF RadixAssumption
<1>2. /\ write_queue # << >> /\ write_queue \in Seq(Seq(Byte)) /\ done \in Nat /\ wire \in Seq(Byte)
      /\ done + n <= Len(h) /\ wire' = wire \o f /\ done' = done + n
      /\ UNCHANGED <<posted, write_queue, writing, header>>
  BY DEF do_write, QueuesOK
<1>3. h \in Seq(Byte) /\ t \in Seq(Byte)
  BY <1>2, FlattenBytes
<1> HIDE DEF h
<1>4. Len(h) \in Nat /\ \A i \in 1..Len(h) : h[i] \in Byte
  BY <1>3, LenProperties, ElementOfSeq
<1>5. f \in Seq(Byte)
  <2>1. done + 1 \in Int /\ done + n \in Int /\ \A i \in (done + 1)..(done + n) : h[i] \in Byte
    BY <1>1, <1>2, <1>4
  <2> QED
    BY <2>1, SubSeqProperties
<1>6. g \in Seq(Byte)
  <2>1. done + n + 1 \in Int /\ Len(h) \in Int /\ \A i \in (done + n + 1)..Len(h) : h[i] \in Byte
    BY <1>1, <1>2, <1>4
  <2> QED
    BY <2>1, SubSeqProperties
<1>7. SubSeq(h, done + 1, Len(h)) = f \o g
  <2> DEFINE k == done + n
             m == done + 1
  <2>1. m \in 1..(Len(h) + 1) /\ k \in (m - 1)..Len(h) /\ Len(h) \in k..Len(h)
    BY <1>1, <1>2, <1>4
  <2> HIDE DEF k, m
  <2>2. SubSeq(h, m, k) \o SubSeq(h, k + 1, Len(h)) = SubSeq(h, m, Len(h))
    BY <1>3, <2>1, ConcatAdjacentSubSeq
  <2> QED
    BY <2>2 DEF k, m
<1>8. QueuesOK'
  <2>1. wire' \in Seq(Byte)
    BY <1>2, <1>5, JoinBytes
  <2>2. done' \in Nat
    BY <1>1, <1>2
  <2> QED
    BY <1>2, <2>1, <2>2 DEF QueuesOK, h
<1>9. Unwritten = (f \o g) \o t
  BY <1>2, <1>7 DEF Unwritten, h
<1>10. Unwritten' = g \o t
  BY <1>2 DEF Unwritten, h
<1>11. p \in Seq(Byte) /\ Unread' = Unread
  BY <1>2, FlowBytes DEF Unread
<1> HIDE DEF f, g, t, p
<1>12. (f \o g) \o t = f \o (g \o t)
  BY <1>3, <1>5, <1>6, JoinAssociative
<1> DEFINE x == g \o t
<1>13. x \in Seq(Byte)
  BY <1>3, <1>6, JoinBytes
<1> HIDE DEF x
<1>14. (f \o x) \o p = f \o (x \o p)
  BY <1>5, <1>11, <1>13, JoinAssociative
<1> DEFINE y == x \o p
<1>15. y \in Seq(Byte)
  BY <1>11, <1>13, JoinBytes
<1> HIDE DEF y
<1>16. (wire \o f) \o y = wire \o (f \o y)
  BY <1>2, <1>5, <1>15, JoinAssociative
<1>17. Flow = Unread \o (wire \o ((f \o x) \o p))
  BY <1>9, <1>12 DEF Flow, p, x
<1>18. Flow' = Unread \o ((wire \o f) \o (x \o p))
  BY <1>2, <1>10, <1>11 DEF Flow, p, x
<1> QED
  BY <1>8, <1>14, <1>16, <1>17, <1>18 DEF y

\* The completion handler takes away a packet that is written to its end.
LEMMA WrittenFlow == QueuesOK /\ Written => QueuesOK' /\ Flow' = Flow
<1> SUFFICES ASSUME QueuesOK, Written PROVE QueuesOK' /\ Flow' = Flow
  OBVIOUS
<1> DEFINE h == Head(write_queue)
           t == Tail(write_queue)
<1>1. /\ write_queue # << >> /\ write_queue \in Seq(Seq(Byte)) /\ done \in Nat
      /\ done = Len(h) /\ write_queue' = t /\ done' = 0 /\ writing' = (t # << >>)
      /\ UNCHANGED <<posted, wire, header>>
  BY DEF Written, QueuesOK
<1>2. h \in Seq(Byte) /\ t \in Seq(Seq(Byte)) /\ FlattenSeq(t) \in Seq(Byte)
  BY <1>1, FlattenBytes
<1>3. QueuesOK'
  <2>1. t # << >> => 0 <= Len(Head(t))
    <3>1. t # << >> => Head(t) \in Seq(Byte)
      BY <1>2, FlattenBytes
    <3> QED
      BY <3>1, LenProperties
  <2> HIDE DEF t
  <2> QED
    BY <1>1, <1>2, <2>1 DEF QueuesOK
<1>4. Unwritten = FlattenSeq(t)
  <2>1. Unwritten = SubSeq(h, done + 1, Len(h)) \o FlattenSeq(t)
    BY <1>1 DEF Unwritten
  <2>2. SubSeq(h, done + 1, Len(h)) = << >>
    BY <1>1, <1>2, SubSeqEmpty
  <2> QED
    BY <1>2, <2>1, <2>2, JoinEmpty
<1>5. Unwritten' = FlattenSeq(t)
  <2>1. CASE t = << >>
    BY <1>1, <2>1, FlattenEmpty DEF Unwritten
  <2>2. CASE t # << >>
    <3>1. Head(t) \in Seq(Byte) /\ FlattenSeq(t) = Head(t) \o FlattenSeq(Tail(t))
      BY <1>2, <2>2, FlattenBytes
    <3>2. SubSeq(Head(t), 0 + 1, Len(Head(t))) = Head(t)
      <4> DEFINE u == Head(t)
      <4>1. u \in Seq(Byte)
        BY <3>1
      <4> HIDE DEF u
      <4>2. SubSeq(u, 1, Len(u)) = u
        BY <4>1, SubSeqFull
      <4>3. SubSeq(u, 0 + 1, Len(u)) = u
        BY <4>2
      <4> QED
        BY <4>3 DEF u
    <3>3. Unwritten' = SubSeq(Head(t), 0 + 1, Len(Head(t))) \o FlattenSeq(Tail(t))
      BY <1>1, <2>2 DEF Unwritten
    <3> QED
      BY <3>1, <3>2, <3>3
  <2> QED
    BY <2>1, <2>2
<1>6. Unread' = Unread /\ wire' = wire /\ posted' = posted
  BY <1>1 DEF Unread
<1> QED
  BY <1>3, <1>4, <1>5, <1>6 DEF Flow

\* Two numbers in front of some bytes are those of a header that is read.
LEMMA HeaderBytes ==
    ASSUME NEW i \in 0..(Word - 1), NEW j \in 0..(Word - 1)
    PROVE  /\ pack_ui32(i) \in Seq(Byte) /\ pack_ui32(j) \in Seq(Byte)
           /\ pack_ui32(i) \o pack_ui32(j) \in Seq(Byte)
           /\ Len(pack_ui32(i)) = 4 /\ Len(pack_ui32(j)) = 4
           /\ Len(pack_ui32(i) \o pack_ui32(j)) = 8
           /\ Number(pack_ui32(i)) = i /\ Number(pack_ui32(j)) = j
<1> DEFINE a == pack_ui32(i)
           b == pack_ui32(j)
<1>1. i \in Int /\ j \in Int
  BY WordFacts
<1>2. a \in Seq(Byte) /\ Len(a) = 4 /\ Number(a) = i
  BY <1>1, Packed32
<1>3. b \in Seq(Byte) /\ Len(b) = 4 /\ Number(b) = j
  BY <1>1, Packed32
<1> HIDE DEF a, b
<1>4. a \o b \in Seq(Byte)
  BY <1>2, <1>3, JoinBytes
<1>5. Len(a \o b) = Len(a) + Len(b)
  <2>1. a \in Seq(Byte) /\ b \in Seq(Byte)
    BY <1>2, <1>3
  <2> QED
    BY <2>1, ConcatProperties
<1>6. Len(a \o b) = 8
  BY <1>2, <1>3, <1>5
<1> QED
  BY <1>2, <1>3, <1>4, <1>6 DEF a, b

\* read_header takes the eight bytes of a header from the wire.
LEMMA ReadHeaderFlow == QueuesOK /\ read_header => QueuesOK' /\ Flow' = Flow
<1> SUFFICES ASSUME QueuesOK, read_header PROVE QueuesOK' /\ Flow' = Flow
  OBVIOUS
<1> DEFINE a == SubSeq(wire, 1, 4)
           b == SubSeq(wire, 5, 8)
           r == SubSeq(wire, 9, Len(wire))
           x == Unwritten \o FlattenSeq(posted)
<1>1. /\ wire \in Seq(Byte) /\ header = NoHeader /\ Len(wire) >= 8 /\ wire' = r
      /\ header' = [type |-> Number(a), length |-> Number(b)]
      /\ UNCHANGED <<posted, write_queue, writing, done>>
  BY DEF read_header, QueuesOK
<1>2. Len(wire) \in Nat /\ \A i \in 1..Len(wire) : wire[i] \in Byte
  BY <1>1, LenProperties, ElementOfSeq
<1>3. a \in Seq(Byte) /\ Len(a) = 4
  <2>1. 4 \in 0..Len(wire)
    BY <1>1, <1>2
  <2> QED
    BY <1>1, <2>1, TwoParts
<1>4. b \in Seq(Byte) /\ Len(b) = 4
  <2>1. 5 \in Int /\ 8 \in Int /\ \A i \in 5..8 : wire[i] \in Byte
    BY <1>1, <1>2
  <2>2. b \in Seq(Byte) /\ Len(b) = (IF 5 <= 8 THEN 8 - 5 + 1 ELSE 0)
    BY <2>1, SubSeqProperties
  <2> HIDE DEF b
  <2> QED
    BY <2>2
<1>5. SubSeq(wire, 1, 8) = a \o b
  <2>1. 1 \in 1..(Len(wire) + 1) /\ 4 \in (1 - 1)..Len(wire) /\ 8 \in 4..Len(wire)
    BY <1>1, <1>2
  <2>2. SubSeq(wire, 1, 4) \o SubSeq(wire, 4 + 1, 8) = SubSeq(wire, 1, 8)
    BY <1>1, <2>1, ConcatAdjacentSubSeq
  <2>3. SubSeq(wire, 4 + 1, 8) = b
    OBVIOUS
  <2> QED
    BY <2>2, <2>3
<1>6. r \in Seq(Byte) /\ wire = (a \o b) \o r
  <2>1. 8 \in 0..Len(wire)
    BY <1>1, <1>2
  <2>2. SubSeq(wire, 8 + 1, Len(wire)) \in Seq(Byte)
        /\ wire = SubSeq(wire, 1, 8) \o SubSeq(wire, 8 + 1, Len(wire))
    BY <1>1, <2>1, TwoParts
  <2>3. SubSeq(wire, 8 + 1, Len(wire)) = r
    OBVIOUS
  <2> QED
    BY <1>5, <2>2, <2>3
<1> HIDE DEF a, b, r
<1>7. /\ pack_ui32(Number(a)) = a /\ Number(a) \in 0..(Word - 1)
      /\ pack_ui32(Number(b)) = b /\ Number(b) \in 0..(Word - 1)
  BY <1>3, <1>4, PackNumber
<1>8. header' # NoHeader /\ header'.type = Number(a) /\ header'.length = Number(b)
  <2> DEFINE d == [type |-> Number(a), length |-> Number(b)]
  <2>1. DOMAIN d = {"type", "length"}
    OBVIOUS
  <2>2. DOMAIN << >> = {}
    BY EmptySeq
  <2>3. d # << >>
    <3> HIDE DEF d
    <3> QED
      BY <2>1, <2>2
  <2> QED
    BY <1>1, <2>3 DEF NoHeader
<1>9. QueuesOK'
  <2>1. header' \in [type: 0..(Word - 1), length: 0..(Word - 1)]
    BY <1>1, <1>7
  <2> QED
    BY <1>1, <1>6, <2>1 DEF QueuesOK
<1>10. Unread' = a \o b
  BY <1>7, <1>8 DEF Unread
<1>11. Unread = << >>
  BY <1>1 DEF Unread
<1>12. Unwritten' = Unwritten /\ posted' = posted
  BY <1>1 DEF Unwritten
<1>13. x \in Seq(Byte)
  BY FlowBytes, JoinBytes
<1> HIDE DEF x
<1>14. Flow' = (a \o b) \o (r \o x)
  BY <1>1, <1>10, <1>12 DEF Flow, x
<1>15. wire \o x \in Seq(Byte)
  BY <1>1, <1>13, JoinBytes
<1>16. << >> \o (wire \o x) = wire \o x
  BY <1>15, JoinEmpty
<1>17. Flow = wire \o x
  BY <1>11, <1>16 DEF Flow, x
<1>18. a \o b \in Seq(Byte)
  BY <1>3, <1>4, JoinBytes
<1> DEFINE c == a \o b
<1> HIDE DEF c
<1>19. c \in Seq(Byte)
  BY <1>18 DEF c
<1>20. (c \o r) \o x = c \o (r \o x)
  BY <1>6, <1>13, <1>19, JoinAssociative
<1>21. wire \o x = (c \o r) \o x
  BY <1>6 DEF c
<1> QED
  BY <1>9, <1>14, <1>17, <1>20, <1>21 DEF c

\* The receiver reads the frame in front, whatever pieces it came in: the header is that of
\* the packet and the body is complete.
LEMMA BodyReadFlow ==
    ASSUME NEW code \in 0..(Word - 1), NEW b \in Seq(Byte), Len(b) \in 0..(Word - 1),
           NEW x \in Seq(Byte),
           QueuesOK, BodyRead, Flow = ((pack_ui32(code) \o pack_ui32(Len(b))) \o b) \o x
    PROVE  /\ header.type = code /\ Body = b
           /\ QueuesOK' /\ Flow' = x
<1> DEFINE a == pack_ui32(code) \o pack_ui32(Len(b))
           s == Unwritten \o FlattenSeq(posted)
           y == wire \o s
           z == b \o x
<1>1. /\ header # NoHeader /\ header \in [type: 0..(Word - 1), length: 0..(Word - 1)]
      /\ wire \in Seq(Byte) /\ Len(wire) >= header.length
      /\ header' = NoHeader /\ wire' = SubSeq(wire, header.length + 1, Len(wire))
      /\ UNCHANGED <<posted, write_queue, writing, done>>
  BY DEF BodyRead, QueuesOK
<1>2. header.type \in 0..(Word - 1) /\ header.length \in 0..(Word - 1)
  BY <1>1
<1>3. Unread = pack_ui32(header.type) \o pack_ui32(header.length)
  BY <1>1 DEF Unread
<1>4. a \in Seq(Byte) /\ Len(a) = 8
  BY HeaderBytes
<1>5. Unread \in Seq(Byte) /\ Len(Unread) = 8
  BY <1>2, <1>3, HeaderBytes
<1>6. s \in Seq(Byte)
  BY FlowBytes, JoinBytes
<1> HIDE DEF a, s
<1>7. y \in Seq(Byte)
  BY <1>1, <1>6, JoinBytes
<1>8. z \in Seq(Byte)
  BY JoinBytes
<1>9. Flow = Unread \o y
  BY DEF Flow, s
<1>10. (a \o b) \o x = a \o (b \o x)
  BY <1>4, JoinAssociative
<1>11. Unread \o y = a \o z
  BY <1>9, <1>10 DEF a
<1> HIDE DEF y, z
<1>12. Unread = a /\ y = z
  BY <1>4, <1>5, <1>7, <1>8, <1>11, SameParts
<1>13. header.type = code /\ header.length = Len(b)
  <2> DEFINE t == pack_ui32(header.type)
             l == pack_ui32(header.length)
             u == pack_ui32(code)
             v == pack_ui32(Len(b))
  <2>1. /\ t \in Seq(Byte) /\ l \in Seq(Byte) /\ Len(t) = 4
        /\ Number(t) = header.type /\ Number(l) = header.length
    BY <1>2, HeaderBytes
  <2>2. /\ u \in Seq(Byte) /\ v \in Seq(Byte) /\ Len(u) = 4
        /\ Number(u) = code /\ Number(v) = Len(b)
    BY HeaderBytes
  <2>3. t \o l = u \o v
    BY <1>3, <1>12 DEF a
  <2> HIDE DEF t, l, u, v
  <2>4. t = u /\ l = v
    BY <2>1, <2>2, <2>3, SameParts
  <2> QED
    BY <2>1, <2>2, <2>4
<1>14. wire \o s = b \o x
  BY <1>12 DEF y, z
<1>15. Len(wire) >= Len(b)
  BY <1>1, <1>13
<1>16. SubSeq(wire, 1, Len(b)) = b /\ SubSeq(wire, Len(b) + 1, Len(wire)) \o s = x
  BY <1>1, <1>6, <1>14, <1>15, WireBegins
<1>17. wire' = SubSeq(wire, Len(b) + 1, Len(wire))
  BY <1>1, <1>13
<1>18. wire' \in Seq(Byte)
  <2>1. Len(b) \in 0..Len(wire)
    BY <1>1, <1>15, LenProperties
  <2> QED
    BY <1>1, <1>17, <2>1, TwoParts
<1>19. QueuesOK'
  BY <1>1, <1>18 DEF QueuesOK
<1>20. Unwritten' = Unwritten /\ posted' = posted /\ Unread' = << >>
  BY <1>1 DEF Unwritten, Unread
<1>21. Flow' = << >> \o (wire' \o s)
  BY <1>20 DEF Flow, s
<1>22. Flow' = << >> \o x
  BY <1>16, <1>17, <1>21
<1>23. << >> \o x = x
  BY JoinEmpty
<1> QED
  BY <1>13, <1>16, <1>19, <1>22, <1>23 DEF Body

\* A socket that is closed leaves the queues of packets.
LEMMA CloseKeeps == QueuesOK /\ Close => QueuesOK'
BY EmptySeq DEF QueuesOK, Close

-----------------------------------------------------------------------------
(***************************************************************************)
(* The connection implements ClientAsyncHandler.  The invariant is that of *)
(* ClientAsyncHandlerProofs, with what is said here of the bytes.          *)
(***************************************************************************)



HP == INSTANCE ClientAsyncHandlerProofs WITH received <- Unwrap(received)

\* What the server sends.
WirePacket ==
    [type: PushType \cup {"RESULT"}, to: RequestType \cup {""},
     values: (UNION {Answer[t] : t \in RequestType}) \cup (UNION {Push[t] : t \in PushType}),
     no: Nat, body: Seq(Byte)]

ReceivedType == received \in Seq(WirePacket)

Inv ==
    /\ HP!Inv
    /\ QueuesOK /\ Conserved /\ CallOK /\ SentOK /\ ReceivedType /\ ReceivedOK

\* ClientAsyncHandler under its two names, and its protocol under three.
LEMMA SameTypes ==
    /\ Handler!RequestType = RequestType /\ HP!RequestType = RequestType
    /\ Handler!PushType = PushType /\ HP!PushType = PushType
    /\ Handler!NoCallback = NoCallback /\ HP!NoCallback = NoCallback
    /\ Handler!NoCall = HP!NoCall
BY DEF Handler!RequestType, RequestType, HP!RequestType, Handler!PushType, PushType, HP!PushType,
       Handler!NoCallback, NoCallback, HP!NoCallback, Handler!AnswerSignal, AnswerSignal,
       HP!AnswerSignal, Handler!PushSignal, PushSignal, HP!PushSignal, Handler!NoCall, HP!NoCall

\* The callbacks of the protocol.
LEMMA SameCallback ==
    \A type, to : /\ Handler!Callback(type, to) = Callback(type, to)
                  /\ HP!Callback(type, to) = Callback(type, to)
BY SameTypes DEF Handler!Callback, HP!Callback, Callback, Handler!AnswerSignal, AnswerSignal,
       HP!AnswerSignal, Handler!PushSignal, PushSignal, HP!PushSignal
\* The initial states.
LEMMA SameInit == Handler!Init <=> HP!Init
BY DEF Handler!Init, HP!Init, Handler!NoCall, HP!NoCall

\* The stuttering steps.
LEMMA SameVars == UNCHANGED Handler!vars <=> UNCHANGED HP!vars
BY DEF Handler!vars, HP!vars

\* The actions, one by one.
LEMMA SameInvoke == Handler!Invoke <=> HP!Invoke
BY SameTypes DEF Handler!Invoke, HP!Invoke

\* The same action twice: register_request.
LEMMA SameRegister == Handler!register_request <=> HP!register_request
BY DEF Handler!register_request, HP!register_request, Handler!NoCall, HP!NoCall,
       Handler!Registers, HP!Registers

\* The same action twice: send_packet.
LEMMA SameSend == Handler!send_packet <=> HP!send_packet
BY DEF Handler!send_packet, HP!send_packet, Handler!NoCall, HP!NoCall,
       Handler!Registers, HP!Registers

\* The same action twice: handle_packet.
LEMMA SameHandle == Handler!handle_packet <=> HP!handle_packet
BY SameTypes, SameCallback DEF Handler!handle_packet, HP!handle_packet

\* The same action twice: TakeSignal.
LEMMA SameTake == Handler!TakeSignal <=> HP!TakeSignal
BY DEF Handler!TakeSignal, HP!TakeSignal, Handler!NoCall, HP!NoCall

\* The same action twice: Serve.
LEMMA SameServe == Handler!Serve <=> HP!Serve
BY DEF Handler!Serve, HP!Serve, Handler!Answers, HP!Answers

\* The same action twice: ServerPush.
LEMMA SamePush == Handler!ServerPush <=> HP!ServerPush
BY SameTypes DEF Handler!ServerPush, HP!ServerPush

\* The same action twice: Disconnect.
LEMMA SameDisconnect == Handler!Disconnect <=> HP!Disconnect
BY DEF Handler!Disconnect, HP!Disconnect

\* All the steps.
LEMMA SameNext == [Handler!Next]_(Handler!vars) => [HP!Next]_(HP!vars)
BY SameVars, SameInvoke, SameRegister, SameSend, SameHandle, SameTake, SameServe, SamePush,
   SameDisconnect DEF Handler!Next, HP!Next

\* The queue without the bodies.
LEMMA UnwrapFacts ==
    ASSUME NEW q \in Seq(WirePacket)
    PROVE  /\ Unwrap(q) \in Seq(UNION {{Strip(p)} : p \in WirePacket})
           /\ Len(Unwrap(q)) = Len(q) /\ \A i \in 1..Len(q) : Unwrap(q)[i] = Strip(q[i])
<1>1. Len(q) \in Nat /\ DOMAIN q = 1..Len(q) /\ \A i \in 1..Len(q) : q[i] \in WirePacket
  BY LenProperties, ElementOfSeq
<1>2. \A i \in 1..Len(q) : Strip(q[i]) \in UNION {{Strip(p)} : p \in WirePacket}
  BY <1>1
<1>3. Unwrap(q) = [i \in 1..Len(q) |-> Strip(q[i])]
  BY <1>1 DEF Unwrap
<1> HIDE DEF Strip
<1> QED
  BY <1>1, <1>2, <1>3

\* Its operations.
LEMMA UnwrapAppend ==
    ASSUME NEW q \in Seq(WirePacket), NEW p \in WirePacket
    PROVE  /\ Append(q, p) \in Seq(WirePacket) /\ Len(Append(q, p)) = Len(q) + 1
           /\ \A i \in 1..Len(q) : Append(q, p)[i] = q[i]
           /\ Append(q, p)[Len(q) + 1] = p
           /\ Unwrap(Append(q, p)) = Append(Unwrap(q), Strip(p))
<1> DEFINE T == UNION {{Strip(x)} : x \in WirePacket}
           r == Append(q, p)
           u == Unwrap(q)
           v == Unwrap(r)
           w == Append(u, Strip(p))
<1>1. /\ r \in Seq(WirePacket) /\ Len(r) = Len(q) + 1 /\ Len(q) \in Nat
      /\ \A i \in 1..Len(q) : r[i] = q[i]
      /\ r[Len(q) + 1] = p
  BY AppendProperties, LenProperties
<1>2. u \in Seq(T) /\ Len(u) = Len(q) /\ \A i \in 1..Len(q) : u[i] = Strip(q[i])
  BY UnwrapFacts
<1>3. Strip(p) \in T
  OBVIOUS
<1> HIDE DEF r, T
<1>4. v \in Seq(T) /\ Len(v) = Len(r) /\ \A i \in 1..Len(r) : v[i] = Strip(r[i])
  BY <1>1, UnwrapFacts DEF T
<1> HIDE DEF u, v
<1>5. /\ w \in Seq(T) /\ Len(w) = Len(q) + 1
      /\ \A i \in 1..Len(q) : w[i] = Strip(q[i])
      /\ w[Len(q) + 1] = Strip(p)
  BY <1>2, <1>3, AppendProperties
<1> HIDE DEF w
<1>6. \A i \in 1..Len(v) : v[i] = w[i]
  <2> TAKE i \in 1..Len(v)
  <2>1. i \in 1..Len(q) \/ i = Len(q) + 1
    BY <1>1, <1>4
  <2>2. v[i] = Strip(r[i])
    BY <1>4
  <2> QED
    BY <1>1, <1>5, <2>1, <2>2
<1>7. v = w
  BY <1>1, <1>4, <1>5, <1>6, SeqEqual
<1> QED
  BY <1>1, <1>7 DEF r, v, w, u

\* The first of the queue and the others.
LEMMA UnwrapHead ==
    ASSUME NEW q \in Seq(WirePacket), q # << >>
    PROVE  /\ Head(q) \in WirePacket /\ Tail(q) \in Seq(WirePacket)
           /\ Len(q) \in Nat \ {0} /\ Head(q) = q[1] /\ Len(Tail(q)) = Len(q) - 1
           /\ \A i \in 1..(Len(q) - 1) : Tail(q)[i] = q[i + 1]
           /\ Unwrap(q) # << >> /\ Head(Unwrap(q)) = Strip(Head(q))
           /\ Unwrap(Tail(q)) = Tail(Unwrap(q))
<1> DEFINE T == UNION {{Strip(x)} : x \in WirePacket}
           r == Tail(q)
           u == Unwrap(q)
           v == Unwrap(r)
           w == Tail(u)
<1>1. /\ Head(q) \in WirePacket /\ r \in Seq(WirePacket)
      /\ Len(q) \in Nat \ {0} /\ Head(q) = q[1] /\ Len(r) = Len(q) - 1
      /\ \A i \in 1..(Len(q) - 1) : r[i] = q[i + 1]
  BY HeadTailProperties, LenProperties, EmptySeq
<1>2. u \in Seq(T) /\ Len(u) = Len(q) /\ \A i \in 1..Len(q) : u[i] = Strip(q[i])
  BY UnwrapFacts
<1> HIDE DEF r, T
<1>3. v \in Seq(T) /\ Len(v) = Len(r) /\ \A i \in 1..Len(r) : v[i] = Strip(r[i])
  BY <1>1, UnwrapFacts DEF T
<1> HIDE DEF u, v
<1>4. u # << >> /\ Head(u) = u[1]
  BY <1>1, <1>2, HeadTailProperties, EmptySeq
<1>5. /\ w \in Seq(T) /\ Len(w) = Len(q) - 1
      /\ \A i \in 1..(Len(q) - 1) : w[i] = u[i + 1]
  BY <1>1, <1>2, <1>4, HeadTailProperties
<1> HIDE DEF w
<1>6. \A i \in 1..Len(v) : v[i] = w[i]
  <2> TAKE i \in 1..Len(v)
  <2>1. i \in 1..(Len(q) - 1) /\ i + 1 \in 1..Len(q)
    BY <1>1, <1>3
  <2>2. v[i] = Strip(r[i])
    BY <1>3
  <2> QED
    BY <1>1, <1>2, <1>5, <2>1, <2>2
<1>7. v = w
  BY <1>1, <1>3, <1>5, <1>6, SeqEqual
<1>8. Head(u) = Strip(Head(q))
  <2>1. 1 \in 1..Len(q)
    BY <1>1
  <2> QED
    BY <1>1, <1>2, <1>4, <2>1
<1> QED
  BY <1>1, <1>4, <1>7, <1>8 DEF r, u, v, w

\* The first n of the queue.
LEMMA UnwrapCut ==
    ASSUME NEW q \in Seq(WirePacket), NEW n \in 0..Len(q)
    PROVE  /\ SubSeq(q, 1, n) \in Seq(WirePacket) /\ Len(SubSeq(q, 1, n)) = n
           /\ \A i \in 1..n : SubSeq(q, 1, n)[i] = q[i]
           /\ Unwrap(SubSeq(q, 1, n)) = SubSeq(Unwrap(q), 1, n)
<1> DEFINE T == UNION {{Strip(x)} : x \in WirePacket}
           r == SubSeq(q, 1, n)
           u == Unwrap(q)
           v == Unwrap(r)
           w == SubSeq(u, 1, n)
<1>1. r \in Seq(WirePacket) /\ Len(r) = n /\ \A i \in 1..n : r[i] = q[i]
  BY TwoParts
<1>2. u \in Seq(T) /\ Len(u) = Len(q) /\ \A i \in 1..Len(q) : u[i] = Strip(q[i])
  BY UnwrapFacts
<1> HIDE DEF r, T
<1>3. v \in Seq(T) /\ Len(v) = Len(r) /\ \A i \in 1..Len(r) : v[i] = Strip(r[i])
  BY <1>1, UnwrapFacts DEF T
<1> HIDE DEF u, v
<1>4. w \in Seq(T) /\ Len(w) = n /\ \A i \in 1..n : w[i] = u[i]
  <2>1. n \in 0..Len(u)
    BY <1>2
  <2> QED
    BY <1>2, <2>1, TwoParts
<1> HIDE DEF w
<1>5. \A i \in 1..n : i \in 1..Len(q)
  BY LenProperties
<1>6. \A i \in 1..Len(v) : v[i] = w[i]
  BY <1>1, <1>2, <1>3, <1>4, <1>5
<1>7. v = w
  BY <1>1, <1>3, <1>4, <1>6, SeqEqual
<1> QED
  BY <1>1, <1>7 DEF r, u, v, w

\* The frames of a queue.
LEMMA FramesFacts ==
    ASSUME NEW S, NEW q \in Seq(S), \A i \in 1..Len(q) : Requested(q[i])
    PROVE  /\ Frames(q) \in Seq(Seq(Byte)) /\ Len(Frames(q)) = Len(q)
           /\ \A i \in 1..Len(q) : Frames(q)[i] = Frame(q[i])
<1>1. Len(q) \in Nat /\ DOMAIN q = 1..Len(q)
  BY LenProperties
<1>2. \A i \in 1..Len(q) : Frame(q[i]) \in Seq(Byte)
  BY FrameFacts
<1>3. Frames(q) = [i \in 1..Len(q) |-> Frame(q[i])]
  BY <1>1 DEF Frames
<1> QED
  BY <1>1, <1>2, <1>3

\* No packets, no bytes.
LEMMA FramesEmpty == FlattenSeq(Frames(<< >>)) = << >>
<1>1. Frames(<< >>) = << >>
  BY EmptySeq DEF Frames
<1> QED
  BY <1>1, FlattenEmpty

\* A packet more.
LEMMA FramesAppend ==
    ASSUME NEW S, NEW q \in Seq(S), \A i \in 1..Len(q) : Requested(q[i]), NEW e \in S, Requested(e)
    PROVE  /\ \A i \in 1..Len(Append(q, e)) : Requested(Append(q, e)[i])
           /\ FlattenSeq(Frames(Append(q, e))) = FlattenSeq(Frames(q)) \o Frame(e)
<1> DEFINE r == Append(q, e)
           f == Frames(q)
           g == Frames(r)
           h == Append(f, Frame(e))
<1>1. /\ r \in Seq(S) /\ Len(r) = Len(q) + 1 /\ Len(q) \in Nat
      /\ \A i \in 1..Len(q) : r[i] = q[i]
      /\ r[Len(q) + 1] = e
  BY AppendProperties, LenProperties
<1> HIDE DEF r
<1>2. \A i \in 1..Len(r) : i \in 1..Len(q) \/ i = Len(q) + 1
  BY <1>1
<1>3. \A i \in 1..Len(r) : Requested(r[i])
  BY <1>1, <1>2
<1>4. f \in Seq(Seq(Byte)) /\ Len(f) = Len(q) /\ \A i \in 1..Len(q) : f[i] = Frame(q[i])
  BY FramesFacts
<1>5. g \in Seq(Seq(Byte)) /\ Len(g) = Len(r) /\ \A i \in 1..Len(r) : g[i] = Frame(r[i])
  BY <1>1, <1>3, FramesFacts
<1>6. Frame(e) \in Seq(Byte)
  BY FrameFacts
<1> HIDE DEF f, g
<1>7. /\ h \in Seq(Seq(Byte)) /\ Len(h) = Len(q) + 1
      /\ \A i \in 1..Len(q) : h[i] = f[i]
      /\ h[Len(q) + 1] = Frame(e)
  BY <1>4, <1>6, AppendProperties
<1>8. FlattenSeq(h) = FlattenSeq(f) \o Frame(e)
  BY <1>4, <1>6, AppendBytes
<1> HIDE DEF h
<1>9. \A i \in 1..Len(g) : g[i] = h[i]
  <2> TAKE i \in 1..Len(g)
  <2>1. i \in 1..Len(r) /\ (i \in 1..Len(q) \/ i = Len(q) + 1)
    BY <1>2, <1>5
  <2>2. g[i] = Frame(r[i])
    BY <1>5, <2>1
  <2> QED
    BY <1>1, <1>4, <1>7, <2>1, <2>2
<1>10. g = h
  <2>1. g \in Seq(Seq(Byte)) /\ h \in Seq(Seq(Byte)) /\ Len(g) = Len(h)
    BY <1>1, <1>5, <1>7
  <2> QED
    BY <1>9, <2>1, SeqEqual
<1>11. FlattenSeq(g) = FlattenSeq(f) \o Frame(e)
  BY <1>8, <1>10
<1> QED
  BY <1>3, <1>11 DEF r, f, g

\* A packet less.
LEMMA FramesTail ==
    ASSUME NEW S, NEW q \in Seq(S), \A i \in 1..Len(q) : Requested(q[i]), q # << >>
    PROVE  /\ Head(q) = q[1] /\ Requested(q[1]) /\ Tail(q) \in Seq(S)
           /\ \A i \in 1..Len(Tail(q)) : Requested(Tail(q)[i])
           /\ FlattenSeq(Frames(Tail(q))) \in Seq(Byte)
           /\ FlattenSeq(Frames(q)) = Frame(q[1]) \o FlattenSeq(Frames(Tail(q)))
<1> DEFINE r == Tail(q)
           f == Frames(q)
           g == Frames(r)
           h == Tail(f)
<1>1. /\ r \in Seq(S) /\ Len(r) = Len(q) - 1 /\ Len(q) \in Nat \ {0} /\ Head(q) = q[1]
      /\ \A i \in 1..(Len(q) - 1) : r[i] = q[i + 1]
  BY HeadTailProperties, LenProperties, EmptySeq
<1> HIDE DEF r
<1>2. \A i \in 1..Len(r) : i \in 1..(Len(q) - 1) /\ i + 1 \in 1..Len(q)
  BY <1>1
<1>3. \A i \in 1..Len(r) : Requested(r[i])
  BY <1>1, <1>2
<1>4. f \in Seq(Seq(Byte)) /\ Len(f) = Len(q) /\ \A i \in 1..Len(q) : f[i] = Frame(q[i])
  BY FramesFacts
<1>5. g \in Seq(Seq(Byte)) /\ Len(g) = Len(r) /\ \A i \in 1..Len(r) : g[i] = Frame(r[i])
  BY <1>1, <1>3, FramesFacts
<1> HIDE DEF f, g
<1>6. f # << >>
  BY <1>1, <1>4, EmptySeq
<1>7. /\ h \in Seq(Seq(Byte)) /\ Len(h) = Len(q) - 1 /\ Head(f) = f[1]
      /\ \A i \in 1..(Len(q) - 1) : h[i] = f[i + 1]
  BY <1>1, <1>4, <1>6, HeadTailProperties
<1>8. FlattenSeq(f) = Head(f) \o FlattenSeq(h)
  BY <1>4, <1>6, FlattenBytes
<1> HIDE DEF h
<1>9. \A i \in 1..Len(g) : g[i] = h[i]
  <2> TAKE i \in 1..Len(g)
  <2>1. i \in 1..Len(r) /\ i \in 1..(Len(q) - 1) /\ i + 1 \in 1..Len(q)
    BY <1>2, <1>5
  <2>2. g[i] = Frame(r[i])
    BY <1>5, <2>1
  <2>3. h[i] = Frame(q[i + 1])
    BY <1>4, <1>7, <2>1
  <2> QED
    BY <1>1, <2>1, <2>2, <2>3
<1>10. g = h
  BY <1>1, <1>5, <1>7, <1>9, SeqEqual
<1>11. 1 \in 1..Len(q)
  BY <1>1
<1>12. FlattenSeq(f) = Frame(q[1]) \o FlattenSeq(g)
  BY <1>4, <1>7, <1>8, <1>10, <1>11
<1>13. FlattenSeq(g) \in Seq(Byte)
  BY <1>5, FlattenBytes
<1> QED
  BY <1>1, <1>3, <1>11, <1>12, <1>13 DEF r, f, g

\* Nothing is under way at first.
LEMMA InitInv == Init => Inv
<1> SUFFICES ASSUME Init PROVE Inv
  OBVIOUS
<1>1. /\ received = << >> /\ sent = << >> /\ call = Handler!NoCall
      /\ posted = << >> /\ write_queue = << >> /\ writing = FALSE /\ done = 0
      /\ wire = << >> /\ header = NoHeader
  BY DEF Init, Handler!Init, NetInit
<1>2. HP!Inv
  BY SameInit, HP!InitInv DEF Init
<1>3. QueuesOK
  BY <1>1, EmptySeq DEF QueuesOK
<1>4. Conserved
  <2>1. Flow = << >> \o (<< >> \o (<< >> \o << >>))
    BY <1>1, FlattenEmpty DEF Flow, Unread, Unwritten
  <2>2. << >> \o << >> = << >>
    BY EmptySeq, JoinEmpty
  <2> QED
    BY <1>1, <2>1, <2>2, FramesEmpty DEF Conserved
<1>5. CallOK /\ SentOK /\ ReceivedType /\ ReceivedOK
  BY <1>1, EmptySeq DEF CallOK, SentOK, ReceivedType, ReceivedOK
<1> QED
  BY <1>2, <1>3, <1>4, <1>5 DEF Inv

\* What a step that is one of ClientAsyncHandler still has to keep.
LEMMA InvFrom ==
    /\ Inv /\ [Handler!Next]_(Handler!vars)
    /\ QueuesOK' /\ Conserved' /\ CallOK' /\ SentOK' /\ ReceivedType' /\ ReceivedOK'
    => Inv'
BY SameNext, HP!InvStep DEF Inv

\* A step of the packets alone leaves the bytes under way.
LEMMA SameFlow == QueuesOK /\ UNCHANGED netVars => QueuesOK' /\ Flow' = Flow
<1> SUFFICES ASSUME QueuesOK, UNCHANGED netVars PROVE QueuesOK' /\ Flow' = Flow
  OBVIOUS
<1>1. UNCHANGED <<posted, write_queue, writing, done, wire, header>>
  BY DEF netVars
<1>2. QueuesOK'
  BY <1>1 DEF QueuesOK
<1>3. Unread' = Unread /\ Unwritten' = Unwritten
  BY <1>1 DEF Unread, Unwritten
<1> QED
  BY <1>1, <1>2, <1>3 DEF Flow

\* A step of the client alone leaves what is received.
LEMMA SameReceived == UNCHANGED received => ReceivedType' = ReceivedType /\ ReceivedOK' = ReceivedOK
BY DEF ReceivedType, ReceivedOK

\* A request that is one.
LEMMA InvokeStep == Inv /\ Invoke => Handler!Invoke /\ Inv'
<1> SUFFICES ASSUME Inv, Invoke PROVE Handler!Invoke /\ Inv'
  OBVIOUS
<1>1. Handler!Invoke /\ UNCHANGED netVars /\ UNCHANGED received
  BY DEF Invoke
<1>2. /\ \E type \in RequestType : \E vs \in Request[type] : call' = [type |-> type, values |-> vs]
      /\ UNCHANGED <<sent, connected>>
  BY <1>1, SameTypes DEF Handler!Invoke
<1>3. CallOK'
  BY <1>2 DEF CallOK, Requested
<1>4. QueuesOK' /\ Flow' = Flow
  BY <1>1, SameFlow DEF Inv
<1>5. Conserved' /\ SentOK'
  BY <1>2, <1>4 DEF Inv, Conserved, SentOK
<1>6. ReceivedType' /\ ReceivedOK'
  BY <1>1, SameReceived DEF Inv
<1>7. [Handler!Next]_(Handler!vars)
  BY <1>1 DEF Handler!Next
<1> QED
  BY <1>1, <1>3, <1>4, <1>5, <1>6, <1>7, InvFrom

\* The steps of the Qt thread that send nothing.
LEMMA RegisterStep ==
    Inv /\ (register_request \/ TakeSignal) => [Handler!Next]_(Handler!vars) /\ Inv'
<1> SUFFICES ASSUME Inv, register_request \/ TakeSignal
             PROVE  [Handler!Next]_(Handler!vars) /\ Inv'
  OBVIOUS
<1>1. /\ Handler!register_request \/ Handler!TakeSignal
      /\ UNCHANGED netVars /\ UNCHANGED received
  BY DEF register_request, TakeSignal
<1>2. UNCHANGED <<call, sent, connected>>
  BY <1>1 DEF Handler!register_request, Handler!TakeSignal
<1>3. QueuesOK' /\ Flow' = Flow
  BY <1>1, SameFlow DEF Inv
<1>4. Conserved' /\ SentOK' /\ CallOK'
  BY <1>2, <1>3 DEF Inv, Conserved, SentOK, CallOK
<1>5. ReceivedType' /\ ReceivedOK'
  BY <1>1, SameReceived DEF Inv
<1>6. [Handler!Next]_(Handler!vars)
  BY <1>1 DEF Handler!Next
<1> QED
  BY <1>3, <1>4, <1>5, <1>6, InvFrom

\* The packet sent and the bytes posted are the same.
LEMMA SendStep == Inv /\ Send => [Handler!Next]_(Handler!vars) /\ Inv'
<1> SUFFICES ASSUME Inv, Send PROVE [Handler!Next]_(Handler!vars) /\ Inv'
  OBVIOUS
<1>1. /\ call # Handler!NoCall /\ Handler!send_packet /\ UNCHANGED received
      /\ IF connected
         THEN send_packet(Code(call.type), serialize(RequestStruct[call.type], call.values))
         ELSE UNCHANGED netVars
  BY DEF Send
<1> DEFINE e == [type |-> call.type, values |-> call.values, no |-> Len(asked)]
<1>2. /\ sent' = IF connected THEN Append(sent, e) ELSE sent
      /\ call' = Handler!NoCall /\ connected' = connected
  BY <1>1 DEF Handler!send_packet
<1>3. Requested(call)
  BY <1>1 DEF Inv, CallOK
<1>4. Requested(e) /\ Frame(e) = Frame(call)
  BY <1>3 DEF Requested, Frame
<1>5. sent \in Seq(HP!SentPacket) /\ e \in HP!SentPacket
  <2>1. sent \in Seq(HP!SentPacket) /\ Len(asked) \in Nat
    BY LenProperties DEF Inv, HP!Inv, HP!TypeOK
  <2>2. call.type \in HP!RequestType /\ call.values \in UNION {Request[t] : t \in HP!RequestType}
    BY <1>3, SameTypes DEF Requested
  <2> QED
    BY <2>1, <2>2 DEF HP!SentPacket
<1> HIDE DEF e
<1>6. ReceivedType' /\ ReceivedOK' /\ CallOK'
  BY <1>1, <1>2, SameReceived DEF Inv, CallOK
<1>7. QueuesOK' /\ Conserved' /\ SentOK'
  <2>1. CASE ~ connected
    <3>1. QueuesOK'
      BY <1>1, <2>1, SameFlow DEF Inv
    <3> QED
      BY <1>2, <2>1, <3>1 DEF Inv, Conserved, SentOK
  <2>2. CASE connected
    <3> DEFINE type == Code(call.type)
               body == serialize(RequestStruct[call.type], call.values)
    <3>1. full_packet(type, body) = Frame(call) /\ Frame(call) \in Seq(Byte)
      <4>1. full_packet(type, body) = Frame(call)
        BY DEF Frame
      <4>2. Frame(call) \in Seq(Byte)
        BY <1>3, FrameFacts
      <4> QED
        BY <4>1, <4>2
    <3>2. send_packet(type, body)
      BY <1>1, <2>2
    <3> HIDE DEF type, body
    <3>3. QueuesOK' /\ Flow' = Flow \o Frame(call)
      BY <3>1, <3>2, SendFlow DEF Inv
    <3>4. \A i \in 1..Len(sent) : Requested(sent[i])
      BY DEF Inv, SentOK
    <3>5. /\ \A i \in 1..Len(Append(sent, e)) : Requested(Append(sent, e)[i])
          /\ FlattenSeq(Frames(Append(sent, e))) = FlattenSeq(Frames(sent)) \o Frame(e)
      BY <1>4, <1>5, <3>4, FramesAppend
    <3>6. sent' = Append(sent, e)
      BY <1>2, <2>2
    <3>7. SentOK'
      BY <3>5, <3>6 DEF SentOK
    <3>8. Conserved'
      BY <1>2, <1>4, <2>2, <3>3, <3>5, <3>6 DEF Inv, Conserved
    <3> QED
      BY <3>3, <3>7, <3>8
  <2> QED
    BY <2>1, <2>2
<1>8. [Handler!Next]_(Handler!vars)
  BY <1>1 DEF Handler!Next
<1> QED
  BY <1>6, <1>7, <1>8, InvFrom

\* Bytes that move are the same bytes.
LEMMA TransportStep == Inv /\ Transport => [Handler!Next]_(Handler!vars) /\ Inv'
<1> SUFFICES ASSUME Inv, Transport PROVE [Handler!Next]_(Handler!vars) /\ Inv'
  OBVIOUS
<1>1. QueuesOK' /\ Flow' = Flow
  BY PostedFlow, WriteFlow, WrittenFlow, ReadHeaderFlow DEF Inv, Transport
<1>2. UNCHANGED <<call, registered, pending_requests, signals, asked, handled, received, answered,
                  connected, sent>>
  BY DEF Transport, clientVars, serverVars
<1>3. UNCHANGED Handler!vars
  BY <1>2 DEF Handler!vars
<1>4. Conserved' /\ SentOK' /\ CallOK'
  BY <1>1, <1>2 DEF Inv, Conserved, SentOK, CallOK
<1>5. ReceivedType' /\ ReceivedOK'
  BY <1>2, SameReceived DEF Inv
<1> QED
  BY <1>1, <1>3, <1>4, <1>5, InvFrom

\* The server reads the packet that is in front, and the values it was sent with.
LEMMA BodyIsSent ==
    ASSUME Inv, connected, BodyRead
    PROVE  /\ sent # << >> /\ Head(sent) = sent[1] /\ Requested(sent[1])
           /\ PacketTypes[header.type] = sent[1].type
           /\ deserialize(RequestStruct[sent[1].type], Body, 0).values = sent[1].values
           /\ QueuesOK' /\ Flow' = FlattenSeq(Frames(Tail(sent)))
           /\ \A i \in 1..Len(Tail(sent)) : Requested(Tail(sent)[i])
<1> DEFINE p == sent[1]
           b == serialize(RequestStruct[p.type], p.values)
           x == FlattenSeq(Frames(Tail(sent)))
           code == Code(p.type)
<1>1. /\ sent \in Seq(HP!SentPacket) /\ \A i \in 1..Len(sent) : Requested(sent[i])
      /\ QueuesOK /\ Flow = FlattenSeq(Frames(sent))
  BY DEF Inv, HP!Inv, HP!TypeOK, SentOK, Conserved
<1>2. sent # << >>
  <2> SUFFICES ASSUME sent = << >> PROVE FALSE
    OBVIOUS
  <2>1. Flow = << >>
    BY <1>1, FramesEmpty
  <2> DEFINE y == wire \o (Unwritten \o FlattenSeq(posted))
  <2>2. /\ header.type \in 0..(Word - 1) /\ header.length \in 0..(Word - 1)
        /\ Unread = pack_ui32(header.type) \o pack_ui32(header.length)
    BY <1>1 DEF QueuesOK, BodyRead, Unread
  <2>3. Unread \in Seq(Byte) /\ Len(Unread) = 8
    BY <2>2, HeaderBytes
  <2>4. wire \in Seq(Byte) /\ Unwritten \in Seq(Byte) /\ FlattenSeq(posted) \in Seq(Byte)
    BY <1>1, FlowBytes
  <2>5. y \in Seq(Byte)
    <3>1. Unwritten \o FlattenSeq(posted) \in Seq(Byte)
      BY <2>4, JoinBytes
    <3> QED
      BY <2>4, <3>1, JoinBytes
  <2>6. Flow = Unread \o y
    BY DEF Flow
  <2> HIDE DEF y
  <2>7. Len(Unread \o y) = Len(Unread) + Len(y)
    BY <2>3, <2>5, ConcatProperties
  <2>8. Len(y) \in Nat
    BY <2>5, LenProperties
  <2>9. Len(<< >>) = 0
    BY EmptySeq
  <2> QED
    BY <2>1, <2>3, <2>6, <2>7, <2>8, <2>9
<1>3. /\ Head(sent) = p /\ Requested(p) /\ x \in Seq(Byte)
      /\ \A i \in 1..Len(Tail(sent)) : Requested(Tail(sent)[i])
      /\ FlattenSeq(Frames(sent)) = Frame(p) \o x
  BY <1>1, <1>2, FramesTail
<1> HIDE DEF p, x
<1>4. /\ Expressible(RequestStruct[p.type], p.values) /\ RequestStruct[p.type] \in DOMAIN Fields
      /\ b \in Seq(Byte) /\ Len(b) \in 0..(Word - 1) /\ code \in 0..(Word - 1)
      /\ Frame(p) = (pack_ui32(code) \o pack_ui32(Len(b))) \o b
  BY <1>3, FrameFacts
<1>5. PacketTypes[code] = p.type
  BY <1>3, CodeFacts DEF Requested
<1>6. deserialize(RequestStruct[p.type], b, 0).values = p.values
  <2>1. 0 \in Byte
    BY RadixAssumption DEF RadixAssumption, Byte
  <2> DEFINE s == RequestStruct[p.type]
             n == Len(serialize(s, p.values))
  <2>2. deserialize(s, b, 0) = Reading(p.values, n)
    BY <1>4, <2>1, RoundTrip
  <2> HIDE DEF s, n
  <2>3. deserialize(s, b, 0).values = p.values
    BY <2>2 DEF Reading
  <2> QED
    BY <2>3 DEF s
<1> HIDE DEF b, code
<1>7. Flow = ((pack_ui32(code) \o pack_ui32(Len(b))) \o b) \o x
  BY <1>1, <1>3, <1>4
<1>8. header.type = code /\ Body = b /\ QueuesOK' /\ Flow' = x
  BY <1>1, <1>3, <1>4, <1>7, BodyReadFlow
<1> QED
  BY <1>2, <1>3, <1>5, <1>6, <1>8 DEF p, x

\* What the server sends is a packet with the body of its values.
LEMMA EncodedBody ==
    ASSUME NEW struct \in DOMAIN Fields, NEW vs, Expressible(struct, vs)
    PROVE  serialize(struct, vs) \in Seq(Byte)
BY StructBytes

\* A packet behind those that are received.
LEMMA AppendReceived ==
    ASSUME Inv, NEW e \in WirePacket, Encoded(e), received' = Append(received, e)
    PROVE  /\ ReceivedType' /\ ReceivedOK'
           /\ Unwrap(received)' = Append(Unwrap(received), Strip(e))
<1>1. received \in Seq(WirePacket) /\ \A i \in 1..Len(received) : Encoded(received[i])
  BY DEF Inv, ReceivedType, ReceivedOK
<1>2. /\ received' \in Seq(WirePacket) /\ Len(received') = Len(received) + 1
      /\ \A i \in 1..Len(received) : received'[i] = received[i]
      /\ received'[Len(received) + 1] = e
      /\ Unwrap(received') = Append(Unwrap(received), Strip(e))
  BY <1>1, UnwrapAppend
<1>3. ReceivedOK'
  <2> SUFFICES ASSUME NEW i \in 1..Len(received') PROVE Encoded(received'[i])
    BY DEF ReceivedOK, Encoded
  <2>1. i \in 1..Len(received) \/ i = Len(received) + 1
    BY <1>1, <1>2, LenProperties
  <2> QED
    BY <1>1, <1>2, <2>1
<1>4. Unwrap(received)' = Unwrap(received')
  BY DEF Unwrap
<1> QED
  BY <1>2, <1>3, <1>4 DEF ReceivedType

\* The packet that is read is the one in front, and the answer is to it.
LEMMA ServeStep == Inv /\ Serve => [Handler!Next]_(Handler!vars) /\ Inv'
<1> SUFFICES ASSUME Inv, Serve PROVE [Handler!Next]_(Handler!vars) /\ Inv'
  OBVIOUS
<1> DEFINE p == sent[1]
<1>1. connected /\ BodyRead
  BY DEF Serve
<1>2. /\ sent # << >> /\ Head(sent) = p /\ Requested(p)
      /\ PacketTypes[header.type] = p.type
      /\ deserialize(RequestStruct[p.type], Body, 0).values = p.values
      /\ QueuesOK' /\ Flow' = FlattenSeq(Frames(Tail(sent)))
      /\ \A i \in 1..Len(Tail(sent)) : Requested(Tail(sent)[i])
  BY <1>1, BodyIsSent
<1>3. /\ sent' = Tail(sent)
      /\ IF Handler!Answers(p.type)
         THEN /\ \E vs \in Answer[p.type] :
                   received' = Append(received,
                       [type |-> "RESULT", to |-> p.type, values |-> vs, no |-> answered + 1,
                        body |-> serialize(ResponseStruct[p.type], vs)])
              /\ answered' = answered + 1
         ELSE received' = received /\ answered' = answered
      /\ UNCHANGED <<call, registered, pending_requests, signals, asked, handled, connected>>
  BY <1>2 DEF Serve, serverVars, clientVars
<1> HIDE DEF p
<1>4. SentOK' /\ Conserved' /\ CallOK'
  BY <1>2, <1>3 DEF Inv, SentOK, Conserved, CallOK
<1>5. CASE ~ Handler!Answers(p.type)
  <2>1. received' = received /\ answered' = answered
    BY <1>3, <1>5
  <2>2. Unwrap(received)' = Unwrap(received)
    BY <2>1 DEF Unwrap
  <2>3. Handler!Serve
    BY <1>1, <1>2, <1>3, <1>5, <2>1, <2>2 DEF Handler!Serve
  <2>4. ReceivedType' /\ ReceivedOK'
    BY <2>1, SameReceived DEF Inv
  <2>5. [Handler!Next]_(Handler!vars)
    BY <2>3 DEF Handler!Next
  <2> QED
    BY <1>2, <1>4, <2>4, <2>5, InvFrom
<1>6. CASE Handler!Answers(p.type)
  <2>1. PICK vs \in Answer[p.type] :
            received' = Append(received,
                [type |-> "RESULT", to |-> p.type, values |-> vs, no |-> answered + 1,
                 body |-> serialize(ResponseStruct[p.type], vs)])
    BY <1>3, <1>6
  <2> DEFINE e == [type |-> "RESULT", to |-> p.type, values |-> vs, no |-> answered + 1,
                   body |-> serialize(ResponseStruct[p.type], vs)]
             d == [type |-> "RESULT", to |-> p.type, values |-> vs, no |-> answered + 1]
  <2>2. p.type \in RequestType \ {"LOGOUT"}
    BY <1>2, <1>6 DEF Requested, Handler!Answers
  <2>3. Expressible(ResponseStruct[p.type], vs) /\ ResponseStruct[p.type] \in DOMAIN Fields
    BY <2>1, <2>2, ConnectionAssumption, StructFacts DEF ConnectionAssumption
  <2>4. serialize(ResponseStruct[p.type], vs) \in Seq(Byte)
    BY <2>3, EncodedBody
  <2>5. answered + 1 \in Nat
    BY DEF Inv, HP!Inv, HP!TypeOK
  <2>6. e \in WirePacket
    <3>1. vs \in (UNION {Answer[t] : t \in RequestType}) \cup (UNION {Push[t] : t \in PushType})
      BY <2>1, <2>2
    <3> QED
      BY <2>2, <2>4, <2>5, <3>1 DEF WirePacket
  <2>7. Encoded(e)
    BY <2>1, <2>2 DEF Encoded
  <2>8. Strip(e) = d
    BY DEF Strip
  <2>9. received' = Append(received, e)
    BY <2>1
  <2> HIDE DEF e
  <2>10. ReceivedType' /\ ReceivedOK' /\ Unwrap(received)' = Append(Unwrap(received), d)
    BY <2>6, <2>7, <2>8, <2>9, AppendReceived
  <2>11. Handler!Serve
    <3>1. /\ \E ws \in Answer[Head(sent).type] :
                Unwrap(received)' = Append(Unwrap(received),
                    [type |-> "RESULT", to |-> Head(sent).type, values |-> ws,
                     no |-> answered + 1])
          /\ answered' = answered + 1
      BY <1>2, <1>3, <1>6, <2>1, <2>10
    <3> QED
      BY <1>1, <1>2, <1>3, <1>6, <3>1 DEF Handler!Serve
  <2>12. [Handler!Next]_(Handler!vars)
    BY <2>11 DEF Handler!Next
  <2> QED
    BY <1>2, <1>4, <2>10, <2>12, InvFrom
<1> QED
  BY <1>5, <1>6

\* A push is a packet with the body of its values, or with an empty one.
LEMMA PushStep == Inv /\ ServerPush => [Handler!Next]_(Handler!vars) /\ Inv'
<1> SUFFICES ASSUME Inv, ServerPush PROVE [Handler!Next]_(Handler!vars) /\ Inv'
  OBVIOUS
<1>0. PICK type \in PushType : \E vs \in Push[type] :
          received' = Append(received,
              [type |-> type, to |-> "", values |-> vs, no |-> answered,
               body |-> IF type \in DOMAIN PushStruct THEN serialize(PushStruct[type], vs)
                        ELSE << >>])
  BY DEF ServerPush
<1>1. PICK vs \in Push[type] :
          received' = Append(received,
              [type |-> type, to |-> "", values |-> vs, no |-> answered,
               body |-> IF type \in DOMAIN PushStruct THEN serialize(PushStruct[type], vs)
                        ELSE << >>])
  BY <1>0
<1>2. /\ connected /\ UNCHANGED netVars
      /\ UNCHANGED <<call, registered, pending_requests, signals, asked, handled, answered,
                     connected, sent>>
  BY DEF ServerPush, clientVars
<1> DEFINE body == IF type \in DOMAIN PushStruct THEN serialize(PushStruct[type], vs) ELSE << >>
           e == [type |-> type, to |-> "", values |-> vs, no |-> answered, body |-> body]
           d == [type |-> type, to |-> "", values |-> vs, no |-> answered]
<1>3. body \in Seq(Byte)
  <2>1. CASE type \in DOMAIN PushStruct
    <3>1. Expressible(PushStruct[type], vs) /\ PushStruct[type] \in DOMAIN Fields
      BY <1>1, <2>1, ConnectionAssumption, StructFacts DEF ConnectionAssumption
    <3> QED
      BY <2>1, <3>1, EncodedBody
  <2>2. CASE type \notin DOMAIN PushStruct
    BY <2>2, EmptySeq
  <2> QED
    BY <2>1, <2>2
<1>4. answered \in Nat
  BY DEF Inv, HP!Inv, HP!TypeOK
<1>5. type # "RESULT"
  BY DEF PushType, PushSignal
<1>6. Encoded(e)
  BY <1>1, <1>5 DEF Encoded
<1>7. received' = Append(received, e)
  BY <1>1
<1> HIDE DEF body
<1>8. e \in WirePacket
  <2>1. vs \in (UNION {Answer[t] : t \in RequestType}) \cup (UNION {Push[t] : t \in PushType})
    <3>1. Push[type] \in {Push[t] : t \in PushType}
      BY <1>0
    <3>2. vs \in UNION {Push[t] : t \in PushType}
      BY <1>1, <3>1, Zenon
    <3> QED
      BY <3>2, Zenon
  <2> QED
    BY <1>1, <1>3, <1>4, <2>1 DEF WirePacket
<1>9. Strip(e) = d
  BY DEF Strip
<1> HIDE DEF e
<1>10. ReceivedType' /\ ReceivedOK' /\ Unwrap(received)' = Append(Unwrap(received), d)
  BY <1>6, <1>7, <1>8, <1>9, AppendReceived
<1>11. Handler!ServerPush
  <2>1. \E t \in Handler!PushType : \E ws \in Push[t] :
            Unwrap(received)' = Append(Unwrap(received),
                [type |-> t, to |-> "", values |-> ws, no |-> answered])
    BY <1>1, <1>10, SameTypes
  <2> QED
    BY <1>2, <2>1 DEF Handler!ServerPush
<1>12. QueuesOK' /\ Flow' = Flow
  BY <1>2, SameFlow DEF Inv
<1>13. Conserved' /\ SentOK' /\ CallOK'
  BY <1>2, <1>12 DEF Inv, Conserved, SentOK, CallOK
<1>14. [Handler!Next]_(Handler!vars)
  BY <1>11 DEF Handler!Next
<1> QED
  BY <1>10, <1>12, <1>13, <1>14, InvFrom

\* A lost connection.
LEMMA DisconnectStep == Inv /\ Disconnect => [Handler!Next]_(Handler!vars) /\ Inv'
<1> SUFFICES ASSUME Inv, Disconnect PROVE [Handler!Next]_(Handler!vars) /\ Inv'
  OBVIOUS
<1>1. PICK n \in 0..Len(received) : received' = SubSeq(received, 1, n)
  BY DEF Disconnect
<1>2. /\ connected /\ connected' = FALSE /\ Close /\ sent' = << >>
      /\ UNCHANGED <<call, registered, pending_requests, signals, asked, handled, answered>>
  BY DEF Disconnect, clientVars
<1>3. received \in Seq(WirePacket) /\ \A i \in 1..Len(received) : Encoded(received[i])
  BY DEF Inv, ReceivedType, ReceivedOK
<1>4. /\ received' \in Seq(WirePacket) /\ Len(received') = n
      /\ \A i \in 1..n : received'[i] = received[i]
      /\ Unwrap(received') = SubSeq(Unwrap(received), 1, n)
  BY <1>1, <1>3, UnwrapCut
<1>5. ReceivedType' /\ ReceivedOK'
  <2>1. \A i \in 1..n : i \in 1..Len(received)
    BY <1>3, LenProperties
  <2>2. \A i \in 1..Len(received') : Encoded(received'[i])
    BY <1>3, <1>4, <2>1
  <2> QED
    BY <1>4, <2>2 DEF ReceivedType, ReceivedOK, Encoded
<1>6. Handler!Disconnect
  <2>1. n \in 0..Len(Unwrap(received))
    BY <1>3, UnwrapFacts
  <2>2. Unwrap(received)' = SubSeq(Unwrap(received), 1, n)
    BY <1>4 DEF Unwrap
  <2> QED
    BY <1>2, <2>1, <2>2 DEF Handler!Disconnect
<1>7. QueuesOK'
  BY <1>2, CloseKeeps DEF Inv
<1>8. Conserved' /\ SentOK' /\ CallOK'
  BY <1>2, EmptySeq DEF Inv, Conserved, SentOK, CallOK
<1>9. [Handler!Next]_(Handler!vars)
  BY <1>6 DEF Handler!Next
<1> QED
  BY <1>5, <1>7, <1>8, <1>9, InvFrom

\* Which callback a packet gets.
LEMMA SignalFacts ==
    /\ \A t \in DOMAIN AnswerSignal : AnswerSignal[t] # "friendNewRequest"
    /\ \A t \in DOMAIN PushStruct : PushSignal[t] # "friendNewRequest"
    /\ \A t \in PushType \ DOMAIN PushStruct : PushSignal[t] = "friendNewRequest"
<1>1. \A t \in DOMAIN AnswerSignal : AnswerSignal[t] # "friendNewRequest"
  BY DEF AnswerSignal
<1>2. DOMAIN PushStruct = {"MESSAGE", "DIRECT_MESSAGE"}
  BY DEF PushStruct
<1>3. PushType = {"MESSAGE", "DIRECT_MESSAGE", "FRIEND_NEW_REQUEST", "FRIEND_REQUEST_ACCEPTED",
                  "FRIEND_REQUEST_REJECTED"}
  BY DEF PushType, PushSignal
<1> QED
  BY <1>1, <1>2, <1>3 DEF PushSignal

\* A body gives the values back.
LEMMA DecodeBody ==
    ASSUME NEW s \in DOMAIN Fields, NEW vs, Expressible(s, vs)
    PROVE  deserialize(s, serialize(s, vs), 0).values = vs
<1>1. 0 \in Byte
  BY RadixAssumption DEF RadixAssumption, Byte
<1>2. deserialize(s, serialize(s, vs), 0) = Reading(vs, Len(serialize(s, vs)))
  BY <1>1, RoundTrip
<1> QED
  BY <1>2 DEF Reading

\* What handle_packet decodes.
Original == IF pending_requests = << >> THEN "" ELSE Head(pending_requests)
CallbackName == Callback(Head(received).type, Original)
Decoded ==
    LET struct == IF Head(received).type = "RESULT" THEN ResponseStruct[Original]
                  ELSE PushStruct[Head(received).type]
    IN  IF CallbackName = "friendNewRequest" THEN << >>
        ELSE deserialize(struct, Head(received).body, 0).values

\* What the client decodes are the values of the packet: a RESULT is in front of its own
\* request, so that it is read as the right struct.
LEMMA DecodedValues ==
    ASSUME Inv, received # << >>, CallbackName # NoCallback
    PROVE  Decoded = Head(received).values
<1> DEFINE p == Head(received)
           name == CallbackName
<1>1. /\ p = received[1] /\ Len(received) \in Nat \ {0}
      /\ Unwrap(received) # << >> /\ Head(Unwrap(received)) = Strip(p)
  BY UnwrapHead DEF Inv, ReceivedType
<1> HIDE DEF p
<1>2. Encoded(p)
  <2>1. 1 \in 1..Len(received)
    BY <1>1
  <2> QED
    BY <1>1, <2>1 DEF Inv, ReceivedOK
<1>3. name = Callback(p.type, Original)
  BY DEF CallbackName, p
<1>4. CASE p.type = "RESULT"
  <2>1. pending_requests # << >> /\ Head(pending_requests) = p.to
    <3>1. Strip(p).type = "RESULT" /\ Strip(p).to = p.to
      BY <1>4 DEF Strip
    <3>2. HP!AnswersPaired
      BY HP!InvPaired DEF Inv
    <3> QED
      BY <1>1, <3>1, <3>2 DEF HP!AnswersPaired
  <2>2. Original = p.to
    BY <2>1 DEF Original
  <2>3. /\ p.to \in RequestType \ {"LOGOUT"} /\ p.values \in Answer[p.to]
        /\ p.body = serialize(ResponseStruct[p.to], p.values)
    BY <1>2, <1>4 DEF Encoded
  <2>4. /\ Expressible(ResponseStruct[p.to], p.values)
        /\ ResponseStruct[p.to] \in DOMAIN Fields
    BY <2>3, ConnectionAssumption, StructFacts DEF ConnectionAssumption
  <2>5. name # "friendNewRequest"
    <3>1. name = IF p.to \in DOMAIN AnswerSignal THEN AnswerSignal[p.to] ELSE NoCallback
      BY <1>3, <1>4, <2>2 DEF Callback
    <3> QED
      BY <3>1, SignalFacts DEF NoCallback
  <2>6. deserialize(ResponseStruct[p.to], p.body, 0).values = p.values
    BY <2>3, <2>4, DecodeBody
  <2>7. Decoded = deserialize(ResponseStruct[p.to], p.body, 0).values
    BY <1>4, <2>2, <2>5 DEF Decoded, p
  <2> QED
    BY <2>6, <2>7 DEF p
<1>5. CASE p.type # "RESULT"
  <2>1. /\ p.type \in PushType /\ p.values \in Push[p.type]
        /\ p.type \in DOMAIN PushStruct => p.body = serialize(PushStruct[p.type], p.values)
    BY <1>2, <1>5 DEF Encoded
  <2>2. name = PushSignal[p.type]
    BY <1>3, <1>5 DEF Callback
  <2>3. CASE p.type \in DOMAIN PushStruct
    <3>1. name # "friendNewRequest"
      BY <2>2, <2>3, SignalFacts
    <3>2. /\ Expressible(PushStruct[p.type], p.values)
          /\ PushStruct[p.type] \in DOMAIN Fields
      BY <2>1, <2>3, ConnectionAssumption, StructFacts DEF ConnectionAssumption
    <3>3. deserialize(PushStruct[p.type], p.body, 0).values = p.values
      BY <2>1, <2>3, <3>2, DecodeBody
    <3>4. Decoded = deserialize(PushStruct[p.type], p.body, 0).values
      BY <1>5, <3>1 DEF Decoded, p
    <3> QED
      BY <3>3, <3>4 DEF p
  <2>4. CASE p.type \notin DOMAIN PushStruct
    <3>1. name = "friendNewRequest"
      BY <2>1, <2>2, <2>4, SignalFacts
    <3>2. p.values = << >>
      BY <2>1, <2>4, ConnectionAssumption DEF ConnectionAssumption
    <3>3. Decoded = << >>
      BY <3>1 DEF Decoded
    <3> QED
      BY <3>2, <3>3 DEF p
  <2> QED
    BY <2>3, <2>4
<1> QED
  BY <1>4, <1>5

\* The client handles the packet that is in front.
LEMMA HandleStep == Inv /\ handle_packet => [Handler!Next]_(Handler!vars) /\ Inv'
<1> SUFFICES ASSUME Inv, handle_packet PROVE [Handler!Next]_(Handler!vars) /\ Inv'
  OBVIOUS
<1> DEFINE packet == Head(received)
           name == CallbackName
<1>1. /\ received # << >> /\ received' = Tail(received)
      /\ IF packet.type = "RESULT"
         THEN /\ pending_requests' = IF pending_requests = << >> THEN << >>
                                     ELSE Tail(pending_requests)
              /\ handled' = handled + 1
         ELSE UNCHANGED <<pending_requests, handled>>
      /\ UNCHANGED <<call, registered, asked, answered, connected, sent>> /\ UNCHANGED netVars
  BY DEF handle_packet
<1>2. signals' = IF name = NoCallback THEN signals
                 ELSE Append(signals, [name |-> name, values |-> Decoded])
  BY DEF handle_packet, CallbackName, Original, Decoded
<1>3. signals' = IF name = NoCallback THEN signals
                 ELSE Append(signals, [name |-> name, values |-> packet.values])
  BY <1>1, <1>2, DecodedValues
<1>4. received \in Seq(WirePacket) /\ \A i \in 1..Len(received) : Encoded(received[i])
  BY DEF Inv, ReceivedType, ReceivedOK
<1>5. /\ Tail(received) \in Seq(WirePacket)
      /\ Len(received) \in Nat \ {0} /\ Len(Tail(received)) = Len(received) - 1
      /\ \A i \in 1..(Len(received) - 1) : Tail(received)[i] = received[i + 1]
      /\ Unwrap(received) # << >> /\ Head(Unwrap(received)) = Strip(packet)
      /\ Unwrap(Tail(received)) = Tail(Unwrap(received))
  BY <1>1, <1>4, UnwrapHead
<1>6. ReceivedType' /\ ReceivedOK'
  <2>0. Len(received') = Len(received) - 1
    BY <1>1, <1>5
  <2>1. \A i \in 1..Len(received') : i \in 1..(Len(received) - 1) /\ i + 1 \in 1..Len(received)
    <3>1. PICK n \in Nat \ {0} : n = Len(received)
      BY <1>5
    <3> QED
      BY <2>0, <3>1
  <2>2. \A i \in 1..Len(received') : Encoded(received'[i])
    BY <1>1, <1>4, <1>5, <2>1
  <2> QED
    BY <1>1, <1>5, <2>2 DEF ReceivedType, ReceivedOK, Encoded
<1>7. Strip(packet).type = packet.type /\ Strip(packet).values = packet.values
  BY DEF Strip
<1>8. Handler!handle_packet
  <2>1. Unwrap(received)' = Tail(Unwrap(received))
    BY <1>1, <1>5 DEF Unwrap
  <2> DEFINE p == Head(Unwrap(received))
             o == IF pending_requests = << >> THEN "" ELSE Head(pending_requests)
             c == Handler!Callback(p.type, o)
  <2>2. p.type = packet.type /\ p.values = packet.values
    BY <1>5, <1>7
  <2>3. c = name
    BY <2>2, SameCallback DEF CallbackName, Original
  <2>4. Handler!NoCallback = NoCallback
    BY SameTypes
  <2>5. signals' = IF c = Handler!NoCallback THEN signals
                   ELSE Append(signals, [name |-> c, values |-> p.values])
    BY <1>3, <2>2, <2>3, <2>4
  <2>6. IF p.type = "RESULT"
        THEN /\ pending_requests' = IF pending_requests = << >> THEN << >>
                                    ELSE Tail(pending_requests)
             /\ handled' = handled + 1
        ELSE UNCHANGED <<pending_requests, handled>>
    BY <1>1, <2>2
  <2> QED
    BY <1>1, <1>5, <2>1, <2>5, <2>6 DEF Handler!handle_packet
<1>9. QueuesOK' /\ Flow' = Flow
  BY <1>1, SameFlow DEF Inv
<1>10. Conserved' /\ SentOK' /\ CallOK'
  BY <1>1, <1>9 DEF Inv, Conserved, SentOK, CallOK
<1>11. [Handler!Next]_(Handler!vars)
  BY <1>8 DEF Handler!Next
<1> QED
  BY <1>6, <1>9, <1>10, <1>11, InvFrom

\* No step does anything else.
LEMMA StepInv == Inv /\ [Next]_vars => [Handler!Next]_(Handler!vars) /\ Inv'
<1>1. ASSUME Inv, UNCHANGED vars PROVE [Handler!Next]_(Handler!vars) /\ Inv'
  <2>1. /\ UNCHANGED netVars /\ UNCHANGED received
        /\ UNCHANGED <<call, registered, pending_requests, signals, asked, handled, answered,
                       connected, sent>>
    BY <1>1 DEF vars, clientVars, serverVars
  <2>2. UNCHANGED Handler!vars
    BY <2>1 DEF Handler!vars, Unwrap
  <2>3. QueuesOK' /\ Flow' = Flow
    BY <1>1, <2>1, SameFlow DEF Inv
  <2>4. Conserved' /\ SentOK' /\ CallOK'
    BY <1>1, <2>1, <2>3 DEF Inv, Conserved, SentOK, CallOK
  <2>5. ReceivedType' /\ ReceivedOK'
    BY <1>1, <2>1, SameReceived DEF Inv
  <2> QED
    BY <1>1, <2>2, <2>3, <2>4, <2>5, InvFrom
<1>2. Inv /\ Invoke => [Handler!Next]_(Handler!vars) /\ Inv'
  BY InvokeStep DEF Handler!Next
<1> QED
  BY <1>1, <1>2, RegisterStep, SendStep, TransportStep, ServeStep, PushStep, DisconnectStep,
     HandleStep DEF Next

\* Behind every byte that is read there is the rest of what was sent: whatever the threads
\* and TCP do, no byte of an open connection is lost, repeated or out of place
\* (network_session.hpp's write_queue, do_write and read_header).
THEOREM BytesConserved == Spec => [](QueuesOK /\ Conserved)
<1>1. Spec => []Inv
  BY InitInv, StepInv, PTL DEF Spec
<1>2. Inv => QueuesOK /\ Conserved
  BY DEF Inv
<1> QED
  BY <1>1, <1>2, PTL

\* Every RESULT is decoded as the answer to its own request, with requests that are read
\* from bytes and answers that are decoded from bytes.
THEOREM PairedOverBytes == Spec => []AnswersPaired
<1>1. Spec => []Inv
  BY InitInv, StepInv, PTL DEF Spec
<1>2. Inv => AnswersPaired
  <2>1. Inv => HP!AnswersPaired
    BY HP!InvPaired DEF Inv
  <2> QED
    BY <2>1 DEF AnswersPaired, Handler!AnswersPaired, HP!AnswersPaired
<1> QED
  BY <1>1, <1>2, PTL

\* The bytes, the queues and the two threads implement the first in first out connection of
\* ClientAsyncHandler: every packet is handled once, in order, with the values it was sent
\* with, for every packet that the format can express and however TCP cuts the stream.
THEOREM ConnectionImplementsHandler == Spec => ImplementsHandler
<1>1. Init => Handler!Init
  BY DEF Init
<1>2. Spec => Handler!Init /\ [][Handler!Next]_(Handler!vars)
  BY <1>1, InitInv, StepInv, PTL DEF Spec
<1> QED
  BY <1>2 DEF ImplementsHandler, Handler!Spec

\* While the socket is open a packet in the write_queue is being written: the posted function
\* and the completion handler of async_write between them never leave one behind without a
\* write, nor start two (network_session.hpp's write_in_progress).
QueueIsWritten == connected => (writing <=> write_queue # << >>)

THEOREM NeverStalled == Spec => []QueueIsWritten
<1>1. Init => QueueIsWritten
  BY DEF Init, NetInit, QueueIsWritten
<1>2. Inv /\ QueueIsWritten /\ [Next]_vars => QueueIsWritten'
  <2> SUFFICES ASSUME Inv, QueueIsWritten, [Next]_vars PROVE QueueIsWritten'
    OBVIOUS
  <2>1. CASE UNCHANGED <<writing, write_queue, connected>>
    BY <2>1 DEF QueueIsWritten
  <2>2. CASE Posted /\ connected' = connected
    <3>1. write_queue \in Seq(Seq(Byte)) /\ posted \in Seq(Seq(Byte)) /\ posted # << >>
      BY <2>2 DEF Inv, QueuesOK, Posted
    <3>2. Head(posted) \in Seq(Byte)
      BY <3>1, FlattenBytes
    <3>3. Append(write_queue, Head(posted)) # << >>
      BY <3>1, <3>2, AppendProperties
    <3> QED
      BY <2>2, <3>3 DEF QueueIsWritten, Posted, StartsWrite
  <2>3. CASE Written /\ connected' = connected
    BY <2>3 DEF QueueIsWritten, Written
  <2>4. CASE connected' = FALSE
    BY <2>4 DEF QueueIsWritten
  <2>5. CASE Transport
    <3>1. connected' = connected
      BY <2>5 DEF Transport
    <3>2. Posted \/ Written \/ read_header \/ \E n \in 1..(8 + 8 * Radix) : do_write(n)
      BY <2>5 DEF Transport
    <3>3. read_header \/ (\E n \in 1..(8 + 8 * Radix) : do_write(n))
              => UNCHANGED <<writing, write_queue>>
      BY DEF read_header, do_write
    <3> QED
      BY <2>1, <2>2, <2>3, <3>1, <3>2, <3>3
  <2>6. CASE Send
    BY <2>1, <2>6 DEF Send, send_packet, netVars, Handler!send_packet
  <2>7. CASE Serve
    BY <2>1, <2>7 DEF Serve, BodyRead
  <2>8. CASE Disconnect
    BY <2>4, <2>8 DEF Disconnect
  <2>9. CASE Invoke \/ register_request \/ TakeSignal
    BY <2>1, <2>9 DEF Invoke, register_request, TakeSignal, netVars, Handler!Invoke,
                      Handler!register_request, Handler!TakeSignal
  <2>10. CASE ServerPush \/ handle_packet
    BY <2>1, <2>10 DEF ServerPush, handle_packet, netVars
  <2>11. CASE UNCHANGED vars
    BY <2>1, <2>11 DEF vars, netVars
  <2> QED
    BY <2>5, <2>6, <2>7, <2>8, <2>9, <2>10, <2>11 DEF Next
<1>3. Spec => []Inv
  BY InitInv, StepInv, PTL DEF Spec
<1> QED
  BY <1>1, <1>2, <1>3, PTL DEF Spec
=============================================================================
