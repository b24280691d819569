----------------------- MODULE MessageRepositoryProofs -----------------------
(***************************************************************************)
(* What the queries of message_repository.hpp return, for any users, limit *)
(* and number of messages.                                                 *)
(*                                                                         *)
(* The queries rest on one fact about the order of rows: a scan of S, and  *)
(* so an answer of ORDER BY create_at, is an injection of                  *)
(* 1..Cardinality(S) into the finite set S of the rows that the WHERE      *)
(* selects, hence a bijection, so it has each of them once                 *)
(* (ScanIsComplete, AnswerIsComplete).  A history is such an answer cut at *)
(* the limit; the bare columns of a group come from a row as new as every  *)
(* row scanned (BareRowIsNewest).  The invariant is TypeOK, with its clock *)
(* that is never behind a row.                                             *)
(***************************************************************************)
EXTENDS MessageRepository, FiniteSetTheorems, SequenceTheorems, WellFoundedInduction, TLAPS

-----------------------------------------------------------------------------
(***************************************************************************)
(* The table.                                                              *)
(***************************************************************************)

\* The rows are numbered from 1, so that any selection of them is finite.
LEMMA SelectionIsFinite ==
    ASSUME TypeOK, NEW S \in SUBSET DOMAIN direct_messages
    PROVE  IsFiniteSet(S) /\ Cardinality(S) \in Nat
  <1>1. DOMAIN direct_messages = 1..Len(direct_messages) /\ Len(direct_messages) \in Nat
    BY LenProperties DEF TypeOK
  <1>2. IsFiniteSet(DOMAIN direct_messages)
    BY <1>1, FS_Interval
  <1>3. IsFiniteSet(S)
    BY <1>2, FS_Subset
  <1> QED
    BY <1>3, FS_CardinalityType

LEMMA RowType ==
    ASSUME TypeOK, NEW i \in DOMAIN direct_messages
    PROVE  direct_messages[i] \in Message
  BY ElementOfSeq DEF TypeOK

\* A scan visits each of the selected rows exactly once.
LEMMA ScanIsComplete ==
    ASSUME TypeOK, NEW S \in SUBSET DOMAIN direct_messages, NEW q \in Scans(S)
    PROVE  /\ q \in Seq(S)
           /\ Len(q) = Cardinality(S)
           /\ Range(q) = S
           /\ IsInjective(q)
  <1> DEFINE n == Cardinality(S)
  <1>1. IsFiniteSet(S) /\ n \in Nat
    BY SelectionIsFinite
  <1>2. q \in [1..n -> S] /\ IsInjective(q)
    BY DEF Scans
  <1> HIDE DEF n
  <1>4. q \in Injection(1..n, S)
    BY <1>2 DEF IsInjective, Injection
  <1>5. Cardinality(1..n) = n
    BY <1>1, FS_Interval
  <1>6. q \in Surjection(1..n, S)
    BY <1>1, <1>4, <1>5, FS_Injection DEF n
  <1>7. Range(q) = S
    BY <1>2, <1>6 DEF Surjection, Range
  <1>8. q \in Seq(S) /\ Len(q) = n /\ DOMAIN q = 1..n
    BY <1>1, <1>2
  <1> QED
    BY <1>2, <1>7, <1>8 DEF n

\* An answer of a query has each of the selected rows exactly once, in the
\* order of create_at.
LEMMA AnswerIsComplete ==
    ASSUME TypeOK, NEW S \in SUBSET DOMAIN direct_messages, NEW q \in OrderedByTime(S)
    PROVE  /\ q \in Seq(S)
           /\ Len(q) = Cardinality(S)
           /\ Range(q) = S
           /\ IsInjective(q)
           /\ \A i, j \in 1..Len(q) : i < j => Time(q[i]) <= Time(q[j])
  <1>1. q \in Scans(S) /\ \A i, j \in DOMAIN q : i < j => Time(q[i]) <= Time(q[j])
    BY DEF OrderedByTime
  <1>2. q \in Seq(S) /\ Len(q) = Cardinality(S) /\ Range(q) = S /\ IsInjective(q)
    BY <1>1, ScanIsComplete
  <1>3. DOMAIN q = 1..Len(q)
    BY <1>2, LenProperties
  <1> QED
    BY <1>1, <1>2, <1>3

\* The same of ORDER BY create_at DESC.
LEMMA NewestFirstIsComplete ==
    ASSUME TypeOK, NEW S \in SUBSET DOMAIN direct_messages, NEW q \in NewestFirst(S)
    PROVE  /\ q \in Seq(S)
           /\ Range(q) = S
           /\ IsInjective(q)
           /\ \A i, j \in 1..Len(q) : i < j => Time(q[i]) >= Time(q[j])
  <1>1. q \in Scans(S) /\ \A i, j \in DOMAIN q : i < j => Time(q[i]) >= Time(q[j])
    BY DEF NewestFirst
  <1>2. q \in Seq(S) /\ Range(q) = S /\ IsInjective(q)
    BY <1>1, ScanIsComplete
  <1>3. DOMAIN q = 1..Len(q)
    BY <1>2, LenProperties
  <1> QED
    BY <1>1, <1>2, <1>3

LEMMA TimeType ==
    ASSUME TypeOK, NEW i \in DOMAIN direct_messages
    PROVE  Time(i) \in Nat
  BY RowType DEF Time, Message

-----------------------------------------------------------------------------
(***************************************************************************)
(* Types.                                                                  *)
(***************************************************************************)

\* The rows keep their types, and none is dated after the clock, in every
\* step of the repository.
THEOREM TypeCorrect == Spec => []TypeOK
  <1>1. Init => TypeOK
    BY DEF Init, TypeOK
  <1>2. TypeOK /\ [Next]_vars => TypeOK'
    <2> SUFFICES ASSUME TypeOK, [Next]_vars PROVE TypeOK'
      OBVIOUS
    <2>0. DOMAIN direct_messages = 1..Len(direct_messages) /\ Len(direct_messages) \in Nat
      BY LenProperties DEF TypeOK
    <2>1. ASSUME NEW a \in Party, NEW b \in Party, Save(a, b)
          PROVE  TypeOK'
      <3> DEFINE m == [sender |-> a, recipient |-> b, create_at |-> now, delivered |-> FALSE]
      <3>1. direct_messages' = Append(direct_messages, m) /\ now' = now
        BY <2>1 DEF Save, saveMessage
      <3>2. m \in Message /\ m.create_at = now
        BY DEF Message, TypeOK
      <3> HIDE DEF m
      <3>3. /\ direct_messages' \in Seq(Message)
            /\ Len(direct_messages') = Len(direct_messages) + 1
            /\ \A i \in 1..Len(direct_messages) : direct_messages'[i] = direct_messages[i]
            /\ direct_messages'[Len(direct_messages) + 1] = m
        BY <3>1, <3>2, AppendProperties DEF TypeOK
      <3>4. DOMAIN direct_messages' = 1..(Len(direct_messages) + 1)
        BY <3>3, LenProperties
      <3>5. \A i \in DOMAIN direct_messages' :
                i \in 1..Len(direct_messages) \/ i = Len(direct_messages) + 1
        BY <2>0, <3>4
      <3>6. \A i \in DOMAIN direct_messages' : direct_messages'[i].create_at <= now'
        BY <2>0, <3>1, <3>2, <3>3, <3>5 DEF TypeOK
      <3> QED
        BY <3>1, <3>3, <3>6 DEF TypeOK
    <2>2. ASSUME NEW u \in Party, Drain(u)
          PROVE  TypeOK'
      <3>1. PICK q : markDelivered(Range(q)) /\ UNCHANGED now
        BY <2>2 DEF Drain
      <3> DEFINE ids == Range(q)
      <3> HIDE DEF ids
      <3>2. direct_messages' = [i \in DOMAIN direct_messages |->
                [direct_messages[i] EXCEPT !.delivered = @ \/ i \in ids]]
        BY <3>1 DEF markDelivered, ids
      <3>3. \A i \in DOMAIN direct_messages :
                /\ direct_messages'[i] \in Message
                /\ direct_messages'[i].create_at = direct_messages[i].create_at
        BY <3>2, RowType DEF Message
      <3>4. direct_messages' \in Seq(Message)
        BY <2>0, <3>2, <3>3
      <3> QED
        BY <3>1, <3>2, <3>3, <3>4 DEF TypeOK
    <2>3. CASE Tick
      BY <2>3, RowType DEF Tick, TypeOK, Message
    <2>4. CASE UNCHANGED vars
      BY <2>4 DEF vars, TypeOK
    <2> QED
      BY <2>1, <2>2, <2>3, <2>4 DEF Next
  <1> QED
    BY <1>1, <1>2, PTL DEF Spec

-----------------------------------------------------------------------------
(***************************************************************************)
(* History.                                                                *)
(***************************************************************************)

\* The two spellings of "the messages between a and b": the WHERE of
\* getHistory, and the unordered pair of the properties.
LEMMA ConversationIsPair ==
    ASSUME NEW a, NEW b
    PROVE  /\ Conversation(a, b) = Between(a, b)
           /\ Conversation(a, b) = Conversation(b, a)
  BY DEF Conversation, Between

\* What the LIMIT leaves of an ordered answer.
LEMMA HistoryIsPrefix ==
    ASSUME TypeOK, NEW a, NEW b, NEW h \in getHistory(a, b)
    PROVE  \E q \in OrderedByTime(Between(a, b)) :
              /\ h \in Seq(Between(a, b))
              /\ Len(h) = IF Len(q) < Limit THEN Len(q) ELSE Limit
              /\ Len(h) <= Len(q)
              /\ \A n \in 1..Len(h) : h[n] = q[n]
  <1> DEFINE S == Between(a, b)
  <1>0. Limit \in Nat
    BY MessageAssumption DEF MessageAssumption
  <1>1. S \in SUBSET DOMAIN direct_messages
    BY DEF Between
  <1>2. PICK q \in OrderedByTime(S) :
            h = SubSeq(q, 1, IF Len(q) < Limit THEN Len(q) ELSE Limit)
    BY ConversationIsPair DEF getHistory
  <1> DEFINE k == IF Len(q) < Limit THEN Len(q) ELSE Limit
  <1> HIDE DEF S
  <1>3. q \in Seq(S) /\ Len(q) \in Nat
    BY <1>1, <1>2, AnswerIsComplete, LenProperties
  <1>4. k \in 0..Len(q)
    BY <1>0, <1>3
  <1>5. h = SubSeq(q, 1, k)
    BY <1>2
  <1> HIDE DEF k
  <1>6. h \in Seq(S) /\ Len(h) = k /\ \A n \in 1..k : h[n] = q[n]
    BY <1>3, <1>4, <1>5
  <1> QED
    BY <1>2, <1>3, <1>4, <1>6 DEF k, S

\* getHistory answers both users alike: the conversation, or its oldest Limit
\* messages, in order, each once.
THEOREM HistoryIsComplete == Spec => []HistoryIsOldest
  <1>1. ASSUME TypeOK PROVE HistoryIsOldest
    <2> SUFFICES ASSUME NEW a \in Party, NEW b \in Party
                 PROVE  /\ getHistory(a, b) = getHistory(b, a)
                        /\ \A h \in getHistory(a, b) :
                              /\ Range(h) \subseteq Between(a, b) /\ IsInjective(h)
                              /\ \/ Range(h) = Between(a, b)
                                 \/ Len(h) = Limit /\ Limit < Cardinality(Between(a, b))
                              /\ \A n \in DOMAIN h :
                                    /\ \A k \in 1..n : Time(h[k]) <= Time(h[n])
                                    /\ \A i \in Between(a, b) \ Range(h) : Time(h[n]) <= Time(i)
      BY Zenon DEF HistoryIsOldest
    <2>1. getHistory(a, b) = getHistory(b, a)
      BY ConversationIsPair, Zenon DEF getHistory
    <2> SUFFICES ASSUME NEW h \in getHistory(a, b)
                 PROVE  /\ Range(h) \subseteq Between(a, b) /\ IsInjective(h)
                        /\ \/ Range(h) = Between(a, b)
                           \/ Len(h) = Limit /\ Limit < Cardinality(Between(a, b))
                        /\ \A n \in DOMAIN h :
                              /\ \A k \in 1..n : Time(h[k]) <= Time(h[n])
                              /\ \A i \in Between(a, b) \ Range(h) : Time(h[n]) <= Time(i)
      BY <2>1
    <2> DEFINE S == Between(a, b)
    <2>0. Limit \in Nat
      BY MessageAssumption DEF MessageAssumption
    <2>2. S \in SUBSET DOMAIN direct_messages
      BY DEF Between
    <2>3. PICK q \in OrderedByTime(S) :
              /\ h \in Seq(S)
              /\ Len(h) = IF Len(q) < Limit THEN Len(q) ELSE Limit
              /\ Len(h) <= Len(q)
              /\ \A n \in 1..Len(h) : h[n] = q[n]
      BY <1>1, HistoryIsPrefix
    <2> HIDE DEF S
    <2>4. /\ q \in Seq(S) /\ Len(q) = Cardinality(S) /\ Range(q) = S /\ IsInjective(q)
          /\ \A i, j \in 1..Len(q) : i < j => Time(q[i]) <= Time(q[j])
      BY <1>1, <2>2, <2>3, AnswerIsComplete
    <2>5. /\ Len(q) \in Nat /\ DOMAIN q = 1..Len(q)
          /\ Len(h) \in Nat /\ DOMAIN h = 1..Len(h)
          /\ \A n \in 1..Len(q) : q[n] \in S /\ Time(q[n]) \in Nat
      <3>1. Len(q) \in Nat /\ DOMAIN q = 1..Len(q) /\ Len(h) \in Nat /\ DOMAIN h = 1..Len(h)
        BY <2>3, <2>4, LenProperties
      <3>2. \A n \in 1..Len(q) : q[n] \in S
        BY <2>4, ElementOfSeq
      <3> QED
        BY <1>1, <2>2, <3>1, <3>2, TimeType
    <2>6. Range(h) \subseteq S
      BY <2>3, <2>5, ElementOfSeq DEF Range
    <2>7. IsInjective(h)
      BY <2>3, <2>4, <2>5 DEF IsInjective
    <2>8. Range(h) = S \/ (Len(h) = Limit /\ Limit < Cardinality(S))
      <3>0. Len(h) = IF Len(q) < Limit THEN Len(q) ELSE Limit
        BY <2>3
      <3>1. CASE Len(q) <= Limit
        <4>1. Len(h) = Len(q)
          <5>1. Len(q) \in Nat
            BY <2>5
          <5> QED
            BY <2>0, <3>0, <3>1, <5>1
        <4>2. Range(h) = Range(q)
          BY <2>3, <2>5, <4>1 DEF Range
        <4> QED
          BY <2>4, <4>2
      <3>2. CASE Limit < Len(q)
        BY <2>0, <2>4, <2>5, <3>0, <3>2
      <3>3. Len(q) <= Limit \/ Limit < Len(q)
        BY <2>0, <2>5
      <3> QED
        BY <3>1, <3>2, <3>3
    <2>9. ASSUME NEW n \in DOMAIN h, NEW k \in 1..n
          PROVE  Time(h[k]) <= Time(h[n])
      <3>1. n \in 1..Len(q) /\ k \in 1..Len(q) /\ h[n] = q[n] /\ h[k] = q[k]
        BY <2>3, <2>5
      <3>2. Time(q[k]) <= Time(q[n])
        <4>1. Time(q[n]) \in Nat
          BY <2>5, <3>1
        <4>2. k = n \/ k < n
          BY <2>5
        <4>3. k < n => Time(q[k]) <= Time(q[n])
          BY <2>4, <3>1
        <4> QED
          BY <4>1, <4>2, <4>3
      <3> QED
        BY <3>1, <3>2
    <2>10. ASSUME NEW n \in DOMAIN h, NEW i \in S \ Range(h)
           PROVE  Time(h[n]) <= Time(i)
      <3>1. PICK m \in 1..Len(q) : q[m] = i
        BY <2>4, <2>5 DEF Range
      <3>2. ~ (m \in 1..Len(h))
        <4>1. m \in 1..Len(h) => h[m] = i /\ h[m] \in Range(h)
          BY <2>3, <2>5, <3>1 DEF Range
        <4> QED
          BY <4>1
      <3>3. n \in 1..Len(h) /\ n \in 1..Len(q) /\ h[n] = q[n]
        BY <2>3, <2>5
      <3>4. n < m
        BY <2>5, <3>1, <3>2, <3>3
      <3>5. Time(q[n]) <= Time(q[m])
        BY <2>4, <3>1, <3>3, <3>4
      <3> QED
        BY <3>1, <3>3, <3>5
    <2> QED
      BY <2>6, <2>7, <2>8, <2>9, <2>10 DEF S
  <1> QED
    BY <1>1, TypeCorrect, PTL

-----------------------------------------------------------------------------
(***************************************************************************)
(* The chat list.                                                          *)
(***************************************************************************)

\* A set that has 0 and with each number the next has all numbers.
LEMMA NatSetInduction ==
    ASSUME NEW T, 0 \in T, \A n \in Nat : n \in T => n + 1 \in T
    PROVE  Nat \subseteq T
  <1> DEFINE U == Nat \ T
  <1> SUFFICES ASSUME U # {} PROVE FALSE
    OBVIOUS
  <1>1. \E x \in U : \A y \in U : ~ (<<y, x>> \in OpToRel(<, Nat))
    <2>1. U \subseteq Nat
      OBVIOUS
    <2> HIDE DEF U
    <2> QED
      BY <2>1, WFMin, NatLessThanWellFounded
  <1>2. PICK x \in U : \A y \in U : ~ (<<y, x>> \in OpToRel(<, Nat))
    BY <1>1
  <1>3. x - 1 \in Nat /\ x - 1 < x
    <2>1. x # 0 /\ x \in Nat
      OBVIOUS
    <2> QED
      BY <2>1
  <1>4. x - 1 \in T
    BY <1>2, <1>3 DEF OpToRel
  <1>5. (x - 1) + 1 = x
    BY <1>3
  <1> QED
    BY <1>3, <1>4, <1>5

\* One row of the scan of BareRow, after those that f stands for.
RowStep(q, f, k) ==
    IF k = 1 THEN q[1] ELSE IF Time(q[k]) > Time(f[k - 1]) THEN q[k] ELSE f[k - 1]

\* The recursive function in BareRow exists, however long the scan.
LEMMA RowsExist ==
    ASSUME NEW q, NEW m \in Nat
    PROVE  \E f : f = [k \in 1..m |-> RowStep(q, f, k)]
  <1> DEFINE T == {n \in Nat : \E f : f = [k \in 1..n |-> RowStep(q, f, k)]}
  <1>1. 0 \in T
    <2> DEFINE f == [k \in 1..0 |-> q]
    <2>1. f = [k \in 1..0 |-> RowStep(q, f, k)]
      OBVIOUS
    <2> HIDE DEF f
    <2> QED
      BY <2>1
  <1>2. \A n \in Nat : n \in T => n + 1 \in T
    <2> SUFFICES ASSUME NEW n \in Nat, n \in T PROVE n + 1 \in T
      OBVIOUS
    <2>1. PICK f : f = [k \in 1..n |-> RowStep(q, f, k)]
      OBVIOUS
    <2> DEFINE g == [k \in 1..(n + 1) |-> IF k = n + 1 THEN RowStep(q, f, k) ELSE f[k]]
    <2>2. ASSUME NEW k \in 1..(n + 1)
          PROVE  g[k] = RowStep(q, g, k)
      <3>1. k # 1 => g[k - 1] = f[k - 1]
        <4> SUFFICES ASSUME k # 1 PROVE g[k - 1] = f[k - 1]
          OBVIOUS
        <4>1. k - 1 \in 1..(n + 1) /\ k - 1 # n + 1
          OBVIOUS
        <4> QED
          BY <4>1
      <3>2. RowStep(q, g, k) = RowStep(q, f, k)
        <4> HIDE DEF g
        <4> QED
          BY <3>1 DEF RowStep
      <3>3. g[k] = RowStep(q, f, k)
        <4>1. CASE k = n + 1
          BY <4>1
        <4>2. CASE k # n + 1
          <5>1. k \in 1..n /\ g[k] = f[k]
            BY <4>2
          <5> QED
            BY <2>1, <5>1
        <4> QED
          BY <4>1, <4>2
      <3> QED
        BY <3>2, <3>3
    <2>3. g = [k \in 1..(n + 1) |-> RowStep(q, g, k)]
      <3>1. g = [k \in 1..(n + 1) |-> g[k]]
        OBVIOUS
      <3> HIDE DEF g
      <3> QED
        BY <2>2, <3>1
    <2> HIDE DEF g
    <2> QED
      BY <2>3
  <1>3. m \in T
    <2> HIDE DEF T
    <2> QED
      BY <1>1, <1>2, NatSetInduction
  <1> QED
    BY <1>3

\* Whatever the order of the scan, the other columns of a grouped SELECT with
\* MAX(create_at) come from a row of the group with the greatest create_at.
LEMMA BareRowIsNewest ==
    ASSUME TypeOK, NEW S \in SUBSET DOMAIN direct_messages, S # {}, NEW q \in Scans(S)
    PROVE  BareRow(q) \in S /\ IsMax(BareRow(q), S)
  <1> DEFINE n == Len(q)
             R == CHOOSE f : f = [k \in 1..n |-> RowStep(q, f, k)]
  <1>1. q \in Seq(S) /\ Range(q) = S /\ n \in Nat /\ DOMAIN q = 1..n
    BY ScanIsComplete, LenProperties
  <1>2. R = [k \in 1..n |-> RowStep(q, R, k)]
    <2>1. \E f : f = [k \in 1..n |-> RowStep(q, f, k)]
      BY <1>1, RowsExist
    <2> QED
      BY <2>1
  <1>3. BareRow(q) = R[n]
    BY DEF BareRow, RowStep
  <1>4. n \in 1..n
    BY <1>1 DEF Range
  <1> HIDE DEF n, R
  <1>5. \A k \in 1..n : q[k] \in S /\ Time(q[k]) \in Nat
    BY <1>1, ElementOfSeq, TimeType DEF n
  <1> DEFINE Newest(k) == R[k] \in S /\ \A j \in 1..k : Time(q[j]) <= Time(R[k])
             T == {k \in Nat : k \in 1..n => Newest(k)}
  <1>6. 0 \in T
    OBVIOUS
  <1>7. \A k \in Nat : k \in T => k + 1 \in T
    <2> SUFFICES ASSUME NEW k \in Nat, k \in T, k + 1 \in 1..n PROVE Newest(k + 1)
      OBVIOUS
    <2>1. R[k + 1] = RowStep(q, R, k + 1)
      BY <1>2
    <2>2. CASE k = 0
      <3>1. R[1] = q[1] /\ k + 1 = 1
        BY <2>1, <2>2 DEF RowStep
      <3>2. q[1] \in S /\ Time(q[1]) \in Nat
        BY <1>5, <2>2
      <3>3. \A j \in 1..1 : j = 1
        OBVIOUS
      <3> QED
        BY <3>1, <3>2, <3>3
    <2>3. CASE k # 0
      <3>1. k \in 1..n /\ k + 1 # 1 /\ (k + 1) - 1 = k
        BY <1>1, <2>3 DEF n
      <3>2. R[k + 1] = IF Time(q[k + 1]) > Time(R[k]) THEN q[k + 1] ELSE R[k]
        BY <2>1, <3>1 DEF RowStep
      <3>3. Newest(k) /\ Time(R[k]) \in Nat
        <4>1. Newest(k)
          BY <3>1
        <4>2. R[k] \in DOMAIN direct_messages
          BY <4>1
        <4> QED
          BY <4>1, <4>2, TimeType
      <3>4. q[k + 1] \in S /\ Time(q[k + 1]) \in Nat
        BY <1>5
      <3>5. \A j \in 1..k : Time(q[j]) \in Nat
        <4>1. n \in Nat
          BY <1>1 DEF n
        <4>2. 1..k \subseteq 1..n
          BY <3>1, <4>1
        <4> QED
          BY <1>5, <4>2
      <3>6. R[k + 1] \in S /\ Time(R[k]) <= Time(R[k + 1]) /\ Time(q[k + 1]) <= Time(R[k + 1])
        <4>1. CASE Time(q[k + 1]) > Time(R[k])
          <5>1. R[k + 1] = q[k + 1]
            BY <3>2, <4>1, Zenon
          <5> QED
            BY <3>3, <3>4, <4>1, <5>1
        <4>2. CASE ~ (Time(q[k + 1]) > Time(R[k]))
          <5>1. R[k + 1] = R[k]
            BY <3>2, <4>2, Zenon
          <5> QED
            BY <3>3, <3>4, <4>2, <5>1
        <4> QED
          BY <4>1, <4>2
      <3>7. Time(R[k + 1]) \in Nat
        BY <3>6, TimeType
      <3>8. \A j \in 1..(k + 1) : j \in 1..k \/ j = k + 1
        OBVIOUS
      <3> QED
        BY <3>3, <3>5, <3>6, <3>7, <3>8
    <2> QED
      BY <2>2, <2>3
  <1>8. Newest(n)
    <2>1. n \in T
      <3> HIDE DEF T
      <3> QED
        BY <1>1, <1>6, <1>7, NatSetInduction DEF n
    <2> QED
      BY <1>4, <2>1
  <1>9. \A i \in S : \E j \in 1..n : q[j] = i
    BY <1>1 DEF Range, n
  <1> QED
    BY <1>3, <1>8, <1>9 DEF IsMax

\* A group of the query is the conversation with its peer.
LEMMA GroupIsConversation ==
    ASSUME NEW u, NEW p
    PROVE  Group(u, p) = Between(u, p)
  BY DEF Group, Own, PeerOf, Between

\* getLastMessages has one row for every user that the asking one exchanged a
\* message with, as new as any of their messages, and the newest first.
THEOREM ChatListShowsNewest == Spec => []ChatListIsNewest
  <1>1. ASSUME TypeOK PROVE ChatListIsNewest
    <2> SUFFICES ASSUME NEW u \in Party, NEW list \in getLastMessages(u)
                 PROVE  /\ \A p \in Party : Between(u, p) # {} =>
                              \E n \in DOMAIN list :
                                  /\ list[n] \in Between(u, p)
                                  /\ IsMax(list[n], Between(u, p))
                                  /\ \A k \in DOMAIN list \ {n} : list[k] \notin Between(u, p)
                        /\ \A n \in DOMAIN list :
                              /\ \E p \in Party : list[n] \in Between(u, p)
                              /\ \A k \in 1..n : Time(list[k]) >= Time(list[n])
      BY DEF ChatListIsNewest
    <2>1. PICK bare \in [Peers(u) -> Own(u)] :
              /\ \A p \in Peers(u) : \E q \in Scans(Group(u, p)) : bare[p] = BareRow(q)
              /\ list \in NewestFirst(
                    {bare[p] : p \in {r \in Peers(u) : IsMax(bare[r], Group(u, r))}})
      BY DEF getLastMessages
    <2>2. ASSUME NEW p \in Peers(u)
          PROVE  /\ p \in Party
                 /\ bare[p] \in Group(u, p) /\ IsMax(bare[p], Group(u, p))
      <3>1. PICK i \in Own(u) : PeerOf(u, i) = p
        BY DEF Peers
      <3>2. p \in Party
        BY <1>1, <3>1, RowType DEF Own, PeerOf, Message
      <3>3. Group(u, p) \in SUBSET DOMAIN direct_messages /\ Group(u, p) # {}
        BY <3>1 DEF Group, Own
      <3> QED
        BY <1>1, <2>1, <3>2, <3>3, BareRowIsNewest
    <2> DEFINE K == {bare[p] : p \in Peers(u)}
    <2>3. list \in NewestFirst(K)
      <3>1. {r \in Peers(u) : IsMax(bare[r], Group(u, r))} = Peers(u)
        BY <2>2
      <3> QED
        BY <2>1, <3>1
    <2>4. K \in SUBSET DOMAIN direct_messages
      BY <2>1 DEF Own
    <2> HIDE DEF K
    <2>5. /\ list \in Seq(K) /\ Range(list) = K /\ IsInjective(list)
          /\ \A i, j \in 1..Len(list) : i < j => Time(list[i]) >= Time(list[j])
      BY <1>1, <2>3, <2>4, NewestFirstIsComplete
    <2>6. Len(list) \in Nat /\ DOMAIN list = 1..Len(list)
      BY <2>5, LenProperties
    <2>7. \A n \in DOMAIN list : \E p \in Peers(u) : list[n] = bare[p]
      BY <2>5, <2>6, ElementOfSeq DEF K
    <2>8. ASSUME NEW p \in Party, Between(u, p) # {}
          PROVE  \E n \in DOMAIN list :
                    /\ list[n] \in Between(u, p)
                    /\ IsMax(list[n], Between(u, p))
                    /\ \A k \in DOMAIN list \ {n} : list[k] \notin Between(u, p)
      <3>1. p \in Peers(u)
        BY <2>8, GroupIsConversation DEF Peers, Group
      <3>2. PICK n \in DOMAIN list : list[n] = bare[p]
        BY <2>5, <3>1 DEF K, Range
      <3>3. bare[p] \in Between(u, p) /\ IsMax(bare[p], Between(u, p))
        BY <2>2, <3>1, GroupIsConversation
      <3>4. ASSUME NEW k \in DOMAIN list, list[k] \in Between(u, p)
            PROVE  k = n
        <4>1. PICK r \in Peers(u) : list[k] = bare[r]
          BY <2>7
        <4>2. PeerOf(u, list[k]) = r
          BY <2>2, <4>1 DEF Group
        <4>3. PeerOf(u, list[k]) = p
          BY <3>4, GroupIsConversation DEF Group
        <4> QED
          BY <2>5, <3>2, <4>1, <4>2, <4>3 DEF IsInjective
      <3> QED
        BY <3>2, <3>3, <3>4
    <2>9. ASSUME NEW n \in DOMAIN list
          PROVE  \E p \in Party : list[n] \in Between(u, p)
      BY <2>2, <2>7, GroupIsConversation
    <2>10. ASSUME NEW n \in DOMAIN list, NEW k \in 1..n
           PROVE  Time(list[k]) >= Time(list[n])
      <3>1. k \in 1..Len(list) /\ n \in 1..Len(list)
        BY <2>6
      <3>2. Time(list[n]) \in Nat
        BY <1>1, <2>4, <2>5, <3>1, ElementOfSeq, TimeType
      <3>3. k = n \/ k < n
        BY <2>6
      <3>4. k < n => Time(list[k]) >= Time(list[n])
        BY <2>5, <3>1
      <3> QED
        BY <3>2, <3>3, <3>4
    <2> QED
      BY <2>8, <2>9, <2>10
  <1> QED
    BY <1>1, TypeCorrect, PTL

-----------------------------------------------------------------------------
(***************************************************************************)
(* Backlogs.                                                               *)
(***************************************************************************)

\* saveMessage adds to backlogs and takes nothing from one.
LEMMA SaveKeepsBacklogs ==
    ASSUME TypeOK, NEW a, NEW b, Save(a, b), NEW u
    PROVE  Undelivered(u) \subseteq Undelivered(u)'
  <1> DEFINE m == [sender |-> a, recipient |-> b, create_at |-> now, delivered |-> FALSE]
  <1>1. direct_messages' = Append(direct_messages, m)
    BY DEF Save, saveMessage
  <1> HIDE DEF m
  <1>2. /\ direct_messages \in Seq(Message)
        /\ DOMAIN direct_messages = 1..Len(direct_messages) /\ Len(direct_messages) \in Nat
    BY LenProperties DEF TypeOK
  <1>3. /\ \A i \in DOMAIN direct_messages : direct_messages'[i] = direct_messages[i]
        /\ DOMAIN direct_messages \subseteq DOMAIN direct_messages'
    BY <1>1, <1>2
  <1> QED
    BY <1>3 DEF Undelivered

\* deliver_pending's pair getUndelivered and markDelivered empties the backlog
\* it read, which has no row of another recipient.
LEMMA DrainTakesItsBacklog ==
    ASSUME TypeOK, NEW u, Drain(u)
    PROVE  /\ Undelivered(u)' = {}
           /\ \A v : v # u => Undelivered(v)' = Undelivered(v)
  <1>1. PICK q \in getUndelivered(u) : markDelivered(Range(q))
    BY DEF Drain
  <1>2. Undelivered(u) \in SUBSET DOMAIN direct_messages
    BY DEF Undelivered
  <1>3. Range(q) = Undelivered(u)
    BY <1>1, <1>2, AnswerIsComplete DEF getUndelivered
  <1> DEFINE ids == Range(q)
  <1> HIDE DEF ids
  <1>4. direct_messages' = [i \in DOMAIN direct_messages |->
            [direct_messages[i] EXCEPT !.delivered = @ \/ i \in ids]]
    BY <1>1 DEF markDelivered, ids
  <1>5. DOMAIN direct_messages' = DOMAIN direct_messages
    BY <1>4
  <1>6. \A i \in DOMAIN direct_messages :
            /\ direct_messages'[i].recipient = direct_messages[i].recipient
            /\ direct_messages'[i].delivered <=> direct_messages[i].delivered \/ i \in ids
    BY <1>4, RowType DEF Message
  <1>7. \A i \in DOMAIN direct_messages :
            i \in ids <=> /\ direct_messages[i].recipient = u
                          /\ ~ direct_messages[i].delivered
    BY <1>3 DEF ids, Undelivered
  <1>8. Undelivered(u)' = {}
    BY <1>5, <1>6, <1>7 DEF Undelivered
  <1>9. ASSUME NEW v, v # u
        PROVE  Undelivered(v)' = Undelivered(v)
    BY <1>5, <1>6, <1>7, <1>9 DEF Undelivered
  <1> QED
    BY <1>8, <1>9

\* No operation sets delivered back to 0.
LEMMA DeliveredStays ==
    ASSUME TypeOK, [Next]_vars, NEW i \in DOMAIN direct_messages, direct_messages[i].delivered
    PROVE  direct_messages'[i].delivered
  <1>1. ASSUME NEW a \in Party, NEW b \in Party, Save(a, b)
        PROVE  direct_messages'[i].delivered
    <2> DEFINE m == [sender |-> a, recipient |-> b, create_at |-> now, delivered |-> FALSE]
    <2>1. direct_messages' = Append(direct_messages, m)
      BY <1>1 DEF Save, saveMessage
    <2> HIDE DEF m
    <2>2. direct_messages'[i] = direct_messages[i]
      BY <2>1, LenProperties DEF TypeOK
    <2> QED
      BY <2>2
  <1>2. ASSUME NEW u \in Party, Drain(u)
        PROVE  direct_messages'[i].delivered
    <2>1. PICK q : markDelivered(Range(q))
      BY <1>2 DEF Drain
    <2> QED
      BY <2>1, RowType DEF markDelivered, Message
  <1>3. CASE Tick \/ UNCHANGED vars
    BY <1>3 DEF Tick, vars
  <1> QED
    BY <1>1, <1>2, <1>3 DEF Next

\* A row that is delivered stays so, and a step takes from a backlog only by
\* emptying it and then leaves every other backlog as it was.
THEOREM DrainsAreIndependent == Spec => BacklogsIndependent
  <1> DEFINE Independent ==
        /\ \A i \in DOMAIN direct_messages :
              direct_messages[i].delivered => direct_messages'[i].delivered
        /\ \A u \in Party :
              \/ Undelivered(u) \subseteq Undelivered(u)'
              \/ /\ Undelivered(u)' = {}
                 /\ \A v \in Party \ {u} : Undelivered(v)' = Undelivered(v)
  <1>1. ASSUME TypeOK, [Next]_vars PROVE Independent
    <2> SUFFICES ASSUME NEW u \in Party
                 PROVE  \/ Undelivered(u) \subseteq Undelivered(u)'
                        \/ /\ Undelivered(u)' = {}
                           /\ \A v \in Party \ {u} : Undelivered(v)' = Undelivered(v)
      BY <1>1, DeliveredStays
    <2>1. ASSUME NEW a \in Party, NEW b \in Party, Save(a, b)
          PROVE  Undelivered(u) \subseteq Undelivered(u)'
      BY <1>1, <2>1, SaveKeepsBacklogs
    <2>2. ASSUME NEW w \in Party, Drain(w)
          PROVE  \/ Undelivered(u) \subseteq Undelivered(u)'
                 \/ /\ Undelivered(u)' = {}
                    /\ \A v \in Party \ {u} : Undelivered(v)' = Undelivered(v)
      <3>1. /\ Undelivered(w)' = {}
            /\ \A v : v # w => Undelivered(v)' = Undelivered(v)
        BY <1>1, <2>2, DrainTakesItsBacklog
      <3>2. CASE u = w
        BY <3>1, <3>2
      <3>3. CASE u # w
        BY <3>1, <3>3
      <3> QED
        BY <3>2, <3>3
    <2>3. CASE Tick \/ UNCHANGED vars
      BY <2>3 DEF Tick, vars, Undelivered
    <2> QED
      BY <1>1, <2>1, <2>2, <2>3 DEF Next
  <1>2. TypeOK /\ [Next]_vars => [Independent]_vars
    BY <1>1
  <1> QED
    BY <1>2, TypeCorrect, PTL DEF Spec, BacklogsIndependent
=============================================================================
