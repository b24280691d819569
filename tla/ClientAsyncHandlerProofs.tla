---------------------- MODULE ClientAsyncHandlerProofs ----------------------
(***************************************************************************)
(* AnswersPaired for every set of packets and every number of requests.    *)
(*                                                                         *)
(* The invariant numbers the requests by their place in `asked`.  What is  *)
(* on its way to the server continues the numbers that are answered, what  *)
(* is on its way back continues those that are handled, each packet        *)
(* counting one more if it is a request, or a RESULT; and a request and a  *)
(* RESULT with number n are those of asked[n].  pending_requests is then   *)
(* the part of `asked` behind the answers handled.                         *)
(***************************************************************************)
EXTENDS ClientAsyncHandler, SequenceTheorems, TLAPS

CallPacket == [type: RequestType, values: UNION {Request[t] : t \in RequestType}]

SentPacket == [type: RequestType, values: UNION {Request[t] : t \in RequestType}, no: Nat]

ResultPacket ==
    [type: {"RESULT"}, to: RequestType, values: UNION {Answer[t] : t \in RequestType}, no: Nat]

PushPacket ==
    [type: PushType, to: {""}, values: UNION {Push[t] : t \in PushType}, no: Nat]

ServerPacket == ResultPacket \cup PushPacket

\* The queues hold packets of the protocol.
TypeOK ==
    /\ call \in CallPacket \cup {NoCall}
    /\ registered \in BOOLEAN /\ connected \in BOOLEAN
    /\ sent \in Seq(SentPacket)
    /\ received \in Seq(ServerPacket)
    /\ asked \in Seq(RequestType)
    /\ answered \in Nat /\ handled \in Nat

\* The number in front of place i, and the last one, of a queue that starts behind n.
NoBefore(q, n, i) == IF i = 1 THEN n ELSE q[i - 1].no
LastNo(q, n) == IF Len(q) = 0 THEN n ELSE q[Len(q)].no

\* The request of the call that is under way is the last one registered.
CallFits ==
    registered =>
        /\ Registers(call.type)
        /\ Len(asked) > 0 /\ asked[Len(asked)] = call.type

\* Packets on their way to the server continue the numbers answered.
SentNumbered ==
    \A i \in 1..Len(sent) :
        sent[i].no = NoBefore(sent, answered, i) + (IF Answers(sent[i].type) THEN 1 ELSE 0)

\* They end with the last request asked, but for one registered and not yet posted.
SentEnds == connected => LastNo(sent, answered) + (IF registered THEN 1 ELSE 0) = Len(asked)

\* A numbered packet is of the type of its request.
SentFits ==
    \A i \in 1..Len(sent) : Answers(sent[i].type) =>
        sent[i].no \in 1..Len(asked) /\ asked[sent[i].no] = sent[i].type

\* Packets on their way back continue the numbers handled.
ReceivedNumbered ==
    \A i \in 1..Len(received) :
        received[i].no = NoBefore(received, handled, i)
                             + (IF received[i].type = "RESULT" THEN 1 ELSE 0)

\* They end with the last answer.
ReceivedEnds == connected => LastNo(received, handled) = answered

\* A RESULT is for the request of its number.
ReceivedFits ==
    \A i \in 1..Len(received) : received[i].type = "RESULT" =>
        received[i].no \in 1..Len(asked) /\ asked[received[i].no] = received[i].to

\* pending_requests is what is asked and not handled.
PendingFits ==
    /\ handled <= Len(asked)
    /\ pending_requests = SubSeq(asked, handled + 1, Len(asked))

Inv ==
    /\ TypeOK /\ CallFits
    /\ SentNumbered /\ SentEnds /\ SentFits
    /\ ReceivedNumbered /\ ReceivedEnds /\ ReceivedFits
    /\ PendingFits

-----------------------------------------------------------------------------
\* What Append does to a sequence, as the steps below use it.
LEMMA AppendFacts ==
    ASSUME NEW S, NEW q \in Seq(S), NEW e \in S
    PROVE  /\ Append(q, e) \in Seq(S)
           /\ Len(Append(q, e)) = Len(q) + 1
           /\ \A i \in 1..Len(q) : Append(q, e)[i] = q[i]
           /\ Append(q, e)[Len(q) + 1] = e
BY AppendProperties

\* What Tail does to a sequence that is not empty.
LEMMA TailFacts ==
    ASSUME NEW S, NEW q \in Seq(S), q # << >>
    PROVE  /\ Tail(q) \in Seq(S)
           /\ Len(q) \in Nat \ {0}
           /\ Len(Tail(q)) = Len(q) - 1
           /\ \A i \in 1..(Len(q) - 1) : Tail(q)[i] = q[i + 1]
           /\ Head(q) = q[1] /\ Head(q) \in S
BY HeadTailProperties, EmptySeq

\* Appending behind a part that reaches to the end.
LEMMA SubSeqAppend ==
    ASSUME NEW S, NEW q \in Seq(S), NEW e \in S, NEW m \in 1..(Len(q) + 1)
    PROVE  Append(SubSeq(q, m, Len(q)), e) = SubSeq(Append(q, e), m, Len(q) + 1)
<1> DEFINE n == Len(q)
           r == SubSeq(q, m, n)
           p == SubSeq(Append(q, e), m, n + 1)
<1>1. n \in Nat /\ m \in Int /\ 1 <= m /\ m <= n + 1 /\ \A i \in 1..n : q[i] \in S
  BY LenProperties, ElementOfSeq
<1>2. /\ r \in Seq(S) /\ Len(r) = n - m + 1
      /\ \A i \in 1..(n - m + 1) : r[i] = q[m + i - 1]
  <2>1. \A i \in m..n : q[i] \in S
    BY <1>1
  <2> QED
    BY <1>1, <2>1, SubSeqProperties
<1>3. /\ p \in Seq(S) /\ Len(p) = n - m + 2
      /\ \A i \in 1..(n - m + 2) : p[i] = Append(q, e)[m + i - 1]
  <2>1. \A i \in m..(n + 1) : Append(q, e)[i] \in S
    BY <1>1, AppendFacts
  <2> HIDE DEF r
  <2> QED
    BY <1>1, <2>1, SubSeqProperties
<1>4. /\ Append(r, e) \in Seq(S) /\ Len(Append(r, e)) = n - m + 2
      /\ \A i \in 1..(n - m + 1) : Append(r, e)[i] = r[i]
      /\ Append(r, e)[n - m + 2] = e
  <2> HIDE DEF r
  <2>1. /\ Append(r, e) \in Seq(S) /\ Len(Append(r, e)) = Len(r) + 1
        /\ \A i \in 1..Len(r) : Append(r, e)[i] = r[i]
        /\ Append(r, e)[Len(r) + 1] = e
    BY <1>2, AppendFacts
  <2>2. Len(r) + 1 = n - m + 2
    BY <1>1, <1>2
  <2> QED
    BY <1>2, <2>1, <2>2
<1>5. \A i \in 1..(n - m + 2) : Append(r, e)[i] = p[i]
  <2> HIDE DEF r, p, n
  <2>1. /\ \A i \in 1..n : Append(q, e)[i] = q[i]
        /\ Append(q, e)[n + 1] = e
    BY AppendFacts DEF n
  <2>2. PICK k \in Nat : k = n - m + 1
    BY <1>1
  <2>3. n - m + 2 = k + 1 /\ m + (k + 1) - 1 = n + 1
    BY <1>1, <2>2
  <2>4. \A i \in 1..k : m + i - 1 \in 1..n
    BY <1>1, <2>2
  <2>5. \A i \in 1..k : Append(r, e)[i] = p[i]
    <3> TAKE i \in 1..k
    <3>1. i \in 1..(k + 1)
      OBVIOUS
    <3>2. Append(r, e)[i] = r[i] /\ r[i] = q[m + i - 1]
      BY <1>2, <1>4, <2>2
    <3>3. p[i] = Append(q, e)[m + i - 1]
      BY <1>3, <2>3, <3>1
    <3> QED
      BY <2>1, <2>4, <3>2, <3>3
  <2>6. k + 1 \in 1..(k + 1)
    OBVIOUS
  <2>7. p[k + 1] = Append(q, e)[m + (k + 1) - 1]
    BY <1>3, <2>3, <2>6
  <2>8. Append(r, e)[k + 1] = p[k + 1]
    BY <1>4, <2>1, <2>3, <2>7
  <2>9. \A i \in 1..(k + 1) : i \in 1..k \/ i = k + 1
    OBVIOUS
  <2> QED
    BY <2>3, <2>5, <2>8, <2>9
<1> HIDE DEF r, p
<1>6. Append(r, e) = p
  BY <1>3, <1>4, <1>5, SeqEqual
<1> QED
  BY <1>6 DEF r, p

\* The numbers of the packets are numbers.
LEMMA NumbersAreNat ==
    ASSUME TypeOK
    PROVE  /\ Len(sent) \in Nat /\ Len(received) \in Nat /\ Len(asked) \in Nat
           /\ \A i \in 1..Len(sent) : sent[i] \in SentPacket /\ sent[i].no \in Nat
           /\ \A i \in 1..Len(received) : received[i] \in ServerPacket /\ received[i].no \in Nat
           /\ LastNo(sent, answered) \in Nat
           /\ LastNo(received, handled) \in Nat
<1>1. Len(sent) \in Nat /\ Len(received) \in Nat /\ Len(asked) \in Nat
  BY LenProperties DEF TypeOK
<1>2. \A i \in 1..Len(sent) : sent[i] \in SentPacket /\ sent[i].no \in Nat
  <2>1. \A i \in 1..Len(sent) : sent[i] \in SentPacket
    BY ElementOfSeq DEF TypeOK
  <2> QED
    BY <2>1 DEF SentPacket
<1>3. \A i \in 1..Len(received) : received[i] \in ServerPacket
  BY ElementOfSeq DEF TypeOK
<1>4. \A i \in 1..Len(received) : received[i].no \in Nat
  BY <1>3 DEF ServerPacket, ResultPacket, PushPacket
<1>5. LastNo(sent, answered) \in Nat /\ LastNo(received, handled) \in Nat
  BY <1>1, <1>2, <1>4 DEF LastNo, TypeOK
<1> QED
  BY <1>1, <1>2, <1>3, <1>4, <1>5

\* The types that the protocol tells apart.
LEMMA TypesApart ==
    /\ "none" \notin RequestType
    /\ "RESULT" \notin PushType
BY DEF RequestType, PushType, AnswerSignal, PushSignal

\* Nothing is asked or under way when the client is started.
LEMMA InitInv == Init => Inv
<1> SUFFICES ASSUME Init PROVE Inv
  OBVIOUS
<1>1. TypeOK
  BY EmptySeq DEF Init, TypeOK
<1>2. pending_requests = SubSeq(asked, handled + 1, Len(asked)) /\ handled <= Len(asked)
  BY EmptySeq, SubSeqEmpty DEF Init
<1> QED
  BY <1>1, <1>2 DEF Init, Inv, CallFits, SentNumbered, SentEnds, SentFits, ReceivedNumbered,
        ReceivedEnds, ReceivedFits, PendingFits, LastNo

\* A packet that is only about to be sent has no number yet.
LEMMA InvokeKeeps == Inv /\ Invoke => Inv'
<1> SUFFICES ASSUME Inv, Invoke PROVE Inv'
  OBVIOUS
<1>1. call' \in CallPacket
  BY DEF Invoke, CallPacket
<1>2. ~ registered
  BY TypesApart DEF Inv, CallFits, Invoke, Registers, NoCall
<1> QED
  BY <1>1, <1>2 DEF Inv, Invoke, TypeOK, CallFits, SentNumbered, SentEnds, SentFits,
        ReceivedNumbered, ReceivedEnds, ReceivedFits, PendingFits, LastNo, NoBefore

\* send_request's first half extends asked and pending_requests alike.
LEMMA RegisterKeeps == Inv /\ register_request => Inv'
<1> SUFFICES ASSUME Inv, register_request PROVE Inv'
  OBVIOUS
<1> DEFINE n == Len(asked)
<1>1. /\ call \in CallPacket /\ call.type \in RequestType
      /\ n \in Nat
      /\ sent' = sent /\ received' = received /\ answered' = answered /\ handled' = handled
      /\ connected' = connected /\ call' = call /\ registered' = TRUE /\ registered = FALSE
  BY EmptySeq, LenProperties DEF Inv, TypeOK, register_request, Registers, NoCall, CallPacket
<1>2. /\ asked' \in Seq(RequestType) /\ Len(asked') = n + 1
      /\ \A i \in 1..n : asked'[i] = asked[i]
      /\ asked'[n + 1] = call.type
  BY <1>1, AppendFacts DEF Inv, TypeOK, register_request
<1>3. TypeOK'
  BY <1>1, <1>2 DEF Inv, TypeOK
<1>4. CallFits'
  BY <1>1, <1>2 DEF CallFits, register_request
<1>5. SentNumbered' /\ ReceivedNumbered' /\ ReceivedEnds'
  BY <1>1 DEF Inv, SentNumbered, ReceivedNumbered, ReceivedEnds, NoBefore, LastNo
<1>6. SentEnds'
  <2>1. LastNo(sent, answered) \in Nat
    BY NumbersAreNat DEF Inv
  <2> QED
    BY <1>1, <1>2, <2>1 DEF Inv, SentEnds, LastNo
<1>7. SentFits'
  BY <1>1, <1>2 DEF Inv, SentFits
<1>8. ReceivedFits'
  BY <1>1, <1>2 DEF Inv, ReceivedFits
<1>9. PendingFits'
  <2>1. handled \in Nat /\ handled <= n /\ asked \in Seq(RequestType)
    BY DEF Inv, TypeOK, PendingFits
  <2>2. pending_requests' = Append(SubSeq(asked, handled + 1, n), call.type)
    BY DEF Inv, PendingFits, register_request
  <2>3. asked' = Append(asked, call.type)
    BY DEF register_request
  <2>4. pending_requests' = SubSeq(asked', handled + 1, n + 1)
    BY <1>1, <2>1, <2>2, <2>3, SubSeqAppend
  <2> QED
    BY <1>1, <1>2, <2>1, <2>4 DEF PendingFits
<1> QED
  BY <1>3, <1>4, <1>5, <1>6, <1>7, <1>8, <1>9 DEF Inv

\* The packet that is posted has the number of the request registered last.
LEMMA SendKeeps == Inv /\ send_packet => Inv'
<1> SUFFICES ASSUME Inv, send_packet PROVE Inv'
  OBVIOUS
<1> DEFINE e == [type |-> call.type, values |-> call.values, no |-> Len(asked)]
           n == Len(sent)
<1>1. /\ call \in CallPacket /\ e \in SentPacket
      /\ n \in Nat /\ Len(asked) \in Nat
      /\ call.type \in RequestType
  BY LenProperties DEF Inv, TypeOK, send_packet, NoCall, CallPacket, SentPacket
<1>2. Answers(call.type) <=> registered
  BY <1>1, TypesApart DEF Inv, TypeOK, CallFits, send_packet, Registers, Answers, NoCall
<1>3. TypeOK'
  BY <1>1, AppendFacts DEF Inv, TypeOK, send_packet
<1>4. CallFits' /\ ReceivedNumbered' /\ ReceivedEnds' /\ ReceivedFits' /\ PendingFits'
  BY DEF Inv, send_packet, CallFits, ReceivedNumbered, ReceivedEnds, ReceivedFits, PendingFits,
         NoBefore, LastNo
<1>5. CASE ~ connected
  <2>1. SentNumbered' /\ SentFits' /\ SentEnds'
    BY <1>5 DEF Inv, send_packet, SentNumbered, SentFits, SentEnds, NoBefore
  <2> QED
    BY <1>3, <1>4, <2>1 DEF Inv
<1>6. CASE connected
  <2>1. /\ Len(sent') = n + 1
        /\ \A i \in 1..n : sent'[i] = sent[i]
        /\ sent'[n + 1] = e
    BY <1>1, <1>6, AppendFacts DEF Inv, TypeOK, send_packet
  <2>2. /\ registered' = FALSE /\ asked' = asked /\ answered' = answered
    BY DEF send_packet
  <2>3. LastNo(sent, answered) = NoBefore(sent', answered', n + 1)
    BY <1>1, <2>1, <2>2 DEF LastNo, NoBefore
  <2>4. LastNo(sent, answered) \in Nat
    BY NumbersAreNat DEF Inv
  <2>5. e.no = NoBefore(sent', answered', n + 1) + (IF Answers(e.type) THEN 1 ELSE 0)
    BY <1>1, <1>2, <1>6, <2>3, <2>4 DEF Inv, SentEnds, TypeOK
  <2>6. SentNumbered'
    <3> SUFFICES ASSUME NEW i \in 1..(n + 1)
                 PROVE  sent'[i].no = NoBefore(sent', answered', i)
                                          + (IF Answers(sent'[i].type) THEN 1 ELSE 0)
      BY <2>1 DEF SentNumbered
    <3>1. CASE i = n + 1
      BY <3>1, <2>1, <2>5
    <3>2. CASE i \in 1..n
      BY <3>2, <1>1, <2>1, <2>2 DEF Inv, SentNumbered, NoBefore
    <3> QED
      BY <1>1, <3>1, <3>2
  <2>7. SentFits'
    BY <1>1, <1>2, <2>1, <2>2 DEF Inv, SentFits, CallFits
  <2>8. SentEnds'
    BY <1>1, <2>1, <2>2 DEF SentEnds, LastNo
  <2> QED
    BY <1>3, <1>4, <2>6, <2>7, <2>8 DEF Inv
<1> QED
  BY <1>5, <1>6

\* handle_packet takes the front of both queues of the client.
LEMMA HandleKeeps == Inv /\ handle_packet => Inv'
<1> SUFFICES ASSUME Inv, handle_packet PROVE Inv'
  OBVIOUS
<1> DEFINE n == Len(received)
           result == received[1].type = "RESULT"
<1>1. /\ call' = call /\ registered' = registered /\ connected' = connected /\ sent' = sent
      /\ asked' = asked /\ answered' = answered
      /\ n \in Nat \ {0} /\ Head(received) = received[1]
      /\ received' \in Seq(ServerPacket) /\ Len(received') = n - 1
      /\ \A i \in 1..(n - 1) : received'[i] = received[i + 1]
  BY TailFacts DEF Inv, TypeOK, handle_packet
<1>2. handled' = handled + (IF result THEN 1 ELSE 0) /\ handled \in Nat
  <2>1. IF result THEN handled' = handled + 1 ELSE handled' = handled
    BY <1>1 DEF handle_packet
  <2>2. handled \in Nat
    BY DEF Inv, TypeOK
  <2> HIDE DEF result
  <2> QED
    BY <2>1, <2>2
<1>3. received[1].no = handled'
  BY <1>1, <1>2 DEF Inv, ReceivedNumbered, NoBefore
<1>4. TypeOK'
  BY <1>1, <1>2 DEF Inv, TypeOK
<1>5. CallFits' /\ SentNumbered' /\ SentEnds' /\ SentFits'
  BY <1>1 DEF Inv, CallFits, SentNumbered, SentEnds, SentFits, NoBefore, LastNo
<1>6. ReceivedNumbered'
  <2> SUFFICES ASSUME NEW i \in 1..(n - 1)
               PROVE  received'[i].no = NoBefore(received', handled', i)
                                            + (IF received'[i].type = "RESULT" THEN 1 ELSE 0)
    BY <1>1 DEF ReceivedNumbered
  <2>1. i + 1 \in 1..n /\ received'[i] = received[i + 1] /\ i + 1 # 1
    BY <1>1
  <2>2. received[i + 1].no = received[i].no + (IF received[i + 1].type = "RESULT" THEN 1 ELSE 0)
    BY <1>1, <2>1 DEF Inv, ReceivedNumbered, NoBefore
  <2>3. NoBefore(received', handled', i) = received[i].no
    <3>1. CASE i = 1
      BY <1>3, <3>1 DEF NoBefore
    <3>2. CASE i # 1
      <4>1. i - 1 \in 1..(n - 1) /\ (i - 1) + 1 = i
        BY <1>1, <3>2
      <4> QED
        BY <1>1, <3>2, <4>1 DEF NoBefore
    <3> QED
      BY <3>1, <3>2
  <2> QED
    BY <2>1, <2>2, <2>3
<1>7. ReceivedEnds'
  <2>1. CASE n = 1
    BY <1>1, <1>3, <2>1 DEF Inv, ReceivedEnds, LastNo
  <2>2. CASE n # 1
    <3>1. n - 1 \in 1..(n - 1) /\ (n - 1) + 1 = n /\ n - 1 # 0
      BY <1>1, <2>2
    <3>2. received'[Len(received')] = received[n]
      BY <1>1, <3>1
    <3> QED
      BY <1>1, <3>1, <3>2 DEF Inv, ReceivedEnds, LastNo
  <2> QED
    BY <2>1, <2>2
<1>8. ReceivedFits'
  <2>1. \A i \in 1..(n - 1) : i + 1 \in 1..n
    BY <1>1
  <2> QED
    BY <1>1, <2>1 DEF Inv, ReceivedFits
<1>9. PendingFits'
  <2>1. CASE ~ result
    BY <1>1, <1>2, <2>1 DEF Inv, PendingFits, handle_packet
  <2>2. CASE result
    <3>1. /\ handled' = handled + 1 /\ handled + 1 \in 1..Len(asked)
          /\ asked \in Seq(RequestType) /\ Len(asked) \in Nat
      BY <1>1, <1>2, <1>3, <2>2, LenProperties DEF Inv, TypeOK, ReceivedFits
    <3>2. Tail(pending_requests) = SubSeq(asked, handled' + 1, Len(asked))
      <4>1. \A m \in 1..Len(asked) :
                Tail(SubSeq(asked, m, Len(asked))) = SubSeq(asked, m + 1, Len(asked))
        <5> TAKE m \in 1..Len(asked)
        <5>1. Len(asked) \in m..Len(asked)
          BY <3>1
        <5> QED
          BY <3>1, <5>1, HeadTailOfSubSeq
      <4> QED
        BY <3>1, <4>1 DEF Inv, PendingFits
    <3>3. pending_requests # << >>
      <4>1. \A i \in (handled + 1)..Len(asked) : asked[i] \in RequestType
        BY <1>2, <3>1, ElementOfSeq
      <4>2. Len(pending_requests) = Len(asked) - handled
        BY <1>2, <3>1, <4>1, SubSeqProperties DEF Inv, PendingFits
      <4> QED
        BY <1>2, <3>1, <4>2, EmptySeq
    <3> QED
      <4>1. pending_requests' = Tail(pending_requests)
        BY <1>1, <2>2, <3>3 DEF handle_packet
      <4>2. handled' <= Len(asked)
        BY <3>1
      <4> QED
        BY <1>1, <3>2, <4>1, <4>2 DEF PendingFits
  <2> QED
    BY <2>1, <2>2
<1> QED
  BY <1>4, <1>5, <1>6, <1>7, <1>8, <1>9 DEF Inv

\* The server moves a number from the one queue of the connection to the other.
LEMMA ServeKeeps == Inv /\ Serve => Inv'
<1> SUFFICES ASSUME Inv, Serve PROVE Inv'
  OBVIOUS
<1> DEFINE n == Len(sent)
           k == Len(received)
           asks == Answers(sent[1].type)
<1>1. /\ call' = call /\ registered' = registered /\ connected' = connected /\ connected
      /\ pending_requests' = pending_requests /\ asked' = asked /\ handled' = handled
      /\ n \in Nat \ {0} /\ Head(sent) = sent[1] /\ sent[1] \in SentPacket
      /\ sent' \in Seq(SentPacket) /\ Len(sent') = n - 1
      /\ \A i \in 1..(n - 1) : sent'[i] = sent[i + 1]
  BY TailFacts DEF Inv, TypeOK, Serve
<1>2. answered \in Nat /\ k \in Nat /\ handled \in Nat /\ sent[1].type \in RequestType
  BY <1>1, NumbersAreNat DEF Inv, TypeOK, SentPacket
<1>3. answered' = answered + (IF asks THEN 1 ELSE 0)
  <2>1. IF asks THEN answered' = answered + 1 ELSE answered' = answered
    BY <1>1 DEF Serve
  <2> HIDE DEF asks
  <2> QED
    BY <1>2, <2>1
<1>4. sent[1].no = answered'
  BY <1>1, <1>3 DEF Inv, SentNumbered, NoBefore
<1>5. CallFits' /\ PendingFits'
  BY <1>1 DEF Inv, CallFits, PendingFits
<1>6. SentNumbered'
  <2> SUFFICES ASSUME NEW i \in 1..(n - 1)
               PROVE  sent'[i].no = NoBefore(sent', answered', i)
                                        + (IF Answers(sent'[i].type) THEN 1 ELSE 0)
    BY <1>1 DEF SentNumbered
  <2>1. i + 1 \in 1..n /\ sent'[i] = sent[i + 1] /\ i + 1 # 1
    BY <1>1
  <2>2. sent[i + 1].no = sent[i].no + (IF Answers(sent[i + 1].type) THEN 1 ELSE 0)
    BY <1>1, <2>1 DEF Inv, SentNumbered, NoBefore
  <2>3. NoBefore(sent', answered', i) = sent[i].no
    <3>1. CASE i = 1
      BY <1>4, <3>1 DEF NoBefore
    <3>2. CASE i # 1
      <4>1. i - 1 \in 1..(n - 1) /\ (i - 1) + 1 = i
        BY <1>1, <3>2
      <4> QED
        BY <1>1, <3>2, <4>1 DEF NoBefore
    <3> QED
      BY <3>1, <3>2
  <2> QED
    BY <2>1, <2>2, <2>3
<1>7. SentEnds'
  <2>1. CASE n = 1
    BY <1>1, <1>4, <2>1 DEF Inv, SentEnds, LastNo
  <2>2. CASE n # 1
    <3>1. n - 1 \in 1..(n - 1) /\ (n - 1) + 1 = n /\ n - 1 # 0
      BY <1>1, <2>2
    <3>2. sent'[Len(sent')] = sent[n]
      BY <1>1, <3>1
    <3> QED
      BY <1>1, <3>1, <3>2 DEF Inv, SentEnds, LastNo
  <2> QED
    BY <2>1, <2>2
<1>8. SentFits'
  <2>1. \A i \in 1..(n - 1) : i + 1 \in 1..n
    BY <1>1
  <2> QED
    BY <1>1, <2>1 DEF Inv, SentFits
<1>9. CASE ~ asks
  <2>1. received' = received /\ answered' = answered
    BY <1>1, <1>9 DEF Serve
  <2>2. TypeOK' /\ ReceivedNumbered' /\ ReceivedEnds' /\ ReceivedFits'
    BY <1>1, <2>1 DEF Inv, TypeOK, ReceivedNumbered, ReceivedEnds, ReceivedFits, NoBefore, LastNo
  <2> QED
    BY <1>5, <1>6, <1>7, <1>8, <2>2 DEF Inv
<1>10. CASE asks
  <2>1. PICK vs \in Answer[sent[1].type] :
            received' = Append(received, [type |-> "RESULT", to |-> sent[1].type, values |-> vs,
                                          no |-> answered + 1])
    BY <1>1, <1>10 DEF Serve
  <2> DEFINE e == [type |-> "RESULT", to |-> sent[1].type, values |-> vs, no |-> answered + 1]
  <2>2. e \in ServerPacket
    <3>1. vs \in UNION {Answer[t] : t \in RequestType}
      BY <1>2, <2>1
    <3> QED
      BY <1>2, <3>1 DEF ServerPacket, ResultPacket
  <2>3. e.type = "RESULT" /\ e.to = sent[1].type /\ e.no = answered + 1
    OBVIOUS
  <2> HIDE DEF e
  <2>4. /\ received' \in Seq(ServerPacket) /\ Len(received') = k + 1
        /\ \A i \in 1..k : received'[i] = received[i]
        /\ received'[k + 1] = e
    BY <2>1, <2>2, AppendFacts DEF Inv, TypeOK, e
  <2>5. answered' = answered + 1
    BY <1>3, <1>10
  <2>6. TypeOK'
    BY <1>1, <1>2, <2>4, <2>5 DEF Inv, TypeOK
  <2>7. ReceivedEnds'
    BY <1>2, <2>3, <2>4, <2>5 DEF ReceivedEnds, LastNo
  <2>8. ReceivedNumbered'
    <3> SUFFICES ASSUME NEW i \in 1..(k + 1)
                 PROVE  received'[i].no = NoBefore(received', handled', i)
                                              + (IF received'[i].type = "RESULT" THEN 1 ELSE 0)
      BY <2>4 DEF ReceivedNumbered
    <3>1. CASE i = k + 1
      <4>1. NoBefore(received', handled', i) = LastNo(received, handled)
        BY <1>1, <1>2, <2>4, <3>1 DEF NoBefore, LastNo
      <4> QED
        BY <1>1, <2>3, <2>4, <3>1, <4>1 DEF Inv, ReceivedEnds
    <3>2. CASE i \in 1..k
      <4>1. i # 1 => i - 1 \in 1..k
        BY <1>2, <3>2
      <4>2. NoBefore(received', handled', i) = NoBefore(received, handled, i)
        BY <1>1, <2>4, <4>1 DEF NoBefore
      <4> QED
        BY <2>4, <3>2, <4>2 DEF Inv, ReceivedNumbered
    <3> QED
      BY <1>2, <3>1, <3>2
  <2>9. ReceivedFits'
    <3>1. answered + 1 \in 1..Len(asked) /\ asked[answered + 1] = e.to
      BY <1>1, <1>4, <1>10, <2>3, <2>5 DEF Inv, SentFits
    <3> SUFFICES ASSUME NEW i \in 1..(k + 1), received'[i].type = "RESULT"
                 PROVE  received'[i].no \in 1..Len(asked) /\ asked[received'[i].no] = received'[i].to
      BY <1>1, <2>4 DEF ReceivedFits
    <3>2. CASE i = k + 1
      BY <2>3, <2>4, <3>1, <3>2
    <3>3. CASE i \in 1..k
      BY <2>4, <3>3 DEF Inv, ReceivedFits
    <3> QED
      BY <1>2, <3>2, <3>3
  <2> QED
    BY <1>5, <1>6, <1>7, <1>8, <2>6, <2>7, <2>8, <2>9 DEF Inv
<1> QED
  BY <1>9, <1>10

\* A push repeats the number before it.
LEMMA PushKeeps == Inv /\ ServerPush => Inv'
<1> SUFFICES ASSUME Inv, ServerPush PROVE Inv'
  OBVIOUS
<1> DEFINE k == Len(received)
<1>1. PICK type \in PushType : \E vs \in Push[type] :
          received' = Append(received, [type |-> type, to |-> "", values |-> vs, no |-> answered])
  BY DEF ServerPush
<1>2. PICK vs \in Push[type] :
          received' = Append(received, [type |-> type, to |-> "", values |-> vs, no |-> answered])
  BY <1>1
<1> DEFINE e == [type |-> type, to |-> "", values |-> vs, no |-> answered]
<1>3. /\ call' = call /\ registered' = registered /\ connected' = connected /\ connected
      /\ pending_requests' = pending_requests /\ asked' = asked /\ handled' = handled
      /\ sent' = sent /\ answered' = answered
      /\ answered \in Nat /\ k \in Nat /\ handled \in Nat
  BY NumbersAreNat DEF ServerPush, Inv, TypeOK
<1>4. e \in ServerPacket /\ e.type # "RESULT" /\ e.no = answered
  BY <1>1, <1>2, <1>3, TypesApart DEF ServerPacket, PushPacket
<1> HIDE DEF e
<1>5. /\ received' \in Seq(ServerPacket) /\ Len(received') = k + 1
      /\ \A i \in 1..k : received'[i] = received[i]
      /\ received'[k + 1] = e
  <2>1. received' = Append(received, e) /\ received \in Seq(ServerPacket)
    BY <1>2 DEF Inv, TypeOK, e
  <2> QED
    BY <1>4, <2>1, AppendFacts
<1>6. TypeOK' /\ CallFits' /\ SentNumbered' /\ SentEnds' /\ SentFits' /\ PendingFits'
  BY <1>3, <1>5 DEF Inv, TypeOK, CallFits, SentNumbered, SentEnds, SentFits, PendingFits,
                    NoBefore, LastNo
<1>7. ReceivedEnds'
  BY <1>3, <1>4, <1>5 DEF ReceivedEnds, LastNo
<1>8. ReceivedNumbered'
  <2> SUFFICES ASSUME NEW i \in 1..(k + 1)
               PROVE  received'[i].no = NoBefore(received', handled', i)
                                            + (IF received'[i].type = "RESULT" THEN 1 ELSE 0)
    BY <1>5 DEF ReceivedNumbered
  <2>1. CASE i = k + 1
    <3>1. NoBefore(received', handled', i) = LastNo(received, handled)
      BY <1>3, <1>5, <2>1 DEF NoBefore, LastNo
    <3> QED
      BY <1>3, <1>4, <1>5, <2>1, <3>1 DEF Inv, ReceivedEnds
  <2>2. CASE i \in 1..k
    BY <1>3, <1>5, <2>2 DEF Inv, ReceivedNumbered, NoBefore
  <2> QED
    BY <1>3, <2>1, <2>2
<1>9. ReceivedFits'
  <2>1. \A i \in 1..(k + 1) : i \in 1..k \/ i = k + 1
    BY <1>3
  <2> QED
    BY <1>3, <1>4, <1>5, <2>1 DEF Inv, ReceivedFits
<1> QED
  BY <1>6, <1>7, <1>8, <1>9 DEF Inv

\* A lost connection cuts the queues and leaves their order.
LEMMA DisconnectKeeps == Inv /\ Disconnect => Inv'
<1> SUFFICES ASSUME Inv, Disconnect PROVE Inv'
  OBVIOUS
<1>1. PICK n \in 0..Len(received) : received' = SubSeq(received, 1, n)
  BY DEF Disconnect
<1>2. /\ call' = call /\ registered' = registered /\ connected' = FALSE
      /\ pending_requests' = pending_requests /\ asked' = asked /\ handled' = handled
      /\ sent' = << >> /\ answered' = answered
      /\ Len(received) \in Nat /\ n \in Nat
      /\ \A i \in 1..n : i \in 1..Len(received) /\ received[i] \in ServerPacket
  BY <1>1, NumbersAreNat DEF Disconnect, Inv
<1>3. /\ received' \in Seq(ServerPacket) /\ Len(received') = n
      /\ \A i \in 1..n : received'[i] = received[i]
  <2>1. /\ SubSeq(received, 1, n) \in Seq(ServerPacket)
        /\ Len(SubSeq(received, 1, n)) = IF 1 <= n THEN n - 1 + 1 ELSE 0
        /\ \A i \in 1..(n - 1 + 1) : SubSeq(received, 1, n)[i] = received[1 + i - 1]
    BY <1>2, SubSeqProperties
  <2>2. n - 1 + 1 = n /\ \A i \in 1..n : 1 + i - 1 = i
    BY <1>2
  <2>3. \A i \in 1..n : SubSeq(received, 1, n)[i] = received[i]
    BY <2>1, <2>2
  <2>4. Len(SubSeq(received, 1, n)) = n
    BY <1>2, <2>1
  <2> QED
    BY <1>1, <2>1, <2>3, <2>4
<1>4. TypeOK' /\ CallFits' /\ PendingFits'
  BY <1>2, <1>3, EmptySeq DEF Inv, TypeOK, CallFits, PendingFits
<1>5. SentNumbered' /\ SentEnds' /\ SentFits' /\ ReceivedEnds'
  BY <1>2, EmptySeq DEF SentNumbered, SentEnds, SentFits, ReceivedEnds
<1>6. ReceivedNumbered'
  <2> SUFFICES ASSUME NEW i \in 1..n
               PROVE  received'[i].no = NoBefore(received', handled', i)
                                            + (IF received'[i].type = "RESULT" THEN 1 ELSE 0)
    BY <1>3 DEF ReceivedNumbered
  <2>1. NoBefore(received', handled', i) = NoBefore(received, handled, i)
    BY <1>2, <1>3 DEF NoBefore
  <2> QED
    BY <1>2, <1>3, <2>1 DEF Inv, ReceivedNumbered
<1>7. ReceivedFits'
  BY <1>2, <1>3 DEF Inv, ReceivedFits
<1> QED
  BY <1>4, <1>5, <1>6, <1>7 DEF Inv

\* Every step keeps the invariant.
LEMMA InvStep == Inv /\ [Next]_vars => Inv'
<1>1. Inv /\ (TakeSignal \/ UNCHANGED vars) => Inv'
  <2> SUFFICES ASSUME Inv, UNCHANGED <<call, registered, pending_requests, connected, sent, received,
                                       asked, answered, handled>>
               PROVE  Inv'
    BY DEF TakeSignal, vars
  <2>1. TypeOK' /\ CallFits' /\ PendingFits'
    BY DEF Inv, TypeOK, CallFits, PendingFits
  <2>2. SentNumbered' /\ SentEnds' /\ SentFits'
    BY DEF Inv, SentNumbered, SentEnds, SentFits, NoBefore, LastNo
  <2>3. ReceivedNumbered' /\ ReceivedEnds' /\ ReceivedFits'
    BY DEF Inv, ReceivedNumbered, ReceivedEnds, ReceivedFits, NoBefore, LastNo
  <2> QED
    BY <2>1, <2>2, <2>3 DEF Inv
<1> QED
  BY <1>1, InvokeKeeps, RegisterKeeps, SendKeeps, HandleKeeps, ServeKeeps, PushKeeps,
     DisconnectKeeps DEF Next

\* The RESULT in front has number handled + 1, that of the request in front.
LEMMA InvPaired == Inv => AnswersPaired
<1> SUFFICES ASSUME Inv, received # << >>, Head(received).type = "RESULT"
             PROVE  pending_requests # << >> /\ Head(pending_requests) = Head(received).to
  BY DEF AnswersPaired
<1>1. /\ Head(received) = received[1] /\ 1 \in 1..Len(received)
      /\ handled \in Nat /\ Len(asked) \in Nat /\ asked \in Seq(RequestType)
  BY TailFacts, NumbersAreNat DEF Inv, TypeOK
<1>2. /\ handled + 1 \in 1..Len(asked)
      /\ asked[handled + 1] = received[1].to
  BY <1>1 DEF Inv, ReceivedNumbered, ReceivedFits, NoBefore
<1>3. Head(pending_requests) = asked[handled + 1]
  <2>1. Len(asked) \in (handled + 1)..Len(asked)
    BY <1>1, <1>2
  <2> QED
    BY <1>1, <1>2, <2>1, HeadTailOfSubSeq DEF Inv, PendingFits
<1>4. Len(pending_requests) = Len(asked) - handled
  <2>1. \A i \in (handled + 1)..Len(asked) : asked[i] \in RequestType
    BY <1>1, <1>2, ElementOfSeq
  <2> QED
    BY <1>1, <1>2, <2>1, SubSeqProperties DEF Inv, PendingFits
<1> QED
  BY <1>1, <1>2, <1>3, <1>4, EmptySeq

\* No RESULT is decoded as the answer to another request, for any packets, any number of
\* requests in flight and any interleaving of the Qt thread, the io_context thread and
\* the server: client_async_handler.hpp may do without request numbers.
THEOREM Paired == Spec => []AnswersPaired
<1>1. Spec => []Inv
  BY InitInv, InvStep, PTL DEF Spec
<1> QED
  BY <1>1, InvPaired, PTL

\* Types of the calls, the queues and the history.
THEOREM TypeCorrect == Spec => []TypeOK
<1>1. Inv => TypeOK
  BY DEF Inv
<1>2. Spec => []Inv
  BY InitInv, InvStep, PTL DEF Spec
<1> QED
  BY <1>1, <1>2, PTL
=============================================================================
