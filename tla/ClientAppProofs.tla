--------------------------- MODULE ClientAppProofs ---------------------------
(***************************************************************************)
(* What the graphical client shows, for any accounts, peers, saved tokens  *)
(* and mail, any number of clicks, and a connection that may be lost and a *)
(* process that may be started again at any point.                         *)
(*                                                                         *)
(* The properties speak of the moments when nothing is under way; the      *)
(* invariants say what the packets under way still owe.  A screen owes its *)
(* state to three things that are applied in order: what it shows, the     *)
(* answers in `received' and the requests in `sent'.  Refreshed says that  *)
(* the last of these to be applied brings the right value: a request that  *)
(* was sent will be answered after all that is under way now, the last     *)
(* answer replaces the earlier ones, and an event whose handler sends a    *)
(* new request (the triggers) makes up for whatever came before it.  The   *)
(* friend list, the chat list, the peer of a page and each message that a  *)
(* page must show are four uses of it.                                     *)
(*                                                                         *)
(* The sign in is about one packet: TOKEN_VERIFY is the first request of a *)
(* process, so that its answer is the first RESULT, and until it has been  *)
(* taken no login's answer can be (VerifyInv).                             *)
(***************************************************************************)
EXTENDS ClientApp, FiniteSetTheorems, SequenceTheorems, TLAPS

-----------------------------------------------------------------------------
(***************************************************************************)
(* Sequences and the sets of packets in them.                              *)
(***************************************************************************)

\* No element of s is in A.
NoneOf(s, A) == \A i \in DOMAIN s : s[i] \notin A

\* The last of the elements of s that are in A, if there is one, is in B.
LastOf(s, A, B) ==
    \A i \in DOMAIN s :
        s[i] \in A /\ (\A j \in DOMAIN s : j > i => s[j] \notin A) => s[i] \in B

\* Behind every element of A there is one of B.
Followed(s, A, B) ==
    \A i \in DOMAIN s : s[i] \in A => \E j \in DOMAIN s : j > i /\ s[j] \in B

\* What is shown, v, will be one of V when all is answered: the requests s, the packets
\* r; asks are the requests for it, answers the packets that replace or extend it, good
\* the answers that make it one of V, and triggers the packets whose handler asks again.
Refreshed(s, r, asks, triggers, answers, good, v, V) ==
    NoneOf(s, asks) /\ NoneOf(r, triggers) =>
        /\ LastOf(r, answers, good)
        /\ NoneOf(r, answers) => v \in V

Req == [type: RequestType, token: Nat, login: Login \cup {NoLogin}, peer: Peer \cup {NoPeer}]

Pkt == [type: {"RESULT"} \cup PushType, to: RequestType \cup {""}, ok: BOOLEAN, token: Nat,
        whose: Login \cup {NoLogin}, version: Nat, ids: SUBSET Nat, peer: Peer \cup {NoPeer}]

Asks(types) == {r \in Req : r.type \in types}
Results == {p \in Pkt : p.type = "RESULT"}
Answers(types) == {p \in Pkt : p.type = "RESULT" /\ p.to \in types}
Pushes(types) == {p \in Pkt : p.type \in types}

\* The answers that give the client a token.
Signed == {p \in Pkt : p.type = "RESULT" /\ p.to \in {"LOGIN", "REGISTER", "TOKEN_VERIFY"} /\ p.ok}

FriendPushes == {"FRIEND_NEW_REQUEST", "FRIEND_REQUEST_ACCEPTED", "FRIEND_REQUEST_REJECTED"}

-----------------------------------------------------------------------------
(***************************************************************************)
(* The invariant.                                                          *)
(***************************************************************************)

Main == stack \in {<<"Main">>, <<"Main", "Chat">>}
Chat == stack = <<"Main", "Chat">>

\* Requests and packets with the tokens and ids that there are.
GoodReq ==
    {r \in Req :
        /\ r.token <= Len(owner)
        /\ r.type \in {"LOGIN", "REGISTER"} => r.login \in Login
        /\ r.type = "DIRECT_MESSAGE" => r.peer \in Peer
        /\ r.type = "LOGOUT" => r.token # 0}

GoodPkt ==
    {p \in Pkt :
        /\ p.token <= Len(owner)
        /\ p.ids \subseteq DOMAIN mail
        /\ p \in Signed => p.token # 0
        /\ p.type = "DIRECT_MESSAGE" => \A i \in p.ids : mail[i].peer = p.peer}

Lists == [friends: [whose: Login \cup {NoLogin}, version: Nat],
          chats: [whose: Login \cup {NoLogin}, ids: SUBSET DOMAIN mail]]

Types ==
    /\ owner \in Seq(Login)
    /\ mail \in Seq([user: Login, peer: Peer, incoming: BOOLEAN])
    /\ sent \in Seq(GoodReq) /\ received \in Seq(GoodPkt)
    /\ connected \in BOOLEAN /\ tokenCheckTimer \in BOOLEAN
    /\ token \in 0..Len(owner) /\ file \in 0..Len(owner) /\ dead \subseteq DOMAIN owner
    /\ page \in [peer: Peer \cup {NoPeer}, shown: SUBSET DOMAIN mail, token: 0..Len(owner)]
    /\ lists \in Lists
    /\ current_login \in Login \cup {NoLogin} /\ entries \subseteq Login
    /\ delivered \subseteq DOMAIN mail /\ friendships \in [Login -> Nat]
    /\ ~ connected => sent = << >>

\* ScreenMatchesToken by cases, with the page that a chat has.
Screens ==
    /\ \/ stack = <<"Loading">> /\ token = 0 /\ tokenCheckTimer /\ page = NoPage
       \/ stack = <<"Auth">> /\ token = 0 /\ ~ tokenCheckTimer /\ page = NoPage
       \/ stack = <<"Main">> /\ token # 0 /\ ~ tokenCheckTimer /\ page = NoPage
       \/ stack = <<"Main", "Chat">> /\ token # 0 /\ ~ tokenCheckTimer /\ page.peer \in Peer
    /\ token # 0 => file = token

\* The client waits for the answer to TOKEN_VERIFY, or would if the timer had let it.
Waiting == token = 0 /\ file # 0 /\ stack \in {<<"Loading">>, <<"Auth">>}

VerifyInv ==
    /\ \A i \in DOMAIN sent : sent[i].type = "TOKEN_VERIFY" =>
          /\ i = 1 /\ sent[i].token = file /\ Waiting
          /\ NoneOf(received, Results)
    /\ \A i \in DOMAIN received : received[i] \in Answers({"TOKEN_VERIFY"}) =>
          /\ received[i].ok => received[i].token = file
          /\ Waiting
          /\ \A j \in DOMAIN received : j < i => received[j] \notin Results
          /\ NoneOf(sent, Asks({"TOKEN_VERIFY"}))
    /\ stack = <<"Loading">> =>
          /\ \A i \in DOMAIN sent : sent[i].type = "TOKEN_VERIFY"
          /\ NoneOf(received, Answers({"LOGIN", "REGISTER"}))

\* The session is logged in as the owner of the last token it gave out, be the answer
\* under way or taken.
SessionInv ==
    current_login # NoLogin =>
        /\ LastOf(received, Signed, {p \in Pkt : owner[p.token] = current_login})
        /\ NoneOf(received, Signed) /\ token # 0 => owner[token] = current_login

\* Tokens arrive in the order they were made.
TokensInv ==
    \A i \in DOMAIN received : received[i] \in Signed =>
        /\ token < received[i].token /\ page.token < received[i].token
        /\ \A j \in DOMAIN received : j > i /\ received[j] \in Signed =>
              received[i].token < received[j].token

\* What the requests under way are about.
SentInv ==
    /\ Followed(sent, Asks({"FRIEND_ACCEPT", "FRIEND_REJECT"}), Asks({"FRIEND_LIST"}))
    /\ token # 0 => /\ LastOf(sent, Asks({"FRIEND_LIST"}), {r \in Req : r.token = token})
                    /\ LastOf(sent, Asks({"CHAT_LIST"}), {r \in Req : r.token = token})
    /\ stack = <<"Main">> => Followed(sent, Asks({"DIRECT_MESSAGE"}), Asks({"CHAT_LIST"}))
    /\ Chat => LastOf(sent, Asks({"MESSAGE_HISTORY"}),
                      {r \in Req : r.token = page.token /\ r.peer = page.peer})

FriendsInv ==
    connected /\ Main /\ Served(token) =>
        Refreshed(sent, received, Asks({"FRIEND_LIST"}), Signed \cup Pushes(FriendPushes),
            Answers({"FRIEND_LIST"}),
            {p \in Pkt : p.whose = owner[token] /\ p.version = friendships[owner[token]]},
            lists.friends,
            {[whose |-> owner[token], version |-> friendships[owner[token]]]})

ChatsInv ==
    connected /\ stack = <<"Main">> /\ Served(token) =>
        Refreshed(sent, received, Asks({"CHAT_LIST"}), Signed \cup Pushes({"DIRECT_MESSAGE"}),
            Answers({"CHAT_LIST"}),
            {p \in Pkt : p.whose = owner[token] /\ p.ids = MailOf(owner[token])},
            lists.chats,
            {[whose |-> owner[token], ids |-> MailOf(owner[token])]})

\* Sets of ids of messages of one peer.
IdsOf(p) == {S \in SUBSET Nat : \A i \in S : mail[i].peer = p}

PageInv ==
    connected /\ Chat =>
        Refreshed(sent, received, Asks({"MESSAGE_HISTORY"}), {}, Answers({"MESSAGE_HISTORY"}),
            {p \in Pkt : p.ids \in IdsOf(page.peer)}, page.shown, IdsOf(page.peer))

\* The packets that bring message m to a page of this peer.
Brings(m, peer) ==
    {p \in Pkt : /\ m \in p.ids
                 /\ \/ p \in Answers({"MESSAGE_HISTORY"})
                    \/ p.type = "DIRECT_MESSAGE" /\ p.peer = peer}

CompleteInv ==
    connected /\ Chat /\ Served(token) /\ page.token = token =>
        \A m \in Incoming(owner[token], page.peer) \cap History(owner[token], page.peer) :
            Refreshed(sent, received, Asks({"MESSAGE_HISTORY"}), Signed,
                Answers({"MESSAGE_HISTORY"}) \cup Brings(m, page.peer),
                Brings(m, page.peer), page.shown, {S \in SUBSET Nat : m \in S})

AppInv ==
    /\ Types /\ Screens /\ VerifyInv /\ SessionInv /\ TokensInv /\ SentInv
    /\ FriendsInv /\ ChatsInv /\ PageInv /\ CompleteInv

-----------------------------------------------------------------------------
(***************************************************************************)
(* Lemmas about sequences.                                                 *)
(***************************************************************************)

LEMMA ConcatIndex ==
    ASSUME NEW S, NEW s \in Seq(S), NEW t \in Seq(S)
    PROVE  /\ Len(s) \in Nat /\ Len(t) \in Nat
           /\ DOMAIN s = 1..Len(s) /\ DOMAIN t = 1..Len(t)
           /\ DOMAIN (s \o t) = 1..(Len(s) + Len(t))
           /\ \A i \in DOMAIN s : i \in DOMAIN (s \o t) /\ (s \o t)[i] = s[i]
           /\ \A i \in DOMAIN t : /\ Len(s) + i \in DOMAIN (s \o t)
                                  /\ (s \o t)[Len(s) + i] = t[i]
           /\ \A i \in DOMAIN (s \o t) :
                 \/ i \in DOMAIN s
                 \/ \E k \in DOMAIN t : i = Len(s) + k
  <1>1. /\ Len(s) \in Nat /\ Len(t) \in Nat
        /\ DOMAIN s = 1..Len(s) /\ DOMAIN t = 1..Len(t)
    BY LenProperties
  <1>2. /\ s \o t \in Seq(S) /\ Len(s \o t) = Len(s) + Len(t)
        /\ \A i \in 1..(Len(s) + Len(t)) :
              (s \o t)[i] = IF i <= Len(s) THEN s[i] ELSE t[i - Len(s)]
    BY ConcatProperties
  <1>3. DOMAIN (s \o t) = 1..(Len(s) + Len(t))
    BY <1>2, LenProperties
  <1> DEFINE m == Len(s)
             n == Len(t)
             st == s \o t
  <1> HIDE DEF m, n, st
  <1>4. /\ m \in Nat /\ n \in Nat /\ DOMAIN s = 1..m /\ DOMAIN t = 1..n
        /\ DOMAIN st = 1..(m + n)
        /\ \A i \in 1..(m + n) : st[i] = IF i <= m THEN s[i] ELSE t[i - m]
    BY <1>1, <1>2, <1>3 DEF m, n, st
  <1>5. \A i \in 1..m : i \in 1..(m + n) /\ i <= m
    BY <1>4
  <1>6. \A i \in 1..n : m + i \in 1..(m + n) /\ ~ (m + i <= m) /\ (m + i) - m = i
    BY <1>4
  <1>7. \A i \in 1..(m + n) : i \in 1..m \/ (i - m \in 1..n /\ i = m + (i - m))
    BY <1>4
  <1>8. /\ \A i \in DOMAIN s : i \in DOMAIN st /\ st[i] = s[i]
        /\ \A i \in DOMAIN t : m + i \in DOMAIN st /\ st[m + i] = t[i]
    BY <1>4, <1>5, <1>6
  <1>9. \A i \in DOMAIN st : i \in DOMAIN s \/ \E k \in DOMAIN t : i = m + k
    BY <1>4, <1>7
  <1> QED
    BY <1>4, <1>8, <1>9 DEF m, n, st

LEMMA TailIndex ==
    ASSUME NEW S, NEW s \in Seq(S), s # << >>
    PROVE  /\ Len(s) \in Nat /\ DOMAIN s = 1..Len(s) /\ 1 \in DOMAIN s
           /\ Tail(s) \in Seq(S) /\ Head(s) = s[1] /\ Head(s) \in S
           /\ \A i \in DOMAIN Tail(s) : i \in Nat /\ i + 1 \in DOMAIN s /\ Tail(s)[i] = s[i + 1]
           /\ \A i \in DOMAIN s : i = 1 \/ (i - 1 \in DOMAIN Tail(s) /\ Tail(s)[i - 1] = s[i])
  <1>1. Len(s) \in Nat /\ Len(s) # 0 /\ DOMAIN s = 1..Len(s)
    BY LenProperties, EmptySeq
  <1>2. /\ Tail(s) \in Seq(S) /\ Len(Tail(s)) = Len(s) - 1 /\ Head(s) \in S
        /\ \A i \in 1..Len(Tail(s)) : Tail(s)[i] = s[i + 1]
    BY HeadTailProperties
  <1>3. DOMAIN Tail(s) = 1..Len(Tail(s))
    BY <1>2, LenProperties
  <1>4. Head(s) = s[1]
    OBVIOUS
  <1> DEFINE n == Len(s)
             t == Tail(s)
  <1> HIDE DEF n, t
  <1>5. /\ n \in Nat /\ n # 0 /\ DOMAIN s = 1..n /\ DOMAIN t = 1..(n - 1)
        /\ \A i \in 1..(n - 1) : t[i] = s[i + 1]
    BY <1>1, <1>2, <1>3 DEF n, t
  <1>6. 1 \in 1..n /\ \A i \in 1..(n - 1) : i \in Nat /\ i + 1 \in 1..n
    BY <1>5
  <1>7. \A i \in 1..n : i = 1 \/ (i - 1 \in 1..(n - 1) /\ (i - 1) + 1 = i)
    BY <1>5
  <1>8. \A i \in 1..n : i = 1 \/ (i - 1 \in 1..(n - 1) /\ t[i - 1] = s[i])
    BY <1>5, <1>7
  <1> QED
    BY <1>2, <1>4, <1>5, <1>6, <1>8 DEF n, t

LEMMA NoneConcat ==
    ASSUME NEW S, NEW s \in Seq(S), NEW t \in Seq(S), NEW A
    PROVE  NoneOf(s \o t, A) <=> NoneOf(s, A) /\ NoneOf(t, A)
  <1>1. ASSUME NoneOf(s \o t, A) PROVE NoneOf(s, A) /\ NoneOf(t, A)
    <2>1. NoneOf(s, A)
      BY <1>1, ConcatIndex DEF NoneOf
    <2>2. ASSUME NEW i \in DOMAIN t PROVE t[i] \notin A
      <3>1. Len(s) + i \in DOMAIN (s \o t) /\ (s \o t)[Len(s) + i] = t[i]
        BY ConcatIndex
      <3> QED
        BY <1>1, <3>1 DEF NoneOf
    <2> QED
      BY <2>1, <2>2 DEF NoneOf
  <1>2. ASSUME NoneOf(s, A), NoneOf(t, A) PROVE NoneOf(s \o t, A)
    <2> SUFFICES ASSUME NEW i \in DOMAIN (s \o t) PROVE (s \o t)[i] \notin A
      BY DEF NoneOf
    <2>1. CASE i \in DOMAIN s
      BY <1>2, <2>1, ConcatIndex DEF NoneOf
    <2>2. ASSUME NEW k \in DOMAIN t, i = Len(s) + k PROVE (s \o t)[i] \notin A
      BY <1>2, <2>2, ConcatIndex DEF NoneOf
    <2> QED
      BY <2>1, <2>2, ConcatIndex
  <1> QED
    BY <1>1, <1>2

LEMMA NoneTail ==
    ASSUME NEW S, NEW s \in Seq(S), s # << >>, NEW A
    PROVE  NoneOf(s, A) <=> Head(s) \notin A /\ NoneOf(Tail(s), A)
  BY TailIndex DEF NoneOf

LEMMA LastConcat ==
    ASSUME NEW S, NEW s \in Seq(S), NEW t \in Seq(S), NEW A, NEW B,
           LastOf(t, A, B), NoneOf(t, A) => LastOf(s, A, B)
    PROVE  LastOf(s \o t, A, B)
  <1> DEFINE st == s \o t
             m == Len(s)
  <1>1. /\ m \in Nat /\ Len(t) \in Nat /\ DOMAIN s = 1..m /\ DOMAIN t = 1..Len(t)
        /\ \A i \in DOMAIN s : i \in DOMAIN st /\ st[i] = s[i]
        /\ \A i \in DOMAIN t : m + i \in DOMAIN st /\ st[m + i] = t[i]
        /\ \A i \in DOMAIN st : i \in DOMAIN s \/ \E k \in DOMAIN t : i = m + k
    BY ConcatIndex
  <1> HIDE DEF st, m
  <1> SUFFICES ASSUME NEW i \in DOMAIN st, st[i] \in A,
                      \A j \in DOMAIN st : j > i => st[j] \notin A
               PROVE  st[i] \in B
    BY DEF LastOf, st
  <1>2. CASE i \in DOMAIN s
    <2>1. \A k \in DOMAIN t : m + k > i
      BY <1>1, <1>2
    <2>2. NoneOf(t, A)
      BY <1>1, <2>1 DEF NoneOf
    <2>3. LastOf(s, A, B)
      BY <2>2
    <2> QED
      BY <1>1, <1>2, <2>3 DEF LastOf
  <1>3. ASSUME NEW k \in DOMAIN t, i = m + k
        PROVE  st[i] \in B
    <2>1. \A j \in DOMAIN t : j > k => m + j > i
      BY <1>1, <1>3
    <2>2. st[i] = t[k]
      BY <1>1, <1>3
    <2>3. \A j \in DOMAIN t : j > k => t[j] \notin A
      BY <1>1, <2>1
    <2> QED
      BY <2>2, <2>3 DEF LastOf
  <1> QED
    BY <1>1, <1>2, <1>3

LEMMA LastTail ==
    ASSUME NEW S, NEW s \in Seq(S), s # << >>, NEW A, NEW B, LastOf(s, A, B)
    PROVE  /\ LastOf(Tail(s), A, B)
           /\ Head(s) \in A /\ NoneOf(Tail(s), A) => Head(s) \in B
  <1> DEFINE t == Tail(s)
  <1>1. /\ DOMAIN s = 1..Len(s) /\ 1 \in DOMAIN s /\ Head(s) = s[1]
        /\ \A i \in DOMAIN t : i \in Nat /\ i + 1 \in DOMAIN s /\ t[i] = s[i + 1]
        /\ \A i \in DOMAIN s : i = 1 \/ (i - 1 \in DOMAIN t /\ t[i - 1] = s[i])
    BY TailIndex
  <1> HIDE DEF t
  <1>2. LastOf(t, A, B)
    <2> SUFFICES ASSUME NEW i \in DOMAIN t, t[i] \in A,
                        \A j \in DOMAIN t : j > i => t[j] \notin A
                 PROVE  t[i] \in B
      BY DEF LastOf
    <2>1. i + 1 \in DOMAIN s /\ s[i + 1] = t[i] /\ i \in Nat
      BY <1>1
    <2>2. ASSUME NEW j \in DOMAIN s, j > i + 1 PROVE s[j] \notin A
      <3>1. j \in Int /\ j # 1 /\ j - 1 > i
        BY <1>1, <2>1, <2>2
      <3> QED
        BY <1>1, <3>1
    <2> QED
      BY <2>1, <2>2 DEF LastOf
  <1>3. ASSUME Head(s) \in A, NoneOf(t, A) PROVE Head(s) \in B
    <2>1. ASSUME NEW j \in DOMAIN s, j > 1 PROVE s[j] \notin A
      <3>1. j # 1
        BY <1>1, <2>1
      <3> QED
        BY <1>1, <1>3, <3>1 DEF NoneOf
    <2> QED
      BY <1>1, <1>3, <2>1 DEF LastOf
  <1> QED
    BY <1>2, <1>3 DEF t

LEMMA FollowedConcat ==
    ASSUME NEW S, NEW s \in Seq(S), NEW t \in Seq(S), NEW A, NEW B,
           Followed(t, A, B), Followed(s, A, B) \/ ~ NoneOf(t, B)
    PROVE  Followed(s \o t, A, B)
  <1> DEFINE st == s \o t
             m == Len(s)
  <1>1. /\ m \in Nat /\ Len(t) \in Nat /\ DOMAIN s = 1..m /\ DOMAIN t = 1..Len(t)
        /\ \A i \in DOMAIN s : i \in DOMAIN st /\ st[i] = s[i]
        /\ \A i \in DOMAIN t : m + i \in DOMAIN st /\ st[m + i] = t[i]
        /\ \A i \in DOMAIN st : i \in DOMAIN s \/ \E k \in DOMAIN t : i = m + k
    BY ConcatIndex
  <1> HIDE DEF st, m
  <1> SUFFICES ASSUME NEW i \in DOMAIN st, st[i] \in A
               PROVE  \E j \in DOMAIN st : j > i /\ st[j] \in B
    BY DEF Followed, st
  <1>2. CASE i \in DOMAIN s
    <2>1. CASE Followed(s, A, B)
      BY <1>1, <1>2, <2>1 DEF Followed
    <2>2. ASSUME NEW k \in DOMAIN t, t[k] \in B
          PROVE  \E j \in DOMAIN st : j > i /\ st[j] \in B
      <3>1. m + k > i
        BY <1>1, <1>2
      <3> QED
        BY <1>1, <2>2, <3>1
    <2> QED
      BY <2>1, <2>2 DEF NoneOf
  <1>3. ASSUME NEW k \in DOMAIN t, i = m + k
        PROVE  \E j \in DOMAIN st : j > i /\ st[j] \in B
    <2>1. PICK j \in DOMAIN t : j > k /\ t[j] \in B
      BY <1>1, <1>3 DEF Followed
    <2>2. m + j > i
      BY <1>1, <1>3, <2>1
    <2> QED
      BY <1>1, <2>1, <2>2
  <1> QED
    BY <1>1, <1>2, <1>3

LEMMA FollowedTail ==
    ASSUME NEW S, NEW s \in Seq(S), s # << >>, NEW A, NEW B, Followed(s, A, B)
    PROVE  /\ Followed(Tail(s), A, B)
           /\ Head(s) \in A => ~ NoneOf(Tail(s), B)
  <1> DEFINE t == Tail(s)
  <1>1. /\ DOMAIN s = 1..Len(s) /\ 1 \in DOMAIN s /\ Head(s) = s[1]
        /\ \A i \in DOMAIN t : i \in Nat /\ i + 1 \in DOMAIN s /\ t[i] = s[i + 1]
        /\ \A i \in DOMAIN s : i = 1 \/ (i - 1 \in DOMAIN t /\ t[i - 1] = s[i])
    BY TailIndex
  <1> HIDE DEF t
  <1>2. Followed(t, A, B)
    <2> SUFFICES ASSUME NEW i \in DOMAIN t, t[i] \in A
                 PROVE  \E j \in DOMAIN t : j > i /\ t[j] \in B
      BY DEF Followed
    <2>1. i \in Nat /\ i + 1 \in DOMAIN s /\ s[i + 1] \in A
      BY <1>1
    <2>2. PICK j \in DOMAIN s : j > i + 1 /\ s[j] \in B
      BY <2>1 DEF Followed
    <2>3. j # 1 /\ j - 1 > i
      BY <1>1, <2>1, <2>2
    <2> QED
      BY <1>1, <2>2, <2>3
  <1>3. ASSUME Head(s) \in A PROVE ~ NoneOf(t, B)
    <2>1. PICK j \in DOMAIN s : j > 1 /\ s[j] \in B
      BY <1>1, <1>3 DEF Followed
    <2>2. j # 1
      BY <1>1, <2>1
    <2> QED
      BY <1>1, <2>1, <2>2 DEF NoneOf
  <1> QED
    BY <1>2, <1>3 DEF t

LEMMA EmptyFacts ==
    ASSUME NEW A, NEW B
    PROVE  NoneOf(<< >>, A) /\ LastOf(<< >>, A, B) /\ Followed(<< >>, A, B)
  BY DEF NoneOf, LastOf, Followed

LEMMA SingleFacts ==
    ASSUME NEW x, NEW A, NEW B
    PROVE  /\ NoneOf(<<x>>, A) <=> x \notin A
           /\ LastOf(<<x>>, A, B) <=> (x \in A => x \in B)
           /\ Followed(<<x>>, A, B) <=> x \notin A
  BY DEF NoneOf, LastOf, Followed

\* When every element that is in A is in B, or none is in A at all.
LEMMA LastOfAll ==
    ASSUME NEW s, NEW A, NEW B, \A i \in DOMAIN s : s[i] \in A => s[i] \in B
    PROVE  LastOf(s, A, B)
  BY DEF LastOf

LEMMA LastOfWeaken ==
    ASSUME NEW s, NEW A, NEW B, NEW C, LastOf(s, A, B), \A i \in DOMAIN s : s[i] \in B => s[i] \in C
    PROVE  LastOf(s, A, C)
  BY DEF LastOf

(***************************************************************************)
(* Refreshed, step by step.                                                *)
(***************************************************************************)

\* A request for it is under way, or a packet whose handler will ask.
LEMMA Awaited ==
    ASSUME NEW s, NEW r, NEW asks, NEW triggers, NEW answers, NEW good, NEW v, NEW V,
           ~ NoneOf(s, asks) \/ ~ NoneOf(r, triggers)
    PROVE  Refreshed(s, r, asks, triggers, answers, good, v, V)
  BY DEF Refreshed

\* Requests are sent.
LEMMA RefreshedSend ==
    ASSUME NEW S, NEW s \in Seq(S), NEW q \in Seq(S), NEW r,
           NEW asks, NEW triggers, NEW answers, NEW good, NEW v, NEW V,
           Refreshed(s, r, asks, triggers, answers, good, v, V)
    PROVE  Refreshed(s \o q, r, asks, triggers, answers, good, v, V)
  BY NoneConcat DEF Refreshed

\* A packet is taken, perhaps an answer that changes what is shown.
LEMMA RefreshedTake ==
    ASSUME NEW R, NEW s, NEW r \in Seq(R), r # << >>,
           NEW asks, NEW triggers, NEW answers, NEW good, NEW v, NEW w, NEW V,
           Refreshed(s, r, asks, triggers, answers, good, v, V),
           Head(r) \notin triggers,
           Head(r) \in answers /\ Head(r) \in good => w \in V,
           Head(r) \notin answers /\ v \in V => w \in V
    PROVE  Refreshed(s, Tail(r), asks, triggers, answers, good, w, V)
  <1> SUFFICES ASSUME NoneOf(s, asks), NoneOf(Tail(r), triggers)
               PROVE  /\ LastOf(Tail(r), answers, good)
                      /\ NoneOf(Tail(r), answers) => w \in V
    BY DEF Refreshed
  <1>1. NoneOf(r, triggers)
    BY NoneTail
  <1>2. LastOf(r, answers, good) /\ (NoneOf(r, answers) => v \in V)
    BY <1>1 DEF Refreshed
  <1>3. LastOf(Tail(r), answers, good)
    BY <1>2, LastTail
  <1>4. ASSUME NoneOf(Tail(r), answers) PROVE w \in V
    <2>1. CASE Head(r) \in answers
      BY <1>2, <1>4, <2>1, LastTail
    <2>2. CASE Head(r) \notin answers
      BY <1>2, <1>4, <2>2, NoneTail
    <2> QED
      BY <2>1, <2>2
  <1> QED
    BY <1>3, <1>4

\* The server takes a request and sends k: the right answer if it was the last request
\* for it, and no wrong one.
LEMMA RefreshedServe ==
    ASSUME NEW S, NEW s \in Seq(S), s # << >>, NEW R, NEW r \in Seq(R), NEW k \in Seq(R),
           NEW asks, NEW triggers, NEW answers, NEW good, NEW v, NEW V,
           Refreshed(s, r, asks, triggers, answers, good, v, V),
           NoneOf(Tail(s), asks) => LastOf(k, answers, good),
           Head(s) \in asks /\ NoneOf(Tail(s), asks) => ~ NoneOf(k, answers)
    PROVE  Refreshed(Tail(s), r \o k, asks, triggers, answers, good, v, V)
  <1> SUFFICES ASSUME NoneOf(Tail(s), asks), NoneOf(r \o k, triggers)
               PROVE  /\ LastOf(r \o k, answers, good)
                      /\ NoneOf(r \o k, answers) => v \in V
    BY DEF Refreshed
  <1>1. NoneOf(r, triggers)
    BY NoneConcat
  <1>2. LastOf(k, answers, good)
    OBVIOUS
  <1>3. CASE Head(s) \in asks
    <2>1. ~ NoneOf(k, answers)
      BY <1>3
    <2> QED
      BY <1>2, <2>1, LastConcat, NoneConcat
  <1>4. CASE Head(s) \notin asks
    <2>1. NoneOf(s, asks)
      BY <1>4, NoneTail
    <2>2. LastOf(r, answers, good) /\ (NoneOf(r, answers) => v \in V)
      BY <1>1, <2>1 DEF Refreshed
    <2> QED
      BY <1>2, <2>2, LastConcat, NoneConcat
  <1> QED
    BY <1>3, <1>4

\* Packets are pushed, none of them a wrong answer.
LEMMA RefreshedPush ==
    ASSUME NEW R, NEW s, NEW r \in Seq(R), NEW k \in Seq(R),
           NEW asks, NEW triggers, NEW answers, NEW good, NEW v, NEW V,
           Refreshed(s, r, asks, triggers, answers, good, v, V),
           LastOf(k, answers, good)
    PROVE  Refreshed(s, r \o k, asks, triggers, answers, good, v, V)
  <1> SUFFICES ASSUME NoneOf(s, asks), NoneOf(r \o k, triggers)
               PROVE  /\ LastOf(r \o k, answers, good)
                      /\ NoneOf(r \o k, answers) => v \in V
    BY DEF Refreshed
  <1>1. NoneOf(r, triggers)
    BY NoneConcat
  <1>2. LastOf(r, answers, good) /\ (NoneOf(r, answers) => v \in V)
    BY <1>1 DEF Refreshed
  <1> QED
    BY <1>2, LastConcat, NoneConcat

\* The notion of a right answer changes, but not for what is there.
LEMMA RefreshedSame ==
    ASSUME NEW s, NEW r, NEW asks, NEW triggers, NEW answers, NEW good, NEW good2,
           NEW v, NEW V, NEW V2,
           Refreshed(s, r, asks, triggers, answers, good, v, V),
           \A i \in DOMAIN r : r[i] \in good => r[i] \in good2, v \in V => v \in V2
    PROVE  Refreshed(s, r, asks, triggers, answers, good2, v, V2)
  BY LastOfWeaken DEF Refreshed

-----------------------------------------------------------------------------
(***************************************************************************)
(* Packets and screens.                                                    *)
(***************************************************************************)

LEMMA TypesOfPackets ==
    /\ RequestType = {"TOKEN_VERIFY", "REGISTER", "LOGIN", "FRIEND_REQUEST", "FRIEND_ACCEPT",
                      "FRIEND_REJECT", "FRIEND_LIST", "MESSAGE_HISTORY", "CHAT_LIST", "LOGOUT",
                      "MESSAGE", "DIRECT_MESSAGE"}
    /\ PushType = {"MESSAGE", "DIRECT_MESSAGE", "FRIEND_NEW_REQUEST", "FRIEND_REQUEST_ACCEPTED",
                   "FRIEND_REQUEST_REJECTED"}
  BY DEF RequestType, PushType, AnswerSignal, PushSignal

\* Which packets a callback is given.
LEMMA CallbackOf ==
    ASSUME NEW p \in Pkt
    PROVE  /\ Callback(p.type, p.to) = "tokenVerify" => p \in Answers({"TOKEN_VERIFY"})
           /\ Callback(p.type, p.to) = "authResult" => p \in Answers({"LOGIN", "REGISTER"})
           /\ Callback(p.type, p.to) = "friendListReceived" => p \in Answers({"FRIEND_LIST"})
           /\ Callback(p.type, p.to) = "chatListReceived" => p \in Answers({"CHAT_LIST"})
           /\ Callback(p.type, p.to) = "historyReceived" => p \in Answers({"MESSAGE_HISTORY"})
           /\ Callback(p.type, p.to) = "directMessageReceived" => p \in Pushes({"DIRECT_MESSAGE"})
           /\ Callback(p.type, p.to) = "friendNewRequest" => p \in Pushes(FriendPushes)
           /\ Callback(p.type, p.to) \in {"friendRequestResult", "chatMessageReceived", NoCallback} =>
                 p.type = "MESSAGE" \/ p \in Answers({"FRIEND_REQUEST", "FRIEND_ACCEPT",
                     "FRIEND_REJECT", "LOGOUT", "MESSAGE", "DIRECT_MESSAGE", ""})
  <1>1. p.type \in {"RESULT", "MESSAGE", "DIRECT_MESSAGE", "FRIEND_NEW_REQUEST",
                    "FRIEND_REQUEST_ACCEPTED", "FRIEND_REQUEST_REJECTED"}
    BY TypesOfPackets DEF Pkt
  <1>2. p.to \in {"TOKEN_VERIFY", "REGISTER", "LOGIN", "FRIEND_REQUEST", "FRIEND_ACCEPT",
                  "FRIEND_REJECT", "FRIEND_LIST", "MESSAGE_HISTORY", "CHAT_LIST", "LOGOUT",
                  "MESSAGE", "DIRECT_MESSAGE", ""}
    BY TypesOfPackets DEF Pkt
  <1>3. CASE p.type = "RESULT"
    <2>1. /\ AnswerSignal["TOKEN_VERIFY"] = "tokenVerify" /\ AnswerSignal["LOGIN"] = "authResult"
          /\ AnswerSignal["REGISTER"] = "authResult"
          /\ AnswerSignal["FRIEND_REQUEST"] = "friendRequestResult"
          /\ AnswerSignal["FRIEND_ACCEPT"] = "friendRequestResult"
          /\ AnswerSignal["FRIEND_REJECT"] = "friendRequestResult"
          /\ AnswerSignal["FRIEND_LIST"] = "friendListReceived"
          /\ AnswerSignal["MESSAGE_HISTORY"] = "historyReceived"
          /\ AnswerSignal["CHAT_LIST"] = "chatListReceived"
      BY DEF AnswerSignal
    <2>2. DOMAIN AnswerSignal = {"TOKEN_VERIFY", "REGISTER", "LOGIN", "FRIEND_REQUEST",
              "FRIEND_ACCEPT", "FRIEND_REJECT", "FRIEND_LIST", "MESSAGE_HISTORY", "CHAT_LIST"}
      BY DEF AnswerSignal
    <2>3. Callback(p.type, p.to) =
              IF p.to \in DOMAIN AnswerSignal THEN AnswerSignal[p.to] ELSE "none"
      BY <1>3 DEF Callback, NoCallback
    <2>4. \A T : p \in Answers(T) <=> p.to \in T
      BY <1>3 DEF Answers
    <2>5. CASE p.to \in DOMAIN AnswerSignal
      BY <1>2, <2>1, <2>2, <2>3, <2>4, <2>5 DEF NoCallback
    <2>6. CASE p.to \notin DOMAIN AnswerSignal
      BY <1>2, <2>2, <2>3, <2>4, <2>6 DEF NoCallback
    <2> QED
      BY <2>5, <2>6
  <1>4. CASE p.type # "RESULT"
    <2>1. /\ PushSignal["MESSAGE"] = "chatMessageReceived"
          /\ PushSignal["DIRECT_MESSAGE"] = "directMessageReceived"
          /\ PushSignal["FRIEND_NEW_REQUEST"] = "friendNewRequest"
          /\ PushSignal["FRIEND_REQUEST_ACCEPTED"] = "friendNewRequest"
          /\ PushSignal["FRIEND_REQUEST_REJECTED"] = "friendNewRequest"
      BY DEF PushSignal
    <2>2. Callback(p.type, p.to) = PushSignal[p.type]
      BY <1>4 DEF Callback
    <2>3. \A T : p \in Pushes(T) <=> p.type \in T
      BY DEF Pushes
    <2> QED
      BY <1>1, <1>4, <2>1, <2>2, <2>3 DEF NoCallback, FriendPushes
  <1> QED
    BY <1>3, <1>4

LEMMA RequestIsReq ==
    ASSUME NEW type \in RequestType, NEW t \in Nat, NEW p \in Peer \cup {NoPeer}
    PROVE  /\ Request(type, t, p) \in Req
           /\ Request(type, t, p).type = type /\ Request(type, t, p).token = t
           /\ Request(type, t, p).peer = p
  BY DEF Request, Req

LEMMA AuthRequestIsReq ==
    ASSUME NEW type \in RequestType, NEW l \in Login
    PROVE  /\ AuthRequest(type, l) \in Req
           /\ AuthRequest(type, l).type = type /\ AuthRequest(type, l).token = 0
           /\ AuthRequest(type, l).login = l
  BY DEF AuthRequest, Req

\* The four stacks.
LEMMA StackFacts ==
    ASSUME NEW a, NEW b
    PROVE  /\ Len(<<a>>) = 1 /\ <<a>>[1] = a /\ Range(<<a>>) = {a}
           /\ \A c : [<<a>> EXCEPT ![1] = c] = <<c>>
           /\ Append(<<a>>, b) = <<a, b>>
           /\ Len(<<a, b>>) = 2 /\ <<a, b>>[2] = b /\ Range(<<a, b>>) = {a, b}
           /\ SubSeq(<<a, b>>, 1, 1) = <<a>>
           /\ <<a>> # <<a, b>>
  <1>0. <<a>> \in Seq({a, b}) /\ <<a, b>> \in Seq({a, b})
    OBVIOUS
  <1>1. /\ Len(<<a>>) = 1 /\ <<a>>[1] = a
        /\ Len(<<a, b>>) = 2 /\ <<a, b>>[1] = a /\ <<a, b>>[2] = b
    OBVIOUS
  <1>6. <<a>> # <<a, b>>
    BY <1>1
  <1>7. Append(<<a>>, b) = <<a, b>>
    <2>1. /\ Append(<<a>>, b) \in Seq({a, b}) /\ Len(Append(<<a>>, b)) = 2
          /\ Append(<<a>>, b)[1] = a /\ Append(<<a>>, b)[2] = b
      BY <1>0, <1>1, AppendProperties
    <2>2. \A i \in 1..2 : i = 1 \/ i = 2
      OBVIOUS
    <2> QED
      BY <1>0, <1>1, <2>1, <2>2, SeqEqual
  <1>4. \A c : [<<a>> EXCEPT ![1] = c] = <<c>>
    OBVIOUS
  <1>5. SubSeq(<<a, b>>, 1, 1) = <<a>>
    <2>1. \A i \in 1..1 : i = 1
      OBVIOUS
    <2>2. \A i \in 1..1 : <<a, b>>[i] \in {a, b}
      BY <1>1, <2>1
    <2> DEFINE t == SubSeq(<<a, b>>, 1, 1)
    <2>3. t \in Seq({a, b}) /\ Len(t) = 1 /\ t[1] = <<a, b>>[1]
      BY <2>2, SubSeqProperties
    <2> HIDE DEF t
    <2>4. Len(<<a>>) = Len(t) /\ \A i \in 1..Len(t) : t[i] = <<a>>[i]
      BY <1>1, <2>1, <2>3
    <2>5. t = <<a>>
      BY <1>0, <2>3, <2>4, SeqEqual
    <2> QED
      BY <2>5 DEF t
  <1>2. Range(<<a>>) = {a}
    BY DEF Range
  <1>3. Range(<<a, b>>) = {a, b}
    BY DEF Range
  <1> QED
    BY <1>1, <1>2, <1>3, <1>4, <1>5, <1>6, <1>7

LEMMA ScreenFacts ==
    ASSUME Screens
    PROVE  /\ stack = <<"Loading">> => ~ Shown("Main") /\ ~ Shown("Chat") /\ ~ Shown("Auth") /\ Top = "Loading"
           /\ stack = <<"Auth">> => ~ Shown("Main") /\ ~ Shown("Chat") /\ Shown("Auth") /\ Top = "Auth"
           /\ stack = <<"Main">> => Shown("Main") /\ ~ Shown("Chat") /\ ~ Shown("Auth") /\ Top = "Main"
           /\ stack = <<"Main", "Chat">> => Shown("Main") /\ Shown("Chat") /\ ~ Shown("Auth") /\ Top = "Chat"
           /\ stack \in {<<"Loading">>, <<"Auth">>, <<"Main">>, <<"Main", "Chat">>}
           /\ Main <=> token # 0
           /\ Main => ~ Waiting
  <1>1. ASSUME NEW a, stack = <<a>> PROVE Top = a /\ \A x : Shown(x) <=> x = a
    <2>1. Len(stack) = 1 /\ stack[1] = a /\ Range(stack) = {a}
      BY <1>1, StackFacts
    <2> QED
      BY <2>1 DEF Top, Shown
  <1>2. ASSUME NEW a, NEW b, stack = <<a, b>> PROVE Top = b /\ \A x : Shown(x) <=> x \in {a, b}
    <2>1. Len(stack) = 2 /\ stack[2] = b /\ Range(stack) = {a, b}
      BY <1>2, StackFacts
    <2> QED
      BY <2>1 DEF Top, Shown
  <1>3. stack \in {<<"Loading">>, <<"Auth">>, <<"Main">>, <<"Main", "Chat">>}
    BY DEF Screens
  <1>4. (Main <=> token # 0) /\ (Main => ~ Waiting)
    BY DEF Screens, Main, Waiting
  <1>5. stack = <<"Loading">> => ~ Shown("Main") /\ ~ Shown("Chat") /\ ~ Shown("Auth") /\ Top = "Loading"
    BY <1>1
  <1>6. stack = <<"Auth">> => ~ Shown("Main") /\ ~ Shown("Chat") /\ Shown("Auth") /\ Top = "Auth"
    BY <1>1
  <1>7. stack = <<"Main">> => Shown("Main") /\ ~ Shown("Chat") /\ ~ Shown("Auth") /\ Top = "Main"
    BY <1>1
  <1>8. stack = <<"Main", "Chat">> => Shown("Main") /\ Shown("Chat") /\ ~ Shown("Auth") /\ Top = "Chat"
    BY <1>2
  <1> QED
    BY <1>3, <1>4, <1>5, <1>6, <1>7, <1>8

\* What StackView's replace makes of a single screen.
LEMMA ReplaceOne ==
    ASSUME NEW a, stack = <<a>>, NEW b, Replace(b)
    PROVE  stack' = <<b>> /\ lists' = NoLists /\ page' = NoPage
  BY StackFacts DEF Replace

LEMMA NoListsTyped == NoLists \in Lists
  BY DEF NoLists, Lists

LEMMA SeqMono ==
    ASSUME NEW A, NEW B, A \subseteq B, NEW s \in Seq(A)
    PROVE  s \in Seq(B)
  <1> DEFINE n == Len(s)
  <1>1. n \in Nat /\ s \in [1..n -> A]
    BY LenProperties
  <1> HIDE DEF n
  <1>2. s \in [1..n -> B]
    <2>1. s = [i \in 1..n |-> s[i]] /\ \A i \in 1..n : s[i] \in A
      BY <1>1
    <2> QED
      BY <2>1
  <1> QED
    BY <1>1, <1>2

-----------------------------------------------------------------------------
(***************************************************************************)
(* The tables grow.                                                        *)
(***************************************************************************)

MailRow == [user: Login, peer: Peer, incoming: BOOLEAN]

\* Tokens and messages are added and none is altered.
Grows ==
    /\ owner' \in Seq(Login) /\ Len(owner) <= Len(owner')
    /\ \A t \in DOMAIN owner : owner'[t] = owner[t]
    /\ mail' \in Seq(MailRow) /\ Len(mail) <= Len(mail')
    /\ \A i \in DOMAIN mail : mail'[i] = mail[i]

LEMMA TableDomains ==
    ASSUME Types
    PROVE  /\ Len(owner) \in Nat /\ DOMAIN owner = 1..Len(owner)
           /\ Len(mail) \in Nat /\ DOMAIN mail = 1..Len(mail)
           /\ \A t \in DOMAIN owner : owner[t] \in Login
           /\ \A i \in DOMAIN mail : mail[i] \in MailRow
           /\ token \in Nat /\ file \in Nat /\ page.token \in Nat
           /\ NoLogin \notin Login
  <1>1. /\ Len(owner) \in Nat /\ DOMAIN owner = 1..Len(owner)
        /\ Len(mail) \in Nat /\ DOMAIN mail = 1..Len(mail)
        /\ \A t \in DOMAIN owner : owner[t] \in Login
        /\ \A i \in DOMAIN mail : mail[i] \in MailRow
    <2>1. owner \in Seq(Login) /\ mail \in Seq(MailRow)
      BY DEF Types, MailRow
    <2>2. /\ Len(owner) \in Nat /\ DOMAIN owner = 1..Len(owner)
          /\ Len(mail) \in Nat /\ DOMAIN mail = 1..Len(mail)
      BY <2>1, LenProperties
    <2>3. \A t \in DOMAIN owner : owner[t] \in Login
      BY <2>1, <2>2, ElementOfSeq
    <2>4. \A i \in DOMAIN mail : mail[i] \in MailRow
      BY <2>1, <2>2, ElementOfSeq
    <2> QED
      BY <2>2, <2>3, <2>4
  <1>2. token \in 0..Len(owner) /\ file \in 0..Len(owner) /\ page.token \in 0..Len(owner)
    BY DEF Types
  <1> QED
    BY <1>1, <1>2, ClientAssumption DEF ClientAssumption

LEMMA GrowsDomains ==
    ASSUME Types, Grows
    PROVE  /\ DOMAIN owner \subseteq DOMAIN owner' /\ DOMAIN mail \subseteq DOMAIN mail'
           /\ Len(owner') \in Nat /\ DOMAIN owner' = 1..Len(owner')
           /\ Len(mail') \in Nat /\ DOMAIN mail' = 1..Len(mail')
           /\ 0..Len(owner) \subseteq 0..Len(owner')
  <1>1. /\ Len(owner') \in Nat /\ DOMAIN owner' = 1..Len(owner')
        /\ Len(mail') \in Nat /\ DOMAIN mail' = 1..Len(mail')
    BY LenProperties DEF Grows
  <1>2. Len(owner) \in Nat /\ Len(mail) \in Nat /\ Len(owner) <= Len(owner') /\ Len(mail) <= Len(mail')
        /\ DOMAIN owner = 1..Len(owner) /\ DOMAIN mail = 1..Len(mail)
    BY TableDomains DEF Grows
  <1>3. \A m, n \in Nat : m <= n => 1..m \subseteq 1..n /\ 0..m \subseteq 0..n
    OBVIOUS
  <1>4. 1..Len(owner) \subseteq 1..Len(owner') /\ 0..Len(owner) \subseteq 0..Len(owner')
    BY <1>1, <1>2, <1>3
  <1>5. 1..Len(mail) \subseteq 1..Len(mail')
    BY <1>1, <1>2, <1>3
  <1> QED
    BY <1>1, <1>2, <1>4, <1>5, Zenon

LEMMA SameGrows == ASSUME Types, UNCHANGED <<owner, mail>> PROVE Grows
  BY TableDomains DEF Grows, Types, MailRow

LEMMA GoodGrows ==
    ASSUME Types, Grows
    PROVE  GoodReq \subseteq GoodReq' /\ GoodPkt \subseteq GoodPkt'
  <1>1. /\ Len(owner) \in Nat /\ Len(owner') \in Nat /\ Len(owner) <= Len(owner')
        /\ DOMAIN mail \subseteq DOMAIN mail' /\ \A i \in DOMAIN mail : mail'[i] = mail[i]
    BY TableDomains, GrowsDomains DEF Grows
  <1>2. ASSUME NEW r \in GoodReq PROVE r \in GoodReq'
    <2>1. r \in Req /\ r.token \in Nat /\ r.token <= Len(owner)
      BY DEF GoodReq, Req
    <2>2. r.token <= Len(owner')
      BY <1>1, <2>1
    <2> QED
      BY <2>1, <2>2 DEF GoodReq
  <1>3. ASSUME NEW p \in GoodPkt PROVE p \in GoodPkt'
    <2>1. p \in Pkt /\ p.token \in Nat /\ p.token <= Len(owner) /\ p.ids \subseteq DOMAIN mail
      BY DEF GoodPkt, Pkt
    <2>2. p.token <= Len(owner') /\ p.ids \subseteq DOMAIN mail'
      BY <1>1, <2>1
    <2>3. p.type = "DIRECT_MESSAGE" => \A i \in p.ids : mail'[i].peer = p.peer
      BY <1>1, <2>1 DEF GoodPkt
    <2> QED
      BY <2>1, <2>2, <2>3 DEF GoodPkt
  <1> QED
    BY <1>2, <1>3

\* What is under way stays well formed.
LEMMA QueuesGrow ==
    ASSUME Types, Grows
    PROVE  sent \in Seq(GoodReq') /\ received \in Seq(GoodPkt')
  BY GoodGrows, SeqMono DEF Types

LEMMA HeadOfReceived ==
    ASSUME Types, received # << >>
    PROVE  /\ Head(received) \in GoodPkt /\ Head(received) \in Pkt
           /\ Tail(received) \in Seq(GoodPkt)
  <1>1. Head(received) \in GoodPkt /\ Tail(received) \in Seq(GoodPkt)
    BY HeadTailProperties DEF Types
  <1> QED
    BY <1>1 DEF GoodPkt

LEMMA HeadOfSent ==
    ASSUME Types, sent # << >>
    PROVE  /\ Head(sent) \in GoodReq /\ Head(sent) \in Req
           /\ Tail(sent) \in Seq(GoodReq)
  <1>1. Head(sent) \in GoodReq /\ Tail(sent) \in Seq(GoodReq)
    BY HeadTailProperties DEF Types
  <1> QED
    BY <1>1 DEF GoodReq

\* Every element of the two queues is of its type.
LEMMA Elements ==
    ASSUME Types
    PROVE  /\ \A i \in DOMAIN sent : sent[i] \in GoodReq /\ sent[i] \in Req
           /\ \A i \in DOMAIN received : received[i] \in GoodPkt /\ received[i] \in Pkt
           /\ DOMAIN sent = 1..Len(sent) /\ Len(sent) \in Nat
           /\ DOMAIN received = 1..Len(received) /\ Len(received) \in Nat
  <1>1. /\ \A i \in DOMAIN sent : sent[i] \in GoodReq
        /\ \A i \in DOMAIN received : received[i] \in GoodPkt
        /\ DOMAIN sent = 1..Len(sent) /\ Len(sent) \in Nat
        /\ DOMAIN received = 1..Len(received) /\ Len(received) \in Nat
    BY LenProperties, ElementOfSeq DEF Types
  <1> QED
    BY <1>1 DEF GoodReq, GoodPkt

\* A token that is given to the client is not 0, its value for none.
LEMMA SignedTokens ==
    ASSUME Types
    PROVE  \A i \in DOMAIN received : received[i] \in Signed =>
               received[i].token \in Nat /\ 0 < received[i].token
  <1>1. \A i \in DOMAIN received : received[i] \in Signed =>
            received[i].token \in Nat /\ received[i].token # 0
    BY Elements DEF GoodPkt, Pkt
  <1> QED
    BY <1>1

-----------------------------------------------------------------------------
(***************************************************************************)
(* Steps of the Qt thread that keep the token and the screens.             *)
(***************************************************************************)

CoreInv == Types /\ Screens /\ VerifyInv /\ SessionInv /\ TokensInv /\ SentInv

WithToken(t) == {r \in Req : r.token = t}

\* Requests such as the screens send while they are shown.
PlainReqs(q) ==
    /\ q \in Seq(GoodReq)
    /\ NoneOf(q, Asks({"TOKEN_VERIFY"})) /\ NoneOf(q, Asks({"MESSAGE_HISTORY"}))
    /\ Followed(q, Asks({"FRIEND_ACCEPT", "FRIEND_REJECT"}), Asks({"FRIEND_LIST"}))
    /\ token # 0 => /\ LastOf(q, Asks({"FRIEND_LIST"}), WithToken(token))
                    /\ LastOf(q, Asks({"CHAT_LIST"}), WithToken(token))
    /\ stack = <<"Main">> => Followed(q, Asks({"DIRECT_MESSAGE"}), Asks({"CHAT_LIST"}))
    /\ q # << >> => stack # <<"Loading">>

\* The next packet is taken, and it is not one that changes the token or the screen.
TakesPlain ==
    /\ received # << >> /\ received' = Tail(received)
    /\ Head(received) \notin Signed /\ Head(received) \notin Answers({"TOKEN_VERIFY"})

ClientStep(q) ==
    /\ PlainReqs(q) /\ Sends(q)
    /\ UNCHANGED received \/ TakesPlain
    /\ UNCHANGED <<token, file, stack, tokenCheckTimer, serverVars>>
    /\ page' \in [peer: {page.peer}, shown: SUBSET DOMAIN mail, token: {page.token}]
    /\ ~ Chat => page' = page
    /\ lists' \in Lists

\* What is sent, with or without a connection.
LEMMA SentAfter ==
    ASSUME Types, NEW q \in Seq(GoodReq), Sends(q)
    PROVE  /\ sent' \in Seq(GoodReq) /\ connected' = connected
           /\ connected => sent' = sent \o q
           /\ ~ connected => sent' = sent /\ sent' = << >>
           /\ q = << >> => sent' = sent
  <1>1. sent \in Seq(GoodReq)
    BY DEF Types
  <1>2. CASE connected
    BY <1>1, <1>2, ConcatProperties, ConcatEmptySeq DEF Sends
  <1>3. CASE ~ connected
    BY <1>1, <1>3 DEF Sends, Types
  <1> QED
    BY <1>2, <1>3

LEMMA ClientTypes ==
    ASSUME CoreInv, NEW q, ClientStep(q)
    PROVE  Types' /\ Screens'
  <1>1. /\ sent' \in Seq(GoodReq) /\ connected' = connected /\ (~ connected' => sent' = << >>)
    BY SentAfter DEF ClientStep, PlainReqs, CoreInv
  <1>2. received' \in Seq(GoodPkt)
    BY HeadOfReceived DEF ClientStep, TakesPlain, CoreInv, Types
  <1>3. GoodReq' = GoodReq /\ GoodPkt' = GoodPkt
    BY DEF ClientStep, serverVars, GoodReq, GoodPkt
  <1>4. page' \in [peer: Peer \cup {NoPeer}, shown: SUBSET DOMAIN mail, token: 0..Len(owner)]
    <2>1. page \in [peer: Peer \cup {NoPeer}, shown: SUBSET DOMAIN mail, token: 0..Len(owner)]
      BY DEF CoreInv, Types
    <2> QED
      BY <2>1 DEF ClientStep
  <1>5. Types'
    <2>1. lists' \in Lists'
      BY DEF ClientStep, serverVars, Lists
    <2> QED
      BY <1>1, <1>2, <1>3, <1>4, <2>1 DEF ClientStep, serverVars, CoreInv, Types
  <1>6. Screens'
    <2>1. page'.peer = page.peer /\ (~ Chat => page' = page)
      BY DEF ClientStep
    <2>2. UNCHANGED <<token, file, stack, tokenCheckTimer>> /\ NoPage' = NoPage
      BY DEF ClientStep, NoPage
    <2> QED
      BY <2>1, <2>2 DEF CoreInv, Screens, Chat
  <1> QED
    BY <1>5, <1>6

\* An element of sent' is one of sent or one of q.
LEMMA SentElement ==
    ASSUME Types, NEW q \in Seq(GoodReq), Sends(q), NEW A, NoneOf(q, A)
    PROVE  /\ \A i \in DOMAIN sent' : sent'[i] \in A => i \in DOMAIN sent /\ sent[i] = sent'[i]
           /\ NoneOf(sent, A) => NoneOf(sent', A)
  <1>1. sent \in Seq(GoodReq)
    BY DEF Types
  <1>2. CASE connected
    <2>1. sent' = sent \o q
      BY <1>2, SentAfter
    <2> DEFINE m == Len(sent)
    <2>2. /\ \A i \in DOMAIN sent : i \in DOMAIN sent' /\ sent'[i] = sent[i]
          /\ \A i \in DOMAIN q : m + i \in DOMAIN sent' /\ sent'[m + i] = q[i]
          /\ \A i \in DOMAIN sent' : i \in DOMAIN sent \/ \E k \in DOMAIN q : i = m + k
      BY <1>1, <2>1, ConcatIndex
    <2> HIDE DEF m
    <2>3. \A i \in DOMAIN sent' : sent'[i] \in A => i \in DOMAIN sent /\ sent[i] = sent'[i]
      BY <2>2 DEF NoneOf
    <2> QED
      BY <2>3 DEF NoneOf
  <1>3. CASE ~ connected
    <2>1. sent' = sent
      BY <1>3, SentAfter
    <2> QED
      BY <2>1 DEF NoneOf
  <1> QED
    BY <1>2, <1>3

LEMMA ClientVerify ==
    ASSUME CoreInv, NEW q, ClientStep(q)
    PROVE  VerifyInv'
  <1>0. /\ Types /\ VerifyInv /\ q \in Seq(GoodReq) /\ Sends(q)
        /\ NoneOf(q, Asks({"TOKEN_VERIFY"})) /\ (stack = <<"Loading">> => q = << >>)
        /\ UNCHANGED <<token, file, stack>> /\ (Waiting' <=> Waiting)
    BY DEF CoreInv, ClientStep, PlainReqs, Waiting
  <1>1. /\ \A i \in DOMAIN sent : sent[i] \in Asks({"TOKEN_VERIFY"}) <=> sent[i].type = "TOKEN_VERIFY"
        /\ \A i \in DOMAIN sent' : sent'[i] \in Asks({"TOKEN_VERIFY"}) <=> sent'[i].type = "TOKEN_VERIFY"
    <2>1. Types'
      BY ClientTypes
    <2>2. \A i \in DOMAIN sent : sent[i] \in Req
      BY <1>0, Elements
    <2>3. \A i \in DOMAIN sent' : sent'[i] \in Req
      <3>1. sent' \in Seq(GoodReq') /\ DOMAIN sent' = 1..Len(sent')
        BY <2>1, LenProperties DEF Types
      <3>2. \A i \in DOMAIN sent' : sent'[i] \in GoodReq'
        BY <3>1, ElementOfSeq
      <3> QED
        BY <3>2 DEF GoodReq
    <2> QED
      BY <2>2, <2>3 DEF Asks
  <1>2. /\ \A i \in DOMAIN sent' : sent'[i].type = "TOKEN_VERIFY" =>
               i \in DOMAIN sent /\ sent[i] = sent'[i]
        /\ NoneOf(sent, Asks({"TOKEN_VERIFY"})) => NoneOf(sent', Asks({"TOKEN_VERIFY"}))
    BY <1>0, <1>1, SentElement
  <1>3. \A A : NoneOf(received, A) => NoneOf(received', A)
    <2>1. CASE UNCHANGED received
      BY <2>1 DEF NoneOf
    <2>2. CASE TakesPlain
      BY <1>0, <2>2, NoneTail DEF TakesPlain, Types
    <2> QED
      BY <2>1, <2>2 DEF ClientStep
  <1>4. \A i \in DOMAIN sent' : sent'[i].type = "TOKEN_VERIFY" =>
            /\ i = 1 /\ sent'[i].token = file' /\ Waiting'
            /\ NoneOf(received', Results)
    BY <1>0, <1>2, <1>3 DEF VerifyInv
  <1>5. ASSUME NEW i \in DOMAIN received', received'[i] \in Answers({"TOKEN_VERIFY"})
        PROVE  /\ received'[i].ok => received'[i].token = file'
               /\ Waiting'
               /\ \A j \in DOMAIN received' : j < i => received'[j] \notin Results
               /\ NoneOf(sent', Asks({"TOKEN_VERIFY"}))
    <2>1. CASE UNCHANGED received
      BY <1>0, <1>2, <1>5, <2>1 DEF VerifyInv
    <2>2. CASE TakesPlain
      <3>1. /\ \A j \in DOMAIN received' : j \in Nat /\ j + 1 \in DOMAIN received
                                           /\ received'[j] = received[j + 1]
        BY <1>0, <2>2, TailIndex DEF TakesPlain, Types
      <3>2. \A j \in DOMAIN received' : j < i => j + 1 < i + 1
        BY <3>1
      <3> QED
        BY <1>0, <1>2, <1>5, <3>1, <3>2 DEF VerifyInv
    <2> QED
      BY <2>1, <2>2 DEF ClientStep
  <1>6. ASSUME stack' = <<"Loading">>
        PROVE  /\ \A i \in DOMAIN sent' : sent'[i].type = "TOKEN_VERIFY"
               /\ NoneOf(received', Answers({"LOGIN", "REGISTER"}))
    <2>1. sent' = sent
      BY <1>0, <1>6, SentAfter
    <2> QED
      BY <1>0, <1>3, <1>6, <2>1 DEF VerifyInv
  <1> QED
    BY <1>4, <1>5, <1>6 DEF VerifyInv

LEMMA ClientSession ==
    ASSUME CoreInv, NEW q, ClientStep(q)
    PROVE  SessionInv' /\ TokensInv'
  <1>0. /\ Types /\ SessionInv /\ TokensInv /\ UNCHANGED <<token, current_login, owner>>
        /\ page'.token = page.token
    BY DEF CoreInv, ClientStep, serverVars
  <1>1. CASE UNCHANGED received
    BY <1>0, <1>1 DEF SessionInv, TokensInv
  <1>2. CASE TakesPlain
    <2>1. /\ received \in Seq(GoodPkt) /\ received # << >> /\ received' = Tail(received)
          /\ Head(received) \notin Signed
      BY <1>0, <1>2 DEF TakesPlain, Types
    <2> DEFINE B == {p \in Pkt : owner[p.token] = current_login}
    <2>2. B' = B
      BY <1>0
    <2>3. NoneOf(received', Signed) <=> NoneOf(received, Signed)
      BY <2>1, NoneTail
    <2> HIDE DEF B
    <2>4. LastOf(received, Signed, B) => LastOf(received', Signed, B)
      BY <2>1, LastTail
    <2>5. SessionInv'
      BY <1>0, <2>2, <2>3, <2>4 DEF SessionInv, B
    <2>6. \A j \in DOMAIN received' : j \in Nat /\ j + 1 \in DOMAIN received
                                      /\ received'[j] = received[j + 1]
      BY <2>1, TailIndex
    <2>7. \A i, j \in DOMAIN received' : j > i => j + 1 > i + 1
      BY <2>6
    <2>8. TokensInv'
      BY <1>0, <2>6, <2>7 DEF TokensInv
    <2> QED
      BY <2>5, <2>8
  <1> QED
    BY <1>1, <1>2 DEF ClientStep

LEMMA ClientSent ==
    ASSUME CoreInv, NEW q, ClientStep(q)
    PROVE  SentInv'
  <1>0. /\ Types /\ SentInv /\ PlainReqs(q) /\ UNCHANGED <<token, stack>>
        /\ page'.token = page.token /\ page'.peer = page.peer
    BY DEF CoreInv, ClientStep
  <1>1. CASE ~ connected
    <2>1. sent' = << >>
      BY <1>0, <1>1, SentAfter DEF ClientStep, PlainReqs
    <2> QED
      BY <2>1, EmptyFacts DEF SentInv
  <1>2. CASE connected
    <2>1. sent \in Seq(GoodReq) /\ q \in Seq(GoodReq) /\ sent' = sent \o q
      BY <1>0, <1>2, SentAfter DEF ClientStep, PlainReqs, Types
    <2>2. Followed(sent', Asks({"FRIEND_ACCEPT", "FRIEND_REJECT"}), Asks({"FRIEND_LIST"}))
      BY <1>0, <2>1, FollowedConcat DEF SentInv, PlainReqs
    <2>3. ASSUME token # 0
          PROVE  /\ LastOf(sent', Asks({"FRIEND_LIST"}), WithToken(token))
                 /\ LastOf(sent', Asks({"CHAT_LIST"}), WithToken(token))
      <3>1. /\ LastOf(sent, Asks({"FRIEND_LIST"}), WithToken(token))
            /\ LastOf(sent, Asks({"CHAT_LIST"}), WithToken(token))
        BY <1>0, <2>3 DEF SentInv, WithToken
      <3>2. /\ LastOf(q, Asks({"FRIEND_LIST"}), WithToken(token))
            /\ LastOf(q, Asks({"CHAT_LIST"}), WithToken(token))
        BY <1>0, <2>3 DEF PlainReqs
      <3> QED
        BY <2>1, <3>1, <3>2, LastConcat
    <2>4. stack = <<"Main">> => Followed(sent', Asks({"DIRECT_MESSAGE"}), Asks({"CHAT_LIST"}))
      BY <1>0, <2>1, FollowedConcat DEF SentInv, PlainReqs
    <2>5. ASSUME Chat
          PROVE  LastOf(sent', Asks({"MESSAGE_HISTORY"}),
                        {r \in Req : r.token = page.token /\ r.peer = page.peer})
      <3> DEFINE B == {r \in Req : r.token = page.token /\ r.peer = page.peer}
      <3>1. LastOf(sent, Asks({"MESSAGE_HISTORY"}), B)
        BY <1>0, <2>5 DEF SentInv
      <3>2. LastOf(q, Asks({"MESSAGE_HISTORY"}), B)
        BY <1>0 DEF PlainReqs, NoneOf, LastOf
      <3> HIDE DEF B
      <3>3. LastOf(sent', Asks({"MESSAGE_HISTORY"}), B)
        BY <2>1, <3>1, <3>2, LastConcat
      <3> QED
        BY <3>3 DEF B
    <2> QED
      BY <1>0, <2>2, <2>3, <2>4, <2>5 DEF SentInv, WithToken, Chat
  <1> QED
    BY <1>1, <1>2 DEF CoreInv, Types

LEMMA ClientCore ==
    ASSUME CoreInv, NEW q, ClientStep(q)
    PROVE  CoreInv'
  BY ClientTypes, ClientVerify, ClientSession, ClientSent DEF CoreInv

-----------------------------------------------------------------------------
(***************************************************************************)
(* Steps of the server and of the world.                                   *)
(***************************************************************************)

\* The server sends k: the RESULT of the request it takes is the last of them, a token
\* it gives out is a new one or the one it has verified, and current_login is the owner
\* of that token.
ServerStep(k) ==
    /\ received' = received \o k /\ k \in Seq(GoodPkt')
    /\ \/ /\ connected /\ sent # << >> /\ sent' = Tail(sent)
          /\ \A i \in DOMAIN k : k[i] \in Results => i = Len(k) /\ k[i].to = Head(sent).type
       \/ sent' = sent /\ NoneOf(k, Results)
    /\ UNCHANGED <<connected, appVars>>
    /\ Grows
    /\ \A i \in DOMAIN k : k[i] \in Signed =>
          IF Head(sent).type = "TOKEN_VERIFY" THEN k[i].token = Head(sent).token
          ELSE k[i].token > Len(owner)
    /\ \/ current_login' = NoLogin
       \/ current_login' = current_login /\ NoneOf(k, Signed)
       \/ /\ ~ NoneOf(k, Signed)
          /\ \A i \in DOMAIN k : k[i] \in Signed => owner'[k[i].token] = current_login'
    /\ dead' \subseteq DOMAIN owner' /\ current_login' \in Login \cup {NoLogin}
    /\ entries' \subseteq Login /\ delivered' \subseteq DOMAIN mail'
    /\ friendships' \in [Login -> Nat]

LEMMA ServerTypes ==
    ASSUME CoreInv, NEW k, ServerStep(k)
    PROVE  /\ Types' /\ Screens'
           /\ sent \in Seq(GoodReq') /\ received \in Seq(GoodPkt') /\ k \in Seq(GoodPkt')
           /\ \A i \in DOMAIN k : k[i] \in Pkt
  <1>0. Types /\ Screens /\ Grows /\ k \in Seq(GoodPkt') /\ UNCHANGED <<connected, appVars>>
    BY DEF CoreInv, ServerStep
  <1>1. sent \in Seq(GoodReq') /\ received \in Seq(GoodPkt')
    BY <1>0, QueuesGrow
  <1>2. received' \in Seq(GoodPkt')
    BY <1>0, <1>1, ConcatProperties DEF ServerStep
  <1>3. sent' \in Seq(GoodReq') /\ (~ connected' => sent' = << >>)
    <2>1. CASE connected /\ sent # << >> /\ sent' = Tail(sent)
      BY <1>0, <1>1, <2>1, HeadTailProperties
    <2>2. CASE sent' = sent
      BY <1>0, <1>1, <2>2 DEF Types
    <2> QED
      BY <2>1, <2>2 DEF ServerStep
  <1>4. token' \in 0..Len(owner') /\ file' \in 0..Len(owner')
    BY <1>0, GrowsDomains DEF Types, appVars
  <1>5. page' \in [peer: Peer \cup {NoPeer}, shown: SUBSET DOMAIN mail', token: 0..Len(owner')]
    <2>1. page' \in [peer: Peer \cup {NoPeer}, shown: SUBSET DOMAIN mail, token: 0..Len(owner)]
      BY <1>0 DEF Types, appVars
    <2>2. DOMAIN mail \subseteq DOMAIN mail' /\ 0..Len(owner) \subseteq 0..Len(owner')
      BY <1>0, GrowsDomains
    <2> QED
      BY <2>1, <2>2
  <1>6. Types'
    <2>1. owner' \in Seq(Login) /\ mail' \in Seq([user: Login, peer: Peer, incoming: BOOLEAN])
      BY <1>0 DEF Grows, MailRow
    <2>2. connected' \in BOOLEAN /\ tokenCheckTimer' \in BOOLEAN
      BY <1>0 DEF Types, appVars
    <2>3. /\ dead' \subseteq DOMAIN owner' /\ current_login' \in Login \cup {NoLogin}
          /\ entries' \subseteq Login /\ delivered' \subseteq DOMAIN mail'
          /\ friendships' \in [Login -> Nat]
      BY DEF ServerStep
    <2>4. lists' \in Lists'
      <3>1. lists' \in Lists /\ DOMAIN mail \subseteq DOMAIN mail'
        BY <1>0, GrowsDomains DEF Types, appVars
      <3> QED
        BY <3>1 DEF Lists
    <2> QED
      BY <1>2, <1>3, <1>4, <1>5, <2>1, <2>2, <2>3, <2>4 DEF Types
  <1>7. Screens'
    BY <1>0 DEF Screens, appVars, NoPage
  <1>8. \A i \in DOMAIN k : k[i] \in Pkt
    <2>1. \A i \in DOMAIN k : k[i] \in GoodPkt'
      BY <1>0, ElementOfSeq, LenProperties
    <2> QED
      BY <2>1 DEF GoodPkt
  <1> QED
    BY <1>0, <1>1, <1>6, <1>7, <1>8

\* Whether the step leaves a TOKEN_VERIFY in sent, and what that says of received and k.
LEMMA ServerVerify ==
    ASSUME CoreInv, NEW k, ServerStep(k)
    PROVE  VerifyInv'
  <1>0. /\ Types /\ VerifyInv /\ UNCHANGED <<token, file, stack, page>> /\ (Waiting' <=> Waiting)
        /\ sent \in Seq(GoodReq') /\ received \in Seq(GoodPkt') /\ k \in Seq(GoodPkt')
        /\ received' = received \o k /\ \A i \in DOMAIN k : k[i] \in Pkt
    BY ServerTypes DEF CoreInv, ServerStep, appVars, Waiting
  <1>1. \A i \in DOMAIN sent : sent[i] \in Asks({"TOKEN_VERIFY"}) <=> sent[i].type = "TOKEN_VERIFY"
    BY <1>0, Elements DEF Asks
  <1> DEFINE m == Len(received)
             TV == Answers({"TOKEN_VERIFY"})
  <1>2. /\ m \in Nat /\ DOMAIN received = 1..m /\ DOMAIN k = 1..Len(k) /\ Len(k) \in Nat
        /\ \A i \in DOMAIN received : i \in DOMAIN received' /\ received'[i] = received[i]
        /\ \A i \in DOMAIN k : m + i \in DOMAIN received' /\ received'[m + i] = k[i]
        /\ \A i \in DOMAIN received' : i \in DOMAIN received \/ \E j \in DOMAIN k : i = m + j
    BY <1>0, ConcatIndex
  <1>3. \A p : p \in TV => p \in Results
    BY DEF Answers, Results
  <1>4. \A p \in Pkt : (p \in TV => p.to = "TOKEN_VERIFY")
                       /\ (p \in Answers({"LOGIN", "REGISTER"}) => p \in Results /\ p.to # "TOKEN_VERIFY")
    BY DEF Answers, Results
  <1> HIDE DEF m, TV
  <1>5. CASE sent' = sent /\ NoneOf(k, Results)
    <2>1. ASSUME NEW A, \A p : p \in A => p \in Results
          PROVE  NoneOf(received, A) => NoneOf(received', A)
      BY <1>2, <1>5, <2>1 DEF NoneOf
    <2>2. \A i \in DOMAIN sent' : sent'[i].type = "TOKEN_VERIFY" =>
              /\ i = 1 /\ sent'[i].token = file' /\ Waiting'
              /\ NoneOf(received', Results)
      BY <1>0, <1>5, <2>1 DEF VerifyInv
    <2>3. ASSUME NEW i \in DOMAIN received', received'[i] \in TV
          PROVE  /\ received'[i].ok => received'[i].token = file'
                 /\ Waiting'
                 /\ \A j \in DOMAIN received' : j < i => received'[j] \notin Results
                 /\ NoneOf(sent', Asks({"TOKEN_VERIFY"}))
      <3>1. i \in DOMAIN received /\ received[i] \in TV
        BY <1>2, <1>3, <1>5, <2>3 DEF NoneOf
      <3>2. \A j \in DOMAIN received' : j < i => j \in DOMAIN received
        BY <1>2, <3>1
      <3> QED
        BY <1>0, <1>2, <1>5, <3>1, <3>2 DEF VerifyInv, TV
    <2>4. ASSUME stack' = <<"Loading">>
          PROVE  /\ \A i \in DOMAIN sent' : sent'[i].type = "TOKEN_VERIFY"
                 /\ NoneOf(received', Answers({"LOGIN", "REGISTER"}))
      <3>1. \A p : p \in Answers({"LOGIN", "REGISTER"}) => p \in Results
        BY DEF Answers, Results
      <3> QED
        BY <1>0, <1>5, <2>1, <2>4, <3>1 DEF VerifyInv
    <2> QED
      BY <2>2, <2>3, <2>4 DEF VerifyInv, TV
  <1>6. CASE /\ sent # << >> /\ sent' = Tail(sent)
             /\ \A i \in DOMAIN k : k[i] \in Results => i = Len(k) /\ k[i].to = Head(sent).type
    <2>1. /\ Head(sent) = sent[1] /\ 1 \in DOMAIN sent
          /\ \A i \in DOMAIN sent' : i \in Nat /\ i + 1 \in DOMAIN sent /\ sent'[i] = sent[i + 1]
      BY <1>0, <1>6, TailIndex
    <2>2. \A i \in DOMAIN sent' : i + 1 # 1
      <3>1. sent' \in Seq(GoodReq') /\ DOMAIN sent' = 1..Len(sent') /\ Len(sent') \in Nat
        BY <1>0, <1>6, TailIndex, LenProperties
      <3> QED
        BY <2>1, <3>1
    <2>3. \A i \in DOMAIN sent' : sent'[i].type # "TOKEN_VERIFY"
      BY <1>0, <2>1, <2>2 DEF VerifyInv
    <2>4. NoneOf(sent', Asks({"TOKEN_VERIFY"}))
      BY <2>3 DEF NoneOf, Asks
    <2>5. ASSUME NEW i \in DOMAIN received', received'[i] \in TV
          PROVE  /\ received'[i].ok => received'[i].token = file'
                 /\ Waiting'
                 /\ \A j \in DOMAIN received' : j < i => received'[j] \notin Results
      <3>1. CASE i \in DOMAIN received
        <4>1. \A j \in DOMAIN received' : j < i => j \in DOMAIN received
          BY <1>2, <3>1
        <4> QED
          BY <1>0, <1>2, <2>5, <3>1, <4>1 DEF VerifyInv, TV
      <3>2. ASSUME NEW n \in DOMAIN k, i = m + n
            PROVE  /\ received'[i].ok => received'[i].token = file'
                   /\ Waiting'
                   /\ \A j \in DOMAIN received' : j < i => received'[j] \notin Results
        <4>1. k[n] \in TV /\ received'[i] = k[n] /\ k[n] \in Results
          BY <1>2, <1>3, <2>5, <3>2
        <4>2. n = Len(k) /\ Head(sent).type = "TOKEN_VERIFY"
          BY <1>0, <1>4, <1>6, <4>1
        <4>3. Head(sent).token = file /\ Waiting /\ NoneOf(received, Results)
          BY <1>0, <2>1, <4>2 DEF VerifyInv
        <4>4. ASSUME received'[i].ok PROVE received'[i].token = file'
          <5>1. k[n] \in Signed
            BY <1>0, <4>1, <4>4 DEF Signed, TV, Answers
          <5>2. k[n].token = file
            BY <4>2, <4>3, <5>1 DEF ServerStep
          <5> QED
            BY <1>0, <4>1, <5>2
        <4>5. ASSUME NEW j \in DOMAIN received', j < i PROVE received'[j] \notin Results
          <5>1. CASE j \in DOMAIN received
            BY <1>2, <4>3, <5>1 DEF NoneOf
          <5>2. ASSUME NEW x \in DOMAIN k, j = m + x PROVE received'[j] \notin Results
            <6>1. x # Len(k)
              BY <1>2, <3>2, <4>2, <4>5, <5>2
            <6> QED
              BY <1>2, <1>6, <5>2, <6>1
          <5> QED
            BY <1>2, <5>1, <5>2
        <4> QED
          BY <1>0, <4>3, <4>4, <4>5
      <3> QED
        BY <1>2, <3>1, <3>2
    <2>6. ASSUME stack' = <<"Loading">>
          PROVE  /\ \A i \in DOMAIN sent' : sent'[i].type = "TOKEN_VERIFY"
                 /\ NoneOf(received', Answers({"LOGIN", "REGISTER"}))
      <3>1. /\ \A i \in DOMAIN sent : sent[i].type = "TOKEN_VERIFY"
            /\ NoneOf(received, Answers({"LOGIN", "REGISTER"}))
        BY <1>0, <2>6 DEF VerifyInv
      <3>2. Head(sent).type = "TOKEN_VERIFY"
        BY <2>1, <3>1
      <3>3. NoneOf(k, Answers({"LOGIN", "REGISTER"}))
        BY <1>0, <1>4, <1>6, <3>2 DEF NoneOf
      <3>4. NoneOf(received', Answers({"LOGIN", "REGISTER"}))
        BY <1>0, <3>1, <3>3, NoneConcat
      <3> QED
        BY <2>1, <3>1, <3>4
    <2> QED
      BY <2>3, <2>4, <2>5, <2>6 DEF VerifyInv, TV
  <1> QED
    BY <1>5, <1>6 DEF ServerStep

LEMMA ServerSession ==
    ASSUME CoreInv, NEW k, ServerStep(k)
    PROVE  SessionInv'
  <1>0. /\ Types /\ SessionInv /\ Grows /\ UNCHANGED token
        /\ received \in Seq(GoodPkt') /\ k \in Seq(GoodPkt') /\ received' = received \o k
        /\ \A i \in DOMAIN k : k[i] \in Pkt
    BY ServerTypes DEF CoreInv, ServerStep, appVars
  <1> DEFINE B == {p \in Pkt : owner'[p.token] = current_login'}
  <1> SUFFICES ASSUME current_login' # NoLogin
               PROVE  /\ LastOf(received', Signed, B)
                      /\ NoneOf(received', Signed) /\ token' # 0 => owner'[token'] = current_login'
    BY DEF SessionInv
  <1>1. CASE current_login' = current_login /\ NoneOf(k, Signed)
    <2>1. /\ LastOf(received, Signed, {p \in Pkt : owner[p.token] = current_login})
          /\ NoneOf(received, Signed) /\ token # 0 => owner[token] = current_login
      BY <1>0, <1>1 DEF SessionInv
    <2>2. token # 0 => owner'[token] = owner[token]
      <3>1. token # 0 => token \in DOMAIN owner
        BY <1>0, TableDomains DEF Types
      <3> QED
        BY <1>0, <3>1 DEF Grows
    <2>3. \A i \in DOMAIN received : received[i] \in Signed => owner'[received[i].token] = owner[received[i].token]
      <3> SUFFICES ASSUME NEW i \in DOMAIN received, received[i] \in Signed
                   PROVE  owner'[received[i].token] = owner[received[i].token]
        OBVIOUS
      <3>1. received[i] \in GoodPkt /\ received[i] \in Pkt
        BY <1>0, Elements
      <3>2. received[i].token \in Nat /\ received[i].token <= Len(owner) /\ received[i].token # 0
        BY <3>1 DEF GoodPkt, Pkt
      <3>3. received[i].token \in DOMAIN owner
        BY <1>0, <3>2, TableDomains
      <3> QED
        BY <1>0, <3>3 DEF Grows
    <2>4. \A i \in DOMAIN received : received[i] \in Pkt
      BY <1>0, Elements
    <2>5. LastOf(received, Signed, B)
      BY <1>1, <2>1, <2>3, <2>4 DEF LastOf
    <2> HIDE DEF B
    <2>6. LastOf(k, Signed, B)
      BY <1>1 DEF LastOf, NoneOf
    <2>7. LastOf(received', Signed, B)
      BY <1>0, <2>5, <2>6, LastConcat
    <2>8. NoneOf(received', Signed) => NoneOf(received, Signed)
      BY <1>0, NoneConcat
    <2> QED
      BY <1>0, <1>1, <2>1, <2>2, <2>7, <2>8
  <1>2. CASE /\ ~ NoneOf(k, Signed)
             /\ \A i \in DOMAIN k : k[i] \in Signed => owner'[k[i].token] = current_login'
    <2>1. LastOf(k, Signed, B)
      BY <1>0, <1>2, LastOfAll
    <2> HIDE DEF B
    <2>2. LastOf(received', Signed, B) /\ ~ NoneOf(received', Signed)
      BY <1>0, <1>2, <2>1, LastConcat, NoneConcat
    <2> QED
      BY <2>2
  <1> QED
    BY <1>1, <1>2 DEF ServerStep

LEMMA ServerTokens ==
    ASSUME CoreInv, NEW k, ServerStep(k)
    PROVE  TokensInv'
  <1>0. /\ Types /\ Screens /\ VerifyInv /\ TokensInv /\ UNCHANGED <<token, page>>
        /\ received \in Seq(GoodPkt') /\ k \in Seq(GoodPkt') /\ received' = received \o k
        /\ \A i \in DOMAIN k : k[i] \in Pkt
    BY ServerTypes DEF CoreInv, ServerStep, appVars
  <1> DEFINE m == Len(received)
  <1>1. /\ m \in Nat /\ DOMAIN received = 1..m /\ DOMAIN k = 1..Len(k) /\ Len(k) \in Nat
        /\ \A i \in DOMAIN received : i \in DOMAIN received' /\ received'[i] = received[i]
        /\ \A i \in DOMAIN k : m + i \in DOMAIN received' /\ received'[m + i] = k[i]
        /\ \A i \in DOMAIN received' : i \in DOMAIN received \/ \E j \in DOMAIN k : i = m + j
    BY <1>0, ConcatIndex
  <1> HIDE DEF m
  <1>2. \A p : p \in Signed => p \in Results
    BY DEF Signed, Results
  <1>3. \A i, j \in DOMAIN k : k[i] \in Signed /\ k[j] \in Signed => i = j
    BY <1>2 DEF ServerStep, NoneOf
  \* A token in k is above all that the client has or will have by then.
  <1>4. ASSUME NEW n \in DOMAIN k, k[n] \in Signed
        PROVE  /\ token < k[n].token /\ page.token < k[n].token
               /\ \A i \in DOMAIN received : received[i] \in Signed => received[i].token < k[n].token
    <2>1. /\ token \in 0..Len(owner) /\ page.token \in 0..Len(owner) /\ Len(owner) \in Nat
          /\ k[n].token \in Nat
      BY <1>0, TableDomains DEF Types, Pkt
    <2>2. CASE Head(sent).type = "TOKEN_VERIFY"
      <3>1. /\ sent # << >> /\ k[n].token = Head(sent).token
        BY <1>2, <1>4, <2>2 DEF ServerStep, NoneOf
      <3>2. 1 \in DOMAIN sent /\ Head(sent) = sent[1]
        BY <1>0, <3>1, TailIndex DEF Types
      <3>3. k[n].token = file /\ Waiting /\ NoneOf(received, Results)
        BY <1>0, <2>2, <3>1, <3>2 DEF VerifyInv
      <3>4. token = 0 /\ page = NoPage /\ file # 0
        BY <1>0, <3>3 DEF Waiting, Screens
      <3>5. page.token = 0
        BY <3>4 DEF NoPage
      <3> QED
        BY <1>2, <2>1, <3>3, <3>4, <3>5 DEF NoneOf
    <2>3. CASE Head(sent).type # "TOKEN_VERIFY"
      <3>1. k[n].token > Len(owner)
        BY <1>4, <2>3 DEF ServerStep
      <3>2. \A i \in DOMAIN received : received[i].token \in Nat /\ received[i].token <= Len(owner)
        BY <1>0, Elements DEF GoodPkt, Pkt
      <3>3. \A x \in Nat : x <= Len(owner) => x < k[n].token
        BY <2>1, <3>1
      <3> QED
        BY <2>1, <3>2, <3>3
    <2> QED
      BY <2>2, <2>3
  <1>5. ASSUME NEW i \in DOMAIN received', received'[i] \in Signed
        PROVE  /\ token < received'[i].token /\ page.token < received'[i].token
               /\ \A j \in DOMAIN received' : j > i /\ received'[j] \in Signed =>
                     received'[i].token < received'[j].token
    <2>1. CASE i \in DOMAIN received
      <3>1. received[i] \in Signed
        BY <1>1, <1>5, <2>1
      <3>2. /\ token < received[i].token /\ page.token < received[i].token
            /\ \A j \in DOMAIN received : j > i /\ received[j] \in Signed =>
                  received[i].token < received[j].token
        BY <1>0, <2>1, <3>1 DEF TokensInv
      <3> QED
        BY <1>1, <1>4, <2>1, <3>1, <3>2
    <2>2. ASSUME NEW n \in DOMAIN k, i = m + n
          PROVE  /\ token < received'[i].token /\ page.token < received'[i].token
                 /\ \A j \in DOMAIN received' : j > i => received'[j] \notin Signed
      <3>1. k[n] \in Signed /\ received'[i] = k[n]
        BY <1>1, <1>5, <2>2
      <3>2. ASSUME NEW j \in DOMAIN received', j > i PROVE received'[j] \notin Signed
        <4>1. j \notin DOMAIN received
          BY <1>1, <2>2, <3>2
        <4>2. PICK x \in DOMAIN k : j = m + x
          BY <1>1, <4>1
        <4>3. x # n
          BY <1>1, <2>2, <3>2, <4>2
        <4> QED
          BY <1>1, <1>3, <3>1, <4>2, <4>3
      <3> QED
        BY <1>4, <3>1, <3>2
    <2> QED
      BY <1>1, <2>1, <2>2
  <1> QED
    BY <1>0, <1>5 DEF TokensInv

LEMMA ServerSent ==
    ASSUME CoreInv, NEW k, ServerStep(k)
    PROVE  SentInv'
  <1>0. Types /\ SentInv /\ UNCHANGED <<token, stack, page>> /\ (Chat' <=> Chat)
    BY DEF CoreInv, ServerStep, appVars, Chat
  <1>1. CASE sent' = sent
    BY <1>0, <1>1 DEF SentInv
  <1>2. CASE sent # << >> /\ sent' = Tail(sent)
    <2>1. sent \in Seq(GoodReq)
      BY <1>0 DEF Types
    <2> DEFINE B == {r \in Req : r.token = page.token /\ r.peer = page.peer}
    <2>2. Followed(sent', Asks({"FRIEND_ACCEPT", "FRIEND_REJECT"}), Asks({"FRIEND_LIST"}))
      BY <1>0, <1>2, <2>1, FollowedTail DEF SentInv
    <2>3. token # 0 => /\ LastOf(sent', Asks({"FRIEND_LIST"}), WithToken(token))
                       /\ LastOf(sent', Asks({"CHAT_LIST"}), WithToken(token))
      <3>1. token # 0 => /\ LastOf(sent, Asks({"FRIEND_LIST"}), WithToken(token))
                         /\ LastOf(sent, Asks({"CHAT_LIST"}), WithToken(token))
        BY <1>0 DEF SentInv, WithToken
      <3> QED
        BY <1>2, <2>1, <3>1, LastTail
    <2>4. stack = <<"Main">> => Followed(sent', Asks({"DIRECT_MESSAGE"}), Asks({"CHAT_LIST"}))
      BY <1>0, <1>2, <2>1, FollowedTail DEF SentInv
    <2>5. Chat => LastOf(sent', Asks({"MESSAGE_HISTORY"}), B)
      <3>1. Chat => LastOf(sent, Asks({"MESSAGE_HISTORY"}), B)
        BY <1>0 DEF SentInv
      <3> HIDE DEF B
      <3> QED
        BY <1>2, <2>1, <3>1, LastTail
    <2> QED
      BY <1>0, <2>2, <2>3, <2>4, <2>5 DEF SentInv, WithToken
  <1> QED
    BY <1>1, <1>2 DEF ServerStep

LEMMA ServerCore ==
    ASSUME CoreInv, NEW k, ServerStep(k)
    PROVE  CoreInv'
  BY ServerTypes, ServerVerify, ServerSession, ServerTokens, ServerSent DEF CoreInv

-----------------------------------------------------------------------------
(***************************************************************************)
(* Steps that change the token or the screens.                             *)
(***************************************************************************)

\* When no TOKEN_VERIFY and no answer to one is under way there is nothing to say.
LEMMA NoVerify ==
    ASSUME Types', NoneOf(sent', Asks({"TOKEN_VERIFY"})),
           NoneOf(received', Answers({"TOKEN_VERIFY"})), stack' # <<"Loading">>
    PROVE  VerifyInv'
  <1>1. \A i \in DOMAIN sent' : sent'[i] \in Req
    <2>1. sent' \in Seq(GoodReq') /\ DOMAIN sent' = 1..Len(sent')
      BY LenProperties DEF Types
    <2>2. \A i \in DOMAIN sent' : sent'[i] \in GoodReq'
      BY <2>1, ElementOfSeq
    <2> QED
      BY <2>2 DEF GoodReq
  <1>2. \A i \in DOMAIN sent' : sent'[i].type # "TOKEN_VERIFY"
    BY <1>1 DEF NoneOf, Asks
  <1> QED
    BY <1>2 DEF VerifyInv, NoneOf

\* A client that does not wait has no TOKEN_VERIFY under way, and one that takes a
\* RESULT takes the answer to TOKEN_VERIFY first.
LEMMA VerifyGone ==
    ASSUME CoreInv
    PROVE  /\ ~ Waiting => /\ NoneOf(sent, Asks({"TOKEN_VERIFY"}))
                           /\ NoneOf(received, Answers({"TOKEN_VERIFY"}))
           /\ received # << >> /\ Head(received) \in Results =>
                 /\ NoneOf(sent, Asks({"TOKEN_VERIFY"}))
                 /\ NoneOf(Tail(received), Answers({"TOKEN_VERIFY"}))
  <1>0. VerifyInv /\ Types
    BY DEF CoreInv
  <1>1. ~ Waiting => /\ NoneOf(sent, Asks({"TOKEN_VERIFY"}))
                     /\ NoneOf(received, Answers({"TOKEN_VERIFY"}))
    BY <1>0 DEF VerifyInv, NoneOf, Asks
  <1>2. ASSUME received # << >>, Head(received) \in Results
        PROVE  /\ NoneOf(sent, Asks({"TOKEN_VERIFY"}))
               /\ NoneOf(Tail(received), Answers({"TOKEN_VERIFY"}))
    <2>1. /\ 1 \in DOMAIN received /\ Head(received) = received[1]
          /\ \A i \in DOMAIN Tail(received) :
                i \in Nat /\ i + 1 \in DOMAIN received /\ Tail(received)[i] = received[i + 1]
          /\ Tail(received) \in Seq(GoodPkt)
      BY <1>0, <1>2, TailIndex DEF Types
    <2>2. NoneOf(sent, Asks({"TOKEN_VERIFY"}))
      BY <1>0, <1>2, <2>1 DEF VerifyInv, NoneOf, Asks
    <2>3. \A i \in DOMAIN Tail(received) : 1 < i + 1
      <3>1. DOMAIN Tail(received) = 1..Len(Tail(received)) /\ Len(Tail(received)) \in Nat
        BY <2>1, LenProperties
      <3> QED
        BY <3>1
    <2>4. NoneOf(Tail(received), Answers({"TOKEN_VERIFY"}))
      BY <1>0, <1>2, <2>1, <2>3 DEF VerifyInv, NoneOf
    <2> QED
      BY <2>2, <2>4
  <1> QED
    BY <1>1, <1>2

\* The requests with which the pages of MainScreen load what they show.
LEMMA PageLoadsFacts ==
    ASSUME Types, NEW t \in 1..Len(owner), NEW q \in PageLoads(t)
    PROVE  /\ q \in Seq(GoodReq)
           /\ \A i \in DOMAIN q : q[i].type \in {"FRIEND_LIST", "CHAT_LIST"} /\ q[i].token = t
           /\ ~ NoneOf(q, Asks({"FRIEND_LIST"})) /\ ~ NoneOf(q, Asks({"CHAT_LIST"}))
  <1> DEFINE f == Request("FRIEND_LIST", t, NoPeer)
             c == Request("CHAT_LIST", t, NoPeer)
  <1>1. t \in Nat /\ t <= Len(owner)
    BY TableDomains
  <1>2. /\ f \in Req /\ f.type = "FRIEND_LIST" /\ f.token = t
        /\ c \in Req /\ c.type = "CHAT_LIST" /\ c.token = t
    BY <1>1, RequestIsReq, TypesOfPackets
  <1>3. f \in GoodReq /\ c \in GoodReq
    BY <1>1, <1>2 DEF GoodReq
  <1> HIDE DEF f, c
  <1>4. q = <<f>> \o (<<c>> \o <<f>>) \/ q = (<<c>> \o <<f>>) \o <<f>>
    BY DEF PageLoads, getFriendList, getLastMessages, f, c
  <1>5. <<f>> \in Seq({f, c}) /\ <<c>> \in Seq({f, c})
    OBVIOUS
  <1>6. <<c>> \o <<f>> \in Seq({f, c}) /\ q \in Seq({f, c})
    BY <1>4, <1>5, ConcatProperties
  <1>7. q \in Seq(GoodReq) /\ \A i \in DOMAIN q : q[i] \in {f, c}
    <2>1. {f, c} \subseteq GoodReq
      BY <1>3
    <2> QED
      BY <1>6, <2>1, SeqMono, ElementOfSeq, LenProperties
  <1>8. f \in Asks({"FRIEND_LIST"}) /\ c \in Asks({"CHAT_LIST"})
    BY <1>2 DEF Asks
  <1>9. ASSUME NEW A, f \in A \/ c \in A PROVE ~ NoneOf(q, A)
    <2>1. ~ (NoneOf(<<f>>, A) /\ NoneOf(<<c>>, A))
      BY <1>9, SingleFacts
    <2>2. NoneOf(<<c>> \o <<f>>, A) <=> NoneOf(<<c>>, A) /\ NoneOf(<<f>>, A)
      BY <1>5, NoneConcat
    <2>3. CASE q = <<f>> \o (<<c>> \o <<f>>)
      BY <1>5, <1>6, <2>1, <2>2, <2>3, NoneConcat
    <2>4. CASE q = (<<c>> \o <<f>>) \o <<f>>
      BY <1>5, <1>6, <2>1, <2>2, <2>4, NoneConcat
    <2> QED
      BY <1>4, <2>3, <2>4
  <1> QED
    BY <1>2, <1>7, <1>8, <1>9

\* Requests for the lists with the new token, after which the lists and what is sent
\* are again those of this token.
LEMMA LoadsSent ==
    ASSUME Types, NEW t \in 1..Len(owner), NEW q \in PageLoads(t), connected, Sends(q)
    PROVE  /\ sent' \in Seq(GoodReq) /\ sent' = sent \o q
           /\ Followed(sent', Asks({"FRIEND_ACCEPT", "FRIEND_REJECT"}), Asks({"FRIEND_LIST"}))
           /\ LastOf(sent', Asks({"FRIEND_LIST"}), WithToken(t))
           /\ LastOf(sent', Asks({"CHAT_LIST"}), WithToken(t))
           /\ Followed(sent', Asks({"DIRECT_MESSAGE"}), Asks({"CHAT_LIST"}))
           /\ NoneOf(q, Asks({"MESSAGE_HISTORY"})) /\ NoneOf(q, Asks({"TOKEN_VERIFY"}))
           /\ ~ NoneOf(sent', Asks({"FRIEND_LIST"})) /\ ~ NoneOf(sent', Asks({"CHAT_LIST"}))
  <1>1. /\ q \in Seq(GoodReq)
        /\ \A i \in DOMAIN q : q[i].type \in {"FRIEND_LIST", "CHAT_LIST"} /\ q[i].token = t
        /\ ~ NoneOf(q, Asks({"FRIEND_LIST"})) /\ ~ NoneOf(q, Asks({"CHAT_LIST"}))
    BY PageLoadsFacts
  <1>2. \A i \in DOMAIN q : q[i] \in Req
    BY <1>1, LenProperties, ElementOfSeq DEF GoodReq
  <1>3. sent \in Seq(GoodReq) /\ sent' = sent \o q /\ sent' \in Seq(GoodReq)
    BY <1>1, SentAfter DEF Types
  <1>4. /\ Followed(q, Asks({"FRIEND_ACCEPT", "FRIEND_REJECT"}), Asks({"FRIEND_LIST"}))
        /\ Followed(q, Asks({"DIRECT_MESSAGE"}), Asks({"CHAT_LIST"}))
        /\ NoneOf(q, Asks({"MESSAGE_HISTORY"})) /\ NoneOf(q, Asks({"TOKEN_VERIFY"}))
    BY <1>1 DEF Followed, NoneOf, Asks
  <1>5. /\ LastOf(q, Asks({"FRIEND_LIST"}), WithToken(t))
        /\ LastOf(q, Asks({"CHAT_LIST"}), WithToken(t))
    BY <1>1, <1>2 DEF LastOf, WithToken
  <1>6. /\ LastOf(sent', Asks({"FRIEND_LIST"}), WithToken(t))
        /\ LastOf(sent', Asks({"CHAT_LIST"}), WithToken(t))
    BY <1>1, <1>3, <1>5, LastConcat
  <1>7. /\ Followed(sent', Asks({"FRIEND_ACCEPT", "FRIEND_REJECT"}), Asks({"FRIEND_LIST"}))
        /\ Followed(sent', Asks({"DIRECT_MESSAGE"}), Asks({"CHAT_LIST"}))
    BY <1>1, <1>3, <1>4, FollowedConcat
  <1>8. ~ NoneOf(sent', Asks({"FRIEND_LIST"})) /\ ~ NoneOf(sent', Asks({"CHAT_LIST"}))
    BY <1>1, <1>3, NoneConcat
  <1> QED
    BY <1>3, <1>4, <1>6, <1>7, <1>8

\* The answer to a login, or a TOKEN_VERIFY that succeeds, is taken.
SignStep(t, q) ==
    /\ received # << >> /\ received' = Tail(received)
    /\ Head(received) \in Signed /\ Head(received).token = t
    /\ q \in PageLoads(t) /\ Sends(q)
    /\ token' = t /\ file' = t /\ tokenCheckTimer' = FALSE
    /\ \/ stack' = <<"Main">> /\ page' = NoPage /\ lists' = NoLists
       \/ Main /\ UNCHANGED <<stack, page, lists>>
    /\ UNCHANGED serverVars

LEMMA SignTypes ==
    ASSUME CoreInv, NEW t, NEW q, SignStep(t, q)
    PROVE  /\ t \in 1..Len(owner) /\ t # 0 /\ q \in Seq(GoodReq)
           /\ received \in Seq(GoodPkt) /\ Tail(received) \in Seq(GoodPkt)
           /\ Types' /\ Screens'
  <1>0. Types /\ Screens
    BY DEF CoreInv
  <1>1. Head(received) \in GoodPkt /\ Head(received) \in Pkt /\ Tail(received) \in Seq(GoodPkt)
    BY <1>0, HeadOfReceived DEF SignStep
  <1>2. t \in 1..Len(owner) /\ t # 0
    <2>1. t \in Nat /\ t <= Len(owner) /\ t # 0
      BY <1>1 DEF SignStep, GoodPkt, Pkt
    <2> QED
      BY <1>0, <2>1, TableDomains
  <1>3. q \in Seq(GoodReq)
    BY <1>0, <1>2, PageLoadsFacts DEF SignStep
  <1>4. /\ sent' \in Seq(GoodReq) /\ connected' = connected /\ (~ connected' => sent' = << >>)
    BY <1>0, <1>3, SentAfter DEF SignStep
  <1>5. GoodReq' = GoodReq /\ GoodPkt' = GoodPkt
    BY DEF SignStep, serverVars, GoodReq, GoodPkt
  <1>6. page' \in [peer: Peer \cup {NoPeer}, shown: SUBSET DOMAIN mail, token: 0..Len(owner)]
    <2>1. 0 \in 0..Len(owner)
      BY <1>0, TableDomains
    <2> QED
      BY <1>0, <2>1 DEF SignStep, Types, NoPage
  <1>7. token' \in 0..Len(owner) /\ file' \in 0..Len(owner) /\ token' # 0
    BY <1>2 DEF SignStep
  <1>8. Types'
    <2>1. lists' \in Lists /\ Lists' = Lists
      BY <1>0, NoListsTyped DEF SignStep, Types, serverVars, Lists
    <2> QED
      BY <1>0, <1>1, <1>4, <1>5, <1>6, <1>7, <2>1 DEF SignStep, serverVars, Types
  <1>9. Screens'
    <2>1. CASE stack' = <<"Main">> /\ page' = NoPage
      BY <1>7, <2>1 DEF Screens, SignStep, NoPage
    <2>2. CASE Main /\ UNCHANGED <<stack, page, lists>>
      BY <1>0, <1>7, <2>2 DEF Screens, SignStep, Main
    <2> QED
      BY <2>1, <2>2 DEF SignStep
  <1> QED
    BY <1>0, <1>1, <1>2, <1>3, <1>8, <1>9 DEF Types

LEMMA SignCore ==
    ASSUME CoreInv, NEW t, NEW q, SignStep(t, q)
    PROVE  CoreInv'
  <1>0. /\ Types /\ Screens /\ SessionInv /\ TokensInv /\ SentInv
        /\ t \in 1..Len(owner) /\ q \in Seq(GoodReq) /\ q \in PageLoads(t) /\ Sends(q)
        /\ received \in Seq(GoodPkt) /\ Tail(received) \in Seq(GoodPkt) /\ received # << >>
        /\ received' = Tail(received) /\ Head(received) \in Signed /\ Head(received).token = t
        /\ token' = t /\ UNCHANGED serverVars /\ Types' /\ Screens' /\ t # 0
    BY SignTypes DEF CoreInv, SignStep
  <1>1. VerifyInv'
    <2>1. Head(received) \in Results
      BY <1>0 DEF Signed, Results
    <2>2. NoneOf(sent, Asks({"TOKEN_VERIFY"})) /\ NoneOf(received', Answers({"TOKEN_VERIFY"}))
      BY <1>0, <2>1, VerifyGone
    <2>3. \A i \in DOMAIN q : q[i].type \in {"FRIEND_LIST", "CHAT_LIST"}
      BY <1>0, PageLoadsFacts
    <2>4. NoneOf(q, Asks({"TOKEN_VERIFY"}))
      BY <2>3 DEF NoneOf, Asks
    <2>5. NoneOf(sent', Asks({"TOKEN_VERIFY"}))
      BY <1>0, <2>2, <2>4, SentElement
    <2>6. stack' # <<"Loading">>
      BY <1>0 DEF SignStep, Main
    <2> QED
      BY <1>0, <2>2, <2>5, <2>6, NoVerify
  <1>2. SessionInv'
    <2>1. UNCHANGED <<current_login, owner>>
      BY <1>0 DEF serverVars
    <2> DEFINE B == {p \in Pkt : owner[p.token] = current_login}
    <2>2. ASSUME current_login # NoLogin
          PROVE  /\ LastOf(received', Signed, B)
                 /\ NoneOf(received', Signed) => owner[t] = current_login
      <3>1. LastOf(received, Signed, B)
        BY <1>0, <2>2 DEF SessionInv
      <3>2. Head(received) \in B => owner[t] = current_login
        BY <1>0
      <3> HIDE DEF B
      <3> QED
        BY <1>0, <3>1, <3>2, LastTail
    <2> QED
      BY <1>0, <2>1, <2>2 DEF SessionInv
  <1>3. TokensInv'
    <2>1. /\ \A j \in DOMAIN received' : j \in Nat /\ j + 1 \in DOMAIN received
                                         /\ received'[j] = received[j + 1]
          /\ 1 \in DOMAIN received /\ received[1] = Head(received)
      BY <1>0, TailIndex
    <2>2. \A i, j \in DOMAIN received' : j > i => j + 1 > i + 1
      BY <2>1
    <2>3. DOMAIN received' = 1..Len(received') /\ Len(received') \in Nat
      BY <1>0, LenProperties
    <2>4. \A i \in DOMAIN received' : i + 1 > 1
      BY <2>3
    <2>5. \A i \in DOMAIN received' : received'[i] \in Signed => t < received'[i].token
      BY <1>0, <2>1, <2>4 DEF TokensInv
    <2>6. \A i \in DOMAIN received' : received'[i] \in Signed => page'.token < received'[i].token
      <3>1. CASE page' = NoPage
        <4>1. page'.token = 0 /\ t \in Nat
          BY <1>0, <3>1, TableDomains DEF NoPage
        <4>2. \A i \in DOMAIN received' : received'[i].token \in Nat
          BY <1>0, <2>1, Elements DEF Pkt
        <4>3. \A i \in DOMAIN received' : received'[i] \in Signed => 0 < received'[i].token
          BY <2>5, <4>1, <4>2
        <4> QED
          BY <4>1, <4>3
      <3>2. CASE page' = page
        BY <1>0, <2>1, <3>2 DEF TokensInv
      <3> QED
        BY <3>1, <3>2 DEF SignStep
    <2> QED
      BY <1>0, <2>1, <2>2, <2>5, <2>6 DEF TokensInv
  <1>4. SentInv'
    <2>1. CASE ~ connected
      <3>1. sent' = << >>
        BY <1>0, <2>1, SentAfter
      <3> QED
        BY <3>1, EmptyFacts DEF SentInv
    <2>2. CASE connected
      <3>1. /\ sent' = sent \o q /\ sent \in Seq(GoodReq)
            /\ Followed(sent', Asks({"FRIEND_ACCEPT", "FRIEND_REJECT"}), Asks({"FRIEND_LIST"}))
            /\ LastOf(sent', Asks({"FRIEND_LIST"}), WithToken(t))
            /\ LastOf(sent', Asks({"CHAT_LIST"}), WithToken(t))
            /\ Followed(sent', Asks({"DIRECT_MESSAGE"}), Asks({"CHAT_LIST"}))
            /\ NoneOf(q, Asks({"MESSAGE_HISTORY"}))
        BY <1>0, <2>2, LoadsSent DEF Types
      <3>2. ASSUME Chat'
            PROVE  LastOf(sent', Asks({"MESSAGE_HISTORY"}),
                          {r \in Req : r.token = page'.token /\ r.peer = page'.peer})
        <4> DEFINE B == {r \in Req : r.token = page.token /\ r.peer = page.peer}
        <4>1. Chat /\ page' = page
          BY <3>2 DEF SignStep, Chat
        <4>2. LastOf(sent, Asks({"MESSAGE_HISTORY"}), B)
          BY <1>0, <4>1 DEF SentInv
        <4> HIDE DEF B
        <4>3. LastOf(q, Asks({"MESSAGE_HISTORY"}), B)
          BY <3>1 DEF NoneOf, LastOf
        <4>4. LastOf(sent', Asks({"MESSAGE_HISTORY"}), B)
          BY <1>0, <3>1, <4>2, <4>3, LastConcat
        <4> QED
          BY <4>1, <4>4 DEF B
      <3> QED
        BY <1>0, <3>1, <3>2 DEF SentInv, WithToken
    <2> QED
      BY <2>1, <2>2 DEF CoreInv, Types
  <1> QED
    BY <1>0, <1>1, <1>2, <1>3, <1>4 DEF CoreInv

\* The login screen is shown: after a logout, a TOKEN_VERIFY that fails, or the timer.
AuthStep(q) ==
    /\ q \in Seq(GoodReq) /\ Sends(q)
    /\ NoneOf(q, Asks({"TOKEN_VERIFY"})) /\ NoneOf(q, Asks({"FRIEND_ACCEPT", "FRIEND_REJECT"}))
    /\ \/ UNCHANGED received
       \/ received # << >> /\ received' = Tail(received) /\ Head(received) \notin Signed
    /\ stack' = <<"Auth">> /\ token' = 0 /\ page' = NoPage /\ lists' = NoLists
    /\ tokenCheckTimer' = FALSE /\ file' \in {0, file}
    /\ \/ NoneOf(sent, Asks({"TOKEN_VERIFY"})) /\ NoneOf(received', Answers({"TOKEN_VERIFY"}))
       \/ UNCHANGED <<token, file, received, sent>>
    /\ UNCHANGED serverVars

LEMMA AuthCore ==
    ASSUME CoreInv, NEW q, AuthStep(q)
    PROVE  CoreInv'
  <1>0. /\ Types /\ VerifyInv /\ SessionInv /\ TokensInv /\ SentInv /\ received \in Seq(GoodPkt)
        /\ q \in Seq(GoodReq) /\ Sends(q) /\ token' = 0 /\ UNCHANGED serverVars /\ stack' = <<"Auth">>
    BY DEF CoreInv, AuthStep, Types
  <1>1. /\ sent' \in Seq(GoodReq) /\ connected' = connected /\ (~ connected' => sent' = << >>)
    BY <1>0, SentAfter
  <1>2. received' \in Seq(GoodPkt) /\ (\A A : NoneOf(received, A) => NoneOf(received', A))
    <2>1. CASE UNCHANGED received
      BY <1>0, <2>1 DEF NoneOf
    <2>2. CASE received # << >> /\ received' = Tail(received)
      BY <1>0, <2>2, HeadOfReceived, NoneTail
    <2> QED
      BY <2>1, <2>2 DEF AuthStep
  <1>3. GoodReq' = GoodReq /\ GoodPkt' = GoodPkt
    BY <1>0 DEF serverVars, GoodReq, GoodPkt
  <1>4. 0 \in 0..Len(owner) /\ page' \in [peer: Peer \cup {NoPeer}, shown: SUBSET DOMAIN mail, token: 0..Len(owner)]
    <2>1. 0 \in 0..Len(owner)
      BY <1>0, TableDomains
    <2> QED
      BY <2>1 DEF AuthStep, NoPage
  <1>5. Types'
    <2>1. lists' \in Lists /\ Lists' = Lists
      BY <1>0, NoListsTyped DEF AuthStep, serverVars, Lists
    <2> QED
      BY <1>0, <1>1, <1>2, <1>3, <1>4, <2>1 DEF AuthStep, serverVars, Types
  <1>6. Screens'
    BY DEF AuthStep, Screens, NoPage
  <1>7. VerifyInv'
    <2>1. CASE NoneOf(sent, Asks({"TOKEN_VERIFY"})) /\ NoneOf(received', Answers({"TOKEN_VERIFY"}))
      <3>1. NoneOf(sent', Asks({"TOKEN_VERIFY"}))
        BY <1>0, <2>1, SentElement DEF AuthStep
      <3>2. stack' # <<"Loading">>
        BY <1>0
      <3> QED
        BY <1>5, <2>1, <3>1, <3>2, NoVerify
    <2>2. CASE UNCHANGED <<token, file, received, sent>>
      <3>1. Waiting => Waiting'
        BY <1>0, <2>2 DEF Waiting
      <3>2. stack' # <<"Loading">>
        BY <1>0
      <3> QED
        BY <1>0, <2>2, <3>1, <3>2 DEF VerifyInv
    <2> QED
      BY <2>1, <2>2 DEF AuthStep
  <1>8. SessionInv'
    <2> DEFINE B == {p \in Pkt : owner[p.token] = current_login}
    <2>1. UNCHANGED <<owner, current_login>>
      BY <1>0 DEF serverVars
    <2>2. current_login # NoLogin => LastOf(received, Signed, B)
      BY <1>0 DEF SessionInv
    <2> HIDE DEF B
    <2>3. current_login # NoLogin => LastOf(received', Signed, B)
      BY <1>0, <2>2, LastTail DEF AuthStep
    <2> QED
      BY <1>0, <2>1, <2>3 DEF SessionInv, B
  <1>9. TokensInv'
    <2>1. page'.token = 0
      BY DEF AuthStep, NoPage
    <2>2. CASE UNCHANGED received
      <3>1. \A i \in DOMAIN received : received[i] \in Signed => 0 < received[i].token
        BY <1>0, SignedTokens
      <3> QED
        BY <1>0, <2>1, <2>2, <3>1 DEF TokensInv
    <2>3. CASE received # << >> /\ received' = Tail(received)
      <3>1. \A j \in DOMAIN received' : j \in Nat /\ j + 1 \in DOMAIN received
                                        /\ received'[j] = received[j + 1]
        BY <1>0, <2>3, TailIndex
      <3>2. \A i, j \in DOMAIN received' : j > i => j + 1 > i + 1
        BY <3>1
      <3>3. \A i \in DOMAIN received' : received'[i] \in Signed => 0 < received'[i].token
        BY <1>0, <3>1, SignedTokens
      <3> QED
        BY <1>0, <2>1, <3>1, <3>2, <3>3 DEF TokensInv
    <2> QED
      BY <2>2, <2>3 DEF AuthStep
  <1>10. SentInv'
    <2>1. Followed(sent', Asks({"FRIEND_ACCEPT", "FRIEND_REJECT"}), Asks({"FRIEND_LIST"}))
      <3>1. CASE ~ connected
        <4>1. sent' = << >>
          BY <1>0, <3>1, SentAfter
        <4> QED
          BY <4>1, EmptyFacts
      <3>2. CASE connected
        <4>1. sent' = sent \o q /\ sent \in Seq(GoodReq)
          BY <1>0, <3>2, SentAfter DEF Types
        <4>2. Followed(q, Asks({"FRIEND_ACCEPT", "FRIEND_REJECT"}), Asks({"FRIEND_LIST"}))
          BY DEF AuthStep, NoneOf, Followed
        <4> QED
          BY <1>0, <4>1, <4>2, FollowedConcat DEF SentInv
      <3> QED
        BY <3>1, <3>2
    <2>2. ~ Chat' /\ stack' # <<"Main">>
      BY <1>0 DEF Chat
    <2> QED
      BY <1>0, <2>1, <2>2 DEF SentInv
  <1> QED
    BY <1>5, <1>6, <1>7, <1>8, <1>9, <1>10 DEF CoreInv

\* A chat is opened or closed.
ChatStep(q) ==
    /\ q \in Seq(GoodReq) /\ Sends(q)
    /\ NoneOf(q, Asks({"TOKEN_VERIFY"})) /\ NoneOf(q, Asks({"FRIEND_ACCEPT", "FRIEND_REJECT"}))
    /\ NoneOf(q, Asks({"FRIEND_LIST"})) /\ LastOf(q, Asks({"CHAT_LIST"}), WithToken(token))
    /\ \/ /\ stack' = <<"Main", "Chat">> /\ page' \in [peer: Peer, shown: {{}}, token: {token}]
          /\ LastOf(q, Asks({"MESSAGE_HISTORY"}),
                    {r \in Req : r.token = page'.token /\ r.peer = page'.peer})
          /\ ~ NoneOf(q, Asks({"MESSAGE_HISTORY"}))
       \/ /\ stack' = <<"Main">> /\ page' = NoPage
          /\ NoneOf(q, Asks({"DIRECT_MESSAGE"})) /\ ~ NoneOf(q, Asks({"CHAT_LIST"}))
    /\ Main /\ UNCHANGED <<received, token, file, tokenCheckTimer, lists, serverVars>>

LEMMA ChatCore ==
    ASSUME CoreInv, NEW q, ChatStep(q)
    PROVE  CoreInv'
  <1>0. /\ Types /\ Screens /\ SessionInv /\ TokensInv /\ SentInv
        /\ q \in Seq(GoodReq) /\ Sends(q) /\ Main /\ token # 0
        /\ UNCHANGED <<received, token, file, tokenCheckTimer, serverVars>>
    BY ScreenFacts DEF CoreInv, ChatStep
  <1>1. /\ sent' \in Seq(GoodReq) /\ connected' = connected /\ (~ connected' => sent' = << >>)
    BY <1>0, SentAfter
  <1>2. GoodReq' = GoodReq /\ GoodPkt' = GoodPkt
    BY <1>0 DEF serverVars, GoodReq, GoodPkt
  <1>3. /\ page' \in [peer: Peer \cup {NoPeer}, shown: SUBSET DOMAIN mail, token: 0..Len(owner)]
        /\ page'.token = token \/ page'.token = 0
    <2>1. 0 \in 0..Len(owner) /\ token \in 0..Len(owner)
      BY <1>0, TableDomains DEF Types
    <2> QED
      BY <2>1 DEF ChatStep, NoPage
  <1>4. Types'
    <2>1. lists' \in Lists /\ Lists' = Lists
      BY <1>0 DEF ChatStep, serverVars, Lists, Types
    <2> QED
      BY <1>0, <1>1, <1>2, <1>3, <2>1 DEF serverVars, Types
  <1>5. Screens'
    BY <1>0 DEF ChatStep, Screens, NoPage, Main
  <1>6. VerifyInv'
    <2>1. ~ Waiting /\ stack' # <<"Loading">>
      BY <1>0, ScreenFacts DEF ChatStep
    <2>2. NoneOf(sent, Asks({"TOKEN_VERIFY"})) /\ NoneOf(received', Answers({"TOKEN_VERIFY"}))
      BY <1>0, <2>1, VerifyGone
    <2>3. NoneOf(sent', Asks({"TOKEN_VERIFY"}))
      BY <1>0, <2>2, SentElement DEF ChatStep
    <2> QED
      BY <1>4, <2>1, <2>2, <2>3, NoVerify
  <1>7. SessionInv'
    BY <1>0 DEF SessionInv, serverVars
  <1>8. TokensInv'
    <2>1. \A i \in DOMAIN received : received[i] \in Signed => 0 < received[i].token
      BY <1>0, SignedTokens
    <2> QED
      BY <1>0, <1>3, <2>1 DEF TokensInv
  <1>9. SentInv'
    <2>1. CASE ~ connected
      <3>1. sent' = << >>
        BY <1>0, <2>1, SentAfter
      <3> QED
        BY <3>1, EmptyFacts DEF SentInv
    <2>2. CASE connected
      <3>1. sent' = sent \o q /\ sent \in Seq(GoodReq)
        BY <1>0, <2>2, SentAfter DEF Types
      <3>2. Followed(q, Asks({"FRIEND_ACCEPT", "FRIEND_REJECT"}), Asks({"FRIEND_LIST"}))
        BY DEF ChatStep, NoneOf, Followed
      <3>3. Followed(sent', Asks({"FRIEND_ACCEPT", "FRIEND_REJECT"}), Asks({"FRIEND_LIST"}))
        BY <1>0, <3>1, <3>2, FollowedConcat DEF SentInv
      <3>4. /\ LastOf(sent, Asks({"FRIEND_LIST"}), WithToken(token))
            /\ LastOf(sent, Asks({"CHAT_LIST"}), WithToken(token))
        BY <1>0 DEF SentInv, WithToken
      <3>5. LastOf(q, Asks({"FRIEND_LIST"}), WithToken(token))
        BY DEF ChatStep, NoneOf, LastOf
      <3>6. /\ LastOf(sent', Asks({"FRIEND_LIST"}), WithToken(token))
            /\ LastOf(sent', Asks({"CHAT_LIST"}), WithToken(token))
        BY <1>0, <3>1, <3>4, <3>5, LastConcat DEF ChatStep
      <3>7. ASSUME stack' = <<"Main">>
            PROVE  Followed(sent', Asks({"DIRECT_MESSAGE"}), Asks({"CHAT_LIST"}))
        <4>1. NoneOf(q, Asks({"DIRECT_MESSAGE"})) /\ ~ NoneOf(q, Asks({"CHAT_LIST"}))
          BY <3>7, StackFacts DEF ChatStep
        <4>2. Followed(q, Asks({"DIRECT_MESSAGE"}), Asks({"CHAT_LIST"}))
          BY <4>1 DEF NoneOf, Followed
        <4> QED
          BY <1>0, <3>1, <4>1, <4>2, FollowedConcat
      <3>8. ASSUME Chat'
            PROVE  LastOf(sent', Asks({"MESSAGE_HISTORY"}),
                          {r \in Req : r.token = page'.token /\ r.peer = page'.peer})
        <4> DEFINE B == {r \in Req : r.token = page'.token /\ r.peer = page'.peer}
        <4>1. LastOf(q, Asks({"MESSAGE_HISTORY"}), B) /\ ~ NoneOf(q, Asks({"MESSAGE_HISTORY"}))
          BY <3>8, StackFacts DEF ChatStep, Chat
        <4> HIDE DEF B
        <4>2. LastOf(sent', Asks({"MESSAGE_HISTORY"}), B)
          BY <1>0, <3>1, <4>1, LastConcat
        <4> QED
          BY <4>2 DEF B
      <3> QED
        BY <1>0, <3>3, <3>6, <3>7, <3>8 DEF SentInv, WithToken
    <2> QED
      BY <2>1, <2>2 DEF CoreInv, Types
  <1> QED
    BY <1>4, <1>5, <1>6, <1>7, <1>8, <1>9 DEF CoreInv

\* A client that has just been started.
Started ==
    /\ stack = FirstScreen /\ tokenCheckTimer = Timed /\ sent = checkSavedToken
    /\ connected = TRUE /\ received = << >>
    /\ token = 0 /\ lists = NoLists /\ page = NoPage /\ current_login = NoLogin /\ entries = {}
    /\ owner \in Seq(Login) /\ mail \in Seq(MailRow) /\ file \in 0..Len(owner)
    /\ dead \subseteq DOMAIN owner /\ delivered \subseteq DOMAIN mail
    /\ friendships \in [Login -> Nat]

LEMMA StartedInv == Started => AppInv
  <1> SUFFICES ASSUME Started PROVE AppInv
    OBVIOUS
  <1>0. Len(owner) \in Nat /\ 0 \in 0..Len(owner) /\ file \in Nat /\ file <= Len(owner)
    <2>1. Len(owner) \in Nat
      BY LenProperties DEF Started
    <2> QED
      BY <2>1 DEF Started
  <1> DEFINE v == Request("TOKEN_VERIFY", file, NoPeer)
  <1>1. v \in Req /\ v.type = "TOKEN_VERIFY" /\ v.token = file
    BY <1>0, RequestIsReq, TypesOfPackets
  <1>2. v \in GoodReq
    BY <1>0, <1>1 DEF GoodReq
  <1>3. sent = IF file = 0 THEN << >> ELSE <<v>>
    BY DEF Started, checkSavedToken
  <1> HIDE DEF v
  <1>4. Types
    <2>1. sent \in Seq(GoodReq) /\ received \in Seq(GoodPkt)
      BY <1>2, <1>3 DEF Started
    <2>2. connected \in BOOLEAN /\ tokenCheckTimer \in BOOLEAN
      BY DEF Started, Timed
    <2>3. page \in [peer: Peer \cup {NoPeer}, shown: SUBSET DOMAIN mail, token: 0..Len(owner)]
      BY <1>0 DEF Started, NoPage
    <2>4. lists \in Lists
      BY NoListsTyped DEF Started
    <2> QED
      BY <1>0, <2>1, <2>2, <2>3, <2>4 DEF Types, Started, MailRow
  <1>5. Screens
    BY DEF Screens, Started, FirstScreen, Timed
  <1>6. VerifyInv
    <2>1. \A i \in DOMAIN sent : i = 1 /\ sent[i] = v /\ file # 0
      BY <1>3
    <2>2. DOMAIN received = {}
      BY DEF Started
    <2>3. file # 0 => Waiting
      BY DEF Started, Waiting, FirstScreen
    <2>4. \A A : NoneOf(received, A)
      BY <2>2 DEF NoneOf
    <2> QED
      BY <1>1, <2>1, <2>2, <2>3, <2>4 DEF VerifyInv
  <1>7. SessionInv /\ TokensInv
    BY DEF SessionInv, TokensInv, Started
  <1>8. SentInv
    <2>1. ~ Chat /\ stack # <<"Main">> /\ token = 0
      BY DEF Started, FirstScreen, Chat
    <2>2. NoneOf(sent, Asks({"FRIEND_ACCEPT", "FRIEND_REJECT"}))
      BY <1>1, <1>3 DEF NoneOf, Asks
    <2> QED
      BY <2>1, <2>2 DEF SentInv, Followed, NoneOf
  <1>9. ~ Main /\ ~ Chat /\ stack # <<"Main">>
    BY DEF Started, FirstScreen, Main, Chat
  <1> QED
    BY <1>4, <1>5, <1>6, <1>7, <1>8, <1>9 DEF AppInv, FriendsInv, ChatsInv, PageInv, CompleteInv

LEMMA InitInv == Init => AppInv
  <1> SUFFICES ASSUME Init PROVE Started
    BY StartedInv
  <1>1. SavedTokens \in Seq(Login) /\ SavedMail \in Seq(MailRow)
    BY ClientAssumption DEF ClientAssumption, MailRow
  <1>2. friendships \in [Login -> Nat]
    BY DEF Init
  <1> QED
    BY <1>1, <1>2 DEF Init, Started

LEMMA StartStep ==
    ASSUME CoreInv, Start
    PROVE  AppInv'
  <1>1. Started'
    <2>1. Types
      BY DEF CoreInv
    <2>2. /\ sent' = checkSavedToken' /\ stack' = FirstScreen' /\ tokenCheckTimer' = Timed'
      BY DEF Start, checkSavedToken, FirstScreen, Timed, Request
    <2> QED
      BY <2>1, <2>2 DEF Start, SessionLeft, Started, Types, MailRow, NoLists, NoPage
  <1>2. Started' => AppInv'
    BY StartedInv, PTL
  <1> QED
    BY <1>1, <1>2

LEMMA DisconnectStep ==
    ASSUME CoreInv, Disconnect
    PROVE  AppInv'
  <1>0. /\ Types /\ Screens /\ VerifyInv /\ TokensInv /\ sent' = << >> /\ connected' = FALSE
        /\ current_login' = NoLogin /\ entries' = {}
        /\ UNCHANGED <<appVars, owner, dead, mail, delivered, friendships>>
    BY DEF CoreInv, Disconnect, SessionLeft
  <1>1. PICK n \in 0..Len(received) : received' = SubSeq(received, 1, n)
    BY DEF Disconnect
  <1>2. /\ received' \in Seq(GoodPkt)
        /\ \A i \in DOMAIN received' : i \in DOMAIN received /\ received'[i] = received[i]
    <2>1. /\ received \in Seq(GoodPkt) /\ Len(received) \in Nat /\ DOMAIN received = 1..Len(received)
          /\ n \in Nat /\ n <= Len(received)
      BY <1>0, Elements DEF Types
    <2>2. \A i \in 1..n : i \in 1..Len(received)
      BY <2>1
    <2>3. \A i \in 1..n : received[i] \in GoodPkt
      BY <1>0, <2>1, <2>2, Elements
    <2> DEFINE r == SubSeq(received, 1, n)
    <2>4. /\ r \in Seq(GoodPkt)
          /\ Len(r) = IF 1 <= n THEN (n - 1) + 1 ELSE 0
          /\ \A i \in 1..((n - 1) + 1) : r[i] = received[(1 + i) - 1]
      BY <2>1, <2>3, SubSeqProperties
    <2> HIDE DEF r
    <2>5. Len(r) = n /\ \A i \in 1..n : r[i] = received[i]
      <3>1. (n - 1) + 1 = n /\ (\A i \in 1..n : (1 + i) - 1 = i) /\ (~ (1 <= n) => n = 0)
        BY <2>1
      <3> QED
        BY <2>4, <3>1
    <2>6. DOMAIN r = 1..n
      BY <2>4, <2>5, LenProperties
    <2>7. received' = r
      BY <1>1 DEF r
    <2> QED
      BY <2>1, <2>2, <2>4, <2>5, <2>6, <2>7
  <1>3. GoodReq' = GoodReq /\ GoodPkt' = GoodPkt /\ Lists' = Lists
    BY <1>0 DEF GoodReq, GoodPkt, Lists
  <1>4. Types'
    <2>1. sent' \in Seq(GoodReq)
      BY <1>0
    <2> QED
      BY <1>0, <1>2, <1>3, <2>1 DEF Types, appVars
  <1>5. Screens'
    BY <1>0 DEF Screens, appVars, NoPage
  <1>6. \A A : NoneOf(received, A) => NoneOf(received', A)
    BY <1>2 DEF NoneOf
  <1>7. VerifyInv'
    <2>1. DOMAIN sent' = {} /\ \A A : NoneOf(sent', A)
      BY <1>0, EmptyFacts
    <2>2. UNCHANGED <<file, stack>> /\ (Waiting' <=> Waiting)
      BY <1>0 DEF appVars, Waiting
    <2>3. \A i \in DOMAIN received' : received'[i] \in Answers({"TOKEN_VERIFY"}) =>
              /\ received'[i].ok => received'[i].token = file'
              /\ Waiting'
              /\ \A j \in DOMAIN received' : j < i => received'[j] \notin Results
      BY <1>0, <1>2, <2>2 DEF VerifyInv
    <2>4. stack' = <<"Loading">> => NoneOf(received', Answers({"LOGIN", "REGISTER"}))
      BY <1>0, <1>6, <2>2 DEF VerifyInv
    <2> QED
      BY <2>1, <2>3, <2>4 DEF VerifyInv
  <1>8. SessionInv' /\ TokensInv'
    <2>1. SessionInv'
      BY <1>0 DEF SessionInv, NoLogin
    <2>2. TokensInv'
      BY <1>0, <1>2 DEF TokensInv, appVars
    <2> QED
      BY <2>1, <2>2
  <1>9. SentInv'
    BY <1>0, EmptyFacts DEF SentInv
  <1>10. FriendsInv' /\ ChatsInv' /\ PageInv' /\ CompleteInv'
    BY <1>0 DEF FriendsInv, ChatsInv, PageInv, CompleteInv
  <1> QED
    BY <1>4, <1>5, <1>7, <1>8, <1>9, <1>10 DEF AppInv

-----------------------------------------------------------------------------
(***************************************************************************)
(* What is shown, in the steps of the client.                              *)
(***************************************************************************)

FreshInv == FriendsInv /\ ChatsInv /\ PageInv /\ CompleteInv

FriendsShown(p) == [whose |-> p.whose, version |-> p.version]
ChatsShown(p) == [whose |-> p.whose, ids |-> p.ids]

\* The messages on the page after packet p.
ShownAfter(p) ==
    IF p \in Answers({"MESSAGE_HISTORY"}) THEN p.ids
    ELSE IF p.type = "DIRECT_MESSAGE" /\ p.peer = page.peer THEN page.shown \cup p.ids
    ELSE page.shown

\* What a packet that is taken does to the screens, and what their pages ask for then.
ClientEffect(q) ==
    \/ UNCHANGED <<received, lists, page>>
    \/ LET p == Head(received)
       IN  /\ TakesPlain
           /\ Main => /\ lists'.friends = IF p \in Answers({"FRIEND_LIST"}) THEN FriendsShown(p)
                                          ELSE lists.friends
                      /\ lists'.chats = IF p \in Answers({"CHAT_LIST"}) THEN ChatsShown(p)
                                        ELSE lists.chats
                      /\ p \in Pushes(FriendPushes) => ~ NoneOf(q, Asks({"FRIEND_LIST"}))
                      /\ p \in Pushes({"DIRECT_MESSAGE"}) => ~ NoneOf(q, Asks({"CHAT_LIST"}))
           /\ Chat => page'.shown = ShownAfter(p)

\* A step of the client, in terms of Refreshed: nothing is taken, or what is taken
\* triggers a request, or it has its effect.
LEMMA RefreshedClient ==
    ASSUME NEW S, NEW s \in Seq(S), NEW q \in Seq(S), NEW R, NEW r \in Seq(R), NEW r2,
           NEW asks, NEW triggers, NEW answers, NEW good, NEW v, NEW w, NEW V,
           Refreshed(s, r, asks, triggers, answers, good, v, V),
           \/ r2 = r /\ w = v
           \/ /\ r # << >> /\ r2 = Tail(r)
              /\ \/ ~ NoneOf(q, asks)
                 \/ /\ Head(r) \notin triggers
                    /\ Head(r) \in answers /\ Head(r) \in good => w \in V
                    /\ Head(r) \notin answers /\ v \in V => w \in V
    PROVE  Refreshed(s \o q, r2, asks, triggers, answers, good, w, V)
  <1>1. CASE r2 = r /\ w = v
    BY <1>1, RefreshedSend
  <1>2. CASE ~ NoneOf(q, asks)
    <2>1. ~ NoneOf(s \o q, asks)
      BY <1>2, NoneConcat
    <2> QED
      BY <2>1, Awaited
  <1>3. CASE /\ r # << >> /\ r2 = Tail(r)
             /\ Head(r) \notin triggers
             /\ Head(r) \in answers /\ Head(r) \in good => w \in V
             /\ Head(r) \notin answers /\ v \in V => w \in V
    <2>1. Refreshed(s, r2, asks, triggers, answers, good, w, V)
      BY <1>3, RefreshedTake
    <2> QED
      BY <2>1, RefreshedSend
  <1> QED
    BY <1>1, <1>2, <1>3

LEMMA ClientFriends ==
    ASSUME CoreInv, FriendsInv, NEW q, ClientStep(q), ClientEffect(q)
    PROVE  FriendsInv'
  <1> DEFINE asks == Asks({"FRIEND_LIST"})
             triggers == Signed \cup Pushes(FriendPushes)
             answers == Answers({"FRIEND_LIST"})
             good == {p \in Pkt : p.whose = owner[token] /\ p.version = friendships[owner[token]]}
             val == [whose |-> owner[token], version |-> friendships[owner[token]]]
  <1> SUFFICES ASSUME connected', Main', Served(token)'
               PROVE  Refreshed(sent', received', asks, triggers, answers, good', lists'.friends, {val'})
    BY DEF FriendsInv
  <1>0. /\ Types /\ q \in Seq(GoodReq) /\ Sends(q) /\ sent \in Seq(GoodReq) /\ received \in Seq(GoodPkt)
        /\ UNCHANGED <<token, stack, serverVars>>
    BY DEF CoreInv, ClientStep, PlainReqs, Types
  <1>1. connected /\ Main /\ Served(token)
    BY <1>0 DEF Sends, Main, Served, Live, serverVars
  <1>2. sent' = sent \o q
    BY <1>0, <1>1, SentAfter
  <1>3. Refreshed(sent, received, asks, triggers, answers, good, lists.friends, {val})
    BY <1>1 DEF FriendsInv
  <1>4. good' = good /\ val' = val
    BY <1>0 DEF serverVars
  <1>5. \/ received' = received /\ lists'.friends = lists.friends
        \/ /\ received # << >> /\ received' = Tail(received)
           /\ \/ ~ NoneOf(q, asks)
              \/ /\ Head(received) \notin triggers
                 /\ Head(received) \in answers /\ Head(received) \in good => lists'.friends \in {val}
                 /\ Head(received) \notin answers /\ lists.friends \in {val} => lists'.friends \in {val}
    <2>1. CASE UNCHANGED <<received, lists, page>>
      BY <2>1
    <2>2. CASE ~ UNCHANGED <<received, lists, page>>
      <3>1. /\ received # << >> /\ received' = Tail(received) /\ Head(received) \notin Signed
            /\ lists'.friends = IF Head(received) \in answers THEN FriendsShown(Head(received))
                                ELSE lists.friends
            /\ Head(received) \in Pushes(FriendPushes) => ~ NoneOf(q, asks)
        BY <1>1, <2>2 DEF ClientEffect, TakesPlain
      <3>2. Head(received) \in good => FriendsShown(Head(received)) = val
        BY DEF FriendsShown
      <3> HIDE DEF asks, answers, good, val
      <3> QED
        BY <3>1, <3>2
    <2> QED
      BY <2>1, <2>2
  <1> HIDE DEF asks, triggers, answers, good, val
  <1>6. Refreshed(sent \o q, received', asks, triggers, answers, good, lists'.friends, {val})
    BY <1>0, <1>3, <1>5, RefreshedClient
  <1> QED
    BY <1>2, <1>4, <1>6

LEMMA ClientChats ==
    ASSUME CoreInv, ChatsInv, NEW q, ClientStep(q), ClientEffect(q)
    PROVE  ChatsInv'
  <1> DEFINE asks == Asks({"CHAT_LIST"})
             triggers == Signed \cup Pushes({"DIRECT_MESSAGE"})
             answers == Answers({"CHAT_LIST"})
             good == {p \in Pkt : p.whose = owner[token] /\ p.ids = MailOf(owner[token])}
             val == [whose |-> owner[token], ids |-> MailOf(owner[token])]
  <1> SUFFICES ASSUME connected', stack' = <<"Main">>, Served(token)'
               PROVE  Refreshed(sent', received', asks, triggers, answers, good', lists'.chats, {val'})
    BY DEF ChatsInv
  <1>0. /\ Types /\ q \in Seq(GoodReq) /\ Sends(q) /\ sent \in Seq(GoodReq) /\ received \in Seq(GoodPkt)
        /\ UNCHANGED <<token, stack, serverVars>>
    BY DEF CoreInv, ClientStep, PlainReqs, Types
  <1>1. connected /\ Main /\ stack = <<"Main">> /\ Served(token)
    BY <1>0 DEF Sends, Main, Served, Live, serverVars
  <1>2. sent' = sent \o q
    BY <1>0, <1>1, SentAfter
  <1>3. Refreshed(sent, received, asks, triggers, answers, good, lists.chats, {val})
    BY <1>1 DEF ChatsInv
  <1>4. good' = good /\ val' = val
    BY <1>0 DEF serverVars, MailOf
  <1>5. \/ received' = received /\ lists'.chats = lists.chats
        \/ /\ received # << >> /\ received' = Tail(received)
           /\ \/ ~ NoneOf(q, asks)
              \/ /\ Head(received) \notin triggers
                 /\ Head(received) \in answers /\ Head(received) \in good => lists'.chats \in {val}
                 /\ Head(received) \notin answers /\ lists.chats \in {val} => lists'.chats \in {val}
    <2>1. CASE UNCHANGED <<received, lists, page>>
      BY <2>1
    <2>2. CASE ~ UNCHANGED <<received, lists, page>>
      <3>1. /\ received # << >> /\ received' = Tail(received) /\ Head(received) \notin Signed
            /\ lists'.chats = IF Head(received) \in answers THEN ChatsShown(Head(received))
                              ELSE lists.chats
            /\ Head(received) \in Pushes({"DIRECT_MESSAGE"}) => ~ NoneOf(q, asks)
        BY <1>1, <2>2 DEF ClientEffect, TakesPlain
      <3>2. Head(received) \in good => ChatsShown(Head(received)) = val
        BY DEF ChatsShown
      <3> HIDE DEF asks, answers, good, val
      <3> QED
        BY <3>1, <3>2
    <2> QED
      BY <2>1, <2>2
  <1> HIDE DEF asks, triggers, answers, good, val
  <1>6. Refreshed(sent \o q, received', asks, triggers, answers, good, lists'.chats, {val})
    BY <1>0, <1>3, <1>5, RefreshedClient
  <1> QED
    BY <1>2, <1>4, <1>6

LEMMA ClientPage ==
    ASSUME CoreInv, PageInv, NEW q, ClientStep(q), ClientEffect(q)
    PROVE  PageInv'
  <1> DEFINE asks == Asks({"MESSAGE_HISTORY"})
             answers == Answers({"MESSAGE_HISTORY"})
             good == {p \in Pkt : p.ids \in IdsOf(page.peer)}
             V == IdsOf(page.peer)
  <1> SUFFICES ASSUME connected', Chat'
               PROVE  Refreshed(sent', received', asks, {}, answers, good', page'.shown, V')
    BY DEF PageInv
  <1>0. /\ Types /\ q \in Seq(GoodReq) /\ Sends(q) /\ sent \in Seq(GoodReq) /\ received \in Seq(GoodPkt)
        /\ UNCHANGED <<token, stack, serverVars>> /\ page'.peer = page.peer
    BY DEF CoreInv, ClientStep, PlainReqs, Types
  <1>1. connected /\ Chat
    BY <1>0 DEF Sends, Chat
  <1>2. sent' = sent \o q
    BY <1>0, <1>1, SentAfter
  <1>3. Refreshed(sent, received, asks, {}, answers, good, page.shown, V)
    BY <1>1 DEF PageInv
  <1>4. good' = good /\ V' = V
    BY <1>0 DEF serverVars, IdsOf
  <1>5. \/ received' = received /\ page'.shown = page.shown
        \/ /\ received # << >> /\ received' = Tail(received)
           /\ \/ ~ NoneOf(q, asks)
              \/ /\ Head(received) \notin {}
                 /\ Head(received) \in answers /\ Head(received) \in good => page'.shown \in V
                 /\ Head(received) \notin answers /\ page.shown \in V => page'.shown \in V
    <2>1. CASE UNCHANGED <<received, lists, page>>
      BY <2>1
    <2>2. CASE ~ UNCHANGED <<received, lists, page>>
      <3> DEFINE p == Head(received)
      <3>1. received # << >> /\ received' = Tail(received) /\ page'.shown = ShownAfter(p)
        BY <1>1, <2>2 DEF ClientEffect, TakesPlain
      <3>2. p \in GoodPkt /\ p \in Pkt
        BY <1>0, <3>1, HeadOfReceived
      <3>3. p.type = "DIRECT_MESSAGE" /\ p.peer = page.peer => p.ids \in V
        BY <3>2 DEF GoodPkt, Pkt, IdsOf
      <3>4. p \in good => p.ids \in V
        OBVIOUS
      <3>5. \A A, B : A \in V /\ B \in V => A \cup B \in V
        BY DEF IdsOf
      <3> HIDE DEF p, V, good
      <3>6. /\ p \in answers /\ p \in good => page'.shown \in V
            /\ p \notin answers /\ page.shown \in V => page'.shown \in V
        BY <3>1, <3>3, <3>4, <3>5 DEF ShownAfter
      <3> QED
        BY <3>1, <3>6 DEF p
    <2> QED
      BY <2>1, <2>2
  <1> HIDE DEF asks, answers, good, V
  <1>6. Refreshed(sent \o q, received', asks, {}, answers, good, page'.shown, V)
    BY <1>0, <1>3, <1>5, RefreshedClient
  <1> QED
    BY <1>2, <1>4, <1>6

LEMMA ClientComplete ==
    ASSUME CoreInv, CompleteInv, NEW q, ClientStep(q), ClientEffect(q)
    PROVE  CompleteInv'
  <1> SUFFICES ASSUME connected', Chat', Served(token)', page'.token = token',
                      NEW m \in Incoming(owner[token], page.peer)' \cap History(owner[token], page.peer)'
               PROVE  Refreshed(sent', received', Asks({"MESSAGE_HISTORY"}), Signed,
                          Answers({"MESSAGE_HISTORY"}) \cup Brings(m, page.peer)',
                          Brings(m, page.peer)', page'.shown, {S \in SUBSET Nat : m \in S})
    BY DEF CompleteInv
  <1> DEFINE asks == Asks({"MESSAGE_HISTORY"})
             good == Brings(m, page.peer)
             answers == Answers({"MESSAGE_HISTORY"}) \cup good
             V == {S \in SUBSET Nat : m \in S}
  <1>0. /\ Types /\ q \in Seq(GoodReq) /\ Sends(q) /\ sent \in Seq(GoodReq) /\ received \in Seq(GoodPkt)
        /\ UNCHANGED <<token, stack, serverVars>> /\ page'.peer = page.peer /\ page'.token = page.token
    BY DEF CoreInv, ClientStep, PlainReqs, Types
  <1>1. /\ connected /\ Chat /\ Served(token) /\ page.token = token
        /\ m \in Incoming(owner[token], page.peer) \cap History(owner[token], page.peer)
    <2>1. connected /\ Chat /\ Served(token) /\ page.token = token
      BY <1>0 DEF Sends, Chat, Served, Live, serverVars
    <2>2. mail' = mail /\ owner'[token'] = owner[token] /\ page'.peer = page.peer
      BY <1>0 DEF serverVars
    <2>3. m \in Incoming(owner[token], page.peer)
      BY <2>2 DEF Incoming
    <2>4. m \in History(owner[token], page.peer)
      BY <2>2 DEF History, MailOf
    <2> QED
      BY <2>1, <2>3, <2>4
  <1>2. sent' = sent \o q
    BY <1>0, <1>1, SentAfter
  <1>3. Refreshed(sent, received, asks, Signed, answers, good, page.shown, V)
    BY <1>1 DEF CompleteInv
  <1>4. good' = good
    BY <1>0 DEF Brings
  <1>5. \/ received' = received /\ page'.shown = page.shown
        \/ /\ received # << >> /\ received' = Tail(received)
           /\ \/ ~ NoneOf(q, asks)
              \/ /\ Head(received) \notin Signed
                 /\ Head(received) \in answers /\ Head(received) \in good => page'.shown \in V
                 /\ Head(received) \notin answers /\ page.shown \in V => page'.shown \in V
    <2>1. CASE UNCHANGED <<received, lists, page>>
      BY <2>1
    <2>2. CASE ~ UNCHANGED <<received, lists, page>>
      <3> DEFINE p == Head(received)
      <3>1. received # << >> /\ received' = Tail(received) /\ page'.shown = ShownAfter(p) /\ p \notin Signed
        BY <1>1, <2>2 DEF ClientEffect, TakesPlain
      <3>2. p \in Pkt /\ p.ids \in SUBSET Nat
        BY <1>0, <3>1, HeadOfReceived DEF Pkt
      <3>3. p \in good => m \in p.ids /\ (p \in Answers({"MESSAGE_HISTORY"})
                                          \/ (p.type = "DIRECT_MESSAGE" /\ p.peer = page.peer))
        BY DEF Brings
      <3>4. page.shown \in SUBSET Nat
        BY <1>0, TableDomains DEF Types
      <3> HIDE DEF p, good
      <3>5. p \in good => page'.shown \in V
        BY <3>1, <3>2, <3>3, <3>4 DEF ShownAfter
      <3>6. p \notin Answers({"MESSAGE_HISTORY"}) /\ page.shown \in V => page'.shown \in V
        BY <3>1, <3>2 DEF ShownAfter
      <3> QED
        BY <3>1, <3>5, <3>6 DEF p
    <2> QED
      BY <2>1, <2>2
  <1> HIDE DEF asks, answers, good, V
  <1>6. Refreshed(sent \o q, received', asks, Signed, answers, good, page'.shown, V)
    BY <1>0, <1>3, <1>5, RefreshedClient
  <1> QED
    BY <1>2, <1>4, <1>6 DEF asks, answers, good, V

LEMMA ClientFresh ==
    ASSUME CoreInv, FreshInv, NEW q, ClientStep(q), ClientEffect(q)
    PROVE  CoreInv' /\ FreshInv'
  BY ClientCore, ClientFriends, ClientChats, ClientPage, ClientComplete DEF FreshInv

\* The lists are asked for again, and a page that stays open is that of an earlier token.
LEMMA SignFresh ==
    ASSUME CoreInv, FreshInv, NEW t, NEW q, SignStep(t, q)
    PROVE  FreshInv'
  <1>0. /\ Types /\ PageInv /\ TokensInv /\ t \in 1..Len(owner) /\ q \in Seq(GoodReq) /\ q \in PageLoads(t)
        /\ Sends(q) /\ received \in Seq(GoodPkt) /\ received # << >> /\ received' = Tail(received)
        /\ Head(received) \in Signed /\ Head(received).token = t /\ sent \in Seq(GoodReq)
        /\ UNCHANGED <<connected, serverVars>> /\ token' = t
    BY SignTypes DEF CoreInv, FreshInv, SignStep, Sends, Types
  <1>1. connected => ~ NoneOf(sent', Asks({"FRIEND_LIST"})) /\ ~ NoneOf(sent', Asks({"CHAT_LIST"}))
    BY <1>0, LoadsSent
  <1>2. FriendsInv' /\ ChatsInv'
    BY <1>0, <1>1, Awaited DEF FriendsInv, ChatsInv
  <1>3. ASSUME Chat' PROVE Chat /\ UNCHANGED page
    BY <1>3, StackFacts DEF SignStep, Chat
  <1>4. PageInv'
    <2> DEFINE asks == Asks({"MESSAGE_HISTORY"})
               answers == Answers({"MESSAGE_HISTORY"})
               good == {p \in Pkt : p.ids \in IdsOf(page.peer)}
               V == IdsOf(page.peer)
    <2> SUFFICES ASSUME connected', Chat'
                 PROVE  Refreshed(sent', received', asks, {}, answers, good', page'.shown, V')
      BY DEF PageInv
    <2>1. connected /\ Chat /\ UNCHANGED page
      BY <1>0, <1>3
    <2>2. Refreshed(sent, received, asks, {}, answers, good, page.shown, V)
      BY <1>0, <2>1 DEF PageInv
    <2>3. good' = good /\ V' = V /\ page'.shown = page.shown
      BY <1>0, <2>1 DEF serverVars, IdsOf
    <2>4. Head(received) \notin answers
      BY <1>0 DEF Signed, Answers
    <2>5. sent' = sent \o q
      BY <1>0, <2>1, SentAfter
    <2> HIDE DEF asks, answers, good, V
    <2>6. Refreshed(sent \o q, received', asks, {}, answers, good, page.shown, V)
      BY <1>0, <2>2, <2>4, RefreshedClient
    <2> QED
      BY <2>3, <2>5, <2>6
  <1>5. CompleteInv'
    <2>1. ASSUME Chat' PROVE page'.token # token'
      <3>1. UNCHANGED page
        BY <1>3, <2>1
      <3>2. 1 \in DOMAIN received /\ received[1] = Head(received)
        BY <1>0, TailIndex
      <3>3. page.token < t
        BY <1>0, <3>2 DEF TokensInv
      <3>4. page.token \in Nat /\ t \in Nat
        BY <1>0, TableDomains
      <3> QED
        BY <1>0, <3>1, <3>3, <3>4
    <2> QED
      BY <2>1 DEF CompleteInv
  <1> QED
    BY <1>2, <1>4, <1>5 DEF FreshInv

LEMMA AuthFresh ==
    ASSUME NEW q, AuthStep(q)
    PROVE  FreshInv'
  <1>1. ~ Main' /\ ~ Chat' /\ stack' # <<"Main">>
    BY DEF AuthStep, Main, Chat
  <1> QED
    BY <1>1 DEF FreshInv, FriendsInv, ChatsInv, PageInv, CompleteInv

\* A chat that is opened asks for its history, a chat list that is shown again for itself.
LEMMA ChatFresh ==
    ASSUME CoreInv, FreshInv, NEW q, ChatStep(q)
    PROVE  FreshInv'
  <1>0. /\ Types /\ FriendsInv /\ q \in Seq(GoodReq) /\ Sends(q) /\ sent \in Seq(GoodReq) /\ Main
        /\ UNCHANGED <<connected, received, lists, token, serverVars>>
    BY DEF CoreInv, FreshInv, ChatStep, Sends, Types
  <1>1. connected => sent' = sent \o q
    BY <1>0, SentAfter
  <1>2. FriendsInv'
    <2> DEFINE asks == Asks({"FRIEND_LIST"})
               triggers == Signed \cup Pushes(FriendPushes)
               answers == Answers({"FRIEND_LIST"})
               good == {p \in Pkt : p.whose = owner[token] /\ p.version = friendships[owner[token]]}
               val == [whose |-> owner[token], version |-> friendships[owner[token]]]
    <2> SUFFICES ASSUME connected', Main', Served(token)'
                 PROVE  Refreshed(sent', received', asks, triggers, answers, good', lists'.friends, {val'})
      BY DEF FriendsInv
    <2>1. connected /\ Served(token)
      BY <1>0 DEF Served, Live, serverVars
    <2>2. Refreshed(sent, received, asks, triggers, answers, good, lists.friends, {val})
      BY <1>0, <2>1 DEF FriendsInv
    <2>3. good' = good /\ val' = val
      BY <1>0 DEF serverVars
    <2> HIDE DEF asks, triggers, answers, good, val
    <2>4. Refreshed(sent \o q, received, asks, triggers, answers, good, lists.friends, {val})
      BY <1>0, <2>2, RefreshedSend
    <2> QED
      BY <1>0, <1>1, <2>1, <2>3, <2>4
  <1>3. ASSUME connected, stack' = <<"Main">> PROVE ~ NoneOf(sent', Asks({"CHAT_LIST"}))
    <2>1. ~ NoneOf(q, Asks({"CHAT_LIST"}))
      BY <1>3, StackFacts DEF ChatStep
    <2> QED
      BY <1>0, <1>1, <1>3, <2>1, NoneConcat
  <1>4. ASSUME connected, Chat' PROVE ~ NoneOf(sent', Asks({"MESSAGE_HISTORY"}))
    <2>1. ~ NoneOf(q, Asks({"MESSAGE_HISTORY"}))
      BY <1>4, StackFacts DEF ChatStep, Chat
    <2> QED
      BY <1>0, <1>1, <1>4, <2>1, NoneConcat
  <1>5. ChatsInv'
    BY <1>0, <1>3, Awaited DEF ChatsInv
  <1>6. PageInv' /\ CompleteInv'
    BY <1>0, <1>4, Awaited DEF PageInv, CompleteInv
  <1> QED
    BY <1>2, <1>5, <1>6 DEF FreshInv

-----------------------------------------------------------------------------
(***************************************************************************)
(* What is shown, in the steps of the server.                              *)
(***************************************************************************)

\* The server takes the next packet.
Taken == connected /\ sent # << >> /\ sent' = Tail(sent)

\* The answer to the request for a list or a history.
ReadAnswer(p) ==
    LET req == Head(sent)
        l == OwnerOf(req.token)
    IN  /\ p \in Answers({req.type})
        /\ p.whose = l
        /\ req.type = "FRIEND_LIST" /\ l # NoLogin => p.version = friendships[l]
        /\ req.type = "CHAT_LIST" => p.ids = MailOf(l)
        /\ req.type = "MESSAGE_HISTORY" => p.ids = History(l, req.peer)

\* What changes for the logins that lead here is pushed, or the client has asked for it.
ServerEffect(k) ==
    /\ dead \subseteq dead'
    /\ entries' \subseteq entries \/ ~ NoneOf(k, Signed)
    /\ \/ ~ NoneOf(k, Pushes(FriendPushes))
       \/ Taken /\ Head(sent) \in Asks({"FRIEND_ACCEPT", "FRIEND_REJECT"})
       \/ \A l \in entries : friendships'[l] = friendships[l]
    /\ \/ ~ NoneOf(k, Pushes({"DIRECT_MESSAGE"}))
       \/ Taken /\ Head(sent) \in Asks({"DIRECT_MESSAGE"})
       \/ \A l \in entries : MailOf(l)' = MailOf(l)
    /\ \A l \in entries, p \in Peer : \A m \in Incoming(l, p)' :
          m \in Incoming(l, p) \/ \E i \in DOMAIN k : k[i] \in Brings(m, p)
    /\ Taken /\ Head(sent).type \in {"FRIEND_LIST", "CHAT_LIST", "MESSAGE_HISTORY"} =>
          /\ \E p \in Pkt : k = <<p>> /\ ReadAnswer(p)
          /\ UNCHANGED <<owner, dead, mail, friendships>>

\* The answers in k answer the request that is taken.
LEMMA AnswersTaken ==
    ASSUME CoreInv, NEW k, ServerStep(k), NEW type \in RequestType, ~ NoneOf(k, Answers({type}))
    PROVE  Taken /\ Head(sent) \in Asks({type}) /\ Head(sent).type = type
  <1>1. PICK i \in DOMAIN k : k[i] \in Answers({type})
    BY DEF NoneOf
  <1>2. k[i] \in Results /\ k[i].to = type
    BY <1>1 DEF Answers, Results
  <1>3. Taken /\ Head(sent).type = type
    BY <1>2 DEF ServerStep, NoneOf, Taken
  <1>4. Head(sent) \in Req
    BY <1>3, HeadOfSent DEF CoreInv, Taken
  <1> QED
    BY <1>3, <1>4 DEF Asks

\* Refreshed in a step of the server: packets are pushed, or a request is taken too.
LEMMA RefreshedServer ==
    ASSUME NEW S, NEW s \in Seq(S), NEW s2, NEW R, NEW r \in Seq(R), NEW k \in Seq(R),
           NEW asks, NEW triggers, NEW answers, NEW good, NEW v, NEW V,
           Refreshed(s, r, asks, triggers, answers, good, v, V),
           NoneOf(s2, asks) => LastOf(k, answers, good),
           \/ s2 = s
           \/ /\ s # << >> /\ s2 = Tail(s)
              /\ Head(s) \in asks => ~ NoneOf(k, answers)
    PROVE  Refreshed(s2, r \o k, asks, triggers, answers, good, v, V)
  <1>1. CASE ~ NoneOf(s2, asks)
    BY <1>1, Awaited
  <1>2. CASE NoneOf(s2, asks) /\ s2 = s
    BY <1>2, RefreshedPush
  <1>3. CASE NoneOf(s2, asks) /\ s # << >> /\ s2 = Tail(s) /\ (Head(s) \in asks => ~ NoneOf(k, answers))
    BY <1>3, RefreshedServe
  <1> QED
    BY <1>1, <1>2, <1>3

\* What a server step keeps, when it gives out no token.
LEMMA ServedBefore ==
    ASSUME CoreInv, NEW k, ServerStep(k), ServerEffect(k), Served(token)'
    PROVE  /\ token \in DOMAIN owner /\ owner'[token'] = owner[token] /\ owner[token] \in Login
           /\ Live(token) /\ OwnerOf(token) = owner[token]
           /\ NoneOf(k, Signed) => Served(token) /\ owner[token] \in entries
  <1>0. Types /\ Grows /\ UNCHANGED token
    BY DEF CoreInv, ServerStep, appVars
  <1>1. token \in DOMAIN owner
    <2>1. token \in 0..Len(owner) /\ Len(owner) \in Nat /\ DOMAIN owner = 1..Len(owner)
      BY <1>0, TableDomains DEF Types
    <2>2. token # 0
      <3>1. token \in DOMAIN owner' /\ DOMAIN owner' = 1..Len(owner') /\ Len(owner') \in Nat
        BY <1>0, GrowsDomains DEF Served, Live
      <3> QED
        BY <3>1
    <2> QED
      BY <2>1, <2>2
  <1>2. owner'[token'] = owner[token] /\ owner[token] \in Login
    BY <1>0, <1>1, TableDomains DEF Grows
  <1>3. Live(token) /\ OwnerOf(token) = owner[token]
    BY <1>0, <1>1 DEF ServerEffect, Served, Live, OwnerOf
  <1>4. NoneOf(k, Signed) => owner[token] \in entries
    BY <1>2 DEF ServerEffect, Served
  <1> QED
    BY <1>1, <1>2, <1>3, <1>4 DEF Served

LEMMA ServerFriends ==
    ASSUME CoreInv, FriendsInv, NEW k, ServerStep(k), ServerEffect(k)
    PROVE  FriendsInv'
  <1> DEFINE asks == Asks({"FRIEND_LIST"})
             triggers == Signed \cup Pushes(FriendPushes)
             answers == Answers({"FRIEND_LIST"})
             l == owner[token]
             good == {p \in Pkt : p.whose = l /\ p.version = friendships[l]}
             val == [whose |-> l, version |-> friendships[l]]
  <1> SUFFICES ASSUME connected', Main', Served(token)'
               PROVE  Refreshed(sent', received', asks, triggers, answers, good', lists'.friends, {val'})
    BY DEF FriendsInv
  <1>0. /\ Types /\ SentInv /\ sent \in Seq(GoodReq) /\ UNCHANGED <<connected, appVars>>
        /\ received \in Seq(GoodPkt') /\ k \in Seq(GoodPkt') /\ received' = received \o k
        /\ Taken \/ sent' = sent
    BY ServerTypes DEF CoreInv, ServerStep, Types, Taken
  <1>1. connected /\ Main /\ token # 0
    BY <1>0, ScreenFacts DEF appVars, Main, CoreInv
  <1>2. CASE ~ NoneOf(k, triggers)
    BY <1>0, <1>2, NoneConcat, Awaited
  <1>3. CASE Taken /\ Head(sent) \in Asks({"FRIEND_ACCEPT", "FRIEND_REJECT"})
    <2>1. ~ NoneOf(sent', asks)
      BY <1>0, <1>3, FollowedTail DEF Taken, SentInv
    <2> QED
      BY <2>1, Awaited
  <1>4. CASE NoneOf(k, triggers) /\ \A x \in entries : friendships'[x] = friendships[x]
    <2>1. NoneOf(k, Signed)
      BY <1>4 DEF NoneOf
    <2>2. /\ Served(token) /\ l \in entries /\ l \in Login /\ owner'[token'] = l /\ OwnerOf(token) = l
      BY <2>1, ServedBefore
    <2>3. good' = good /\ val' = val
      BY <1>4, <2>2
    <2>4. Refreshed(sent, received, asks, triggers, answers, good, lists.friends, {val})
      BY <1>1, <2>2 DEF FriendsInv
    <2>5. LastOf(sent, asks, WithToken(token))
      BY <1>0, <1>1 DEF SentInv, WithToken
    <2>6. ASSUME NoneOf(sent', asks), ~ NoneOf(k, answers) PROVE LastOf(k, answers, good)
      <3>1. Taken /\ Head(sent) \in asks /\ Head(sent).type = "FRIEND_LIST"
        BY <2>6, AnswersTaken, TypesOfPackets
      <3>2. Head(sent).token = token
        <4>1. Head(sent) \in WithToken(token)
          BY <1>0, <2>5, <2>6, <3>1, LastTail DEF Taken
        <4> QED
          BY <4>1 DEF WithToken
      <3>3. PICK p \in Pkt : k = <<p>> /\ ReadAnswer(p)
        BY <3>1 DEF ServerEffect
      <3>4. p \in good
        BY <2>2, <3>1, <3>2, <3>3, ClientAssumption DEF ReadAnswer, ClientAssumption
      <3> QED
        BY <3>3, <3>4, SingleFacts
    <2>7. ASSUME Taken, Head(sent) \in asks PROVE ~ NoneOf(k, answers)
      <3>1. Head(sent).type = "FRIEND_LIST"
        BY <2>7 DEF Asks
      <3>2. PICK p \in Pkt : k = <<p>> /\ ReadAnswer(p)
        BY <2>7, <3>1 DEF ServerEffect
      <3>3. p \in answers
        BY <3>1, <3>2 DEF ReadAnswer
      <3> QED
        BY <3>2, <3>3, SingleFacts
    <2>8. NoneOf(k, answers) => LastOf(k, answers, good)
      BY DEF NoneOf, LastOf
    <2> HIDE DEF asks, triggers, answers, good, val
    <2>9. Refreshed(sent', received \o k, asks, triggers, answers, good, lists.friends, {val})
      BY <1>0, <2>4, <2>6, <2>7, <2>8, RefreshedServer DEF Taken
    <2> QED
      BY <1>0, <2>3, <2>9 DEF appVars
  <1>5. NoneOf(k, triggers) => NoneOf(k, Pushes(FriendPushes))
    BY DEF NoneOf
  <1> QED
    BY <1>2, <1>3, <1>4, <1>5 DEF ServerEffect

LEMMA ServerChats ==
    ASSUME CoreInv, ChatsInv, NEW k, ServerStep(k), ServerEffect(k)
    PROVE  ChatsInv'
  <1> DEFINE asks == Asks({"CHAT_LIST"})
             triggers == Signed \cup Pushes({"DIRECT_MESSAGE"})
             answers == Answers({"CHAT_LIST"})
             l == owner[token]
             good == {p \in Pkt : p.whose = l /\ p.ids = MailOf(l)}
             val == [whose |-> l, ids |-> MailOf(l)]
  <1> SUFFICES ASSUME connected', stack' = <<"Main">>, Served(token)'
               PROVE  Refreshed(sent', received', asks, triggers, answers, good', lists'.chats, {val'})
    BY DEF ChatsInv
  <1>0. /\ Types /\ SentInv /\ sent \in Seq(GoodReq) /\ UNCHANGED <<connected, appVars>>
        /\ received \in Seq(GoodPkt') /\ k \in Seq(GoodPkt') /\ received' = received \o k
        /\ Taken \/ sent' = sent
    BY ServerTypes DEF CoreInv, ServerStep, Types, Taken
  <1>1. connected /\ stack = <<"Main">> /\ token # 0
    BY <1>0, ScreenFacts DEF appVars, Main, CoreInv
  <1>2. CASE ~ NoneOf(k, triggers)
    BY <1>0, <1>2, NoneConcat, Awaited
  <1>3. CASE Taken /\ Head(sent) \in Asks({"DIRECT_MESSAGE"})
    <2>1. ~ NoneOf(sent', asks)
      BY <1>0, <1>1, <1>3, FollowedTail DEF Taken, SentInv
    <2> QED
      BY <2>1, Awaited
  <1>4. CASE NoneOf(k, triggers) /\ \A x \in entries : MailOf(x)' = MailOf(x)
    <2>1. NoneOf(k, Signed)
      BY <1>4 DEF NoneOf
    <2>2. /\ Served(token) /\ l \in entries /\ l \in Login /\ owner'[token'] = l /\ OwnerOf(token) = l
      BY <2>1, ServedBefore
    <2>3. good' = good /\ val' = val
      <3>1. MailOf(l)' = MailOf(l) /\ l' = l
        <4>1. \A x : MailOf(x)' = {i \in DOMAIN mail' : mail'[i].user = x}
          BY DEF MailOf
        <4>2. {i \in DOMAIN mail' : mail'[i].user = l} = MailOf(l)
          BY <1>4, <2>2 DEF MailOf
        <4> QED
          BY <2>2, <4>2 DEF MailOf
      <3> QED
        BY <3>1
    <2>4. Refreshed(sent, received, asks, triggers, answers, good, lists.chats, {val})
      BY <1>1, <2>2 DEF ChatsInv
    <2>5. LastOf(sent, asks, WithToken(token))
      BY <1>0, <1>1 DEF SentInv, WithToken
    <2>6. ASSUME NoneOf(sent', asks), ~ NoneOf(k, answers) PROVE LastOf(k, answers, good)
      <3>1. Taken /\ Head(sent) \in asks /\ Head(sent).type = "CHAT_LIST"
        BY <2>6, AnswersTaken, TypesOfPackets
      <3>2. Head(sent).token = token
        <4>1. Head(sent) \in WithToken(token)
          BY <1>0, <2>5, <2>6, <3>1, LastTail DEF Taken
        <4> QED
          BY <4>1 DEF WithToken
      <3>3. PICK p \in Pkt : k = <<p>> /\ ReadAnswer(p)
        BY <3>1 DEF ServerEffect
      <3>4. p \in good
        BY <2>2, <3>1, <3>2, <3>3 DEF ReadAnswer
      <3> QED
        BY <3>3, <3>4, SingleFacts
    <2>7. ASSUME Taken, Head(sent) \in asks PROVE ~ NoneOf(k, answers)
      <3>1. Head(sent).type = "CHAT_LIST"
        BY <2>7 DEF Asks
      <3>2. PICK p \in Pkt : k = <<p>> /\ ReadAnswer(p)
        BY <2>7, <3>1 DEF ServerEffect
      <3>3. p \in answers
        BY <3>1, <3>2 DEF ReadAnswer
      <3> QED
        BY <3>2, <3>3, SingleFacts
    <2>8. NoneOf(k, answers) => LastOf(k, answers, good)
      BY DEF NoneOf, LastOf
    <2> HIDE DEF asks, triggers, answers, good, val
    <2>9. Refreshed(sent', received \o k, asks, triggers, answers, good, lists.chats, {val})
      BY <1>0, <2>4, <2>6, <2>7, <2>8, RefreshedServer DEF Taken
    <2> QED
      BY <1>0, <2>3, <2>9 DEF appVars
  <1>5. NoneOf(k, triggers) => NoneOf(k, Pushes({"DIRECT_MESSAGE"}))
    BY DEF NoneOf
  <1> QED
    BY <1>2, <1>3, <1>4, <1>5 DEF ServerEffect

LEMMA ServerPage ==
    ASSUME CoreInv, PageInv, NEW k, ServerStep(k), ServerEffect(k)
    PROVE  PageInv'
  <1> DEFINE asks == Asks({"MESSAGE_HISTORY"})
             answers == Answers({"MESSAGE_HISTORY"})
             good == {p \in Pkt : p.ids \in IdsOf(page.peer)}
             V == IdsOf(page.peer)
  <1> SUFFICES ASSUME connected', Chat'
               PROVE  Refreshed(sent', received', asks, {}, answers, good', page'.shown, V')
    BY DEF PageInv
  <1>0. /\ Types /\ Grows /\ SentInv /\ sent \in Seq(GoodReq) /\ UNCHANGED <<connected, page, stack>>
        /\ received \in Seq(GoodPkt') /\ k \in Seq(GoodPkt') /\ received' = received \o k
        /\ Taken \/ sent' = sent
    BY ServerTypes DEF CoreInv, ServerStep, Types, Taken, appVars
  <1>1. connected /\ Chat
    BY <1>0 DEF Chat
  \* Messages that are there keep their peer.
  <1>2. \A S : S \in V /\ S \subseteq DOMAIN mail => S \in V'
    BY <1>0 DEF IdsOf, Grows
  <1>3. \A i \in DOMAIN received : received[i] \in good => received[i] \in good'
    <2>1. \A i \in DOMAIN received : received[i] \in Pkt /\ received[i].ids \subseteq DOMAIN mail
      BY <1>0, Elements DEF GoodPkt
    <2>2. \A p : p \in good' <=> p \in Pkt /\ p.ids \in V'
      OBVIOUS
    <2>3. \A p : p \in good => p \in Pkt /\ p.ids \in V
      OBVIOUS
    <2> HIDE DEF good, V
    <2> QED
      BY <1>2, <2>1, <2>2, <2>3
  <1>4. page.shown \in V => page.shown \in V'
    BY <1>0, <1>2 DEF Types
  <1>5. Refreshed(sent, received, asks, {}, answers, good, page.shown, V)
    BY <1>1 DEF PageInv
  <1>6. ASSUME NoneOf(sent', asks), ~ NoneOf(k, answers) PROVE LastOf(k, answers, good')
    <2> DEFINE B == {r \in Req : r.token = page.token /\ r.peer = page.peer}
    <2>1. Taken /\ Head(sent) \in asks /\ Head(sent).type = "MESSAGE_HISTORY"
      BY <1>6, AnswersTaken, TypesOfPackets
    <2>2. Head(sent).peer = page.peer
      <3>1. LastOf(sent, asks, B)
        BY <1>0, <1>1 DEF SentInv
      <3> HIDE DEF B
      <3>2. Head(sent) \in B
        BY <1>0, <1>6, <2>1, <3>1, LastTail DEF Taken
      <3> QED
        BY <3>2 DEF B
    <2>3. PICK p \in Pkt : k = <<p>> /\ ReadAnswer(p)
      BY <2>1 DEF ServerEffect
    <2>4. p.ids \in V' /\ p \in good'
      <3>1. p.ids = History(OwnerOf(Head(sent).token), page.peer)
        BY <2>1, <2>2, <2>3 DEF ReadAnswer
      <3>2. UNCHANGED mail
        BY <2>1 DEF ServerEffect
      <3>3. p.ids \in SUBSET Nat
        BY DEF Pkt
      <3> QED
        BY <1>0, <3>1, <3>2, <3>3 DEF IdsOf, History
    <2> QED
      BY <2>3, <2>4, SingleFacts
  <1>7. ASSUME Taken, Head(sent) \in asks PROVE ~ NoneOf(k, answers)
    <2>1. Head(sent).type = "MESSAGE_HISTORY"
      BY <1>7 DEF Asks
    <2>2. PICK p \in Pkt : k = <<p>> /\ ReadAnswer(p)
      BY <1>7, <2>1 DEF ServerEffect
    <2>3. p \in answers
      BY <2>1, <2>2 DEF ReadAnswer
    <2> QED
      BY <2>2, <2>3, SingleFacts
  <1> DEFINE good2 == good'
             V2 == V'
  <1>8. NoneOf(k, answers) => LastOf(k, answers, good2)
    BY DEF NoneOf, LastOf
  <1>9. /\ \A i \in DOMAIN received : received[i] \in good => received[i] \in good2
        /\ page.shown \in V => page.shown \in V2
        /\ NoneOf(sent', asks) /\ ~ NoneOf(k, answers) => LastOf(k, answers, good2)
    BY <1>3, <1>4, <1>6
  <1> SUFFICES Refreshed(sent', received', asks, {}, answers, good2, page'.shown, V2)
    OBVIOUS
  <1> HIDE DEF asks, answers, good, V, good2, V2
  <1>10. Refreshed(sent, received, asks, {}, answers, good2, page.shown, V2)
    BY <1>5, <1>9, RefreshedSame
  <1>11. Refreshed(sent', received \o k, asks, {}, answers, good2, page.shown, V2)
    BY <1>0, <1>7, <1>8, <1>9, <1>10, RefreshedServer DEF Taken
  <1> QED
    BY <1>0, <1>11

\* Appending to the table leaves the first messages of two users as they were.
LEMMA OldestStay ==
    ASSUME Types, Grows, NEW l, NEW p, NEW m \in DOMAIN mail, m \in History(l, p)'
    PROVE  m \in History(l, p)
  <1> DEFINE all == {i \in MailOf(l) : mail[i].peer = p}
             new == {i \in DOMAIN mail' : mail'[i].user = l /\ mail'[i].peer = p}
  <1>1. /\ Len(mail) \in Nat /\ DOMAIN mail = 1..Len(mail)
        /\ Len(mail') \in Nat /\ DOMAIN mail' = 1..Len(mail') /\ Len(mail) <= Len(mail')
    BY TableDomains, LenProperties DEF Grows
  <1>2. \A i \in DOMAIN mail : i \in DOMAIN mail' /\ mail'[i] = mail[i]
    BY <1>1 DEF Grows
  <1>3. m \in new /\ Cardinality({j \in new : j < m}) < HistoryLimit
    BY DEF History, MailOf
  <1>4. \A j \in DOMAIN mail : j \in new <=> j \in all
    BY <1>2 DEF MailOf
  <1>5. \A j \in DOMAIN mail' : j < m => j \in DOMAIN mail
    BY <1>1
  <1>6. new \subseteq DOMAIN mail' /\ all \subseteq DOMAIN mail
    BY DEF MailOf
  <1> HIDE DEF all, new
  <1>7. {j \in new : j < m} = {j \in all : j < m}
    BY <1>2, <1>4, <1>5, <1>6
  <1>8. m \in all
    BY <1>3, <1>4
  <1> QED
    BY <1>3, <1>7, <1>8 DEF History, all

LEMMA ServerComplete ==
    ASSUME CoreInv, CompleteInv, NEW k, ServerStep(k), ServerEffect(k)
    PROVE  CompleteInv'
  <1> SUFFICES ASSUME connected', Chat', Served(token)', page'.token = token',
                      NEW m \in Incoming(owner[token], page.peer)' \cap History(owner[token], page.peer)'
               PROVE  Refreshed(sent', received', Asks({"MESSAGE_HISTORY"}), Signed,
                          Answers({"MESSAGE_HISTORY"}) \cup Brings(m, page.peer)',
                          Brings(m, page.peer)', page'.shown, {S \in SUBSET Nat : m \in S})
    BY DEF CompleteInv
  <1> DEFINE asks == Asks({"MESSAGE_HISTORY"})
             good == Brings(m, page.peer)
             answers == Answers({"MESSAGE_HISTORY"}) \cup good
             l == owner[token]
             V == {S \in SUBSET Nat : m \in S}
  <1>0. /\ Types /\ SentInv /\ sent \in Seq(GoodReq) /\ UNCHANGED <<connected, page, stack, token>>
        /\ received \in Seq(GoodPkt') /\ k \in Seq(GoodPkt') /\ received' = received \o k
        /\ Taken \/ sent' = sent
    BY ServerTypes DEF CoreInv, ServerStep, Types, Taken, appVars
  <1>1. connected /\ Chat /\ page.token = token /\ page.peer \in Peer
    <2>1. connected /\ Chat /\ page.token = token
      BY <1>0 DEF Chat
    <2>2. Screens /\ Top = "Chat"
      BY <2>1, ScreenFacts DEF Chat, CoreInv
    <2>3. page.peer \in Peer
      BY <2>2, ScreenFacts DEF Screens
    <2> QED
      BY <2>1, <2>3
  <1>2. good' = good
    BY <1>0 DEF Brings
  <1>3. CASE ~ NoneOf(k, Signed)
    BY <1>0, <1>3, NoneConcat, Awaited
  <1>4. CASE NoneOf(k, Signed)
    <2>1. /\ Served(token) /\ l \in entries /\ owner'[token'] = l /\ OwnerOf(token) = l
      BY <1>4, ServedBefore
    <2>2. m \in DOMAIN mail' /\ mail'[m] = [user |-> l, peer |-> page.peer, incoming |-> TRUE]
      <3>1. m \in {i \in DOMAIN mail' : mail'[i] = [user |-> owner'[token'], peer |-> page'.peer, incoming |-> TRUE]}
        BY DEF Incoming
      <3> QED
        BY <1>0, <2>1, <3>1
    \* A history that is the last one asked for has the message.
    <2>h. m \in Incoming(l, page.peer) => m \in History(l, page.peer)
      <3>1. ASSUME NEW x, NEW y, x = l, y = page.peer, m \in DOMAIN mail
            PROVE  m \in History(x, y)
        <4>1. owner'[token'] = x /\ page'.peer = y
          BY <1>0, <2>1, <3>1
        <4>2. m \in History(x, y)'
          BY <4>1 DEF History, MailOf
        <4>3. Grows
          BY DEF ServerStep
        <4> QED
          BY <1>0, <3>1, <4>2, <4>3, OldestStay
      <3> QED
        BY <3>1 DEF Incoming
    <2>3. ASSUME NoneOf(sent', asks), ~ NoneOf(k, Answers({"MESSAGE_HISTORY"})), m \in Incoming(l, page.peer)
          PROVE  LastOf(k, answers, good)
      <3> DEFINE B == {r \in Req : r.token = page.token /\ r.peer = page.peer}
      <3>1. Taken /\ Head(sent) \in asks /\ Head(sent).type = "MESSAGE_HISTORY"
        BY <2>3, AnswersTaken, TypesOfPackets
      <3>2. Head(sent).peer = page.peer /\ Head(sent).token = token
        <4>1. LastOf(sent, asks, B)
          BY <1>0, <1>1 DEF SentInv
        <4> HIDE DEF B
        <4>2. Head(sent) \in B
          BY <1>0, <2>3, <3>1, <4>1, LastTail DEF Taken
        <4> QED
          BY <1>1, <4>2 DEF B
      <3>3. PICK p \in Pkt : k = <<p>> /\ ReadAnswer(p)
        BY <3>1 DEF ServerEffect
      <3>4. p \in Answers({"MESSAGE_HISTORY"}) /\ p.ids = History(l, page.peer)
        BY <2>1, <3>1, <3>2, <3>3 DEF ReadAnswer
      <3>5. m \in History(l, page.peer)
        BY <2>3, <2>h
      <3>6. p \in good
        BY <3>4, <3>5 DEF Brings
      <3> QED
        BY <3>3, <3>6, SingleFacts
    <2>4. NoneOf(k, Answers({"MESSAGE_HISTORY"})) => LastOf(k, answers, good)
      BY DEF NoneOf, LastOf
    <2>5. CASE m \in Incoming(l, page.peer)
      <3>1. Refreshed(sent, received, asks, Signed, answers, good, page.shown, V)
        BY <1>1, <2>1, <2>5, <2>h DEF CompleteInv
      <3>2. ASSUME Taken, Head(sent) \in asks PROVE ~ NoneOf(k, answers)
        <4>1. Head(sent).type = "MESSAGE_HISTORY"
          BY <3>2 DEF Asks
        <4>2. PICK p \in Pkt : k = <<p>> /\ ReadAnswer(p)
          BY <3>2, <4>1 DEF ServerEffect
        <4>3. p \in answers
          BY <4>1, <4>2 DEF ReadAnswer
        <4> QED
          BY <4>2, <4>3, SingleFacts
      <3> HIDE DEF asks, answers, good, V
      <3>3. Refreshed(sent', received \o k, asks, Signed, answers, good, page.shown, V)
        BY <1>0, <2>3, <2>4, <2>5, <3>1, <3>2, RefreshedServer DEF Taken
      <3> QED
        BY <1>0, <1>2, <3>3 DEF asks, answers, good, V
    \* A message that is new comes with k.
    <2>6. CASE m \notin Incoming(l, page.peer)
      <3>1. PICK i \in DOMAIN k : k[i] \in good
        <4>1. \A x \in entries, y \in Peer : \A n \in {i \in DOMAIN mail' :
                  mail'[i] = [user |-> x, peer |-> y, incoming |-> TRUE]} :
                  n \in Incoming(x, y) \/ \E i \in DOMAIN k : k[i] \in Brings(n, y)
          BY DEF ServerEffect, Incoming
        <4> HIDE DEF l
        <4> QED
          BY <1>1, <2>1, <2>2, <2>6, <4>1
      <3>2. ~ NoneOf(k, answers)
        BY <3>1 DEF NoneOf
      <3>3. ASSUME NoneOf(sent', asks) PROVE LastOf(k, answers, good)
        <4>1. NoneOf(k, Answers({"MESSAGE_HISTORY"}))
          <5>1. SUFFICES ASSUME ~ NoneOf(k, Answers({"MESSAGE_HISTORY"})) PROVE FALSE
            OBVIOUS
          <5>2. Taken /\ Head(sent).type = "MESSAGE_HISTORY"
            BY <5>1, AnswersTaken, TypesOfPackets
          <5>3. UNCHANGED mail
            BY <5>2 DEF ServerEffect
          <5> QED
            BY <2>2, <2>6, <5>3 DEF Incoming
        <4> QED
          BY <2>4, <4>1
      <3> HIDE DEF asks, answers, good, V
      <3>4. Refreshed(sent', received \o k, asks, Signed, answers, good, page.shown, V)
        BY <1>0, <3>2, <3>3, LastConcat, NoneConcat DEF Refreshed
      <3> QED
        BY <1>0, <1>2, <3>4 DEF asks, answers, good, V
    <2> QED
      BY <2>5, <2>6
  <1> QED
    BY <1>3, <1>4

LEMMA ServerFresh ==
    ASSUME CoreInv, FreshInv, NEW k, ServerStep(k), ServerEffect(k)
    PROVE  CoreInv' /\ FreshInv'
  BY ServerCore, ServerFriends, ServerChats, ServerPage, ServerComplete DEF FreshInv

-----------------------------------------------------------------------------
(***************************************************************************)
(* The handlers of the Qt thread.                                          *)
(***************************************************************************)

LEMMA GoodRequest ==
    ASSUME Types, NEW type \in RequestType, NEW t \in 0..Len(owner), NEW p \in Peer \cup {NoPeer},
           type \notin {"LOGIN", "REGISTER"}, type = "DIRECT_MESSAGE" => p \in Peer,
           type = "LOGOUT" => t # 0
    PROVE  /\ Request(type, t, p) \in GoodReq /\ Request(type, t, p) \in Req
           /\ Request(type, t, p).type = type /\ Request(type, t, p).token = t
           /\ Request(type, t, p).peer = p
  <1>1. t \in Nat /\ t <= Len(owner)
    BY TableDomains
  <1>2. /\ Request(type, t, p) \in Req
        /\ Request(type, t, p).type = type /\ Request(type, t, p).token = t
        /\ Request(type, t, p).peer = p
    BY <1>1, RequestIsReq
  <1> QED
    BY <1>1, <1>2 DEF GoodReq

LEMMA PlainNone == PlainReqs(<< >>)
  BY EmptyFacts DEF PlainReqs

\* One request that is not about the screens.
LEMMA PlainOne ==
    ASSUME NEW r \in GoodReq, r.type \notin {"TOKEN_VERIFY", "MESSAGE_HISTORY", "FRIEND_ACCEPT", "FRIEND_REJECT"},
           r.type \in {"FRIEND_LIST", "CHAT_LIST"} => r.token = token,
           r.type = "DIRECT_MESSAGE" => stack # <<"Main">>, stack # <<"Loading">>
    PROVE  PlainReqs(<<r>>)
  <1>1. r \in Req
    BY DEF GoodReq
  <1>2. \A T : r \in Asks(T) <=> r.type \in T
    BY <1>1 DEF Asks
  <1>3. <<r>> \in Seq(GoodReq)
    OBVIOUS
  <1>4. /\ NoneOf(<<r>>, Asks({"TOKEN_VERIFY"})) /\ NoneOf(<<r>>, Asks({"MESSAGE_HISTORY"}))
        /\ Followed(<<r>>, Asks({"FRIEND_ACCEPT", "FRIEND_REJECT"}), Asks({"FRIEND_LIST"}))
        /\ stack = <<"Main">> => Followed(<<r>>, Asks({"DIRECT_MESSAGE"}), Asks({"CHAT_LIST"}))
    BY <1>2, SingleFacts
  <1>5. /\ LastOf(<<r>>, Asks({"FRIEND_LIST"}), WithToken(token))
        /\ LastOf(<<r>>, Asks({"CHAT_LIST"}), WithToken(token))
    BY <1>1, <1>2, SingleFacts DEF WithToken
  <1> QED
    BY <1>3, <1>4, <1>5 DEF PlainReqs

\* A click after which the screens are as they were.
LEMMA ClickStep ==
    ASSUME CoreInv, NEW screen, Click(screen), NEW q, PlainReqs(q), Sends(q),
           UNCHANGED <<token, file, stack, lists, page>>
    PROVE  ClientStep(q) /\ ClientEffect(q)
  <1>1. UNCHANGED <<received, tokenCheckTimer, serverVars>>
    BY DEF Click
  <1>2. page \in [peer: {page.peer}, shown: SUBSET DOMAIN mail, token: {page.token}] /\ lists \in Lists
    BY DEF CoreInv, Types
  <1> QED
    BY <1>1, <1>2 DEF ClientStep, ClientEffect

\* Which screen is on top, and what that says of the token.
LEMMA ClickFacts ==
    ASSUME CoreInv, NEW screen, Click(screen)
    PROVE  /\ screen = "Auth" => stack = <<"Auth">>
           /\ screen = "Main" => stack = <<"Main">> /\ token # 0 /\ Main
           /\ screen = "Chat" => Chat /\ token # 0 /\ Main /\ page.peer \in Peer
           /\ token \in 0..Len(owner) /\ Types /\ Screens
  <1>1. Types /\ Screens /\ Top = screen /\ token \in 0..Len(owner)
    BY DEF CoreInv, Click, Types
  <1>2. /\ screen = "Auth" => stack = <<"Auth">>
        /\ screen = "Main" => stack = <<"Main">>
        /\ screen = "Chat" => stack = <<"Main", "Chat">>
    BY <1>1, ScreenFacts
  <1>3. screen \in {"Main", "Chat"} => Main /\ token # 0
    BY <1>1, <1>2, ScreenFacts DEF Main
  <1>4. screen = "Chat" => page.peer \in Peer
    BY <1>1, ScreenFacts DEF Screens
  <1> QED
    BY <1>1, <1>2, <1>3, <1>4 DEF Chat

LEMMA LoginClick ==
    ASSUME CoreInv, NEW l \in Login, loginUser(l) \/ registerUser(l)
    PROVE  \E q : ClientStep(q) /\ ClientEffect(q)
  <1>1. ASSUME NEW type \in {"LOGIN", "REGISTER"}, Click("Auth"), Sends(<<AuthRequest(type, l)>>),
               UNCHANGED <<token, file, stack, lists, page>>
        PROVE  \E q : ClientStep(q) /\ ClientEffect(q)
    <2> DEFINE r == AuthRequest(type, l)
    <2>1. r \in Req /\ r.type = type /\ r.token = 0 /\ r.login = l
      BY AuthRequestIsReq, TypesOfPackets
    <2>2. stack = <<"Auth">> /\ Len(owner) \in Nat
      BY <1>1, ClickFacts, TableDomains
    <2> HIDE DEF r
    <2>3. 0 <= Len(owner)
      BY <2>2
    <2>4. r \in GoodReq
      BY <2>1, <2>3 DEF GoodReq
    <2>5. PlainReqs(<<r>>)
      BY <2>1, <2>2, <2>4, PlainOne
    <2>6. ClientStep(<<r>>) /\ ClientEffect(<<r>>)
      BY <1>1, <2>5, ClickStep DEF r
    <2> QED
      BY <2>6
  <1> QED
    BY <1>1 DEF loginUser, registerUser

\* A click on the main screen that sends one request.
LEMMA MainClick ==
    ASSUME CoreInv, Click("Main"), NEW type \in {"MESSAGE", "CHAT_LIST", "FRIEND_REQUEST"},
           Sends(<<Request(type, token, NoPeer)>>), UNCHANGED <<token, file, stack, lists, page>>
    PROVE  \E q : ClientStep(q) /\ ClientEffect(q)
  <1> DEFINE r == Request(type, token, NoPeer)
  <1>1. stack = <<"Main">> /\ token \in 0..Len(owner) /\ Types
    BY ClickFacts
  <1>2. r \in GoodReq /\ r.type = type /\ r.token = token
    BY <1>1, GoodRequest, TypesOfPackets
  <1> HIDE DEF r
  <1>3. PlainReqs(<<r>>)
    BY <1>1, <1>2, PlainOne
  <1>4. ClientStep(<<r>>) /\ ClientEffect(<<r>>)
    BY <1>3, ClickStep DEF r
  <1> QED
    BY <1>4

\* An answer to a friend request, followed by getFriendList.
LEMMA AnswerClick ==
    ASSUME CoreInv, Click("Main"), NEW type \in {"FRIEND_ACCEPT", "FRIEND_REJECT"},
           Sends(<<Request(type, token, NoPeer)>> \o getFriendList(token)),
           UNCHANGED <<token, file, stack, lists, page>>
    PROVE  \E q : ClientStep(q) /\ ClientEffect(q)
  <1> DEFINE r == Request(type, token, NoPeer)
             f == Request("FRIEND_LIST", token, NoPeer)
  <1>1. stack = <<"Main">> /\ token \in 0..Len(owner) /\ Types
    BY ClickFacts
  <1>2. r \in GoodReq /\ r \in Req /\ r.type = type
    BY <1>1, GoodRequest, TypesOfPackets
  <1>3. f \in GoodReq /\ f \in Req /\ f.type = "FRIEND_LIST" /\ f.token = token
    BY <1>1, GoodRequest, TypesOfPackets
  <1>4. getFriendList(token) = <<f>>
    BY DEF getFriendList
  <1> DEFINE q == <<r>> \o <<f>>
  <1> HIDE DEF r, f
  <1>5. \A T : (r \in Asks(T) <=> r.type \in T) /\ (f \in Asks(T) <=> f.type \in T)
    BY <1>2, <1>3 DEF Asks
  <1>6. <<r>> \in Seq(GoodReq) /\ <<f>> \in Seq(GoodReq) /\ q \in Seq(GoodReq)
    BY <1>2, <1>3, ConcatProperties
  <1>7. NoneOf(q, Asks({"TOKEN_VERIFY"})) /\ NoneOf(q, Asks({"MESSAGE_HISTORY"}))
        /\ NoneOf(q, Asks({"DIRECT_MESSAGE"})) /\ NoneOf(q, Asks({"CHAT_LIST"}))
    BY <1>2, <1>3, <1>5, <1>6, SingleFacts, NoneConcat
  <1>8. Followed(q, Asks({"FRIEND_ACCEPT", "FRIEND_REJECT"}), Asks({"FRIEND_LIST"}))
    <2>1. /\ Followed(<<f>>, Asks({"FRIEND_ACCEPT", "FRIEND_REJECT"}), Asks({"FRIEND_LIST"}))
          /\ ~ NoneOf(<<f>>, Asks({"FRIEND_LIST"}))
      BY <1>3, <1>5, SingleFacts
    <2> QED
      BY <1>6, <2>1, FollowedConcat
  <1>9. LastOf(q, Asks({"FRIEND_LIST"}), WithToken(token))
    <2>1. LastOf(<<f>>, Asks({"FRIEND_LIST"}), WithToken(token)) /\ ~ NoneOf(<<f>>, Asks({"FRIEND_LIST"}))
      BY <1>3, <1>5, SingleFacts DEF WithToken
    <2> QED
      BY <1>6, <2>1, LastConcat
  <1>10. stack # <<"Loading">>
    BY <1>1
  <1> HIDE DEF q
  <1>11. PlainReqs(q)
    BY <1>6, <1>7, <1>8, <1>9, <1>10 DEF PlainReqs, NoneOf, LastOf, Followed
  <1>12. ClientStep(q) /\ ClientEffect(q)
    BY <1>4, <1>11, ClickStep DEF q, r
  <1> QED
    BY <1>12

LEMMA DirectClick ==
    ASSUME CoreInv, sendDirectMessage
    PROVE  \E q : ClientStep(q) /\ ClientEffect(q)
  <1> DEFINE c == Request("CHAT_LIST", token, NoPeer)
             d == Request("DIRECT_MESSAGE", token, page.peer)
  <1>0. Click("Chat") /\ Sends(<<c>> \o <<d>>) /\ UNCHANGED <<token, file, stack, lists, page>>
    BY DEF sendDirectMessage, getLastMessages
  <1>1. Chat /\ token \in 0..Len(owner) /\ Types /\ page.peer \in Peer
    BY <1>0, ClickFacts
  <1>2. c \in GoodReq /\ c \in Req /\ c.type = "CHAT_LIST" /\ c.token = token
    BY <1>1, GoodRequest, TypesOfPackets
  <1>3. d \in GoodReq /\ d \in Req /\ d.type = "DIRECT_MESSAGE"
    BY <1>1, GoodRequest, TypesOfPackets
  <1> DEFINE q == <<c>> \o <<d>>
  <1> HIDE DEF c, d
  <1>4. \A T : (c \in Asks(T) <=> c.type \in T) /\ (d \in Asks(T) <=> d.type \in T)
    BY <1>2, <1>3 DEF Asks
  <1>5. <<c>> \in Seq(GoodReq) /\ <<d>> \in Seq(GoodReq) /\ q \in Seq(GoodReq)
    BY <1>2, <1>3, ConcatProperties
  <1>6. NoneOf(q, Asks({"TOKEN_VERIFY"})) /\ NoneOf(q, Asks({"MESSAGE_HISTORY"}))
        /\ NoneOf(q, Asks({"FRIEND_ACCEPT", "FRIEND_REJECT"})) /\ NoneOf(q, Asks({"FRIEND_LIST"}))
    <2>1. ASSUME NEW T, "CHAT_LIST" \notin T, "DIRECT_MESSAGE" \notin T PROVE NoneOf(q, Asks(T))
      <3>1. NoneOf(<<c>>, Asks(T)) /\ NoneOf(<<d>>, Asks(T))
        BY <1>2, <1>3, <1>4, <2>1, SingleFacts
      <3> QED
        BY <1>5, <3>1, NoneConcat
    <2> QED
      BY <2>1
  <1>7. LastOf(q, Asks({"CHAT_LIST"}), WithToken(token))
    <2>1. LastOf(<<c>>, Asks({"CHAT_LIST"}), WithToken(token))
      BY <1>2, <1>4, SingleFacts DEF WithToken
    <2>2. LastOf(<<d>>, Asks({"CHAT_LIST"}), WithToken(token))
      BY <1>3, <1>4, SingleFacts
    <2> QED
      BY <1>5, <2>1, <2>2, LastConcat
  <1>8. stack # <<"Main">> /\ stack # <<"Loading">>
    BY <1>1, StackFacts DEF Chat
  <1> HIDE DEF q
  <1>9. PlainReqs(q)
    BY <1>5, <1>6, <1>7, <1>8 DEF PlainReqs, NoneOf, LastOf, Followed
  <1>10. ClientStep(q) /\ ClientEffect(q)
    BY <1>0, <1>9, ClickStep DEF q
  <1> QED
    BY <1>10

LEMMA FriendClickStep ==
    ASSUME CoreInv, FriendClick
    PROVE  \E q : ClientStep(q) /\ ClientEffect(q)
  <1>1. PICK type \in {"FRIEND_REQUEST", "FRIEND_ACCEPT", "FRIEND_REJECT"} :
            Sends(<<Request(type, token, NoPeer)>> \o
                  (IF type = "FRIEND_REQUEST" THEN << >> ELSE getFriendList(token)))
    BY DEF FriendClick
  <1>2. Click("Main") /\ UNCHANGED <<token, file, stack, lists, page>>
    BY DEF FriendClick
  <1>3. CASE type = "FRIEND_REQUEST"
    <2> DEFINE r == Request(type, token, NoPeer)
    <2>1. <<r>> \in Seq({r})
      OBVIOUS
    <2>2. <<r>> \o << >> = <<r>>
      BY <2>1, ConcatEmptySeq
    <2> HIDE DEF r
    <2>3. Sends(<<r>>)
      BY <1>1, <1>3, <2>2 DEF r
    <2> QED
      BY <1>2, <1>3, <2>3, MainClick DEF r
  <1>4. CASE type # "FRIEND_REQUEST"
    <2>1. type \in {"FRIEND_ACCEPT", "FRIEND_REJECT"}
      BY <1>4
    <2>2. Sends(<<Request(type, token, NoPeer)>> \o getFriendList(token))
      BY <1>1, <1>4
    <2> QED
      BY <1>2, <2>1, <2>2, AnswerClick
  <1> QED
    BY <1>3, <1>4

\* A packet of one kind is of no other.
LEMMA KindFacts ==
    ASSUME NEW p \in Pkt
    PROVE  /\ \A T : p \in Answers(T) <=> p.type = "RESULT" /\ p.to \in T
           /\ \A T : p \in Pushes(T) <=> p.type \in T
           /\ p \in Signed <=> p.type = "RESULT" /\ p.ok /\ p.to \in {"LOGIN", "REGISTER", "TOKEN_VERIFY"}
           /\ p \in Results <=> p.type = "RESULT"
           /\ "RESULT" \notin FriendPushes /\ "DIRECT_MESSAGE" \notin FriendPushes
           /\ "MESSAGE" \notin FriendPushes
  BY DEF Answers, Pushes, Signed, Results, FriendPushes

LEMMA TakesFacts ==
    ASSUME CoreInv, NEW name, Takes(name)
    PROVE  /\ Types /\ Screens /\ received # << >> /\ received' = Tail(received) /\ Packet = Head(received)
           /\ Packet \in Pkt /\ Packet \in GoodPkt
           /\ name = Callback(Packet.type, Packet.to) /\ UNCHANGED serverVars
           /\ lists \in Lists
           /\ page \in [peer: Peer \cup {NoPeer}, shown: SUBSET DOMAIN mail, token: 0..Len(owner)]
  <1>1. Types /\ Screens /\ received # << >>
    BY DEF CoreInv, Takes
  <1>2. Head(received) \in Pkt /\ Head(received) \in GoodPkt
    BY <1>1, HeadOfReceived
  <1> QED
    BY <1>1, <1>2 DEF Takes, Packet, Types

\* A packet that changes no token and no screen; w is what the page shows then.
LEMMA TakeStep ==
    ASSUME CoreInv, NEW name, Takes(name), Packet \notin Signed, Packet \notin Answers({"TOKEN_VERIFY"}),
           NEW q, PlainReqs(q), Sends(q), UNCHANGED <<token, file, stack, tokenCheckTimer>>,
           lists' \in Lists,
           page' \in [peer: {page.peer}, shown: SUBSET DOMAIN mail, token: {page.token}],
           ~ Chat => page' = page,
           Main => /\ lists'.friends = IF Packet \in Answers({"FRIEND_LIST"}) THEN FriendsShown(Packet)
                                       ELSE lists.friends
                   /\ lists'.chats = IF Packet \in Answers({"CHAT_LIST"}) THEN ChatsShown(Packet)
                                     ELSE lists.chats
                   /\ Packet \in Pushes(FriendPushes) => ~ NoneOf(q, Asks({"FRIEND_LIST"}))
                   /\ Packet \in Pushes({"DIRECT_MESSAGE"}) => ~ NoneOf(q, Asks({"CHAT_LIST"})),
           Chat => page'.shown = ShownAfter(Packet)
    PROVE  ClientStep(q) /\ ClientEffect(q)
  <1>1. received # << >> /\ received' = Tail(received) /\ Packet = Head(received) /\ UNCHANGED serverVars
    BY TakesFacts
  <1>2. TakesPlain
    BY <1>1 DEF TakesPlain
  <1>3. ClientStep(q)
    BY <1>1, <1>2 DEF ClientStep
  <1>4. ClientEffect(q)
    BY <1>1, <1>2 DEF ClientEffect
  <1> QED
    BY <1>3, <1>4

\* What no handler changes.
LEMMA PageKept ==
    ASSUME Types
    PROVE  page \in [peer: {page.peer}, shown: SUBSET DOMAIN mail, token: {page.token}] /\ lists \in Lists
  BY DEF Types

LEMMA FriendListTaken ==
    ASSUME CoreInv, onFriendListReceived
    PROVE  ClientStep(<< >>) /\ ClientEffect(<< >>)
  <1> DEFINE p == Packet
  <1>0. /\ Takes("friendListReceived") /\ Sends(<< >>) /\ UNCHANGED <<token, file, stack, tokenCheckTimer, page>>
        /\ lists' = IF Shown("Main") THEN [lists EXCEPT !.friends = FriendsShown(p)] ELSE lists
    BY DEF onFriendListReceived, FriendsShown
  <1>1. Types /\ Screens /\ p \in Pkt /\ lists \in Lists /\ Callback(p.type, p.to) = "friendListReceived"
    BY <1>0, TakesFacts
  <1>2. p.type = "RESULT" /\ p.to = "FRIEND_LIST"
    <2>1. p \in Answers({"FRIEND_LIST"})
      BY <1>1, CallbackOf
    <2> QED
      BY <2>1 DEF Answers
  <1>3. FriendsShown(p) \in [whose: Login \cup {NoLogin}, version: Nat]
    BY <1>1 DEF FriendsShown, Pkt
  <1>4. lists' \in Lists /\ lists'.chats = lists.chats
    BY <1>0, <1>1, <1>3 DEF Lists
  <1>5. Main => lists'.friends = FriendsShown(p)
    <2>1. Main => Shown("Main")
      BY <1>1, ScreenFacts DEF Main
    <2> QED
      BY <1>0, <1>1, <2>1 DEF Lists
  <1>6. /\ p \notin Signed /\ p \notin Answers({"TOKEN_VERIFY"}) /\ p \in Answers({"FRIEND_LIST"})
        /\ p \notin Answers({"CHAT_LIST"}) /\ p \notin Answers({"MESSAGE_HISTORY"})
        /\ p \notin Pushes(FriendPushes) /\ p \notin Pushes({"DIRECT_MESSAGE"})
    BY <1>1, <1>2, KindFacts
  <1>7. page'.shown = ShownAfter(p)
    BY <1>0, <1>2, <1>6 DEF ShownAfter
  <1> HIDE DEF p
  <1> QED
    BY <1>0, <1>1, <1>4, <1>5, <1>6, <1>7, PlainNone, PageKept, TakeStep DEF p

LEMMA ChatListTaken ==
    ASSUME CoreInv, onChatListReceived
    PROVE  ClientStep(<< >>) /\ ClientEffect(<< >>)
  <1> DEFINE p == Packet
  <1>0. /\ Takes("chatListReceived") /\ Sends(<< >>) /\ UNCHANGED <<token, file, stack, tokenCheckTimer, page>>
        /\ lists' = IF Shown("Main") THEN [lists EXCEPT !.chats = ChatsShown(p)] ELSE lists
    BY DEF onChatListReceived, ChatsShown
  <1>1. Types /\ Screens /\ p \in Pkt /\ p \in GoodPkt /\ lists \in Lists /\ Callback(p.type, p.to) = "chatListReceived"
    BY <1>0, TakesFacts
  <1>2. p.type = "RESULT" /\ p.to = "CHAT_LIST"
    <2>1. p \in Answers({"CHAT_LIST"})
      BY <1>1, CallbackOf
    <2> QED
      BY <2>1 DEF Answers
  <1>3. ChatsShown(p) \in [whose: Login \cup {NoLogin}, ids: SUBSET DOMAIN mail]
    BY <1>1 DEF ChatsShown, Pkt, GoodPkt
  <1>4. lists' \in Lists /\ lists'.friends = lists.friends
    BY <1>0, <1>1, <1>3 DEF Lists
  <1>5. Main => lists'.chats = ChatsShown(p)
    <2>1. Main => Shown("Main")
      BY <1>1, ScreenFacts DEF Main
    <2> QED
      BY <1>0, <1>1, <2>1 DEF Lists
  <1>6. /\ p \notin Signed /\ p \notin Answers({"TOKEN_VERIFY"}) /\ p \in Answers({"CHAT_LIST"})
        /\ p \notin Answers({"FRIEND_LIST"}) /\ p \notin Answers({"MESSAGE_HISTORY"})
        /\ p \notin Pushes(FriendPushes) /\ p \notin Pushes({"DIRECT_MESSAGE"})
    BY <1>1, <1>2, KindFacts
  <1>7. page'.shown = ShownAfter(p)
    BY <1>0, <1>2, <1>6 DEF ShownAfter
  <1> HIDE DEF p
  <1> QED
    BY <1>0, <1>1, <1>4, <1>5, <1>6, <1>7, PlainNone, PageKept, TakeStep DEF p

LEMMA HistoryTaken ==
    ASSUME CoreInv, onHistoryReceived
    PROVE  ClientStep(<< >>) /\ ClientEffect(<< >>)
  <1> DEFINE p == Packet
  <1>0. /\ Takes("historyReceived") /\ Sends(<< >>) /\ UNCHANGED <<token, file, stack, tokenCheckTimer, lists>>
        /\ page' = IF Shown("Chat") THEN [page EXCEPT !.shown = p.ids] ELSE page
    BY DEF onHistoryReceived, loadHistory
  <1>1. /\ Types /\ Screens /\ p \in Pkt /\ p \in GoodPkt /\ Callback(p.type, p.to) = "historyReceived"
        /\ page \in [peer: Peer \cup {NoPeer}, shown: SUBSET DOMAIN mail, token: 0..Len(owner)]
    BY <1>0, TakesFacts
  <1>2. p.type = "RESULT" /\ p.to = "MESSAGE_HISTORY"
    <2>1. p \in Answers({"MESSAGE_HISTORY"})
      BY <1>1, CallbackOf
    <2> QED
      BY <2>1 DEF Answers
  <1>3. Shown("Chat") <=> Chat
    BY <1>1, ScreenFacts, StackFacts DEF Chat
  <1>4. p.ids \subseteq DOMAIN mail
    BY <1>1 DEF GoodPkt
  <1>5. /\ page' \in [peer: {page.peer}, shown: SUBSET DOMAIN mail, token: {page.token}]
        /\ Chat => page'.shown = p.ids
        /\ ~ Chat => page' = page
    BY <1>0, <1>1, <1>3, <1>4
  <1>6. /\ p \notin Signed /\ p \notin Answers({"TOKEN_VERIFY"}) /\ p \in Answers({"MESSAGE_HISTORY"})
        /\ p \notin Answers({"FRIEND_LIST"}) /\ p \notin Answers({"CHAT_LIST"})
        /\ p \notin Pushes(FriendPushes) /\ p \notin Pushes({"DIRECT_MESSAGE"})
    BY <1>1, <1>2, KindFacts
  <1>7. Chat => page'.shown = ShownAfter(p)
    BY <1>5, <1>6 DEF ShownAfter
  <1> HIDE DEF p
  <1> QED
    BY <1>0, <1>1, <1>5, <1>6, <1>7, PlainNone, PageKept, TakeStep DEF p

LEMMA DirectMessageTaken ==
    ASSUME CoreInv, onDirectMessageReceived
    PROVE  \E q : ClientStep(q) /\ ClientEffect(q)
  <1> DEFINE p == Packet
             q == IF Shown("Main") THEN getLastMessages(token) ELSE << >>
  <1>0. /\ Takes("directMessageReceived") /\ Sends(q) /\ UNCHANGED <<token, file, stack, tokenCheckTimer, lists>>
        /\ page' = IF Shown("Chat") /\ p.peer = page.peer
                   THEN [page EXCEPT !.shown = page.shown \cup p.ids] ELSE page
    BY DEF onDirectMessageReceived, Appended
  <1>1. /\ Types /\ Screens /\ p \in Pkt /\ p \in GoodPkt /\ Callback(p.type, p.to) = "directMessageReceived"
        /\ page \in [peer: Peer \cup {NoPeer}, shown: SUBSET DOMAIN mail, token: 0..Len(owner)]
        /\ lists \in Lists /\ token \in 0..Len(owner)
    BY <1>0, TakesFacts DEF Types
  <1>2. p.type = "DIRECT_MESSAGE"
    <2>1. p \in Pushes({"DIRECT_MESSAGE"})
      BY <1>1, CallbackOf
    <2> QED
      BY <2>1 DEF Pushes
  <1>3. Shown("Chat") <=> Chat
    BY <1>1, ScreenFacts, StackFacts DEF Chat
  <1>4. p.ids \subseteq DOMAIN mail
    BY <1>1 DEF GoodPkt
  <1>5. /\ page' \in [peer: {page.peer}, shown: SUBSET DOMAIN mail, token: {page.token}]
        /\ Chat => page'.shown = IF p.peer = page.peer THEN page.shown \cup p.ids ELSE page.shown
        /\ ~ Chat => page' = page
    BY <1>0, <1>1, <1>3, <1>4
  <1>6. /\ p \notin Signed /\ p \notin Answers({"TOKEN_VERIFY"}) /\ p \notin Answers({"MESSAGE_HISTORY"})
        /\ p \notin Answers({"FRIEND_LIST"}) /\ p \notin Answers({"CHAT_LIST"})
        /\ p \notin Pushes(FriendPushes)
    BY <1>1, <1>2, KindFacts
  <1>7. Chat => page'.shown = ShownAfter(p)
    BY <1>2, <1>5, <1>6 DEF ShownAfter
  <1>8. PlainReqs(q) /\ (Main => ~ NoneOf(q, Asks({"CHAT_LIST"})))
    <2>1. CASE Shown("Main")
      <3> DEFINE r == Request("CHAT_LIST", token, NoPeer)
      <3>1. r \in GoodReq /\ r \in Req /\ r.type = "CHAT_LIST" /\ r.token = token
        BY <1>1, GoodRequest, TypesOfPackets
      <3>2. q = <<r>> /\ stack # <<"Loading">>
        BY <1>1, <2>1, ScreenFacts DEF getLastMessages
      <3> HIDE DEF r, q
      <3>3. PlainReqs(<<r>>)
        BY <3>1, <3>2, PlainOne
      <3>4. r \in Asks({"CHAT_LIST"})
        BY <3>1 DEF Asks
      <3> QED
        BY <3>2, <3>3, <3>4, SingleFacts
    <2>2. CASE ~ Shown("Main")
      <3>1. ~ Main
        BY <1>1, <2>2, ScreenFacts DEF Main
      <3> QED
        BY <2>2, <3>1, PlainNone
    <2> QED
      BY <2>1, <2>2
  <1> HIDE DEF p, q
  <1>9. ClientStep(q) /\ ClientEffect(q)
    BY <1>0, <1>1, <1>5, <1>6, <1>7, <1>8, TakeStep DEF p
  <1> QED
    BY <1>9

LEMMA FriendPushTaken ==
    ASSUME CoreInv, onFriendNewRequest
    PROVE  \E q : ClientStep(q) /\ ClientEffect(q)
  <1> DEFINE p == Packet
             q == IF Shown("Main") THEN getFriendList(token) ELSE << >>
  <1>0. /\ Takes("friendNewRequest") /\ Sends(q) /\ UNCHANGED <<token, file, stack, tokenCheckTimer, lists, page>>
    BY DEF onFriendNewRequest
  <1>1. /\ Types /\ Screens /\ p \in Pkt /\ Callback(p.type, p.to) = "friendNewRequest"
        /\ lists \in Lists /\ token \in 0..Len(owner)
    BY <1>0, TakesFacts DEF Types
  <1>2. p.type \in FriendPushes /\ p.type # "DIRECT_MESSAGE" /\ p.type # "RESULT"
    <2>1. p \in Pushes(FriendPushes)
      BY <1>1, CallbackOf
    <2> QED
      BY <2>1 DEF Pushes, FriendPushes
  <1>3. /\ p \notin Signed /\ p \notin Answers({"TOKEN_VERIFY"}) /\ p \notin Answers({"MESSAGE_HISTORY"})
        /\ p \notin Answers({"FRIEND_LIST"}) /\ p \notin Answers({"CHAT_LIST"})
        /\ p \notin Pushes({"DIRECT_MESSAGE"})
    BY <1>1, <1>2, KindFacts
  <1>4. page'.shown = ShownAfter(p)
    BY <1>0, <1>2, <1>3 DEF ShownAfter
  <1>5. PlainReqs(q) /\ (Main => ~ NoneOf(q, Asks({"FRIEND_LIST"})))
    <2>1. CASE Shown("Main")
      <3> DEFINE r == Request("FRIEND_LIST", token, NoPeer)
      <3>1. r \in GoodReq /\ r \in Req /\ r.type = "FRIEND_LIST" /\ r.token = token
        BY <1>1, GoodRequest, TypesOfPackets
      <3>2. q = <<r>> /\ stack # <<"Loading">>
        BY <1>1, <2>1, ScreenFacts DEF getFriendList
      <3> HIDE DEF r, q
      <3>3. PlainReqs(<<r>>)
        BY <3>1, <3>2, PlainOne
      <3>4. r \in Asks({"FRIEND_LIST"})
        BY <3>1 DEF Asks
      <3> QED
        BY <3>2, <3>3, <3>4, SingleFacts
    <2>2. CASE ~ Shown("Main")
      <3>1. ~ Main
        BY <1>1, <2>2, ScreenFacts DEF Main
      <3> QED
        BY <2>2, <3>1, PlainNone
    <2> QED
      BY <2>1, <2>2
  <1> HIDE DEF p, q
  <1>6. ClientStep(q) /\ ClientEffect(q)
    BY <1>0, <1>1, <1>3, <1>4, <1>5, PageKept, TakeStep DEF p
  <1> QED
    BY <1>6

\* The signals that leave the screens as they are, a failed login among them.
LEMMA OtherTaken ==
    ASSUME CoreInv, NEW name, Takes(name), Sends(<< >>),
           \/ name = "authResult" /\ ~ Packet.ok
           \/ name \in {"friendRequestResult", "chatMessageReceived", NoCallback},
           UNCHANGED <<token, file, stack, tokenCheckTimer, lists, page>>
    PROVE  ClientStep(<< >>) /\ ClientEffect(<< >>)
  <1> DEFINE p == Packet
  <1>1. Types /\ p \in Pkt /\ name = Callback(p.type, p.to) /\ lists \in Lists
    BY TakesFacts
  <1>2. \/ p.type = "MESSAGE"
        \/ p.type = "RESULT" /\ p.to \in {"FRIEND_REQUEST", "FRIEND_ACCEPT", "FRIEND_REJECT", "LOGOUT",
                                          "MESSAGE", "DIRECT_MESSAGE", ""}
        \/ p.type = "RESULT" /\ p.to \in {"LOGIN", "REGISTER"} /\ ~ p.ok
    <2>1. CASE name = "authResult" /\ ~ p.ok
      <3>1. p \in Answers({"LOGIN", "REGISTER"})
        BY <1>1, <2>1, CallbackOf
      <3> QED
        BY <2>1, <3>1 DEF Answers
    <2>2. CASE name \in {"friendRequestResult", "chatMessageReceived", NoCallback}
      <3>1. p.type = "MESSAGE" \/ p \in Answers({"FRIEND_REQUEST", "FRIEND_ACCEPT",
                     "FRIEND_REJECT", "LOGOUT", "MESSAGE", "DIRECT_MESSAGE", ""})
        BY <1>1, <2>2, CallbackOf
      <3> QED
        BY <3>1 DEF Answers
    <2> QED
      BY <2>1, <2>2
  <1> HIDE DEF p
  <1>3. /\ p \notin Signed /\ p \notin Answers({"TOKEN_VERIFY"}) /\ p \notin Answers({"MESSAGE_HISTORY"})
        /\ p \notin Answers({"FRIEND_LIST"}) /\ p \notin Answers({"CHAT_LIST"})
        /\ p \notin Pushes(FriendPushes) /\ p \notin Pushes({"DIRECT_MESSAGE"})
    <2>1. CASE p.type = "MESSAGE"
      BY <1>1, <2>1, KindFacts
    <2>2. CASE p.type = "RESULT"
      <3>1. /\ p.to \notin {"TOKEN_VERIFY", "MESSAGE_HISTORY", "FRIEND_LIST", "CHAT_LIST"}
            /\ ~ (p.ok /\ p.to \in {"LOGIN", "REGISTER", "TOKEN_VERIFY"})
        BY <1>2, <2>2
      <3>2. /\ p \in Answers({"TOKEN_VERIFY"}) => p.to = "TOKEN_VERIFY"
            /\ p \in Answers({"MESSAGE_HISTORY"}) => p.to = "MESSAGE_HISTORY"
            /\ p \in Answers({"FRIEND_LIST"}) => p.to = "FRIEND_LIST"
            /\ p \in Answers({"CHAT_LIST"}) => p.to = "CHAT_LIST"
        BY DEF Answers
      <3>3. p \in Signed => p.ok /\ p.to \in {"LOGIN", "REGISTER", "TOKEN_VERIFY"}
        BY DEF Signed
      <3>4. p \notin Pushes(FriendPushes) /\ p \notin Pushes({"DIRECT_MESSAGE"})
        BY <2>2 DEF Pushes, FriendPushes
      <3> QED
        BY <3>1, <3>2, <3>3, <3>4
    <2> QED
      BY <1>2, <2>1, <2>2
  <1>4. page'.shown = ShownAfter(p)
    BY <1>2, <1>3 DEF ShownAfter
  <1> QED
    BY <1>1, <1>3, <1>4, PlainNone, PageKept, TakeStep DEF p

\* The answer to TOKEN_VERIFY.
LEMMA VerifyTaken ==
    ASSUME CoreInv, onTokenVerify
    PROVE  (\E t, q : SignStep(t, q)) \/ AuthStep(<< >>)
  <1> DEFINE p == Packet
  <1>0. Takes("tokenVerify") /\ tokenCheckTimer' = FALSE /\ UNCHANGED file /\ VerifyInv
    BY DEF onTokenVerify, TimerStopped, CoreInv
  <1>1. /\ Types /\ Screens /\ received # << >> /\ received' = Tail(received) /\ p = Head(received)
        /\ p \in Pkt /\ p \in Answers({"TOKEN_VERIFY"}) /\ UNCHANGED serverVars
    BY <1>0, TakesFacts, CallbackOf
  <1>2. 1 \in DOMAIN received /\ received[1] = p
    BY <1>1, TailIndex DEF Types
  <1>3. (p.ok => p.token = file) /\ Waiting
    BY <1>0, <1>1, <1>2 DEF VerifyInv
  <1>4. token = 0 /\ file # 0 /\ stack \in {<<"Loading">>, <<"Auth">>}
    BY <1>3 DEF Waiting
  <1>5. CASE p.ok
    <2>1. PICK q \in Completed(file) : Sends(q)
      BY <1>5 DEF onTokenVerify
    <2>2. q \in PageLoads(file)
      BY <1>4 DEF Completed
    <2>3. token' = file /\ Replace("Main")
      BY <1>5 DEF onTokenVerify
    <2>4. stack' = <<"Main">> /\ lists' = NoLists /\ page' = NoPage
      BY <1>4, <2>3, ReplaceOne
    <2>5. p \in Signed
      BY <1>1, <1>5 DEF Signed, Answers
    <2> HIDE DEF p
    <2>6. SignStep(file, q)
      BY <1>0, <1>1, <1>3, <1>5, <2>1, <2>2, <2>3, <2>4, <2>5 DEF SignStep
    <2> QED
      BY <2>6
  <1>6. CASE ~ p.ok
    <2>1. Replace("Auth") /\ Sends(<< >>) /\ UNCHANGED token
      BY <1>6 DEF onTokenVerify
    <2>2. stack' = <<"Auth">> /\ lists' = NoLists /\ page' = NoPage
      BY <1>4, <2>1, ReplaceOne
    <2>3. p \notin Signed /\ p \in Results
      BY <1>1, <1>6 DEF Signed, Answers, Results
    <2>4. NoneOf(sent, Asks({"TOKEN_VERIFY"})) /\ NoneOf(received', Answers({"TOKEN_VERIFY"}))
      BY <1>1, <2>3, VerifyGone
    <2>5. \A A : NoneOf(<< >>, A)
      BY EmptyFacts
    <2> HIDE DEF p
    <2>6. AuthStep(<< >>)
      BY <1>0, <1>1, <1>4, <2>1, <2>2, <2>3, <2>4, <2>5 DEF AuthStep
    <2> QED
      BY <2>6
  <1> QED
    BY <1>5, <1>6

\* The answer to a login or a registration.
LEMMA AuthTaken ==
    ASSUME CoreInv, onAuthResult
    PROVE  (\E t, q : SignStep(t, q)) \/ (ClientStep(<< >>) /\ ClientEffect(<< >>))
  <1> DEFINE p == Packet
  <1>0. Takes("authResult") /\ UNCHANGED tokenCheckTimer /\ VerifyInv
    BY DEF onAuthResult, CoreInv
  <1>1. /\ Types /\ Screens /\ received # << >> /\ received' = Tail(received) /\ p = Head(received)
        /\ p \in Pkt /\ p \in GoodPkt /\ p \in Answers({"LOGIN", "REGISTER"}) /\ UNCHANGED serverVars
    BY <1>0, TakesFacts, CallbackOf
  <1>2. CASE p.ok
    <2>1. token' = p.token /\ file' = p.token
      BY <1>2 DEF onAuthResult, NewToken
    <2>2. p \in Signed
      BY <1>1, <1>2 DEF Signed, Answers
    <2>3. p.token # 0
      BY <1>1, <2>2 DEF GoodPkt
    <2>4. 1 \in DOMAIN received /\ received[1] = p
      BY <1>1, TailIndex DEF Types
    <2>5. stack # <<"Loading">>
      BY <1>0, <1>1, <2>4 DEF VerifyInv, NoneOf
    <2>6. tokenCheckTimer' = FALSE
      <3>1. tokenCheckTimer \in BOOLEAN
        BY <1>1 DEF Types
      <3> QED
        BY <1>0, <1>1, <2>5, <3>1 DEF Screens
    <2>7. CASE Shown("Auth")
      <3>1. PICK q \in Completed(p.token) : Sends(q)
        BY <1>2, <2>7 DEF onAuthResult
      <3>2. q \in PageLoads(p.token)
        BY <2>3 DEF Completed
      <3>3. Replace("Main")
        BY <1>2, <2>7 DEF onAuthResult
      <3>4. stack = <<"Auth">>
        BY <1>1, <2>7, ScreenFacts
      <3>5. stack' = <<"Main">> /\ lists' = NoLists /\ page' = NoPage
        BY <3>3, <3>4, ReplaceOne
      <3> HIDE DEF p
      <3>6. SignStep(p.token, q)
        BY <1>1, <2>1, <2>2, <2>6, <3>1, <3>2, <3>5 DEF SignStep
      <3> QED
        BY <3>6
    <2>8. CASE ~ Shown("Auth")
      <3>1. Main /\ Shown("Main")
        BY <1>1, <2>5, <2>8, ScreenFacts DEF Main
      <3>2. PICK q \in Reloads(p.token) : Sends(q)
        BY <1>2, <2>8 DEF onAuthResult
      <3>3. q \in PageLoads(p.token)
        BY <3>1 DEF Reloads
      <3>4. UNCHANGED <<stack, lists, page>>
        BY <1>2, <2>8 DEF onAuthResult
      <3> HIDE DEF p
      <3>5. SignStep(p.token, q)
        BY <1>1, <2>1, <2>2, <2>6, <3>1, <3>2, <3>3, <3>4 DEF SignStep
      <3> QED
        BY <3>5
    <2> QED
      BY <2>7, <2>8
  <1>3. CASE ~ p.ok
    <2>1. Sends(<< >>) /\ UNCHANGED <<token, file, stack, lists, page>>
      BY <1>3 DEF onAuthResult
    <2> QED
      BY <1>0, <1>3, <2>1, OtherTaken
  <1> QED
    BY <1>2, <1>3

LEMMA LogoutClick ==
    ASSUME CoreInv, logout
    PROVE  \E q : AuthStep(q)
  <1> DEFINE r == Request("LOGOUT", token, NoPeer)
  <1>0. Click("Main") /\ token' = 0 /\ file' = 0 /\ Replace("Auth")
    BY DEF logout, TokenCleared
  <1>1. stack = <<"Main">> /\ token # 0 /\ Main /\ token \in 0..Len(owner) /\ Types /\ Screens
    BY <1>0, ClickFacts
  <1>2. Sends(<<r>>)
    BY <1>1 DEF logout
  <1>3. r \in GoodReq /\ r.type = "LOGOUT"
    BY <1>1, GoodRequest, TypesOfPackets
  <1>4. stack' = <<"Auth">> /\ lists' = NoLists /\ page' = NoPage
    BY <1>0, <1>1, ReplaceOne
  <1>5. NoneOf(sent, Asks({"TOKEN_VERIFY"})) /\ NoneOf(received, Answers({"TOKEN_VERIFY"}))
    BY <1>1, ScreenFacts, VerifyGone
  <1>6. tokenCheckTimer = FALSE
    <2>1. tokenCheckTimer \in BOOLEAN
      BY <1>1 DEF Types
    <2> QED
      BY <1>1, <2>1 DEF Screens
  <1>7. UNCHANGED <<received, tokenCheckTimer, serverVars>>
    BY <1>0 DEF Click
  <1> HIDE DEF r
  <1>8. NoneOf(<<r>>, Asks({"TOKEN_VERIFY"})) /\ NoneOf(<<r>>, Asks({"FRIEND_ACCEPT", "FRIEND_REJECT"}))
    BY <1>3, SingleFacts DEF Asks
  <1>9. <<r>> \in Seq(GoodReq)
    BY <1>3
  <1>10. AuthStep(<<r>>)
    BY <1>0, <1>2, <1>4, <1>5, <1>6, <1>7, <1>8, <1>9 DEF AuthStep
  <1> QED
    BY <1>10

LEMMA TimerStep ==
    ASSUME CoreInv, TimerTriggered
    PROVE  AuthStep(<< >>)
  <1>1. Types /\ Screens
    BY DEF CoreInv
  <1>2. stack = <<"Loading">> /\ token = 0
    BY <1>1 DEF Screens, TimerTriggered
  <1>3. stack' = <<"Auth">> /\ lists' = NoLists /\ page' = NoPage
    BY <1>2, ReplaceOne DEF TimerTriggered
  <1>4. Sends(<< >>)
    <2>1. sent \o << >> = sent
      BY <1>1, ConcatEmptySeq DEF Types
    <2> QED
      BY <2>1 DEF Sends, TimerTriggered, netVars
  <1>5. UNCHANGED <<token, file, received, sent, serverVars>> /\ tokenCheckTimer' = FALSE
    BY DEF TimerTriggered, netVars
  <1>6. \A A : NoneOf(<< >>, A)
    BY EmptyFacts
  <1> QED
    BY <1>2, <1>3, <1>4, <1>5, <1>6 DEF AuthStep

LEMMA OpenStep ==
    ASSUME CoreInv, NEW p \in Peer, OpenChat(p)
    PROVE  \E q : ChatStep(q)
  <1> DEFINE r == Request("MESSAGE_HISTORY", token, p)
  <1>0. /\ Click("Main") /\ Sends(<<r>>) /\ page' = [peer |-> p, shown |-> {}, token |-> token]
        /\ stack' = Append(stack, "Chat") /\ UNCHANGED <<token, file, lists>>
    BY DEF OpenChat
  <1>1. stack = <<"Main">> /\ Main /\ token \in 0..Len(owner) /\ Types
    BY <1>0, ClickFacts
  <1>2. r \in GoodReq /\ r \in Req /\ r.type = "MESSAGE_HISTORY" /\ r.token = token /\ r.peer = p
    BY <1>1, GoodRequest, TypesOfPackets
  <1>3. stack' = <<"Main", "Chat">>
    BY <1>0, <1>1, StackFacts
  <1>4. UNCHANGED <<received, tokenCheckTimer, serverVars>>
    BY <1>0 DEF Click
  <1> HIDE DEF r
  <1>5. \A T : r \in Asks(T) <=> r.type \in T
    BY <1>2 DEF Asks
  <1>6. /\ NoneOf(<<r>>, Asks({"TOKEN_VERIFY"})) /\ NoneOf(<<r>>, Asks({"FRIEND_ACCEPT", "FRIEND_REJECT"}))
        /\ NoneOf(<<r>>, Asks({"FRIEND_LIST"})) /\ LastOf(<<r>>, Asks({"CHAT_LIST"}), WithToken(token))
        /\ ~ NoneOf(<<r>>, Asks({"MESSAGE_HISTORY"}))
    <2>1. \A T : "MESSAGE_HISTORY" \notin T => r \notin Asks(T) /\ NoneOf(<<r>>, Asks(T))
      BY <1>2, <1>5, SingleFacts
    <2>2. LastOf(<<r>>, Asks({"CHAT_LIST"}), WithToken(token))
      BY <2>1 DEF NoneOf, LastOf
    <2>3. ~ NoneOf(<<r>>, Asks({"MESSAGE_HISTORY"}))
      BY <1>2, <1>5, SingleFacts
    <2> QED
      BY <2>1, <2>2, <2>3
  <1>7. page'.token = token /\ page'.peer = p /\ page' \in [peer: Peer, shown: {{}}, token: {token}]
    BY <1>0
  <1>8. r \in {x \in Req : x.token = page'.token /\ x.peer = page'.peer}
    BY <1>2, <1>7
  <1>9. LastOf(<<r>>, Asks({"MESSAGE_HISTORY"}), {x \in Req : x.token = page'.token /\ x.peer = page'.peer})
    BY <1>8, SingleFacts
  <1>10. <<r>> \in Seq(GoodReq)
    BY <1>2
  <1>11. ChatStep(<<r>>)
    BY <1>0, <1>1, <1>3, <1>4, <1>6, <1>7, <1>9, <1>10 DEF ChatStep
  <1> QED
    BY <1>11

LEMMA CloseStep ==
    ASSUME CoreInv, CloseChat
    PROVE  \E q : ChatStep(q)
  <1> DEFINE r == Request("CHAT_LIST", token, NoPeer)
  <1>0. /\ Click("Chat") /\ Sends(<<r>>) /\ page' = NoPage
        /\ stack' = SubSeq(stack, 1, Len(stack) - 1) /\ UNCHANGED <<token, file, lists>>
    BY DEF CloseChat, VisibleAgain, getLastMessages
  <1>1. stack = <<"Main", "Chat">> /\ Main /\ token \in 0..Len(owner) /\ Types
    BY <1>0, ClickFacts DEF Chat
  <1>2. r \in GoodReq /\ r \in Req /\ r.type = "CHAT_LIST" /\ r.token = token
    BY <1>1, GoodRequest, TypesOfPackets
  <1>3. stack' = <<"Main">>
    <2>1. Len(stack) = 2 /\ 2 - 1 = 1
      BY <1>1, StackFacts
    <2> QED
      BY <1>0, <1>1, <2>1, StackFacts
  <1>4. UNCHANGED <<received, tokenCheckTimer, serverVars>>
    BY <1>0 DEF Click
  <1> HIDE DEF r
  <1>5. \A T : r \in Asks(T) <=> r.type \in T
    BY <1>2 DEF Asks
  <1>6. /\ NoneOf(<<r>>, Asks({"TOKEN_VERIFY"})) /\ NoneOf(<<r>>, Asks({"FRIEND_ACCEPT", "FRIEND_REJECT"}))
        /\ NoneOf(<<r>>, Asks({"FRIEND_LIST"})) /\ NoneOf(<<r>>, Asks({"DIRECT_MESSAGE"}))
        /\ ~ NoneOf(<<r>>, Asks({"CHAT_LIST"}))
    BY <1>2, <1>5, SingleFacts
  <1>7. LastOf(<<r>>, Asks({"CHAT_LIST"}), WithToken(token))
    BY <1>2, SingleFacts DEF WithToken
  <1>8. <<r>> \in Seq(GoodReq)
    BY <1>2
  <1>9. ChatStep(<<r>>)
    BY <1>0, <1>1, <1>3, <1>4, <1>6, <1>7, <1>8 DEF ChatStep
  <1> QED
    BY <1>9

\* Every step of the client keeps the invariant.
LEMMA QtStep ==
    ASSUME CoreInv, FreshInv, QtSignal \/ UserClick \/ TimerTriggered
    PROVE  CoreInv' /\ FreshInv'
  <1>1. ASSUME \E q : ClientStep(q) /\ ClientEffect(q) PROVE CoreInv' /\ FreshInv'
    BY <1>1, ClientFresh
  <1>2. ASSUME \E t, q : SignStep(t, q) PROVE CoreInv' /\ FreshInv'
    BY <1>2, SignCore, SignFresh
  <1>3. ASSUME \E q : AuthStep(q) PROVE CoreInv' /\ FreshInv'
    BY <1>3, AuthCore, AuthFresh
  <1>4. ASSUME \E q : ChatStep(q) PROVE CoreInv' /\ FreshInv'
    BY <1>4, ChatCore, ChatFresh
  <1>5. CASE QtSignal
    <2>1. CASE onTokenVerify
      BY <1>2, <1>3, <2>1, VerifyTaken
    <2>2. CASE onAuthResult
      BY <1>1, <1>2, <2>2, AuthTaken
    <2>3. CASE onFriendListReceived
      BY <1>1, <2>3, FriendListTaken
    <2>4. CASE onChatListReceived
      BY <1>1, <2>4, ChatListTaken
    <2>5. CASE onHistoryReceived
      BY <1>1, <2>5, HistoryTaken
    <2>6. CASE onDirectMessageReceived
      BY <1>1, <2>6, DirectMessageTaken
    <2>7. CASE onFriendNewRequest
      BY <1>1, <2>7, FriendPushTaken
    <2>8. CASE onOtherSignal
      <3>1. PICK name \in {"friendRequestResult", "chatMessageReceived", NoCallback} : Takes(name)
        BY <2>8 DEF onOtherSignal
      <3>2. Sends(<< >>) /\ UNCHANGED <<token, file, stack, tokenCheckTimer, lists, page>>
        BY <2>8 DEF onOtherSignal
      <3> QED
        BY <1>1, <3>1, <3>2, OtherTaken
    <2> QED
      BY <1>5, <2>1, <2>2, <2>3, <2>4, <2>5, <2>6, <2>7, <2>8 DEF QtSignal
  <1>6. CASE UserClick
    <2>1. ASSUME NEW l \in Login, loginUser(l) \/ registerUser(l) PROVE CoreInv' /\ FreshInv'
      BY <1>1, <2>1, LoginClick
    <2>2. ASSUME NEW p \in Peer, OpenChat(p) PROVE CoreInv' /\ FreshInv'
      BY <1>4, <2>2, OpenStep
    <2>3. CASE FriendClick
      BY <1>1, <2>3, FriendClickStep
    <2>4. CASE logout
      BY <1>3, <2>4, LogoutClick
    <2>5. CASE sendMessageGeneralChat
      BY <1>1, <2>5, MainClick DEF sendMessageGeneralChat
    <2>6. CASE ShowChats
      BY <1>1, <2>6, MainClick DEF ShowChats, VisibleAgain, getLastMessages
    <2>7. CASE CloseChat
      BY <1>4, <2>7, CloseStep
    <2>8. CASE sendDirectMessage
      BY <1>1, <2>8, DirectClick
    <2> QED
      BY <1>6, <2>1, <2>2, <2>3, <2>4, <2>5, <2>6, <2>7, <2>8 DEF UserClick
  <1>7. CASE TimerTriggered
    BY <1>3, <1>7, TimerStep
  <1> QED
    BY <1>5, <1>6, <1>7

-----------------------------------------------------------------------------
(***************************************************************************)
(* What the server does.                                                   *)
(***************************************************************************)

\* The packets that are pushed.
LEMMA PushFields ==
    ASSUME NEW type \in PushType
    PROVE  /\ Push(type) \in
                [type: {type}, to: {""}, ok: {FALSE}, token: {0}, whose: {NoLogin}, version: {0},
                 ids: {{}}, peer: {NoPeer}]
           /\ Push(type) \in Pkt /\ Push(type).type = type /\ Push(type).ids = {} /\ Push(type).token = 0
           /\ type # "RESULT"
  <1>1. Blank \in [type: {"RESULT"}, to: {""}, ok: {FALSE}, token: {0}, whose: {NoLogin}, version: {0},
                   ids: {{}}, peer: {NoPeer}]
    BY DEF Blank
  <1>2. Push(type) \in [type: {type}, to: {""}, ok: {FALSE}, token: {0}, whose: {NoLogin}, version: {0},
                        ids: {{}}, peer: {NoPeer}]
    BY <1>1 DEF Push
  <1>3. type # "RESULT"
    BY TypesOfPackets
  <1>4. FALSE \in BOOLEAN /\ 0 \in Nat /\ {} \in SUBSET Nat
    OBVIOUS
  <1> QED
    BY <1>2, <1>3, <1>4 DEF Pkt

\* The fields of a result, before any is set besides the error.
LEMMA ResultFields ==
    ASSUME Types, sent # << >>, NEW err
    PROVE  /\ Head(sent).type \in RequestType
           /\ RESULT(err) \in
                [type: {"RESULT"}, to: {Head(sent).type}, ok: {err = "OK"}, token: {0}, whose: {NoLogin},
                 version: {0}, ids: {{}}, peer: {NoPeer}]
  <1> DEFINE to == Head(sent).type
             ok == err = "OK"
  <1>1. to \in RequestType
    BY HeadOfSent DEF Req
  <1>2. Blank \in [type: {"RESULT"}, to: {""}, ok: {FALSE}, token: {0}, whose: {NoLogin}, version: {0},
                   ids: {{}}, peer: {NoPeer}]
    BY DEF Blank
  <1>3. RESULT(err) = [Blank EXCEPT !.to = to, !.ok = ok]
    BY DEF RESULT
  <1> HIDE DEF to, ok
  <1>4. RESULT(err) \in [type: {"RESULT"}, to: {to}, ok: {ok}, token: {0}, whose: {NoLogin}, version: {0},
                         ids: {{}}, peer: {NoPeer}]
    BY <1>2, <1>3
  <1> QED
    BY <1>1, <1>4 DEF to, ok

LEMMA ResultIsPkt ==
    ASSUME Types, sent # << >>, NEW err
    PROVE  /\ RESULT(err) \in Pkt /\ RESULT(err).type = "RESULT" /\ RESULT(err).to = Head(sent).type
           /\ RESULT(err).ok = (err = "OK") /\ RESULT(err).token = 0 /\ RESULT(err).ids = {}
  <1> DEFINE to == Head(sent).type
             ok == err = "OK"
  <1>1. /\ to \in RequestType /\ ok \in BOOLEAN
        /\ RESULT(err) \in [type: {"RESULT"}, to: {to}, ok: {ok}, token: {0}, whose: {NoLogin},
                            version: {0}, ids: {{}}, peer: {NoPeer}]
    BY ResultFields
  <1>2. 0 \in Nat /\ {} \in SUBSET Nat
    OBVIOUS
  <1> HIDE DEF to, ok
  <1>3. RESULT(err) \in Pkt /\ RESULT(err).type = "RESULT" /\ RESULT(err).to = to
        /\ RESULT(err).ok = ok /\ RESULT(err).token = 0 /\ RESULT(err).ids = {}
    BY <1>1, <1>2 DEF Pkt
  <1> QED
    BY <1>3 DEF to, ok

\* A packet without a token is well formed when its ids are those of messages.
LEMMA GoodUnsigned ==
    ASSUME Types, Grows, NEW p \in Pkt, p.token = 0, p \notin Signed, p.ids \subseteq DOMAIN mail',
           p.type = "DIRECT_MESSAGE" => \A i \in p.ids : mail'[i].peer = p.peer
    PROVE  p \in GoodPkt'
  <1>1. Len(owner') \in Nat
    BY GrowsDomains
  <1>2. p.token <= Len(owner')
    BY <1>1
  <1> QED
    BY <1>2 DEF GoodPkt

\* One RESULT, behind packets that are none.
LEMMA ResultLast ==
    ASSUME NEW S, NEW b \in Seq(S), NoneOf(b, Results), NEW p \in S, p \in Results
    PROVE  /\ b \o <<p>> \in Seq(S)
           /\ \A i \in DOMAIN (b \o <<p>>) : (b \o <<p>>)[i] \in Results =>
                 i = Len(b \o <<p>>) /\ (b \o <<p>>)[i] = p
           /\ \E i \in DOMAIN (b \o <<p>>) : (b \o <<p>>)[i] = p
  <1> DEFINE k == b \o <<p>>
             m == Len(b)
  <1>0. <<p>> \in Seq(S) /\ Len(<<p>>) = 1 /\ <<p>>[1] = p /\ DOMAIN <<p>> = {1}
    OBVIOUS
  <1>1. k \in Seq(S) /\ Len(k) = m + 1
    BY <1>0, ConcatProperties
  <1>2. /\ m \in Nat /\ DOMAIN b = 1..m
        /\ \A i \in DOMAIN b : k[i] = b[i]
        /\ m + 1 \in DOMAIN k /\ k[m + 1] = p
        /\ \A i \in DOMAIN k : i \in DOMAIN b \/ i = m + 1
    BY <1>0, ConcatIndex
  <1> HIDE DEF k, m
  <1>3. \A i \in DOMAIN k : k[i] \in Results => i = Len(k) /\ k[i] = p
    BY <1>1, <1>2 DEF NoneOf
  <1> QED
    BY <1>1, <1>2, <1>3 DEF k

\* A row is added to direct_messages.
LEMMA AppendMail ==
    ASSUME Types, NEW row \in MailRow, mail' = Append(mail, row), UNCHANGED owner
    PROVE  /\ Grows /\ DOMAIN mail \subseteq DOMAIN mail'
           /\ Len(mail) + 1 \in DOMAIN mail' /\ mail'[Len(mail) + 1] = row
           /\ \A i \in DOMAIN mail' : i \in DOMAIN mail \/ i = Len(mail) + 1
           /\ \A i \in DOMAIN mail : mail'[i] = mail[i]
           /\ Len(mail) + 1 \in Nat
  <1>1. mail \in Seq(MailRow) /\ owner \in Seq(Login) /\ Len(owner) \in Nat
    BY TableDomains DEF Types, MailRow
  <1> DEFINE n == Len(mail)
  <1>2. n \in Nat /\ DOMAIN mail = 1..n
    BY <1>1, LenProperties
  <1>3. /\ mail' \in Seq(MailRow) /\ Len(mail') = n + 1
        /\ \A i \in 1..n : mail'[i] = mail[i]
        /\ mail'[n + 1] = row
    BY <1>1, AppendProperties
  <1>4. DOMAIN mail' = 1..(n + 1)
    BY <1>3, LenProperties
  <1> HIDE DEF n
  <1>5. /\ \A i \in 1..(n + 1) : i \in 1..n \/ i = n + 1
        /\ n + 1 \in 1..(n + 1) /\ 1..n \subseteq 1..(n + 1) /\ n <= n + 1 /\ n + 1 \in Nat
    BY <1>2
  <1>6. Grows
    <2>1. Len(mail) <= Len(mail')
      BY <1>3, <1>5 DEF n
    <2>2. Len(owner) <= Len(owner')
      BY <1>1
    <2> QED
      BY <1>1, <1>2, <1>3, <2>1, <2>2 DEF Grows
  <1> QED
    BY <1>2, <1>3, <1>4, <1>5, <1>6 DEF n

\* The server answers a request that is no login with p, behind the packets b.
LEMMA AnswerStep ==
    ASSUME CoreInv, NEW types, NEW b \in Seq(GoodPkt'), NoneOf(b, Results),
           NEW p \in GoodPkt', p \in Results, p.to = Head(sent).type, p \notin Signed,
           Serves(types, b \o <<p>>), Grows,
           UNCHANGED <<owner, dead, current_login, entries, delivered>>,
           friendships' \in [Login -> Nat]
    PROVE  /\ ServerStep(b \o <<p>>) /\ Taken /\ Types
           /\ dead \subseteq dead' /\ entries' \subseteq entries
  <1> DEFINE k == b \o <<p>>
  <1>1. Types
    BY DEF CoreInv
  <1>2. /\ connected /\ sent # << >> /\ sent' = Tail(sent) /\ received' = received \o k
        /\ UNCHANGED <<connected, appVars>>
    BY DEF Serves
  <1>3. /\ k \in Seq(GoodPkt')
        /\ \A i \in DOMAIN k : k[i] \in Results => i = Len(k) /\ k[i] = p
    BY ResultLast
  <1> HIDE DEF k
  <1>4. NoneOf(k, Signed)
    <2>1. \A x : x \in Signed => x \in Results
      BY DEF Signed, Results
    <2> QED
      BY <1>3, <2>1 DEF NoneOf
  <1>5. /\ dead' \subseteq DOMAIN owner' /\ current_login' \in Login \cup {NoLogin}
        /\ entries' \subseteq Login /\ delivered' \subseteq DOMAIN mail'
    BY <1>1, GrowsDomains DEF Types
  <1>6. \A i \in DOMAIN k : k[i] \in Results => i = Len(k) /\ k[i].to = Head(sent).type
    BY <1>3
  <1>7. ServerStep(k)
    BY <1>2, <1>3, <1>4, <1>5, <1>6 DEF ServerStep, NoneOf
  <1> QED
    BY <1>1, <1>2, <1>7 DEF Taken, k

\* Without packets before the RESULT.
LEMMA OneAnswer ==
    ASSUME CoreInv, NEW types, NEW p \in GoodPkt', p \in Results, p.to = Head(sent).type, p \notin Signed,
           Serves(types, <<p>>), Grows,
           UNCHANGED <<owner, dead, current_login, entries, delivered>>,
           friendships' \in [Login -> Nat]
    PROVE  /\ ServerStep(<<p>>) /\ Taken /\ Types
           /\ dead \subseteq dead' /\ entries' \subseteq entries
  <1>1. << >> \in Seq(GoodPkt') /\ <<p>> \in Seq(GoodPkt')
    OBVIOUS
  <1>2. << >> \o <<p>> = <<p>>
    BY <1>1, ConcatEmptySeq
  <1>3. NoneOf(<< >>, Results)
    BY EmptyFacts
  <1> DEFINE e == << >>
  <1>4. e \in Seq(GoodPkt') /\ NoneOf(e, Results) /\ e \o <<p>> = <<p>>
    BY <1>1, <1>2, <1>3
  <1> HIDE DEF e
  <1>5. Serves(types, e \o <<p>>)
    BY <1>4
  <1>6. /\ ServerStep(e \o <<p>>) /\ Taken /\ Types
        /\ dead \subseteq dead' /\ entries' \subseteq entries
    BY <1>4, <1>5, AnswerStep
  <1> QED
    BY <1>4, <1>6

\* Nothing that the effect of a server step is about has changed.
LEMMA NoEffect ==
    ASSUME Types, NEW k, dead \subseteq dead', entries' \subseteq entries \/ ~ NoneOf(k, Signed),
           UNCHANGED <<mail, friendships>>,
           ~ (Taken /\ Head(sent).type \in {"FRIEND_LIST", "CHAT_LIST", "MESSAGE_HISTORY"})
    PROVE  ServerEffect(k)
  <1>1. \A l : MailOf(l)' = MailOf(l)
    BY DEF MailOf
  <1>2. \A l, p : Incoming(l, p)' = Incoming(l, p)
    BY DEF Incoming
  <1> QED
    BY <1>1, <1>2 DEF ServerEffect

LEMMA RefusalStep ==
    ASSUME CoreInv, ServeRefusal
    PROVE  \E k : ServerStep(k) /\ ServerEffect(k)
  <1> DEFINE p == RESULT("NonAuthorized")
  <1>0. /\ Serves({"LOGIN", "REGISTER", "TOKEN_VERIFY"}, <<p>>)
        /\ UNCHANGED <<owner, dead, current_login, entries, mail, delivered, friendships>>
    BY DEF ServeRefusal
  <1>1. Types /\ sent # << >> /\ Head(sent).type \in {"LOGIN", "REGISTER", "TOKEN_VERIFY"}
    BY <1>0 DEF CoreInv, Serves
  <1>2. /\ p \in Pkt /\ p.type = "RESULT" /\ p.to = Head(sent).type /\ ~ p.ok /\ p.token = 0 /\ p.ids = {}
    BY <1>1, ResultIsPkt
  <1> HIDE DEF p
  <1>3. p \in Results /\ p \notin Signed
    BY <1>2 DEF Results, Signed
  <1>4. Grows /\ friendships' \in [Login -> Nat]
    BY <1>0, <1>1, SameGrows DEF Types
  <1>5. p \in GoodPkt'
    BY <1>1, <1>2, <1>3, <1>4, GoodUnsigned
  <1>6. ServerStep(<<p>>) /\ dead \subseteq dead' /\ entries' \subseteq entries
    BY <1>0, <1>2, <1>3, <1>4, <1>5, OneAnswer
  <1>7. ServerEffect(<<p>>)
    BY <1>0, <1>1, <1>6, NoEffect
  <1> QED
    BY <1>6, <1>7

LEMMA LogoutStep ==
    ASSUME CoreInv, ServeLogout
    PROVE  \E k : ServerStep(k) /\ ServerEffect(k)
  <1>0. /\ connected /\ sent # << >> /\ Head(sent).type = "LOGOUT" /\ sent' = Tail(sent)
        /\ received' = received \o << >> /\ UNCHANGED <<connected, appVars>>
        /\ dead' = dead \cup {Head(sent).token} /\ current_login' = NoLogin
        /\ UNCHANGED <<owner, entries, mail, delivered, friendships>>
    BY DEF ServeLogout, Serves
  <1>1. Types
    BY DEF CoreInv
  <1>2. Grows
    BY <1>0, <1>1, SameGrows
  <1>3. Head(sent).token \in DOMAIN owner
    <2>1. Head(sent) \in GoodReq /\ Head(sent) \in Req
      BY <1>0, <1>1, HeadOfSent
    <2>2. Head(sent).token \in Nat /\ Head(sent).token <= Len(owner) /\ Head(sent).token # 0
      BY <1>0, <2>1 DEF GoodReq, Req
    <2> QED
      BY <1>1, <2>2, TableDomains
  <1>4. ServerStep(<< >>)
    <2>1. << >> \in Seq(GoodPkt') /\ DOMAIN << >> = {}
      OBVIOUS
    <2>2. /\ dead' \subseteq DOMAIN owner' /\ current_login' \in Login \cup {NoLogin}
          /\ entries' \subseteq Login /\ delivered' \subseteq DOMAIN mail'
          /\ friendships' \in [Login -> Nat]
      BY <1>0, <1>1, <1>3 DEF Types
    <2> QED
      BY <1>0, <1>2, <2>1, <2>2 DEF ServerStep
  <1>5. ServerEffect(<< >>)
    BY <1>0, <1>1, NoEffect
  <1> QED
    BY <1>4, <1>5

LEMMA ReadStep ==
    ASSUME CoreInv, ServeRead
    PROVE  \E k : ServerStep(k) /\ ServerEffect(k)
  <1> DEFINE req == Head(sent)
             l == OwnerOf(req.token)
             ids == CASE req.type = "CHAT_LIST" -> MailOf(l)
                      [] req.type = "MESSAGE_HISTORY" -> History(l, req.peer)
                      [] OTHER -> {}
             v == IF l # NoLogin /\ req.type = "FRIEND_LIST" THEN friendships[l] ELSE 0
             err == IF l = NoLogin THEN "NonAuthorized" ELSE "OK"
             p == [RESULT(err) EXCEPT !.whose = l, !.ids = ids, !.version = v]
  <1>0. /\ Serves({"FRIEND_LIST", "CHAT_LIST", "MESSAGE_HISTORY"}, <<p>>)
        /\ UNCHANGED <<owner, dead, current_login, entries, mail, delivered, friendships>>
    BY DEF ServeRead
  <1>1. Types /\ sent # << >> /\ req.type \in {"FRIEND_LIST", "CHAT_LIST", "MESSAGE_HISTORY"}
    BY <1>0 DEF CoreInv, Serves
  <1>2. l \in Login \cup {NoLogin} /\ v \in Nat
    <2>1. l \in Login \cup {NoLogin}
      BY <1>1, TableDomains DEF OwnerOf, Live
    <2> HIDE DEF l
    <2> QED
      BY <1>1, <2>1 DEF Types
  <1>3. ids \subseteq DOMAIN mail /\ ids \in SUBSET Nat
    <2>1. ids \subseteq DOMAIN mail
      <3>1. MailOf(l) \subseteq DOMAIN mail /\ History(l, req.peer) \subseteq DOMAIN mail
        BY DEF MailOf, History
      <3> HIDE DEF req, l
      <3> QED
        BY <1>1, <3>1
    <2>2. DOMAIN mail \subseteq Nat
      BY <1>1, TableDomains
    <2> HIDE DEF ids
    <2> QED
      BY <2>1, <2>2
  <1>4. /\ req.type = "CHAT_LIST" => ids = MailOf(l)
        /\ req.type = "MESSAGE_HISTORY" => ids = History(l, req.peer)
        /\ req.type = "FRIEND_LIST" /\ l # NoLogin => v = friendships[l]
    OBVIOUS
  <1> HIDE DEF l, ids, v, err
  <1>p. p = [RESULT(err) EXCEPT !.whose = l, !.ids = ids, !.version = v]
    OBVIOUS
  <1> HIDE DEF p
  <1>5. /\ p \in Pkt /\ p.type = "RESULT" /\ p.to = req.type /\ p.token = 0
        /\ p.whose = l /\ p.ids = ids /\ p.version = v
    <2> DEFINE to == Head(sent).type
               ok == err = "OK"
    <2>1. /\ to \in RequestType /\ ok \in BOOLEAN
          /\ RESULT(err) \in [type: {"RESULT"}, to: {to}, ok: {ok}, token: {0}, whose: {NoLogin},
                              version: {0}, ids: {{}}, peer: {NoPeer}]
      BY <1>1, ResultFields
    <2> HIDE DEF to, ok
    <2>2. p \in [type: {"RESULT"}, to: {to}, ok: {ok}, token: {0}, whose: {l}, version: {v},
                 ids: {ids}, peer: {NoPeer}]
      BY <1>p, <2>1
    <2>3. /\ p \in Pkt /\ p.type = "RESULT" /\ p.to = to /\ p.token = 0
          /\ p.whose = l /\ p.ids = ids /\ p.version = v
      <3>1. /\ to \in RequestType \cup {""} /\ ok \in BOOLEAN /\ ids \in SUBSET Nat /\ v \in Nat
            /\ l \in Login \cup {NoLogin} /\ "RESULT" \in {"RESULT"} \cup PushType /\ 0 \in Nat
            /\ NoPeer \in Peer \cup {NoPeer}
        BY <1>2, <1>3, <2>1
      <3>2. p \in Pkt
        BY <2>2, <3>1 DEF Pkt
      <3> QED
        BY <2>2, <3>2
    <2> QED
      BY <2>3 DEF to
  <1>6. p \in Results /\ p \notin Signed /\ p \in Answers({req.type})
    BY <1>1, <1>5 DEF Results, Signed, Answers
  <1>7. Grows /\ friendships' \in [Login -> Nat] /\ DOMAIN mail' = DOMAIN mail
    BY <1>0, <1>1, SameGrows DEF Types
  <1>8. p \in GoodPkt'
    BY <1>1, <1>3, <1>5, <1>6, <1>7, GoodUnsigned
  <1>9. ServerStep(<<p>>) /\ dead \subseteq dead' /\ entries' \subseteq entries
    BY <1>0, <1>5, <1>6, <1>7, <1>8, OneAnswer
  <1>10. ReadAnswer(p)
    BY <1>4, <1>5, <1>6 DEF ReadAnswer, l
  <1>11. ServerEffect(<<p>>)
    <2>1. \A x : MailOf(x)' = MailOf(x)
      BY <1>0 DEF MailOf
    <2>2. \A x, y : Incoming(x, y)' = Incoming(x, y)
      BY <1>0 DEF Incoming
    <2> QED
      BY <1>0, <1>5, <1>9, <1>10, <2>1, <2>2 DEF ServerEffect
  <1> QED
    BY <1>9, <1>11

LEMMA FriendStep ==
    ASSUME CoreInv, ServeFriend
    PROVE  \E k : ServerStep(k) /\ ServerEffect(k)
  <1> DEFINE l == OwnerOf(Head(sent).token)
             Changes(err) == err = "OK" /\ Head(sent).type # "FRIEND_REQUEST"
  <1>0. PICK err \in {"OK", "NotFound"} :
            /\ Serves({"FRIEND_REQUEST", "FRIEND_ACCEPT", "FRIEND_REJECT"}, <<RESULT(err)>>)
            /\ err = "OK" => l # NoLogin
            /\ friendships' = IF Changes(err) THEN [friendships EXCEPT ![l] = @ + 1] ELSE friendships
            /\ UNCHANGED <<owner, dead, current_login, entries, mail, delivered>>
    BY DEF ServeFriend
  <1> DEFINE p == RESULT(err)
  <1>1. /\ Types /\ connected /\ sent # << >> /\ sent' = Tail(sent)
        /\ Head(sent).type \in {"FRIEND_REQUEST", "FRIEND_ACCEPT", "FRIEND_REJECT"}
    BY <1>0 DEF CoreInv, Serves
  <1>2. p \in Pkt /\ p.type = "RESULT" /\ p.to = Head(sent).type /\ p.token = 0 /\ p.ids = {}
    BY <1>1, ResultIsPkt
  <1>3. l \in Login \cup {NoLogin}
    BY <1>1, TableDomains DEF OwnerOf, Live
  <1>4. Head(sent) \in Req
    BY <1>1, HeadOfSent
  <1> HIDE DEF p, l
  <1>5. p \in Results /\ p \notin Signed
    BY <1>1, <1>2 DEF Results, Signed
  <1>6. Grows
    BY <1>0, <1>1, SameGrows
  <1>7. friendships' \in [Login -> Nat]
    <2>1. friendships \in [Login -> Nat]
      BY <1>1 DEF Types
    <2>2. CASE Changes(err)
      BY <1>0, <1>3, <2>1, <2>2
    <2> QED
      BY <1>0, <2>1, <2>2
  <1>8. p \in GoodPkt'
    BY <1>1, <1>2, <1>5, <1>6, GoodUnsigned
  <1>9. ServerStep(<<p>>) /\ dead \subseteq dead' /\ entries' \subseteq entries
    <2>1. Serves({"FRIEND_REQUEST", "FRIEND_ACCEPT", "FRIEND_REJECT"}, <<p>>)
      BY <1>0 DEF p
    <2>2. p.to = Head(sent).type
      BY <1>2
    <2> QED
      BY <1>0, <1>5, <1>6, <1>7, <1>8, <2>1, <2>2, OneAnswer
  <1>10. ServerEffect(<<p>>)
    <2>1. \A x : MailOf(x)' = MailOf(x)
      BY <1>0 DEF MailOf
    <2>2. \A x, y : Incoming(x, y)' = Incoming(x, y)
      BY <1>0 DEF Incoming
    <2>3. ~ (Taken /\ Head(sent).type \in {"FRIEND_LIST", "CHAT_LIST", "MESSAGE_HISTORY"})
      BY <1>1
    <2>4. \/ Taken /\ Head(sent) \in Asks({"FRIEND_ACCEPT", "FRIEND_REJECT"})
          \/ \A x \in entries : friendships'[x] = friendships[x]
      <3>1. CASE Changes(err)
        BY <1>1, <1>4, <3>1 DEF Taken, Asks
      <3> QED
        BY <1>0, <3>1
    <2> QED
      BY <1>9, <2>1, <2>2, <2>3, <2>4 DEF ServerEffect
  <1> QED
    BY <1>9, <1>10

LEMMA DirectMessageStep ==
    ASSUME CoreInv, ServeDirectMessage
    PROVE  \E k : ServerStep(k) /\ ServerEffect(k)
  <1> DEFINE row == [user |-> owner[Head(sent).token], peer |-> Head(sent).peer, incoming |-> FALSE]
  <1>0. PICK err \in {"OK", "NotFriends"} :
            /\ Serves({"DIRECT_MESSAGE"}, <<RESULT(err)>>)
            /\ err = "OK" => Live(Head(sent).token)
            /\ mail' = IF err = "OK" THEN Append(mail, row) ELSE mail
            /\ UNCHANGED <<owner, dead, current_login, entries, delivered, friendships>>
    BY DEF ServeDirectMessage
  <1> DEFINE p == RESULT(err)
  <1>1. /\ Types /\ connected /\ sent # << >> /\ sent' = Tail(sent)
        /\ Head(sent).type = "DIRECT_MESSAGE"
    BY <1>0 DEF CoreInv, Serves
  <1>2. p \in Pkt /\ p.type = "RESULT" /\ p.to = Head(sent).type /\ p.token = 0 /\ p.ids = {}
    BY <1>1, ResultIsPkt
  <1>3. Head(sent) \in Req /\ Head(sent).peer \in Peer
    BY <1>1, HeadOfSent DEF GoodReq
  <1>4. err = "OK" => row \in MailRow
    <2>1. err = "OK" => owner[Head(sent).token] \in Login
      BY <1>0, <1>1, TableDomains DEF Live
    <2> QED
      BY <1>3, <2>1 DEF MailRow
  <1> HIDE DEF p
  <1>5. p \in Results /\ p \notin Signed
    BY <1>1, <1>2 DEF Results, Signed
  <1>6. row.incoming = FALSE
    OBVIOUS
  <1> HIDE DEF row
  <1>7. /\ Grows
        /\ \A i \in DOMAIN mail' : i \in DOMAIN mail \/ mail'[i].incoming = FALSE
    <2>1. CASE err = "OK"
      BY <1>0, <1>1, <1>4, <1>6, <2>1, AppendMail
    <2>2. CASE err # "OK"
      BY <1>0, <1>1, <2>2, SameGrows
    <2> QED
      BY <2>1, <2>2
  <1>8. p \in GoodPkt'
    BY <1>1, <1>2, <1>5, <1>7, GoodUnsigned
  <1>9. ServerStep(<<p>>) /\ dead \subseteq dead' /\ entries' \subseteq entries
    <2>1. Serves({"DIRECT_MESSAGE"}, <<p>>)
      BY <1>0 DEF p
    <2>2. p.to = Head(sent).type /\ friendships' \in [Login -> Nat]
      BY <1>0, <1>1, <1>2 DEF Types
    <2> QED
      BY <1>0, <1>5, <1>7, <1>8, <2>1, <2>2, OneAnswer
  <1>10. ServerEffect(<<p>>)
    <2>1. \A x, y : \A m \in Incoming(x, y)' : m \in Incoming(x, y)
      <3>1. ASSUME NEW x, NEW y, NEW m \in Incoming(x, y)' PROVE m \in Incoming(x, y)
        <4>1. m \in DOMAIN mail' /\ mail'[m] = [user |-> x, peer |-> y, incoming |-> TRUE]
          BY <3>1 DEF Incoming
        <4>2. mail'[m].incoming # FALSE
          BY <4>1
        <4>3. m \in DOMAIN mail /\ mail'[m] = mail[m]
          BY <1>7, <4>1, <4>2 DEF Grows
        <4> QED
          BY <4>1, <4>3 DEF Incoming
      <3> QED
        BY <3>1
    <2>2. Taken /\ Head(sent) \in Asks({"DIRECT_MESSAGE"})
      BY <1>1, <1>3 DEF Taken, Asks
    <2>3. ~ (Taken /\ Head(sent).type \in {"FRIEND_LIST", "CHAT_LIST", "MESSAGE_HISTORY"})
      BY <1>1
    <2>4. \A x \in entries : friendships'[x] = friendships[x]
      BY <1>0
    <2> QED
      BY <1>9, <2>1, <2>2, <2>3, <2>4 DEF ServerEffect
  <1> QED
    BY <1>9, <1>10

\* What is broadcast: packets that no screen of this client waits for.
LEMMA BroadcastPackets ==
    ASSUME Types, Grows, NEW others, IsFiniteSet(others)
    PROVE  LET b == [i \in 1..Cardinality(others) |-> Push("MESSAGE")]
           IN  b \in Seq(GoodPkt') /\ NoneOf(b, Results)
  <1> DEFINE n == Cardinality(others)
             m == Push("MESSAGE")
             b == [i \in 1..n |-> m]
  <1>1. n \in Nat
    BY FS_CardinalityType
  <1>2. "MESSAGE" \in PushType
    BY TypesOfPackets
  <1>3. m \in Pkt /\ m.type = "MESSAGE" /\ m.ids = {} /\ m.token = 0 /\ "MESSAGE" # "RESULT"
    <2>1. ASSUME NEW type \in PushType
          PROVE  Push(type) \in Pkt /\ Push(type).type = type /\ Push(type).ids = {} /\ Push(type).token = 0
      BY <2>1, PushFields
    <2> QED
      BY <1>2, <2>1
  <1> HIDE DEF m, n
  <1>4. m \in GoodPkt' /\ m \notin Results
    BY <1>3, GoodUnsigned DEF Signed, Results
  <1>5. b \in Seq(GoodPkt')
    BY <1>1, <1>4
  <1>6. \A i \in DOMAIN b : b[i] = m
    OBVIOUS
  <1> HIDE DEF b
  <1>7. NoneOf(b, Results)
    BY <1>4, <1>6 DEF NoneOf
  <1> QED
    BY <1>5, <1>7 DEF b, m, n

LEMMA MessageStep ==
    ASSUME CoreInv, IsFiniteSet(entries), ServeMessage
    PROVE  \E k : ServerStep(k) /\ ServerEffect(k)
  <1> DEFINE l == OwnerOf(Head(sent).token)
             others == IF l = NoLogin THEN {} ELSE entries \ {l}
             b == [i \in 1..Cardinality(others) |-> Push("MESSAGE")]
             err == IF l = NoLogin THEN "NonAuthorized" ELSE "OK"
             p == RESULT(err)
  <1>0. /\ Serves({"MESSAGE"}, b \o <<p>>)
        /\ UNCHANGED <<owner, dead, current_login, entries, mail, delivered, friendships>>
    BY DEF ServeMessage
  <1>1. IsFiniteSet(others)
    <2>1. IsFiniteSet({}) /\ entries \ {l} \subseteq entries
      BY FS_EmptySet
    <2>2. IsFiniteSet(entries \ {l})
      BY <2>1, FS_Subset
    <2> QED
      BY <2>1, <2>2
  <1> HIDE DEF l, others, err
  <1>2. /\ Types /\ connected /\ sent # << >> /\ Head(sent).type = "MESSAGE"
    BY <1>0 DEF CoreInv, Serves
  <1>3. p \in Pkt /\ p.type = "RESULT" /\ p.to = Head(sent).type /\ p.token = 0 /\ p.ids = {}
    BY <1>2, ResultIsPkt
  <1>4. Grows /\ friendships' \in [Login -> Nat]
    BY <1>0, <1>2, SameGrows DEF Types
  <1>5. b \in Seq(GoodPkt') /\ NoneOf(b, Results)
    BY <1>1, <1>2, <1>4, BroadcastPackets
  <1> HIDE DEF b, p
  <1>6. p \in Results /\ p \notin Signed
    BY <1>2, <1>3 DEF Results, Signed
  <1>7. p \in GoodPkt'
    BY <1>2, <1>3, <1>4, <1>6, GoodUnsigned
  <1>8. ServerStep(b \o <<p>>) /\ dead \subseteq dead' /\ entries' \subseteq entries
    <2>1. p.to = Head(sent).type
      BY <1>3
    <2> QED
      BY <1>0, <1>4, <1>5, <1>6, <1>7, <2>1, AnswerStep
  <1>9. ServerEffect(b \o <<p>>)
    BY <1>0, <1>2, <1>8, NoEffect
  <1> QED
    BY <1>8, <1>9

\* A stored message, when it is sent to its receiver.
LEMMA MessageFields ==
    ASSUME NEW i, NEW peer
    PROVE  [Push("DIRECT_MESSAGE") EXCEPT !.peer = peer, !.ids = {i}]
              \in [type: {"DIRECT_MESSAGE"}, to: {""}, ok: {FALSE}, token: {0}, whose: {NoLogin},
                   version: {0}, ids: {{i}}, peer: {peer}]
  <1>1. "DIRECT_MESSAGE" \in PushType
    BY TypesOfPackets
  <1>2. ASSUME NEW type \in PushType
        PROVE  Push(type) \in [type: {type}, to: {""}, ok: {FALSE}, token: {0}, whose: {NoLogin},
                               version: {0}, ids: {{}}, peer: {NoPeer}]
    BY <1>2, PushFields
  <1>3. Push("DIRECT_MESSAGE") \in
            [type: {"DIRECT_MESSAGE"}, to: {""}, ok: {FALSE}, token: {0}, whose: {NoLogin}, version: {0},
             ids: {{}}, peer: {NoPeer}]
    BY <1>1, <1>2
  <1> QED
    BY <1>3

LEMMA MailIds ==
    ASSUME Types, Grows
    PROVE  \A i \in DOMAIN mail' : i \in Nat
  BY GrowsDomains

LEMMA PushedMessage ==
    ASSUME Types, Grows, NEW i \in DOMAIN mail', NEW peer \in Peer, mail'[i].peer = peer,
           NEW m \in [type: {"DIRECT_MESSAGE"}, to: {""}, ok: {FALSE}, token: {0}, whose: {NoLogin},
                      version: {0}, ids: {{i}}, peer: {peer}]
    PROVE  /\ m \in GoodPkt' /\ m.type = "DIRECT_MESSAGE" /\ m.ids = {i} /\ m.peer = peer
           /\ m \notin Results
  <1>1. "DIRECT_MESSAGE" \in PushType /\ "DIRECT_MESSAGE" # "RESULT"
    BY TypesOfPackets
  <1>3. m \in [type: {"DIRECT_MESSAGE"}, to: {""}, ok: {FALSE}, token: {0}, whose: {NoLogin}, version: {0},
               ids: {{i}}, peer: {peer}]
    OBVIOUS
  <1>4. i \in Nat
    BY MailIds
  <1>5. /\ {i} \in SUBSET Nat /\ 0 \in Nat /\ NoLogin \in Login \cup {NoLogin}
        /\ "" \in RequestType \cup {""} /\ peer \in Peer \cup {NoPeer}
        /\ "DIRECT_MESSAGE" \in {"RESULT"} \cup PushType
    BY <1>1, <1>4
  <1>6. m \in Pkt
    BY <1>3, <1>5 DEF Pkt
  <1>7. m.type = "DIRECT_MESSAGE" /\ m.ids = {i} /\ m.peer = peer /\ m.token = 0
    BY <1>3
  <1>8. m \notin Signed /\ m \notin Results
    BY <1>1, <1>7 DEF Signed, Results
  <1> HIDE DEF Push
  <1>9. m.ids \subseteq DOMAIN mail' /\ \A j \in m.ids : mail'[j].peer = m.peer
    BY <1>7
  <1>10. m \in GoodPkt'
    BY <1>6, <1>7, <1>8, <1>9, GoodUnsigned
  <1> QED
    BY <1>7, <1>8, <1>10

\* The messages of a backlog.
LEMMA BacklogPackets ==
    ASSUME Types, Grows, NEW l, NEW backlog \in InOrder(Undelivered(l))
    PROVE  /\ LET b == [i \in DOMAIN backlog |-> DirectMessage(backlog[i])]
              IN  b \in Seq(GoodPkt') /\ NoneOf(b, Results)
           /\ Range(backlog) \subseteq DOMAIN mail
  <1> DEFINE n == Cardinality(Undelivered(l))
             b == [i \in DOMAIN backlog |-> DirectMessage(backlog[i])]
  <1>1. Undelivered(l) \subseteq DOMAIN mail
    BY DEF Undelivered, MailOf
  <1>2. n \in Nat
    <2>1. IsFiniteSet(DOMAIN mail)
      BY TableDomains, FS_Interval
    <2> QED
      BY <1>1, <2>1, FS_Subset, FS_CardinalityType
  <1>3. backlog \in [1..n -> Undelivered(l)]
    BY DEF InOrder
  <1> HIDE DEF n
  <1>4. ASSUME NEW i \in 1..n
        PROVE  DirectMessage(backlog[i]) \in GoodPkt' /\ DirectMessage(backlog[i]) \notin Results
    <2>1. backlog[i] \in DOMAIN mail
      BY <1>1, <1>3
    <2>2. backlog[i] \in DOMAIN mail' /\ mail'[backlog[i]] = mail[backlog[i]]
      BY <2>1, GrowsDomains DEF Grows
    <2>3. mail[backlog[i]].peer \in Peer
      BY <2>1, TableDomains DEF MailRow
    <2>4. DirectMessage(backlog[i]) = [Push("DIRECT_MESSAGE") EXCEPT !.peer = mail[backlog[i]].peer,
                                                                     !.ids = {backlog[i]}]
      BY DEF DirectMessage
    <2> DEFINE j == backlog[i]
               m == DirectMessage(j)
               peer == mail[j].peer
    <2>5. j \in DOMAIN mail' /\ mail'[j].peer = peer /\ peer \in Peer
      BY <2>2, <2>3
    <2>6. m = [Push("DIRECT_MESSAGE") EXCEPT !.peer = peer, !.ids = {j}]
      BY <2>4
    <2> HIDE DEF j, m, peer
    <2>7. m \in [type: {"DIRECT_MESSAGE"}, to: {""}, ok: {FALSE}, token: {0}, whose: {NoLogin}, version: {0},
               ids: {{j}}, peer: {peer}]
      BY <2>6, MessageFields
    <2>8. m \in GoodPkt' /\ m \notin Results
      BY <2>5, <2>7, PushedMessage
    <2> QED
      BY <2>8 DEF m, j
  <1>5. DOMAIN b = 1..n /\ \A i \in 1..n : b[i] = DirectMessage(backlog[i])
    BY <1>3
  <1>6. b = [i \in 1..n |-> b[i]]
    BY <1>5
  <1> HIDE DEF b
  <1>7. \A i \in 1..n : b[i] \in GoodPkt' /\ b[i] \notin Results
    BY <1>4, <1>5
  <1>8. b \in Seq(GoodPkt')
    BY <1>2, <1>6, <1>7
  <1>9. NoneOf(b, Results)
    BY <1>5, <1>7 DEF NoneOf
  <1>10. Range(backlog) \subseteq DOMAIN mail
    BY <1>1, <1>3 DEF Range
  <1> QED
    BY <1>8, <1>9, <1>10 DEF b

\* The RESULT of a login, with its token.
LEMMA SignedResult ==
    ASSUME Types, Grows, sent # << >>, Head(sent).type \in {"LOGIN", "REGISTER", "TOKEN_VERIFY"},
           NEW t \in Nat, t # 0, t <= Len(owner'), NEW p, p = [RESULT("OK") EXCEPT !.token = t]
    PROVE  p \in GoodPkt' /\ p \in Signed /\ p \in Results /\ p.to = Head(sent).type /\ p.token = t
  <1> DEFINE to == Head(sent).type
             ok == "OK" = "OK"
  <1>1. /\ to \in RequestType
        /\ RESULT("OK") \in [type: {"RESULT"}, to: {to}, ok: {ok}, token: {0}, whose: {NoLogin},
                             version: {0}, ids: {{}}, peer: {NoPeer}]
    BY ResultFields
  <1>2. ok = TRUE /\ to \in {"LOGIN", "REGISTER", "TOKEN_VERIFY"}
    OBVIOUS
  <1> HIDE DEF to, ok
  <1>3. p \in [type: {"RESULT"}, to: {to}, ok: {ok}, token: {t}, whose: {NoLogin}, version: {0},
               ids: {{}}, peer: {NoPeer}]
    BY <1>1
  <1>4. /\ to \in RequestType \cup {""} /\ ok \in BOOLEAN /\ 0 \in Nat /\ {} \in SUBSET Nat
        /\ NoLogin \in Login \cup {NoLogin} /\ "RESULT" \in {"RESULT"} \cup PushType
        /\ NoPeer \in Peer \cup {NoPeer}
    BY <1>1, <1>2
  <1>5. p \in Pkt
    BY <1>3, <1>4 DEF Pkt
  <1>6. p.type = "RESULT" /\ p.to = to /\ p.ok /\ p.token = t /\ p.ids = {}
    BY <1>2, <1>3
  <1>7. p \in Signed /\ p \in Results
    BY <1>2, <1>5, <1>6 DEF Signed, Results
  <1>8. p \in GoodPkt'
    BY <1>5, <1>6, <1>7 DEF GoodPkt
  <1> QED
    BY <1>6, <1>7, <1>8 DEF to

LEMMA AuthenticateStep ==
    ASSUME CoreInv, Grows, NEW l \in Login, NEW t \in DOMAIN owner', owner'[t] = l, Authenticate(l, t),
           IF Head(sent).type = "TOKEN_VERIFY" THEN t = Head(sent).token ELSE t > Len(owner)
    PROVE  \E k : ServerStep(k) /\ ServerEffect(k)
  <1>0. PICK backlog \in InOrder(Undelivered(l)) :
          /\ Serves({"LOGIN", "REGISTER", "TOKEN_VERIFY"},
                    [i \in DOMAIN backlog |-> DirectMessage(backlog[i])]
                        \o <<[RESULT("OK") EXCEPT !.token = t]>>)
          /\ delivered' = delivered \cup Range(backlog)
          /\ current_login' = l
          /\ entries' = entries \cup {l}
          /\ UNCHANGED <<dead, mail, friendships>>
    BY DEF Authenticate
  <1> DEFINE b == [i \in DOMAIN backlog |-> DirectMessage(backlog[i])]
             p == [RESULT("OK") EXCEPT !.token = t]
             k == b \o <<p>>
  <1>1. /\ Types /\ connected /\ sent # << >> /\ sent' = Tail(sent) /\ received' = received \o k
        /\ Head(sent).type \in {"LOGIN", "REGISTER", "TOKEN_VERIFY"}
        /\ UNCHANGED <<connected, appVars>>
    BY <1>0 DEF CoreInv, Serves
  <1>2. b \in Seq(GoodPkt') /\ NoneOf(b, Results) /\ Range(backlog) \subseteq DOMAIN mail
    BY <1>0, <1>1, BacklogPackets
  <1>p. p = [RESULT("OK") EXCEPT !.token = t]
    OBVIOUS
  <1>3. t \in Nat /\ t # 0 /\ t <= Len(owner')
    BY <1>1, GrowsDomains
  <1> HIDE DEF b, p
  <1>4. p \in GoodPkt' /\ p \in Signed /\ p \in Results /\ p.to = Head(sent).type /\ p.token = t
    BY <1>1, <1>3, <1>p, SignedResult
  <1>5. /\ k \in Seq(GoodPkt')
        /\ \A i \in DOMAIN k : k[i] \in Results => i = Len(k) /\ k[i] = p
        /\ \E i \in DOMAIN k : k[i] = p
    BY <1>2, <1>4, ResultLast
  <1> HIDE DEF k
  <1>6. /\ ~ NoneOf(k, Signed)
        /\ \A i \in DOMAIN k : k[i] \in Signed => k[i] = p
    <2>1. \A x : x \in Signed => x \in Results
      BY DEF Signed, Results
    <2> QED
      BY <1>4, <1>5, <2>1 DEF NoneOf
  <1>7. ServerStep(k)
    <2>1. /\ dead' \subseteq DOMAIN owner' /\ current_login' \in Login \cup {NoLogin}
          /\ entries' \subseteq Login /\ delivered' \subseteq DOMAIN mail'
          /\ friendships' \in [Login -> Nat]
      BY <1>0, <1>1, <1>2, GrowsDomains DEF Types
    <2>2. \A i \in DOMAIN k : k[i] \in Results => i = Len(k) /\ k[i].to = Head(sent).type
      BY <1>4, <1>5
    <2>3. \A i \in DOMAIN k : k[i] \in Signed =>
             IF Head(sent).type = "TOKEN_VERIFY" THEN k[i].token = Head(sent).token
             ELSE k[i].token > Len(owner)
      BY <1>4, <1>6
    <2>4. \A i \in DOMAIN k : k[i] \in Signed => owner'[k[i].token] = current_login'
      BY <1>0, <1>4, <1>6
    <2> QED
      BY <1>1, <1>5, <1>6, <2>1, <2>2, <2>3, <2>4 DEF ServerStep
  <1>8. ServerEffect(k)
    BY <1>0, <1>1, <1>6, NoEffect
  <1> QED
    BY <1>7, <1>8

LEMMA LoginStep ==
    ASSUME CoreInv, ServeLogin
    PROVE  \E k : ServerStep(k) /\ ServerEffect(k)
  <1> DEFINE l == Head(sent).login
             t == FreshToken
  <1>0. /\ sent # << >> /\ Authenticate(l, t) /\ Head(sent).type # "TOKEN_VERIFY"
        /\ owner' = Append(owner, l)
    BY DEF ServeLogin
  <1>1. Types /\ mail' = mail /\ Head(sent).type \in {"LOGIN", "REGISTER"}
    BY <1>0 DEF CoreInv, Authenticate, Serves
  <1>2. l \in Login
    BY <1>0, <1>1, HeadOfSent DEF GoodReq
  <1> HIDE DEF l
  <1>3. /\ owner \in Seq(Login) /\ Len(owner) \in Nat /\ mail \in Seq(MailRow) /\ Len(mail) \in Nat
    BY <1>1, TableDomains DEF Types, MailRow
  <1>4. /\ owner' \in Seq(Login) /\ Len(owner') = Len(owner) + 1
        /\ \A i \in 1..Len(owner) : owner'[i] = owner[i]
        /\ owner'[Len(owner) + 1] = l
    BY <1>0, <1>2, <1>3, AppendProperties
  <1>5. DOMAIN owner = 1..Len(owner) /\ DOMAIN owner' = 1..(Len(owner) + 1)
    BY <1>3, <1>4, LenProperties
  <1>6. t = Len(owner) + 1 /\ t \in DOMAIN owner' /\ t > Len(owner) /\ owner'[t] = l
    BY <1>3, <1>4, <1>5 DEF FreshToken
  <1> HIDE DEF t
  <1>7. Grows
    BY <1>1, <1>3, <1>4, <1>5 DEF Grows
  <1> QED
    BY <1>0, <1>2, <1>6, <1>7, AuthenticateStep

LEMMA TokenVerifyStep ==
    ASSUME CoreInv, ServeTokenVerify
    PROVE  \E k : ServerStep(k) /\ ServerEffect(k)
  <1> DEFINE t == Head(sent).token
             l == owner[t]
  <1>0. /\ sent # << >> /\ Head(sent).type = "TOKEN_VERIFY" /\ t \in DOMAIN owner
        /\ Authenticate(l, t) /\ owner' = owner
    BY DEF ServeTokenVerify, Live
  <1>1. Types /\ mail' = mail
    BY <1>0 DEF CoreInv, Authenticate
  <1>2. l \in Login /\ t \in DOMAIN owner' /\ owner'[t] = l
    BY <1>0, <1>1, TableDomains
  <1>3. Grows
    BY <1>0, <1>1, SameGrows
  <1>4. IF Head(sent).type = "TOKEN_VERIFY" THEN t = Head(sent).token ELSE t > Len(owner)
    BY <1>0
  <1> HIDE DEF t, l
  <1> QED
    BY <1>0, <1>2, <1>3, <1>4, AuthenticateStep

-----------------------------------------------------------------------------
(***************************************************************************)
(* What the peers, the clock and the earlier connections do.               *)
(***************************************************************************)

\* The connection is given the packets k, and no request is served.
LEMMA WorldStep ==
    ASSUME CoreInv, NEW k \in Seq(GoodPkt'), NoneOf(k, Results), Grows,
           sent' = sent, received' = received \o k, UNCHANGED <<connected, appVars, current_login, delivered>>,
           dead' \subseteq DOMAIN owner, entries' \subseteq entries, friendships' \in [Login -> Nat]
    PROVE  ServerStep(k) /\ ~ Taken
  <1>1. Types
    BY DEF CoreInv
  <1>2. NoneOf(k, Signed)
    <2>1. \A x : x \in Signed => x \in Results
      BY DEF Signed, Results
    <2> QED
      BY <2>1 DEF NoneOf
  <1>3. /\ dead' \subseteq DOMAIN owner' /\ current_login' \in Login \cup {NoLogin}
        /\ entries' \subseteq Login /\ delivered' \subseteq DOMAIN mail'
    BY <1>1, GrowsDomains DEF Types
  <1>4. ServerStep(k)
    BY <1>2, <1>3 DEF ServerStep, NoneOf
  <1>5. ~ Taken
    <2>1. SUFFICES ASSUME sent # << >>, sent = Tail(sent) PROVE FALSE
      BY DEF Taken
    <2>2. sent \in Seq(GoodReq)
      BY <1>1 DEF Types
    <2>3. Len(sent) \in Nat /\ Len(Tail(sent)) = Len(sent) - 1
      BY <2>1, <2>2, HeadTailProperties, LenProperties
    <2> QED
      BY <2>1, <2>3
  <1> QED
    BY <1>4, <1>5

\* The packet, or none: only a connection with an entry is given it.
LEMMA OnePush ==
    ASSUME NEW S, NEW m \in S, m \notin Results, NEW c, NEW k, k = IF c THEN <<m>> ELSE << >>
    PROVE  /\ k \in Seq(S) /\ NoneOf(k, Results)
           /\ c => DOMAIN k = {1} /\ k[1] = m
  <1>1. CASE c
    <2>1. k = <<m>> /\ <<m>> \in Seq(S) /\ DOMAIN <<m>> = {1} /\ <<m>>[1] = m
      BY <1>1
    <2> QED
      BY <1>1, <2>1 DEF NoneOf
  <1>2. CASE ~ c
    <2>1. k = << >> /\ << >> \in Seq(S)
      BY <1>2
    <2> QED
      BY <1>2, <2>1, EmptyFacts
  <1> QED
    BY <1>1, <1>2

LEMMA PeerWritesStep ==
    ASSUME CoreInv, NEW l \in Login, NEW peer \in Peer, PeerWrites(peer, l)
    PROVE  \E k : ServerStep(k) /\ ServerEffect(k)
  <1> DEFINE row == [user |-> l, peer |-> peer, incoming |-> TRUE]
             id == Len(mail) + 1
             m == [Push("DIRECT_MESSAGE") EXCEPT !.peer = peer, !.ids = {id}]
             k == IF l \in entries THEN <<m>> ELSE << >>
  <1>0. /\ mail' = Append(mail, row) /\ received' = received \o k /\ friendships' = friendships
        /\ UNCHANGED <<connected, sent, appVars, owner, dead, current_login, entries, delivered>>
    BY DEF PeerWrites, Pushed
  <1>1. Types
    BY DEF CoreInv
  <1>2. row \in MailRow /\ row.peer = peer /\ row.user = l
    BY DEF MailRow
  <1>r. row = [user |-> l, peer |-> peer, incoming |-> TRUE]
    OBVIOUS
  <1>m. m \in [type: {"DIRECT_MESSAGE"}, to: {""}, ok: {FALSE}, token: {0}, whose: {NoLogin}, version: {0},
             ids: {{id}}, peer: {peer}]
    BY MessageFields
  <1>k. k = IF l \in entries THEN <<m>> ELSE << >>
    OBVIOUS
  <1> HIDE DEF row, m, k
  <1>3. /\ Grows /\ id \in DOMAIN mail' /\ mail'[id] = row
        /\ \A i \in DOMAIN mail' : i \in DOMAIN mail \/ i = id
        /\ \A i \in DOMAIN mail : mail'[i] = mail[i]
        /\ DOMAIN mail \subseteq DOMAIN mail'
    BY <1>0, <1>1, <1>2, AppendMail
  <1> HIDE DEF id
  <1>4. m \in GoodPkt' /\ m.type = "DIRECT_MESSAGE" /\ m.ids = {id} /\ m.peer = peer /\ m \notin Results
    <2>1. Types /\ Grows /\ id \in DOMAIN mail' /\ mail'[id].peer = peer
      BY <1>1, <1>2, <1>3
    <2> QED
      BY <1>m, <2>1, PushedMessage
  <1>5. k \in Seq(GoodPkt') /\ NoneOf(k, Results) /\ (l \in entries => DOMAIN k = {1} /\ k[1] = m)
    BY <1>4, <1>k, OnePush
  <1>6. friendships' \in [Login -> Nat] /\ dead' \subseteq DOMAIN owner
    BY <1>0, <1>1 DEF Types
  <1>7. ServerStep(k) /\ ~ Taken
    BY <1>0, <1>3, <1>5, <1>6, WorldStep
  <1>8. m \in Pkt
    BY <1>4 DEF GoodPkt
  <1>9. \/ ~ NoneOf(k, Pushes({"DIRECT_MESSAGE"}))
        \/ \A x \in entries : MailOf(x)' = MailOf(x)
    <2>1. CASE l \in entries
      BY <1>4, <1>5, <1>8, <2>1 DEF NoneOf, Pushes
    <2>2. CASE l \notin entries
      <3>1. ASSUME NEW x \in entries PROVE MailOf(x)' = MailOf(x)
        <4>1. x # l
          BY <2>2
        <4>2. MailOf(x)' = {i \in DOMAIN mail' : mail'[i].user = x}
          BY DEF MailOf
        <4>3. MailOf(x) = {i \in DOMAIN mail : mail[i].user = x}
          BY DEF MailOf
        <4> QED
          BY <1>2, <1>3, <4>1, <4>2, <4>3
      <3> QED
        BY <3>1
    <2> QED
      BY <2>1, <2>2
  <1>10. ASSUME NEW x \in entries, NEW y \in Peer, NEW i \in Incoming(x, y)'
         PROVE  i \in Incoming(x, y) \/ \E j \in DOMAIN k : k[j] \in Brings(i, y)
    <2>1. i \in DOMAIN mail' /\ mail'[i] = [user |-> x, peer |-> y, incoming |-> TRUE]
      BY <1>10 DEF Incoming
    <2>2. CASE i \in DOMAIN mail
      BY <1>3, <2>1, <2>2 DEF Incoming
    <2>3. CASE i = id
      <3>1. mail'[i].user = x /\ mail'[i].peer = y
        BY <2>1
      <3>2. x = l /\ y = peer
        BY <1>2, <1>3, <2>3, <3>1
      <3>3. m \in Brings(i, y)
        BY <1>4, <1>8, <2>3, <3>2 DEF Brings
      <3> QED
        BY <1>5, <1>10, <3>2, <3>3
    <2> QED
      BY <1>3, <2>1, <2>2, <2>3
  <1>11. ServerEffect(k)
    BY <1>0, <1>7, <1>9, <1>10 DEF ServerEffect
  <1> QED
    BY <1>7, <1>11

LEMMA PeerBefriendsStep ==
    ASSUME CoreInv, NEW l \in Login, PeerBefriends(l)
    PROVE  \E k : ServerStep(k) /\ ServerEffect(k)
  <1>0. PICK type \in {"FRIEND_NEW_REQUEST", "FRIEND_REQUEST_ACCEPTED", "FRIEND_REQUEST_REJECTED"} :
          /\ friendships' = IF type = "FRIEND_REQUEST_REJECTED" THEN friendships
                            ELSE [friendships EXCEPT ![l] = @ + 1]
          /\ Pushed(IF l \in entries THEN <<Push(type)>> ELSE << >>)
          /\ UNCHANGED mail
    BY DEF PeerBefriends
  <1> DEFINE m == Push(type)
             k == IF l \in entries THEN <<m>> ELSE << >>
  <1>1. /\ received' = received \o k
        /\ UNCHANGED <<connected, sent, appVars, owner, dead, current_login, entries, delivered, mail>>
    BY <1>0 DEF Pushed
  <1>2. Types /\ friendships \in [Login -> Nat]
    BY DEF CoreInv, Types
  <1>k. k = IF l \in entries THEN <<m>> ELSE << >>
    OBVIOUS
  <1>3. type \in PushType /\ type # "DIRECT_MESSAGE" /\ type # "RESULT" /\ type \in FriendPushes
    BY TypesOfPackets DEF FriendPushes
  <1>4. m \in Pkt /\ m.type = type /\ m.ids = {} /\ m.token = 0
    BY <1>3, PushFields
  <1> HIDE DEF m, k
  <1>5. m \notin Results /\ m \notin Signed /\ m \in Pushes(FriendPushes)
    BY <1>3, <1>4 DEF Results, Signed, Pushes
  <1>6. Grows
    BY <1>1, <1>2, SameGrows
  <1>7. m \in GoodPkt'
    BY <1>2, <1>3, <1>4, <1>5, <1>6, GoodUnsigned
  <1>8. k \in Seq(GoodPkt') /\ NoneOf(k, Results) /\ (l \in entries => DOMAIN k = {1} /\ k[1] = m)
    BY <1>5, <1>7, <1>k, OnePush
  <1>9. friendships' \in [Login -> Nat] /\ dead' \subseteq DOMAIN owner
    BY <1>0, <1>1, <1>2 DEF Types
  <1>10. ServerStep(k) /\ ~ Taken
    BY <1>1, <1>6, <1>8, <1>9, WorldStep
  <1>11. \/ ~ NoneOf(k, Pushes(FriendPushes))
         \/ \A x \in entries : friendships'[x] = friendships[x]
    <2>1. CASE l \in entries
      BY <1>5, <1>8, <2>1 DEF NoneOf
    <2>2. CASE l \notin entries
      BY <1>0, <1>2, <2>2
    <2> QED
      BY <2>1, <2>2
  <1>12. ServerEffect(k)
    <2>1. \A x : MailOf(x)' = MailOf(x)
      BY <1>1 DEF MailOf
    <2>2. \A x, y : Incoming(x, y)' = Incoming(x, y)
      BY <1>1 DEF Incoming
    <2> QED
      BY <1>1, <1>10, <1>11, <2>1, <2>2 DEF ServerEffect
  <1> QED
    BY <1>10, <1>12

LEMMA PeerBroadcastsStep ==
    ASSUME CoreInv, IsFiniteSet(entries), PeerBroadcasts
    PROVE  \E k : ServerStep(k) /\ ServerEffect(k)
  <1> DEFINE k == [i \in 1..Cardinality(entries) |-> Push("MESSAGE")]
  <1>0. /\ received' = received \o k /\ UNCHANGED <<mail, friendships>>
        /\ UNCHANGED <<connected, sent, appVars, owner, dead, current_login, entries, delivered>>
    BY DEF PeerBroadcasts, Pushed
  <1>1. Types /\ friendships' \in [Login -> Nat] /\ dead' \subseteq DOMAIN owner
    BY <1>0 DEF CoreInv, Types
  <1>2. Grows
    BY <1>0, <1>1, SameGrows
  <1>3. k \in Seq(GoodPkt') /\ NoneOf(k, Results)
    BY <1>1, <1>2, BroadcastPackets
  <1> HIDE DEF k
  <1>4. ServerStep(k) /\ ~ Taken
    BY <1>0, <1>1, <1>2, <1>3, WorldStep
  <1>5. ServerEffect(k)
    BY <1>0, <1>1, <1>4, NoEffect
  <1> QED
    BY <1>4, <1>5

\* Nothing is pushed when a token expires or an earlier session ends, or when nothing happens.
LEMMA SilentStep ==
    ASSUME CoreInv, (\E t \in DOMAIN owner : Expire(t)) \/ OldSessionEnds \/ UNCHANGED vars
    PROVE  \E k : ServerStep(k) /\ ServerEffect(k)
  <1>0. /\ UNCHANGED <<netVars, appVars, owner, current_login, mail, delivered, friendships>>
        /\ dead \subseteq dead' /\ dead' \subseteq dead \cup DOMAIN owner /\ entries' \subseteq entries
    <2>1. CASE (\E t \in DOMAIN owner : Expire(t)) \/ OldSessionEnds
      BY <2>1 DEF Expire, OldSessionEnds
    <2>2. CASE UNCHANGED vars
      <3>1. dead \subseteq DOMAIN owner
        BY DEF CoreInv, Types
      <3> QED
        BY <2>2, <3>1 DEF vars, netVars, appVars, serverVars
    <2> QED
      BY <2>1, <2>2
  <1>1. Types /\ friendships' \in [Login -> Nat] /\ dead' \subseteq DOMAIN owner
    BY <1>0 DEF CoreInv, Types
  <1>2. Grows
    BY <1>0, <1>1, SameGrows
  <1>3. << >> \in Seq(GoodPkt') /\ NoneOf(<< >>, Results) /\ received' = received \o << >>
    <2>1. received \in Seq(GoodPkt) /\ received' = received
      BY <1>0, <1>1 DEF Types, netVars
    <2>2. received \o << >> = received
      BY <2>1, ConcatEmptySeq
    <2>3. << >> \in Seq(GoodPkt')
      OBVIOUS
    <2>4. NoneOf(<< >>, Results)
      BY EmptyFacts
    <2> QED
      BY <2>1, <2>2, <2>3, <2>4
  <1>4. ServerStep(<< >>) /\ ~ Taken
    BY <1>0, <1>1, <1>2, <1>3, WorldStep DEF netVars
  <1>5. ServerEffect(<< >>)
    BY <1>0, <1>1, <1>4, NoEffect
  <1> QED
    BY <1>4, <1>5

-----------------------------------------------------------------------------
(***************************************************************************)
(* Every step.                                                             *)
(***************************************************************************)

\* Cardinality(entries) is a number: how many lines a broadcast sends.
EntriesFinite == IsFiniteSet(entries)

LEMMA EntriesStep == EntriesFinite /\ [Next]_vars => EntriesFinite'
  <1> SUFFICES ASSUME EntriesFinite, [Next]_vars PROVE EntriesFinite'
    OBVIOUS
  <1>1. \/ entries' = entries \/ entries' = {}
        \/ \E l \in Login : entries' = entries \cup {l} \/ entries' = entries \ {l}
        \/ \E l \in old_logins : entries' = entries \ {l}
        \/ \E l : entries' = entries \cup {l}
    <2>1. CASE QtSignal
      BY <2>1 DEF QtSignal, onTokenVerify, onAuthResult, onFriendListReceived, onChatListReceived,
             onHistoryReceived, onDirectMessageReceived, onFriendNewRequest, onOtherSignal, Takes, serverVars
    <2>2. CASE UserClick
      BY <2>2 DEF UserClick, loginUser, registerUser, OpenChat, FriendClick, logout, sendMessageGeneralChat,
             ShowChats, CloseChat, sendDirectMessage, Click, serverVars
    <2>3. CASE TimerTriggered
      BY <2>3 DEF TimerTriggered, serverVars
    <2>4. CASE Start \/ Disconnect
      BY <2>4 DEF Start, Disconnect, SessionLeft
    <2>5. CASE ServeLogin \/ ServeTokenVerify
      BY <2>5 DEF ServeLogin, ServeTokenVerify, Authenticate
    <2>6. CASE ServeRefusal \/ ServeLogout \/ ServeRead \/ ServeFriend \/ ServeMessage \/ ServeDirectMessage
      BY <2>6 DEF ServeRefusal, ServeLogout, ServeRead, ServeFriend, ServeMessage, ServeDirectMessage
    <2>7. CASE \E l \in Login : PeerBefriends(l) \/ \E p \in Peer : PeerWrites(p, l)
      BY <2>7 DEF PeerBefriends, PeerWrites, Pushed
    <2>8. CASE PeerBroadcasts \/ (\E t \in DOMAIN owner : Expire(t)) \/ OldSessionEnds
      BY <2>8 DEF PeerBroadcasts, Pushed, Expire, OldSessionEnds
    <2>9. CASE UNCHANGED vars
      BY <2>9 DEF vars, serverVars
    <2> QED
      BY <2>1, <2>2, <2>3, <2>4, <2>5, <2>6, <2>7, <2>8, <2>9 DEF Next, Server, World
  <1>2. /\ IsFiniteSet(entries) /\ IsFiniteSet({})
        /\ \A l : IsFiniteSet(entries \cup {l}) /\ IsFiniteSet(entries \ {l})
    BY FS_EmptySet, FS_AddElement, FS_RemoveElement DEF EntriesFinite
  <1> QED
    BY <1>1, <1>2 DEF EntriesFinite

\* A step of the server or of what surrounds the client.
LEMMA ServerWorldStep ==
    ASSUME CoreInv, FreshInv, EntriesFinite, Server \/ World, ~ Disconnect
    PROVE  CoreInv' /\ FreshInv'
  <1>1. IsFiniteSet(entries)
    BY DEF EntriesFinite
  <1>2. \E k : ServerStep(k) /\ ServerEffect(k)
    <2>1. CASE Server
      <3>1. CASE ServeLogin
        BY <3>1, LoginStep
      <3>2. CASE ServeTokenVerify
        BY <3>2, TokenVerifyStep
      <3>3. CASE ServeRefusal
        BY <3>3, RefusalStep
      <3>4. CASE ServeLogout
        BY <3>4, LogoutStep
      <3>5. CASE ServeRead
        BY <3>5, ReadStep
      <3>6. CASE ServeFriend
        BY <3>6, FriendStep
      <3>7. CASE ServeMessage
        BY <1>1, <3>7, MessageStep
      <3>8. CASE ServeDirectMessage
        BY <3>8, DirectMessageStep
      <3> QED
        BY <2>1, <3>1, <3>2, <3>3, <3>4, <3>5, <3>6, <3>7, <3>8 DEF Server
    <2>2. CASE World
      <3>1. CASE \E l \in Login : PeerBefriends(l)
        BY <3>1, PeerBefriendsStep
      <3>2. CASE \E l \in Login, p \in Peer : PeerWrites(p, l)
        BY <3>2, PeerWritesStep
      <3>3. CASE PeerBroadcasts
        BY <1>1, <3>3, PeerBroadcastsStep
      <3>4. CASE (\E t \in DOMAIN owner : Expire(t)) \/ OldSessionEnds
        BY <3>4, SilentStep
      <3> QED
        BY <2>2, <3>1, <3>2, <3>3, <3>4 DEF World
    <2> QED
      BY <2>1, <2>2
  <1> QED
    BY <1>2, ServerFresh

LEMMA AppStep == AppInv /\ EntriesFinite /\ [Next]_vars => AppInv'
  <1> SUFFICES ASSUME AppInv, EntriesFinite, [Next]_vars PROVE AppInv'
    OBVIOUS
  <1>1. CoreInv /\ FreshInv
    BY DEF AppInv, CoreInv, FreshInv
  <1>2. ASSUME CoreInv' /\ FreshInv' PROVE AppInv'
    BY <1>2 DEF AppInv, CoreInv, FreshInv
  <1>3. CASE QtSignal \/ UserClick \/ TimerTriggered
    BY <1>1, <1>2, <1>3, QtStep
  <1>4. CASE Start
    BY <1>1, <1>4, StartStep
  <1>5. CASE Disconnect
    BY <1>1, <1>5, DisconnectStep
  <1>6. CASE (Server \/ World) /\ ~ Disconnect
    BY <1>1, <1>2, <1>6, ServerWorldStep
  <1>7. CASE UNCHANGED vars
    BY <1>1, <1>2, <1>7, SilentStep, ServerFresh
  <1> QED
    BY <1>3, <1>4, <1>5, <1>6, <1>7 DEF Next

-----------------------------------------------------------------------------
(***************************************************************************)
(* The theorems.                                                           *)
(***************************************************************************)

\* The number of entries is finite, and AppInv holds: in every state, however the
\* handlers of the Qt thread, the server, the peers, a loss of the connection and a new
\* start of the process interleave.
THEOREM AppInvariance == Spec => [](AppInv /\ EntriesFinite)
  <1>1. Init => AppInv /\ EntriesFinite
    BY InitInv, FS_EmptySet DEF Init, EntriesFinite
  <1>2. (AppInv /\ EntriesFinite) /\ [Next]_vars => (AppInv /\ EntriesFinite)'
    BY EntriesStep, AppStep
  <1> QED
    BY <1>1, <1>2, PTL DEF Spec

LEMMA TypesTyped == ASSUME Types PROVE TypeOK
  <1> DEFINE Ids == SUBSET (DOMAIN mail)
             Tokens == 0..Len(owner)
             Requests == [type: RequestType, token: Tokens, login: Login \cup {NoLogin},
                          peer: Peer \cup {NoPeer}]
             Packets == [type: {"RESULT"} \cup PushType, to: RequestType \cup {""}, ok: BOOLEAN,
                         token: Tokens, whose: Login \cup {NoLogin}, version: Nat, ids: Ids,
                         peer: Peer \cup {NoPeer}]
  <1>1. Len(owner) \in Nat
    BY TableDomains
  <1>2. ASSUME NEW r \in GoodReq PROVE r \in Requests
    <2>1. r \in Req /\ r.token \in Nat /\ r.token <= Len(owner)
      BY <1>2 DEF GoodReq, Req
    <2>2. r.token \in Tokens
      BY <1>1, <2>1
    <2> HIDE DEF Tokens
    <2> QED
      BY <2>1, <2>2 DEF Req
  <1>3. ASSUME NEW p \in GoodPkt PROVE p \in Packets
    <2>1. p \in Pkt /\ p.token \in Nat /\ p.token <= Len(owner) /\ p.ids \in Ids
      BY <1>3 DEF GoodPkt, Pkt
    <2>2. p.token \in Tokens
      BY <1>1, <2>1
    <2> HIDE DEF Tokens, Ids
    <2> QED
      BY <2>1, <2>2 DEF Pkt
  <1> HIDE DEF Requests, Packets
  <1>4. /\ \A i \in DOMAIN sent : sent[i] \in GoodReq
        /\ \A i \in DOMAIN received : received[i] \in GoodPkt
    BY LenProperties, ElementOfSeq DEF Types
  <1>5. Range(sent) \subseteq Requests /\ Range(received) \subseteq Packets
    BY <1>2, <1>3, <1>4 DEF Range
  <1>6. /\ lists \in [friends: [whose: Login \cup {NoLogin}, version: Nat],
                      chats: [whose: Login \cup {NoLogin}, ids: Ids]]
        /\ page \in [peer: Peer \cup {NoPeer}, shown: Ids, token: Tokens]
    BY DEF Types, Lists
  <1> QED
    BY <1>5, <1>6 DEF TypeOK, Types, Requests, Packets

\* Every variable of the client, the server and the connection stays in its type: the
\* tokens under way have been issued, the ids are those of stored messages.
THEOREM AppTypeCorrect == Spec => []TypeOK
  <1>1. AppInv => TypeOK
    BY TypesTyped DEF AppInv
  <1> QED
    BY <1>1, AppInvariance, PTL

\* The screens agree with the token: setToken and logout change both, and
\* tokenCheckTimer runs exactly while the loading screen is shown.
THEOREM ScreensMatchToken == Spec => []ScreenMatchesToken
  <1>1. ASSUME AppInv PROVE ScreenMatchesToken
    <2>1. Screens
      BY <1>1 DEF AppInv
    <2>2. stack \in {<<"Loading">>, <<"Auth">>, <<"Main">>, <<"Main", "Chat">>}
      BY <2>1 DEF Screens
    <2>3. token # 0 <=> Shown("Main")
      BY <2>1, <2>2, ScreenFacts DEF Main
    <2>4. tokenCheckTimer <=> stack = <<"Loading">>
      <3>1. <<"Loading">> # <<"Auth">> /\ <<"Loading">> # <<"Main">> /\ <<"Loading">> # <<"Main", "Chat">>
        OBVIOUS
      <3> QED
        BY <2>1, <3>1 DEF Screens
    <2> QED
      BY <2>1, <2>2, <2>3, <2>4 DEF ScreenMatchesToken, Screens
  <1> QED
    BY <1>1, AppInvariance, PTL

\* Neither tokenCheckTimer nor a late answer takes the main screen away: a step that
\* does has forgotten the token, as logout and a new start of the process do.
THEOREM MainScreenStays == Spec => MainUntilLogout
  <1> DEFINE A == Shown("Main") => Range(stack') \ {"Chat"} = {"Main"} \/ token' = 0
  <1>1. ASSUME Screens PROVE Range(stack) \ {"Chat"} = {"Main"} \/ token = 0
    <2>1. CASE stack = <<"Main">>
      <3>1. DOMAIN stack = {1} /\ stack[1] = "Main"
        BY <2>1
      <3> QED
        BY <3>1 DEF Range
    <2>2. CASE stack = <<"Main", "Chat">>
      <3>1. DOMAIN stack = {1, 2} /\ stack[1] = "Main" /\ stack[2] = "Chat"
        BY <2>2
      <3>2. Range(stack) = {"Main", "Chat"}
        BY <3>1 DEF Range
      <3> QED
        BY <3>2
    <2> QED
      BY <1>1, <2>1, <2>2 DEF Screens
  <1>2. ASSUME AppInv' PROVE A
    <2>1. Screens'
      BY <1>2 DEF AppInv
    <2>2. (Range(stack) \ {"Chat"} = {"Main"} \/ token = 0)'
      BY <1>1, <2>1, PTL
    <2> QED
      BY <2>2 DEF Range
  <1>3. AppInv' => [A]_stack
    BY <1>2
  <1> QED
    BY <1>3, AppInvariance, PTL DEF MainUntilLogout

\* When nothing is under way, the server has the connection logged in as the owner of the
\* token that the client holds, or as nobody.
THEOREM SessionsMatchTokens == Spec => []SessionMatchesToken
  <1>1. ASSUME AppInv PROVE SessionMatchesToken
    <2>1. SessionInv
      BY <1>1 DEF AppInv
    <2> QED
      BY <2>1, EmptyFacts DEF SessionMatchesToken, SessionInv, Quiet
  <1> QED
    BY <1>1, AppInvariance, PTL

\* What the last answer has brought is there when nothing is under way any more.
LEMMA QuietFresh ==
    ASSUME NEW asks, NEW triggers, NEW answers, NEW good, NEW v, NEW V,
           Refreshed(<< >>, << >>, asks, triggers, answers, good, v, V)
    PROVE  v \in V
  BY EmptyFacts DEF Refreshed

\* No change of the friend list gets lost between FriendsPage's own requests and the
\* packets that the server pushes.
THEOREM FriendListIsFresh == Spec => []FriendListFresh
  <1>1. ASSUME AppInv PROVE FriendListFresh
    <2>1. SUFFICES ASSUME Quiet, Served(token), Shown("Main")
                   PROVE  lists.friends = [whose |-> owner[token], version |-> friendships[owner[token]]]
      BY DEF FriendListFresh
    <2>2. FriendsInv /\ connected /\ Main /\ sent = << >> /\ received = << >>
      BY <1>1, <2>1, ScreenFacts DEF AppInv, Quiet, Main
    <2>3. lists.friends \in {[whose |-> owner[token], version |-> friendships[owner[token]]]}
      BY <2>1, <2>2, QuietFresh DEF FriendsInv
    <2> QED
      BY <2>3
  <1> QED
    BY <1>1, AppInvariance, PTL

\* Every message to or from the account is in the chat list that ChatListPage shows.
THEOREM ChatListIsFresh == Spec => []ChatListFresh
  <1>1. ASSUME AppInv PROVE ChatListFresh
    <2>1. SUFFICES ASSUME Quiet, Served(token), Top = "Main"
                   PROVE  lists.chats = [whose |-> owner[token], ids |-> MailOf(owner[token])]
      BY DEF ChatListFresh
    <2>2. stack = <<"Main">>
      BY <1>1, <2>1, ScreenFacts DEF AppInv
    <2>3. ChatsInv /\ connected /\ sent = << >> /\ received = << >>
      BY <1>1, <2>1 DEF AppInv, Quiet
    <2>4. lists.chats \in {[whose |-> owner[token], ids |-> MailOf(owner[token])]}
      BY <2>1, <2>2, <2>3, QuietFresh DEF ChatsInv
    <2> QED
      BY <2>4
  <1> QED
    BY <1>1, AppInvariance, PTL

\* A message of its peer, one of the first HistoryLimit of the two users, reaches an open
\* chat, whether the server stored it before or after it read the history.
THEOREM PageIsComplete == Spec => []PageComplete
  <1>1. ASSUME AppInv PROVE PageComplete
    <2>1. SUFFICES ASSUME Quiet, Served(token), Top = "Chat", page.token = token,
                          NEW m \in Incoming(owner[token], page.peer)
                                     \cap History(owner[token], page.peer)
                   PROVE  m \in page.shown
      BY DEF PageComplete
    <2>2. Chat
      BY <1>1, <2>1, ScreenFacts DEF AppInv, Chat
    <2>3. CompleteInv /\ connected /\ sent = << >> /\ received = << >>
      BY <1>1, <2>1 DEF AppInv, Quiet
    <2>4. page.shown \in {S \in SUBSET Nat : m \in S}
      BY <2>1, <2>2, <2>3, QuietFresh DEF CompleteInv
    <2> QED
      BY <2>4
  <1> QED
    BY <1>1, AppInvariance, PTL

\* The answer to a request of an earlier page does not stay on the page of another peer.
THEOREM PageShowsItsPeer == Spec => []PageOfItsPeer
  <1>1. ASSUME AppInv PROVE PageOfItsPeer
    <2>1. SUFFICES ASSUME Quiet, Top = "Chat"
                   PROVE  \A i \in page.shown : mail[i].peer = page.peer
      BY DEF PageOfItsPeer
    <2>2. Chat
      BY <1>1, <2>1, ScreenFacts DEF AppInv, Chat
    <2>3. PageInv /\ connected /\ sent = << >> /\ received = << >>
      BY <1>1, <2>1 DEF AppInv, Quiet
    <2>4. page.shown \in IdsOf(page.peer)
      BY <2>2, <2>3, QuietFresh DEF PageInv
    <2> QED
      BY <2>4 DEF IdsOf
  <1> QED
    BY <1>1, AppInvariance, PTL
=============================================================================
