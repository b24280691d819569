------------------------ MODULE ClientSessionProofs ------------------------
(***************************************************************************)
(* What the server guarantees for any logins, connections and bounds, with *)
(* lost connections, kills in the middle of a handler and restarts.        *)
(*                                                                         *)
(* The invariant SInv joins those of the users and friendships tables,     *)
(* proved in their own modules and carried over to the handlers that       *)
(* combine their operations, with three of its own: MailInv (messages are  *)
(* between registered users who are friends, and flagged only once handed  *)
(* over), ConnInv (an entry of online_users leads to a connection that     *)
(* authenticated as its login, and a login with a session has no backlog)  *)
(* and QueueInv (a queued message was handed over and is for a login of    *)
(* its connection; a socket that is not open has no queue, so that a       *)
(* connection accepted later inherits none).                               *)
(*                                                                         *)
(* That users, friendships and messages only grow (UsersGrow, FriendsStay, *)
(* MailGrows) is what keeps old rows true in every step.                   *)
(*                                                                         *)
(* Two action properties follow: who may take a user's entry away (by      *)
(* MapSteps) and in which order a step posts messages (by QueueSteps).     *)
(*                                                                         *)
(* The last part shows that the server implements StoreAndForward: each of *)
(* its steps is one of the store, or leaves friends and messages alone.    *)
(***************************************************************************)
EXTENDS ClientSession, FiniteSetTheorems, SequenceTheorems, TLAPS

UP == INSTANCE UserRepositoryProofs
FP == INSTANCE FriendRepositoryProofs

-----------------------------------------------------------------------------
(***************************************************************************)
(* The repositories inside the server.                                     *)
(***************************************************************************)

\* The constants suit the repositories.
LEMMA Constants == UP!UserAssumption /\ FP!UserIdAssumption
  BY SessionAssumption DEF SessionAssumption, Users!UserAssumption, UP!UserAssumption,
     FP!UserIdAssumption, UserId

\* The definitions of UserRepository, read through its proofs.
LEMMA SameUsers ==
    /\ UP!TypeOK <=> Users!TypeOK
    /\ UP!LoginsUnique <=> Users!LoginsUnique
    /\ \A id : UP!issueToken(id) <=> Users!issueToken(id)
    /\ \A t : UP!getLoginByToken(t) <=> Users!getLoginByToken(t)
    /\ \A t : UP!logout(t) <=> Users!logout(t)
    /\ \A l, p, err : UP!registerUser(l, p, err) <=> Users!registerUser(l, p, err)
    /\ UP!cleanExpiredTokens <=> Users!cleanExpiredTokens
    /\ UP!Stop <=> Users!Stop
    /\ UP!Tick <=> Users!Tick
  BY DEF UP!TypeOK, Users!TypeOK, UP!Session, Users!Session, UP!UserId, Users!UserId,
     UP!LoginsUnique, Users!LoginsUnique, UP!issueToken, Users!issueToken,
     UP!NextToken, Users!NextToken, UP!getLoginByToken, Users!getLoginByToken,
     UP!TokenError, Users!TokenError, UP!Restrict, Users!Restrict,
     UP!Expired, Users!Expired, UP!ExpiredAt, Users!ExpiredAt, UP!logout, Users!logout,
     UP!registerUser, Users!registerUser, UP!userExists, Users!userExists,
     UP!cleanExpiredTokens, Users!cleanExpiredTokens, UP!Stop, Users!Stop,
     UP!Tick, Users!Tick

LEMMA LookupIInv ==
    ASSUME UP!IInv, NEW t, Users!getLoginByToken(t),
           UNCHANGED <<users, issued, revoked, now, up, timer>>
    PROVE  UP!IInv'
  BY Constants, SameUsers, UP!LookupIInv

LEMMA LogoutIInv ==
    ASSUME UP!IInv, NEW t, Users!logout(t), UNCHANGED <<users, issued, now, up, timer>>
    PROVE  UP!IInv'
  BY Constants, SameUsers, UP!LogoutIInv

LEMMA StutterIInv ==
    ASSUME UP!IInv, UNCHANGED <<users, sessions, issued, revoked, now, up, timer>>
    PROVE  UP!IInv'
  BY Constants, UP!StutterIInv DEF UP!vars

\* registerUser, with or without the token that follows.
LEMMA RegisterKeeps ==
    ASSUME UP!IInv, NEW l \in Login, NEW p \in Password, NEW err,
           Users!registerUser(l, p, err)
    PROVE  /\ users' \in Seq([login: Login, password: Password])
           /\ UP!LoginsUnique'
           /\ DOMAIN users \subseteq DOMAIN users'
           /\ \A i \in DOMAIN users : users'[i] = users[i]
  BY Constants, SameUsers, UP!RegisterKeepsUnique DEF UP!IInv

LEMMA GrowIInv ==
    ASSUME UP!IInv, users' \in Seq([login: Login, password: Password]), UP!LoginsUnique',
           DOMAIN users \subseteq DOMAIN users', UNCHANGED <<up, timer>> \/ Users!Stop,
           UNCHANGED <<sessions, now, issued, revoked>>
    PROVE  UP!IInv'
  BY Constants, SameUsers, UP!GrowIInv

LEMMA IssueIInv ==
    ASSUME UP!IInv, users' \in Seq([login: Login, password: Password]), UP!LoginsUnique',
           DOMAIN users \subseteq DOMAIN users', NEW id \in DOMAIN users',
           Users!issueToken(id), UNCHANGED <<up, timer>> \/ Users!Stop,
           UNCHANGED <<now, revoked>>
    PROVE  UP!IInv'
  BY Constants, SameUsers, UP!IssueIInv

LEMMA SweepIInv ==
    ASSUME UP!IInv, Users!cleanExpiredTokens, timer' = now + Interval, up' = TRUE,
           UNCHANGED <<users, now, issued, revoked>>
    PROVE  UP!IInv'
  BY Constants, SameUsers, UP!SweepIInv

LEMMA StopIInv ==
    ASSUME UP!IInv, Users!Stop, UNCHANGED <<users, sessions, now, issued, revoked>>
    PROVE  UP!IInv'
  BY Constants, SameUsers, UP!StopIInv

LEMMA TickIInv == ASSUME UP!IInv, Users!Tick PROVE UP!IInv'
  BY Constants, SameUsers, UP!TickIInv

-----------------------------------------------------------------------------
LEMMA SameFriends ==
    /\ FP!TypeOK <=> Friends!TypeOK
    /\ \A a, b : /\ FP!areFriends(a, b) <=> Friends!areFriends(a, b)
                 /\ FP!areFriends(a, b)' <=> Friends!areFriends(a, b)'
    /\ \A a, b, err : /\ FP!sendRequest(a, b, err) <=> Friends!sendRequest(a, b, err)
                      /\ FP!acceptRequest(a, b, err) <=> Friends!acceptRequest(a, b, err)
                      /\ FP!rejectRequest(a, b, err) <=> Friends!rejectRequest(a, b, err)
  BY DEF FP!TypeOK, Friends!TypeOK, FP!Friendship, Friends!Friendship, FP!Status,
     Friends!Status, FP!areFriends, Friends!areFriends, FP!Rows, Friends!Rows,
     FP!normalize, Friends!normalize, FP!PendingRows, Friends!PendingRows, FP!vars,
     Friends!vars, FP!sendRequest, Friends!sendRequest, FP!acceptRequest,
     Friends!acceptRequest, FP!rejectRequest, Friends!rejectRequest

\* No friendship ends in this step.
FriendsStay ==
    \A a, b \in UserId : Friends!areFriends(a, b) => Friends!areFriends(a, b)'

LEMMA FriendshipKeeps ==
    ASSUME FP!IInv, NEW a \in UserId, NEW b \in UserId, NEW err \in Friends!FriendError,
           \/ Friends!sendRequest(a, b, err)
           \/ Friends!acceptRequest(a, b, err)
           \/ Friends!rejectRequest(a, b, err)
    PROVE  FP!IInv' /\ FriendsStay
  <1>1. FP!Send(a, b) \/ FP!Accept(a, b) \/ FP!Reject(a, b)
    BY SameFriends DEF FP!Send, FP!Accept, FP!Reject, FP!FriendError, Friends!FriendError
  <1>2. FP!IInv'
    BY <1>1, Constants, FP!SendIInv, FP!AcceptIInv, FP!RejectIInv
  <1>3. \A c, d \in UserId : FP!areFriends(c, d) => FP!areFriends(c, d)'
    BY <1>1, Constants, FP!StepKeepsFriends
  <1> QED
    BY <1>2, <1>3, SameFriends DEF FriendsStay

LEMMA FriendshipRests == FP!IInv /\ UNCHANGED friendVars => FP!IInv' /\ FriendsStay
  BY DEF friendVars, FP!IInv, FP!TypeOK, FP!RowsNormalized, FP!OneRowPerPair,
     FP!PendingIsOneSided, FP!MutualConsent, FP!ConsentHasRow, FP!Rows, FriendsStay,
     Friends!areFriends, Friends!Rows

-----------------------------------------------------------------------------
(***************************************************************************)
(* The strengthened invariant.                                             *)
(***************************************************************************)

\* Messages are between registered users, and handed over only when stored.
MailInv ==
    /\ Messages!TypeOK
    /\ \A i \in DOMAIN direct_messages : /\ direct_messages[i].sender \in DOMAIN users
                                         /\ direct_messages[i].recipient \in DOMAIN users
    /\ OnlyFriendsExchange
    /\ NothingForgotten
    /\ handed \subseteq DOMAIN direct_messages
    /\ written \subseteq handed

\* An entry of online_users leads to a connection that authenticated as its login.
EntriesAuthed ==
    \A l \in DOMAIN online_users : online_users[l] \in Conn => l \in authed[online_users[l]]

ConnInv ==
    /\ socket \in [Conn -> {"none", "open", "closing", "closed"}]
    /\ current_login \in [Conn -> Login \cup {NoLogin}]
    /\ authed \in [Conn -> SUBSET Login]
    /\ DOMAIN online_users \subseteq Login
    /\ IsFiniteSet(DOMAIN online_users)
    /\ \A l \in DOMAIN online_users : online_users[l] \in Conn \cup {Expired}
    /\ EntriesAuthed
    /\ BacklogOnlyOffline

\* Allowed[c]: the packets that may be in the queue of c.
Allowed ==
    [c \in Conn |-> {p \in Packet : p.type = "DIRECT_MESSAGE" =>
                                       p.id \in handed /\ Recipient(p.id) \in authed[c]}]

Fits(box, allowed) ==
    /\ box = [c \in Conn |-> box[c]]
    /\ \A c \in Conn : box[c] \in Seq(allowed[c])

\* Only an open socket has a queue.
NoQueueUnlessOpen(box, sock) == \A c \in Conn : sock[c] # "open" => box[c] = << >>

QueueInv == Fits(outbox, Allowed) /\ NoQueueUnlessOpen(outbox, socket)

SInv ==
    /\ UP!IInv
    /\ FP!IInv
    /\ MailInv
    /\ ConnInv
    /\ QueueInv

-----------------------------------------------------------------------------
(***************************************************************************)
(* Queues.                                                                 *)
(***************************************************************************)

LEMMA FitsMore ==
    ASSUME NEW box, NEW A, NEW B, Fits(box, A), \A c \in Conn : A[c] \subseteq B[c]
    PROVE  Fits(box, B)
  BY SeqMonotonic DEF Fits

\* Posting allowed packets to an open socket, or anything to another one.
LEMMA PostFits ==
    ASSUME NEW A, NEW box, Fits(box, A), NoQueueUnlessOpen(box, socket), NEW c, NEW ps,
           c \in Conn /\ socket[c] = "open" => ps \in Seq(A[c])
    PROVE  Fits(Post(box, c, ps), A) /\ NoQueueUnlessOpen(Post(box, c, ps), socket)
  <1>1. CASE c \in Conn /\ socket[c] = "open"
    <2>1. box[c] \o ps \in Seq(A[c])
      BY <1>1, ConcatProperties DEF Fits
    <2>2. Post(box, c, ps) = [box EXCEPT ![c] = box[c] \o ps]
      BY <1>1 DEF Post
    <2> QED
      BY <1>1, <2>1, <2>2 DEF Fits, NoQueueUnlessOpen
  <1>2. CASE ~ (c \in Conn /\ socket[c] = "open")
    BY <1>2 DEF Post
  <1> QED
    BY <1>1, <1>2

LEMMA Singletons == \A S : \A x \in S : <<x>> \in Seq(S)
  OBVIOUS

\* The packets that are allowed everywhere.
LEMMA ResultAllowed == \A c \in Conn : \A err : RESULT(err) \in Allowed[c]
  BY DEF Allowed, Packet, RESULT

LEMMA PushAllowed ==
    \A c \in Conn : \A type \in PushType \ {"DIRECT_MESSAGE"} : Push(type) \in Allowed[c]
  BY DEF Allowed, Packet, Push

\* broadcast queues one plain packet per entry of another login.
LEMMA BroadcastFits ==
    ASSUME ConnInv, NEW A, NEW box, Fits(box, A), NoQueueUnlessOpen(box, socket), NEW l,
           \A c \in Conn : Push("MESSAGE") \in A[c]
    PROVE  Fits(broadcast(box, l), A) /\ NoQueueUnlessOpen(broadcast(box, l), socket)
  <1> DEFINE entries(c) == {m \in DOMAIN online_users \ {l} : online_users[m] = c}
             more(c) == [i \in 1..Cardinality(entries(c)) |-> Push("MESSAGE")]
  <1>1. ASSUME NEW c \in Conn PROVE box[c] \o more(c) \in Seq(A[c])
    <2>1. Cardinality(entries(c)) \in Nat
      BY FS_Subset, FS_CardinalityType DEF ConnInv
    <2>2. more(c) \in Seq(A[c])
      BY <2>1
    <2> QED
      BY <2>2, ConcatProperties DEF Fits
  <1>2. broadcast(box, l) =
            [c \in Conn |-> IF socket[c] = "open" THEN box[c] \o more(c) ELSE box[c]]
    BY DEF broadcast
  <1> HIDE DEF more
  <1> QED
    BY <1>1, <1>2 DEF Fits, NoQueueUnlessOpen

-----------------------------------------------------------------------------
(***************************************************************************)
(* What every step keeps: users, friendships and messages only grow.       *)
(***************************************************************************)

UsersGrow ==
    /\ DOMAIN users \subseteq DOMAIN users'
    /\ \A i \in DOMAIN users : users'[i] = users[i]

MailGrows ==
    /\ DOMAIN direct_messages \subseteq DOMAIN direct_messages'
    /\ \A i \in DOMAIN direct_messages :
          /\ direct_messages'[i].sender = direct_messages[i].sender
          /\ direct_messages'[i].recipient = direct_messages[i].recipient
    /\ handed \subseteq handed'

LEMMA UserRow ==
    ASSUME UP!IInv, NEW i \in DOMAIN users
    PROVE  i \in UserId /\ users[i].login \in Login
  <1>1. users \in Seq([login: Login, password: Password])
    BY DEF UP!IInv, UP!TypeOK
  <1>2. i \in 1..Len(users) /\ users[i] \in [login: Login, password: Password]
    BY <1>1, ElementOfSeq, LenProperties
  <1> QED
    BY <1>2 DEF UserId

\* The recipient of a stored message is a registered login, and stays who it is.
LEMMA RecipientStays ==
    ASSUME UP!IInv, MailInv, UsersGrow, MailGrows, NEW i \in DOMAIN direct_messages
    PROVE  Recipient(i) \in Login /\ Recipient(i)' = Recipient(i)
  BY UserRow DEF MailInv, UsersGrow, MailGrows, Recipient, Users!getLoginById

LEMMA AllowedGrows ==
    ASSUME UP!IInv, MailInv, UsersGrow, MailGrows, NEW c \in Conn, authed[c] \subseteq authed'[c]
    PROVE  Allowed[c] \subseteq Allowed'[c]
  <1>1. Packet \subseteq Packet'
    BY DEF Packet, MailGrows
  <1>2. ASSUME NEW i \in handed PROVE i \in handed' /\ Recipient(i)' = Recipient(i)
    BY RecipientStays DEF MailInv, MailGrows
  <1> QED
    BY <1>1, <1>2 DEF Allowed

\* A session found for a login is one of a connection authenticated as it.
LEMMA SessionFacts ==
    ASSUME ConnInv, NEW l, getSession(l) # NoConn
    PROVE  /\ getSession(l) \in Conn
           /\ l \in authed[getSession(l)]
  BY DEF ConnInv, EntriesAuthed, getSession

\* Old messages stay between registered users who are friends.
LEMMA RowsKept ==
    ASSUME UP!IInv, MailInv, UsersGrow, FriendsStay, MailGrows,
           NEW i \in DOMAIN direct_messages
    PROVE  /\ direct_messages'[i].sender \in DOMAIN users'
           /\ direct_messages'[i].recipient \in DOMAIN users'
           /\ Friends!areFriends(direct_messages[i].sender, direct_messages[i].recipient)'
  <1>1. DOMAIN users \subseteq UserId
    BY DEF UP!IInv, UP!TypeOK, UserId
  <1>2. PICK a \in UserId, b \in UserId :
            a = direct_messages[i].sender /\ b = direct_messages[i].recipient
    BY <1>1 DEF MailInv
  <1>3. Friends!areFriends(a, b)'
    BY <1>2 DEF MailInv, OnlyFriendsExchange, FriendsStay
  <1>4. direct_messages'[i].sender = a /\ direct_messages'[i].recipient = b
    BY <1>2 DEF MailGrows
  <1> QED
    BY <1>2, <1>3, <1>4 DEF MailInv, UsersGrow, Friends!areFriends, Friends!Rows,
       Friends!normalize

-----------------------------------------------------------------------------
(***************************************************************************)
(* Steps that store and hand over no message.                              *)
(***************************************************************************)

LEMMA MessageRow ==
    ASSUME Messages!TypeOK, NEW i \in DOMAIN direct_messages
    PROVE  /\ direct_messages[i] \in [sender: UserId, recipient: UserId, create_at: Nat,
                                      delivered: BOOLEAN]
           /\ i \in Nat \ {0} /\ direct_messages[i].create_at <= now
  <1>1. direct_messages \in Seq(Messages!Message)
    BY DEF Messages!TypeOK
  <1>2. i \in 1..Len(direct_messages) /\ direct_messages[i] \in Messages!Message
    BY <1>1, ElementOfSeq, LenProperties
  <1> QED
    BY <1>2 DEF Messages!TypeOK, Messages!Message

LEMMA MailRests ==
    ASSUME UP!IInv, MailInv, UsersGrow, FriendsStay, UNCHANGED <<direct_messages, handed>>,
           written' \subseteq handed, now' \in Nat, now <= now'
    PROVE  MailGrows /\ MailInv'
  <1>1. MailGrows
    BY DEF MailGrows
  <1>2. Messages!TypeOK'
    BY MessageRow DEF MailInv, Messages!TypeOK, Messages!Message
  <1>3. OnlyFriendsExchange'
    BY <1>1, RowsKept DEF OnlyFriendsExchange
  <1>4. NothingForgotten'
    BY DEF MailInv, NothingForgotten
  <1> QED
    BY <1>1, <1>2, <1>3, <1>4, RowsKept DEF MailInv

LEMMA ConnRests ==
    ASSUME UP!IInv, MailInv, ConnInv, UsersGrow,
           UNCHANGED <<direct_messages, handed, online_users, authed>>,
           socket' \in [Conn -> {"none", "open", "closing", "closed"}],
           current_login' \in [Conn -> Login \cup {NoLogin}]
    PROVE  ConnInv'
  <1>1. ASSUME NEW i \in DOMAIN direct_messages PROVE Recipient(i)' = Recipient(i)
    BY RecipientStays DEF MailGrows
  <1>2. BacklogOnlyOffline'
    BY <1>1 DEF ConnInv, BacklogOnlyOffline, getSession
  <1> QED
    BY <1>2 DEF ConnInv, EntriesAuthed

LEMMA QueueRests ==
    ASSUME UP!IInv, MailInv, UsersGrow, MailGrows,
           \A c \in Conn : authed[c] \subseteq authed'[c],
           Fits(outbox', Allowed), NoQueueUnlessOpen(outbox', socket')
    PROVE  QueueInv'
  <1>1. \A c \in Conn : Allowed[c] \subseteq Allowed'[c]
    BY AllowedGrows
  <1>2. Fits(outbox', Allowed')
    BY <1>1, FitsMore
  <1> QED
    BY <1>2 DEF QueueInv, Fits, NoQueueUnlessOpen

\* A step that changes neither messages nor the map, and leaves allowed queues.
LEMMA QuietStep ==
    ASSUME SInv, UsersGrow, FriendsStay,
           UNCHANGED <<online_users, authed, direct_messages, handed>>,
           written' \subseteq handed, now' \in Nat, now <= now',
           socket' \in [Conn -> {"none", "open", "closing", "closed"}],
           current_login' \in [Conn -> Login \cup {NoLogin}],
           Fits(outbox', Allowed), NoQueueUnlessOpen(outbox', socket')
    PROVE  MailInv' /\ ConnInv' /\ QueueInv'
  BY MailRests, ConnRests, QueueRests DEF SInv

-----------------------------------------------------------------------------
(***************************************************************************)
(* Handlers.                                                               *)
(***************************************************************************)

LEMMA NowIsNat == UP!IInv => now \in Nat
  BY DEF UP!IInv, UP!TypeOK

\* Reading a request opens no socket and closes no open one.
LEMMA ReceivesKeepsOpen ==
    ASSUME ConnInv, NEW c \in Conn, NEW type, Receives(c, type)
    PROVE  /\ socket' \in [Conn -> {"none", "open", "closing", "closed"}]
           /\ \A d \in Conn : socket[d] = "open" <=> socket'[d] = "open"
  BY DEF ConnInv, Receives

\* A handler that handles no message and authenticates nobody.
LEMMA QuietHandler ==
    ASSUME SInv, NEW c \in Conn, NEW type, Receives(c, type), UP!IInv', FP!IInv',
           UsersGrow, FriendsStay, UNCHANGED <<now, online_users, authed, mailVars>>,
           current_login' \in [Conn -> Login \cup {NoLogin}],
           Fits(outbox', Allowed), NoQueueUnlessOpen(outbox', socket)
    PROVE  SInv'
  <1>1. /\ socket' \in [Conn -> {"none", "open", "closing", "closed"}]
        /\ \A d \in Conn : socket[d] = "open" <=> socket'[d] = "open"
    BY ReceivesKeepsOpen DEF SInv
  <1>2. NoQueueUnlessOpen(outbox', socket')
    BY <1>1 DEF NoQueueUnlessOpen
  <1>3. written' \subseteq handed /\ now' \in Nat /\ now <= now'
    BY NowIsNat DEF SInv, MailInv, mailVars
  <1>4. MailInv' /\ ConnInv' /\ QueueInv'
    BY <1>1, <1>2, <1>3, QuietStep DEF mailVars
  <1> QED
    BY <1>4 DEF SInv

\* A RESULT to c.
LEMMA ResultFits ==
    ASSUME NEW box, Fits(box, Allowed), NoQueueUnlessOpen(box, socket), NEW c \in Conn, NEW err
    PROVE  /\ Fits(Post(box, c, <<RESULT(err)>>), Allowed)
           /\ NoQueueUnlessOpen(Post(box, c, <<RESULT(err)>>), socket)
  <1>1. <<RESULT(err)>> \in Seq(Allowed[c])
    BY ResultAllowed, Singletons
  <1> QED
    BY <1>1, PostFits

LEMMA ReplyOnlyKeeps ==
    ASSUME SInv, NEW c \in Conn, NEW type, Receives(c, type), UP!IInv', UsersGrow,
           UNCHANGED now, NEW err, ReplyOnly(c, err)
    PROVE  SInv'
  <1>1. FP!IInv' /\ FriendsStay
    BY FriendshipRests DEF SInv, ReplyOnly
  <1>2. Fits(outbox', Allowed) /\ NoQueueUnlessOpen(outbox', socket)
    BY ResultFits DEF SInv, QueueInv, ReplyOnly
  <1> QED
    BY <1>1, <1>2, QuietHandler DEF ReplyOnly, SInv, ConnInv

\* The push to the session of the other user, and the RESULT.
LEMMA NotifyKeeps ==
    ASSUME SInv, NEW c \in Conn, NEW type, Receives(c, type), UP!IInv', UsersGrow,
           FP!IInv', FriendsStay, UNCHANGED now,
           NEW target, NEW push \in PushType \ {"DIRECT_MESSAGE"}, NEW err,
           NotifyAndReply(c, target, push, err)
    PROVE  SInv'
  <1> DEFINE told == IF err = "OK" THEN Post(outbox, getSession(target), <<Push(push)>>)
                     ELSE outbox
  <1>1. Fits(told, Allowed) /\ NoQueueUnlessOpen(told, socket)
    <2>1. ASSUME NEW d \in Conn PROVE <<Push(push)>> \in Seq(Allowed[d])
      BY PushAllowed, Singletons
    <2> QED
      BY <2>1, PostFits DEF SInv, QueueInv
  <1>2. outbox' = Post(told, c, <<RESULT(err)>>)
    BY DEF NotifyAndReply
  <1> HIDE DEF told
  <1>3. Fits(outbox', Allowed) /\ NoQueueUnlessOpen(outbox', socket)
    BY <1>1, <1>2, ResultFits
  <1> QED
    BY <1>3, QuietHandler DEF NotifyAndReply, SInv, ConnInv

\* The id of a login that exists, and the user that a good token stands for.
LEMMA IdFacts ==
    ASSUME NEW l, Users!userExists(l)
    PROVE  /\ Users!getIdByLogin(l) \in DOMAIN users
           /\ users[Users!getIdByLogin(l)].login = l
  BY DEF Users!userExists, Users!getIdByLogin

LEMMA TokenFacts ==
    ASSUME UP!IInv, NEW t, Users!TokenError(t) = "OK"
    PROVE  /\ Users!LoginOfToken(t) \in Login
           /\ SenderId(t) \in DOMAIN users
           /\ users[SenderId(t)].login = Users!LoginOfToken(t)
  <1>1. sessions[t].id \in DOMAIN users
    BY DEF Users!TokenError
  <1>2. Users!userExists(Users!LoginOfToken(t))
    BY <1>1 DEF Users!userExists, Users!LoginOfToken
  <1> QED
    BY <1>1, <1>2, IdFacts, UserRow DEF SenderId, Users!LoginOfToken

\* Both ids that a handler passes on have passed the checks.
LEMMA GateFacts ==
    ASSUME UP!IInv, NEW t, NEW target, GateError(t, target) = "OK"
    PROVE  /\ Users!TokenError(t) = "OK" /\ Users!userExists(target)
           /\ SenderId(t) \in UserId /\ Users!getIdByLogin(target) \in UserId
  <1>1. Users!TokenError(t) = "OK" /\ Users!userExists(target)
    BY DEF GateError
  <1> QED
    BY <1>1, TokenFacts, IdFacts, UserRow

LEMMA SameUsersGrow == UNCHANGED users => UsersGrow
  BY DEF UsersGrow

\* The lookup that a handler starts with.
LEMMA LookupKeeps ==
    ASSUME SInv, NEW t, Users!getLoginByToken(t), UNCHANGED <<users, issued, revoked, procVars>>
    PROVE  UP!IInv' /\ UsersGrow /\ now' = now
  BY LookupIInv, SameUsersGrow DEF SInv, procVars

LEMMA ListKeeps ==
    ASSUME SInv, NEW c \in Conn, NEW t, handle_friend_list(c, t) \/ handle_chat_list(c, t)
    PROVE  SInv'
  BY LookupKeeps, ReplyOnlyKeeps DEF handle_friend_list, handle_chat_list

LEMMA UnknownKeeps == ASSUME SInv, NEW c \in Conn, handle_unknown(c) PROVE SInv'
  <1>1. UP!IInv' /\ FP!IInv' /\ UsersGrow /\ FriendsStay /\ now' = now
    BY StutterIInv, FriendshipRests, SameUsersGrow
       DEF SInv, handle_unknown, userVars, procVars
  <1> QED
    BY <1>1, QuietHandler DEF handle_unknown, SInv, ConnInv, QueueInv

LEMMA LogoutKeeps == ASSUME SInv, NEW c \in Conn, NEW t, handle_logout(c, t) PROVE SInv'
  <1>1. UP!IInv' /\ FP!IInv' /\ UsersGrow /\ FriendsStay /\ now' = now
    BY LogoutIInv, FriendshipRests, SameUsersGrow DEF SInv, handle_logout, procVars
  <1>2. current_login' \in [Conn -> Login \cup {NoLogin}]
    BY DEF handle_logout, SInv, ConnInv
  <1> QED
    BY <1>1, <1>2, QuietHandler DEF handle_logout, SInv, QueueInv

LEMMA MessageKeeps == ASSUME SInv, NEW c \in Conn, NEW t, handle_message(c, t) PROVE SInv'
  <1>1. UP!IInv' /\ UsersGrow /\ now' = now
    BY LookupKeeps DEF handle_message
  <1>2. CASE Users!TokenError(t) # "OK"
    BY <1>1, <1>2, ReplyOnlyKeeps DEF handle_message
  <1>3. CASE Users!TokenError(t) = "OK"
    <2> DEFINE box == broadcast(outbox, Users!LoginOfToken(t))
    <2>1. Fits(box, Allowed) /\ NoQueueUnlessOpen(box, socket)
      BY BroadcastFits, PushAllowed DEF SInv, QueueInv, PushType
    <2>2. outbox' = Post(box, c, <<RESULT("OK")>>)
      BY <1>3 DEF handle_message
    <2> HIDE DEF box
    <2>3. Fits(outbox', Allowed) /\ NoQueueUnlessOpen(outbox', socket)
      BY <2>1, <2>2, ResultFits
    <2>4. FP!IInv' /\ FriendsStay
      BY <1>3, FriendshipRests DEF SInv, handle_message
    <2> QED
      BY <1>1, <1>3, <2>3, <2>4, QuietHandler DEF handle_message, SInv, ConnInv
  <1> QED
    BY <1>2, <1>3

\* The three handlers that ask, accept and reject.
LEMMA FriendHandlerKeeps ==
    ASSUME SInv, NEW c \in Conn, NEW t, NEW target,
           \/ handle_friend_request(c, t, target)
           \/ handle_friend_accept(c, t, target)
           \/ handle_friend_reject(c, t, target)
    PROVE  SInv'
  <1>1. UP!IInv' /\ UsersGrow /\ now' = now
    BY LookupKeeps DEF handle_friend_request, handle_friend_accept, handle_friend_reject
  <1>2. PICK type : Receives(c, type)
    BY DEF handle_friend_request, handle_friend_accept, handle_friend_reject
  <1>3. CASE FriendRefused(c, t, target)
    BY <1>1, <1>2, <1>3, ReplyOnlyKeeps DEF FriendRefused
  <1>4. CASE ~ FriendRefused(c, t, target)
    <2> DEFINE a == SenderId(t)
               b == Users!getIdByLogin(target)
    <2>1. GateError(t, target) = "OK"
      BY <1>4 DEF handle_friend_request, handle_friend_accept, handle_friend_reject
    <2>2. a \in UserId /\ b \in UserId
      BY <2>1, GateFacts DEF SInv
    <2>3. PICK push \in PushType \ {"DIRECT_MESSAGE"}, err \in Friends!FriendError :
             /\ \/ Friends!sendRequest(a, b, err)
                \/ Friends!acceptRequest(a, b, err)
                \/ Friends!rejectRequest(a, b, err)
             /\ NotifyAndReply(c, target, push, err)
      BY <1>4 DEF handle_friend_request, handle_friend_accept, handle_friend_reject, PushType
    <2> HIDE DEF a, b
    <2>4. FP!IInv' /\ FriendsStay
      BY <2>2, <2>3, FriendshipKeeps DEF SInv
    <2> QED
      BY <1>1, <1>2, <2>3, <2>4, NotifyKeeps
  <1> QED
    BY <1>3, <1>4

-----------------------------------------------------------------------------
(***************************************************************************)
(* Authentication and deliver_pending.                                     *)
(***************************************************************************)

LEMMA SameCardinality == \A S : Messages!Cardinality(S) = Cardinality(S)
  BY DEF Messages!Cardinality, Cardinality

\* deliver_pending reads the whole backlog and nothing else.
LEMMA BacklogIsUndelivered ==
    ASSUME Messages!TypeOK, NEW id, NEW q \in Backlog(id)
    PROVE  /\ q = [i \in DOMAIN q |-> q[i]]
           /\ Range(q) = Messages!Undelivered(id)
           /\ \E n \in Nat : DOMAIN q = 1..n
  <1> DEFINE S == Messages!Undelivered(id)
             n == Cardinality(S)
  <1>1. DOMAIN direct_messages = 1..Len(direct_messages) /\ Len(direct_messages) \in Nat
    BY LenProperties DEF Messages!TypeOK
  <1>2. IsFiniteSet(S) /\ n \in Nat
    <2>1. S \subseteq 1..Len(direct_messages)
      BY <1>1 DEF Messages!Undelivered
    <2>2. IsFiniteSet(1..Len(direct_messages))
      BY <1>1, FS_Interval
    <2>3. IsFiniteSet(S)
      BY <2>1, <2>2, FS_Subset
    <2> QED
      BY <2>3, FS_CardinalityType
  <1>3. q \in [1..n -> S] /\ Messages!IsInjective(q)
    BY SameCardinality
       DEF Backlog, Messages!getUndelivered, Messages!OrderedByTime, Messages!Scans
  <1> HIDE DEF S, n
  <1>4. q \in Injection(1..n, S)
    BY <1>3 DEF Messages!IsInjective, Injection, IsInjective
  <1>5. Cardinality(1..n) = n
    BY <1>2, FS_Interval
  <1>6. q \in Surjection(1..n, S)
    BY <1>2, <1>4, <1>5, FS_Injection DEF n
  <1>7. Range(q) = S
    BY <1>3, <1>6 DEF Surjection, Range
  <1> QED
    BY <1>2, <1>3, <1>7 DEF S

\* What deliver_pending and markDelivered make of the rows.
LEMMA MarkedRows ==
    ASSUME UP!IInv, MailInv, NEW S, Messages!markDelivered(S), UsersGrow, FriendsStay,
           UNCHANGED <<now, written>>, handed' \subseteq DOMAIN direct_messages,
           handed \subseteq handed', S \subseteq handed'
    PROVE  MailGrows /\ MailInv'
  <1>1. /\ DOMAIN direct_messages' = DOMAIN direct_messages
        /\ \A i \in DOMAIN direct_messages :
              direct_messages'[i] =
                  [direct_messages[i] EXCEPT !.delivered = @ \/ i \in S]
    BY DEF Messages!markDelivered
  <1>2. \A i \in DOMAIN direct_messages :
            /\ direct_messages'[i] \in Messages!Message
            /\ direct_messages'[i].sender = direct_messages[i].sender
            /\ direct_messages'[i].recipient = direct_messages[i].recipient
            /\ direct_messages'[i].create_at = direct_messages[i].create_at
            /\ direct_messages'[i].delivered <=> direct_messages[i].delivered \/ i \in S
    <2> SUFFICES ASSUME NEW i \in DOMAIN direct_messages
                 PROVE  /\ direct_messages'[i] \in Messages!Message
                        /\ direct_messages'[i].sender = direct_messages[i].sender
                        /\ direct_messages'[i].recipient = direct_messages[i].recipient
                        /\ direct_messages'[i].create_at = direct_messages[i].create_at
                        /\ direct_messages'[i].delivered <=>
                                direct_messages[i].delivered \/ i \in S
      OBVIOUS
    <2> DEFINE row == direct_messages[i]
               flag == row.delivered \/ i \in S
    <2>1. row \in Messages!Message
      BY MessageRow DEF MailInv, Messages!Message
    <2>2. direct_messages'[i] = [row EXCEPT !.delivered = flag]
      BY <1>1
    <2>3. flag \in BOOLEAN
      OBVIOUS
    <2> HIDE DEF row, flag
    <2>4. /\ direct_messages'[i] \in Messages!Message
          /\ direct_messages'[i].sender = row.sender
          /\ direct_messages'[i].recipient = row.recipient
          /\ direct_messages'[i].create_at = row.create_at
          /\ direct_messages'[i].delivered = flag
      BY <2>1, <2>2, <2>3 DEF Messages!Message
    <2> QED
      BY <2>4 DEF row, flag
  <1>3. MailGrows
    BY <1>1, <1>2 DEF MailGrows
  <1>4. direct_messages' \in Seq(Messages!Message)
    <2>1. Len(direct_messages) \in Nat /\ DOMAIN direct_messages = 1..Len(direct_messages)
      BY LenProperties DEF MailInv, Messages!TypeOK
    <2>2. direct_messages' = [i \in 1..Len(direct_messages) |-> direct_messages'[i]]
      BY <2>1 DEF Messages!markDelivered
    <2> QED
      BY <1>2, <2>1, <2>2
  <1>5. Messages!TypeOK'
    BY <1>1, <1>2, <1>4 DEF MailInv, Messages!TypeOK, Messages!Message
  <1>6. OnlyFriendsExchange'
    BY <1>1, <1>3, RowsKept DEF OnlyFriendsExchange
  <1>7. NothingForgotten'
    BY <1>1, <1>2 DEF MailInv, NothingForgotten
  <1> QED
    BY <1>1, <1>3, <1>5, <1>6, <1>7, RowsKept DEF MailInv

\* A login that goes online on c: nothing of its backlog stays behind, and what
\* is queued for c is addressed to that login.
LEMMA AuthenticateKeeps ==
    ASSUME SInv, NEW c \in Conn, NEW type, Receives(c, type), NEW l \in Login,
           UP!IInv', UsersGrow, UNCHANGED now, NEW id \in DOMAIN users', users'[id].login = l,
           Authenticate(c, l, id)
    PROVE  SInv'
  <1>1. PICK q \in Backlog(id) :
            /\ current_login' = [current_login EXCEPT ![c] = l]
            /\ authed' = [authed EXCEPT ![c] = @ \cup {l}]
            /\ Messages!markDelivered(SentIds(q))
            /\ handed' = handed \cup Range(q)
            /\ online_users' = [m \in DOMAIN online_users \cup {l} |->
                                    IF m = l THEN c ELSE online_users[m]]
            /\ outbox' = Post(outbox, c,
                              [i \in DOMAIN q |-> DirectMessage(q[i])] \o <<RESULT("OK")>>)
            /\ UNCHANGED <<written, friendVars>>
    BY DEF Authenticate
  <1>2. /\ q = [i \in DOMAIN q |-> q[i]]
        /\ Range(q) = Messages!Undelivered(id)
        /\ \E n \in Nat : DOMAIN q = 1..n
    BY BacklogIsUndelivered DEF SInv, MailInv
  <1>3. FP!IInv' /\ FriendsStay
    BY <1>1, FriendshipRests DEF SInv
  <1>4. MailGrows /\ MailInv'
    <2>1. Range(q) \subseteq DOMAIN direct_messages
      BY <1>2 DEF Messages!Undelivered
    <2> QED
      BY <1>1, <1>3, <2>1, MarkedRows DEF SInv, MailInv, SentIds
  <1>5. \A d \in Conn : authed[d] \subseteq authed'[d]
    BY <1>1 DEF SInv, ConnInv
  <1>6. ConnInv'
    <2>1. socket' \in [Conn -> {"none", "open", "closing", "closed"}]
      BY ReceivesKeepsOpen DEF SInv
    <2>2. /\ current_login' \in [Conn -> Login \cup {NoLogin}]
          /\ authed' \in [Conn -> SUBSET Login]
          /\ DOMAIN online_users' \subseteq Login
          /\ \A m \in DOMAIN online_users' : online_users'[m] \in Conn \cup {Expired}
      BY <1>1 DEF SInv, ConnInv
    <2>3. IsFiniteSet(DOMAIN online_users')
      BY <1>1, FS_AddElement DEF SInv, ConnInv
    <2>4. EntriesAuthed'
      BY <1>1 DEF SInv, ConnInv, EntriesAuthed
    <2>5. BacklogOnlyOffline'
      <3> SUFFICES ASSUME NEW i \in DOMAIN direct_messages',
                          ~ direct_messages'[i].delivered, i \notin handed'
                   PROVE  getSession(Recipient(i))' = NoConn
        BY DEF BacklogOnlyOffline
      <3>1. /\ i \in DOMAIN direct_messages
            /\ ~ direct_messages[i].delivered
        BY <1>1, MessageRow DEF Messages!markDelivered, SInv, MailInv, Messages!Message
      <3>2. direct_messages[i].recipient # id
        BY <1>1, <1>2, <3>1 DEF Messages!Undelivered
      <3>3. Recipient(i)' # l
        BY <1>4, <3>1, <3>2 DEF SInv, MailInv, MailGrows, UsersGrow, Recipient,
           Users!getLoginById, UP!IInv, UP!LoginsUnique
      <3>4. getSession(Recipient(i)) = NoConn /\ Recipient(i)' = Recipient(i)
        BY <1>1, <1>4, <3>1, RecipientStays DEF SInv, ConnInv, BacklogOnlyOffline
      <3> QED
        BY <1>1, <3>3, <3>4 DEF getSession
    <2> QED
      BY <2>1, <2>2, <2>3, <2>4, <2>5 DEF ConnInv
  <1> DEFINE backlog == [i \in DOMAIN q |-> DirectMessage(q[i])]
  <1>7. backlog \o <<RESULT("OK")>> \in Seq(Allowed'[c])
    <2>1. ASSUME NEW i \in DOMAIN q PROVE DirectMessage(q[i]) \in Allowed'[c]
      <3>1. /\ q[i] \in handed' /\ q[i] \in DOMAIN direct_messages
            /\ direct_messages[q[i]].recipient = id
        BY <1>1, <1>2 DEF Range, Messages!Undelivered
      <3>2. q[i] \in DOMAIN direct_messages' /\ Recipient(q[i])' = l
        BY <1>4, <3>1 DEF MailGrows, Recipient, Users!getLoginById
      <3>3. l \in authed'[c]
        BY <1>1 DEF SInv, ConnInv
      <3> QED
        BY <3>1, <3>2, <3>3 DEF Allowed, Packet, DirectMessage, PushType
    <2>2. backlog \in Seq(Allowed'[c])
      BY <1>2, <2>1
    <2>3. RESULT("OK") \in Allowed'[c]
      BY DEF Allowed, Packet, RESULT
    <2> HIDE DEF backlog
    <2> QED
      BY <2>2, <2>3, Singletons, ConcatProperties
  <1> HIDE DEF backlog
  <1>8. Fits(outbox, Allowed')
    BY <1>4, <1>5, AllowedGrows, FitsMore DEF SInv, QueueInv
  <1>9. Fits(outbox', Allowed') /\ NoQueueUnlessOpen(outbox', socket)
    BY <1>1, <1>7, <1>8, PostFits DEF SInv, QueueInv, backlog
  <1>10. QueueInv'
    BY <1>9, ReceivesKeepsOpen DEF SInv, QueueInv, Fits, NoQueueUnlessOpen
  <1> QED
    BY <1>3, <1>4, <1>6, <1>10 DEF SInv

LEMMA RegisterHandlerKeeps ==
    ASSUME SInv, NEW c \in Conn, NEW l \in Login, NEW p \in Password, handle_register(c, l, p)
    PROVE  SInv'
  <1> DEFINE id == Len(users) + 1
  <1>1. CASE /\ Users!registerUser(l, p, "OK")
             /\ Users!issueToken(id)
             /\ Authenticate(c, l, id)
    <2>1. /\ users' \in Seq([login: Login, password: Password])
          /\ UP!LoginsUnique'
          /\ UsersGrow
      BY <1>1, RegisterKeeps DEF SInv, UsersGrow
    <2>2. users' = Append(users, [login |-> l, password |-> p])
      BY <1>1 DEF Users!registerUser
    <2>3. id \in DOMAIN users' /\ users'[id].login = l
      BY <2>2, AppendProperties, LenProperties DEF SInv, UP!IInv, UP!TypeOK
    <2> HIDE DEF id
    <2>4. UP!IInv' /\ UNCHANGED now
      BY <1>1, <2>1, <2>3, IssueIInv DEF SInv, UsersGrow, handle_register, procVars
    <2> QED
      BY <1>1, <2>1, <2>3, <2>4, AuthenticateKeeps DEF handle_register
  <1>2. CASE /\ Users!registerUser(l, p, "LoginExists")
             /\ ReplyOnly(c, "LoginExists")
             /\ UNCHANGED <<sessions, issued>>
    <2>1. UNCHANGED users
      BY <1>2 DEF Users!registerUser
    <2>2. UP!IInv' /\ UsersGrow /\ UNCHANGED now
      BY <1>2, <2>1, StutterIInv, SameUsersGrow DEF SInv, handle_register, procVars
    <2> QED
      BY <1>2, <2>2, ReplyOnlyKeeps DEF handle_register
  <1> QED
    BY <1>1, <1>2 DEF handle_register

\* verifyUser finds the row of the login it checks, and draws a token for it.
LEMMA VerifyFacts ==
    ASSUME UP!IInv, NEW l, NEW p, Users!verifyUser(l, p, "OK"), UNCHANGED <<users, revoked, now>>,
           UNCHANGED <<up, timer>> \/ Users!Stop
    PROVE  /\ UP!IInv' /\ UsersGrow
           /\ Users!getIdByLogin(l) \in DOMAIN users'
           /\ users'[Users!getIdByLogin(l)].login = l
  <1>1. Users!verifyPassword(l, p) /\ Users!issueToken(Users!getIdByLogin(l))
    BY DEF Users!verifyUser
  <1>2. Users!userExists(l)
    BY <1>1 DEF Users!verifyPassword, Users!userExists
  <1>3. /\ Users!getIdByLogin(l) \in DOMAIN users'
        /\ users'[Users!getIdByLogin(l)].login = l
    BY <1>2, IdFacts
  <1>4. /\ users' \in Seq([login: Login, password: Password])
        /\ UP!LoginsUnique'
    BY DEF UP!IInv, UP!TypeOK, UP!LoginsUnique
  <1>5. UP!IInv'
    BY <1>1, <1>3, <1>4, IssueIInv
  <1> QED
    BY <1>3, <1>5, SameUsersGrow

LEMMA LoginHandlerKeeps ==
    ASSUME SInv, NEW c \in Conn, NEW l \in Login, NEW p \in Password, handle_login(c, l, p)
    PROVE  SInv'
  <1>1. CASE /\ Users!verifyUser(l, p, "OK")
             /\ Authenticate(c, l, Users!getIdByLogin(l))
    <2>1. /\ UP!IInv' /\ UsersGrow /\ UNCHANGED now
          /\ Users!getIdByLogin(l) \in DOMAIN users'
          /\ users'[Users!getIdByLogin(l)].login = l
      BY <1>1, VerifyFacts DEF SInv, handle_login, procVars
    <2> QED
      BY <1>1, <2>1, AuthenticateKeeps DEF handle_login
  <1>2. CASE /\ Users!verifyUser(l, p, "IncorrectCredentials")
             /\ ReplyOnly(c, "IncorrectCredentials")
    <2>1. UNCHANGED <<sessions, issued>>
      BY <1>2 DEF Users!verifyUser
    <2>2. UP!IInv' /\ UsersGrow /\ UNCHANGED now
      BY <2>1, StutterIInv, SameUsersGrow DEF SInv, handle_login, procVars
    <2> QED
      BY <1>2, <2>2, ReplyOnlyKeeps DEF handle_login
  <1> QED
    BY <1>1, <1>2 DEF handle_login

LEMMA TokenVerifyKeeps ==
    ASSUME SInv, NEW c \in Conn, NEW t, handle_token_verify(c, t)
    PROVE  SInv'
  <1>1. UP!IInv' /\ UsersGrow /\ now' = now /\ UNCHANGED users
    BY LookupKeeps DEF handle_token_verify
  <1>2. CASE Users!TokenError(t) = "OK"
    <2>1. /\ Users!LoginOfToken(t) \in Login
          /\ SenderId(t) \in DOMAIN users'
          /\ users'[SenderId(t)].login = Users!LoginOfToken(t)
      BY <1>1, <1>2, TokenFacts DEF SInv
    <2> QED
      BY <1>1, <1>2, <2>1, AuthenticateKeeps DEF handle_token_verify
  <1>3. CASE Users!TokenError(t) # "OK"
    BY <1>1, <1>3, ReplyOnlyKeeps DEF handle_token_verify
  <1> QED
    BY <1>2, <1>3

-----------------------------------------------------------------------------
(***************************************************************************)
(* Direct messages.                                                        *)
(***************************************************************************)

\* The row that saveMessage appends.
LEMMA SavedRow ==
    ASSUME UP!IInv, MailInv, NEW a \in DOMAIN users, NEW b \in DOMAIN users,
           Friends!areFriends(a, b), Messages!saveMessage(a, b),
           UsersGrow, FriendsStay, UNCHANGED <<now, written>>,
           NEW id, id = NewRowid, handed' \in {handed, handed \cup {id}}
    PROVE  /\ MailGrows /\ MailInv'
           /\ DOMAIN direct_messages' = DOMAIN direct_messages \cup {id}
           /\ \A i \in DOMAIN direct_messages : direct_messages'[i] = direct_messages[i]
           /\ direct_messages'[id].recipient = b
           /\ id \notin DOMAIN direct_messages
  <1> DEFINE row == [sender |-> a, recipient |-> b, create_at |-> now, delivered |-> FALSE]
  <1>1. row \in Messages!Message /\ now \in Nat
    BY UserRow, NowIsNat DEF Messages!Message
  <1>2. direct_messages' = Append(direct_messages, row)
    BY DEF Messages!saveMessage
  <1>3. /\ direct_messages' \in Seq(Messages!Message)
        /\ DOMAIN direct_messages' = DOMAIN direct_messages \cup {id}
        /\ \A i \in DOMAIN direct_messages : direct_messages'[i] = direct_messages[i]
        /\ direct_messages'[id] = row
        /\ id \notin DOMAIN direct_messages
    BY <1>1, <1>2, AppendProperties, LenProperties DEF MailInv, Messages!TypeOK, NewRowid
  <1>4. MailGrows
    BY <1>3 DEF MailGrows
  <1>5. Messages!TypeOK'
    BY <1>1, <1>3 DEF MailInv, Messages!TypeOK
  <1>6. a \in UserId /\ b \in UserId /\ Friends!areFriends(a, b)'
    BY UserRow DEF FriendsStay
  <1>7. OnlyFriendsExchange'
    <2>1. ASSUME NEW i \in DOMAIN direct_messages
          PROVE  Friends!areFriends(direct_messages[i].sender, direct_messages[i].recipient)'
      BY <1>4, RowsKept
    <2>2. Friends!areFriends(direct_messages[id].sender,
                             direct_messages[id].recipient)'
      BY <1>3, <1>6 DEF Friends!areFriends, Friends!Rows, Friends!normalize
    <2> QED
      BY <1>3, <2>1, <2>2 DEF OnlyFriendsExchange
  <1>8. NothingForgotten'
    BY <1>3 DEF MailInv, NothingForgotten
  <1>9. \A i \in DOMAIN direct_messages' : /\ direct_messages'[i].sender \in DOMAIN users'
                                           /\ direct_messages'[i].recipient \in DOMAIN users'
    BY <1>3, <1>4, RowsKept DEF UsersGrow
  <1> QED
    BY <1>3, <1>4, <1>5, <1>7, <1>8, <1>9 DEF MailInv

\* The two users of a message that is accepted.
LEMMA DirectFacts ==
    ASSUME UP!IInv, NEW t, NEW recipient, DirectError(t, recipient) = "OK"
    PROVE  /\ SenderId(t) \in DOMAIN users
           /\ Users!getIdByLogin(recipient) \in DOMAIN users
           /\ users[Users!getIdByLogin(recipient)].login = recipient
           /\ Friends!areFriends(SenderId(t), Users!getIdByLogin(recipient))
  <1>1. GateError(t, recipient) = "OK"
    BY DEF DirectError
  <1>2. Users!TokenError(t) = "OK" /\ Users!userExists(recipient)
    BY <1>1, GateFacts
  <1> QED
    BY <1>1, <1>2, TokenFacts, IdFacts DEF DirectError

LEMMA DirectMessageKeeps ==
    ASSUME SInv, NEW c \in Conn, NEW t, NEW recipient, handle_direct_message(c, t, recipient)
    PROVE  SInv'
  <1>1. UP!IInv' /\ UsersGrow /\ now' = now /\ UNCHANGED users
    BY LookupKeeps DEF handle_direct_message
  <1>2. CASE DirectError(t, recipient) # "OK"
    BY <1>1, <1>2, ReplyOnlyKeeps DEF handle_direct_message
  <1>3. CASE DirectError(t, recipient) = "OK"
    <2> DEFINE a == SenderId(t)
               b == Users!getIdByLogin(recipient)
    <2>0. PICK id, session : id = NewRowid /\ session = getSession(recipient)
      OBVIOUS
    <2>1. /\ Messages!saveMessage(a, b)
          /\ outbox' = Post(Post(outbox, session, <<DirectMessage(id)>>), c, <<RESULT("OK")>>)
          /\ handed' = IF session = NoConn THEN handed ELSE handed \cup {id}
          /\ UNCHANGED <<friendVars, current_login, online_users, authed, written>>
      BY <1>3, <2>0 DEF handle_direct_message
    <2>2. /\ a \in DOMAIN users /\ b \in DOMAIN users /\ users[b].login = recipient
          /\ Friends!areFriends(a, b)
      BY <1>3, DirectFacts DEF SInv
    <2> HIDE DEF a, b
    <2>3. FP!IInv' /\ FriendsStay
      BY <2>1, FriendshipRests DEF SInv
    <2>4. /\ MailGrows /\ MailInv'
          /\ DOMAIN direct_messages' = DOMAIN direct_messages \cup {id}
          /\ \A i \in DOMAIN direct_messages : direct_messages'[i] = direct_messages[i]
          /\ direct_messages'[id].recipient = b
          /\ id \notin DOMAIN direct_messages
      BY <1>1, <2>0, <2>1, <2>2, <2>3, SavedRow DEF SInv
    <2>5. Recipient(id)' = recipient
      BY <1>1, <2>2, <2>4 DEF Recipient, Users!getLoginById
    <2>6. session # NoConn => session \in Conn /\ recipient \in authed[session]
      BY <2>0, SessionFacts DEF SInv
    <2>7. BacklogOnlyOffline'
      <3> SUFFICES ASSUME NEW i \in DOMAIN direct_messages',
                          ~ direct_messages'[i].delivered, i \notin handed'
                   PROVE  getSession(Recipient(i))' = NoConn
        BY DEF BacklogOnlyOffline
      <3>1. CASE i = id
        BY <2>0, <2>1, <2>5, <3>1 DEF getSession
      <3>2. CASE i \in DOMAIN direct_messages
        BY <1>1, <2>1, <2>4, <3>2, RecipientStays
           DEF SInv, ConnInv, BacklogOnlyOffline, getSession
      <3> QED
        BY <2>4, <3>1, <3>2
    <2>8. ConnInv'
      BY <2>1, <2>7, ReceivesKeepsOpen DEF SInv, ConnInv, EntriesAuthed, handle_direct_message
    <2>9. Fits(outbox, Allowed')
      BY <1>1, <2>1, <2>4, AllowedGrows, FitsMore DEF SInv, QueueInv
    <2>10. ASSUME session \in Conn PROVE <<DirectMessage(id)>> \in Seq(Allowed'[session])
      <3>1. id \in handed' /\ session # NoConn
        BY <2>1, <2>10, SessionAssumption DEF SessionAssumption
      <3>2. id \in Nat /\ Recipient(id)' \in authed'[session]
        BY <2>0, <2>1, <2>5, <2>6, <3>1, LenProperties
           DEF SInv, MailInv, Messages!TypeOK, NewRowid
      <3>3. DirectMessage(id) \in Allowed'[session]
        BY <2>4, <2>10, <3>1, <3>2 DEF Allowed, Packet, DirectMessage, PushType
      <3> QED
        BY <3>3, Singletons
    <2> DEFINE told == Post(outbox, session, <<DirectMessage(id)>>)
    <2>11. Fits(told, Allowed') /\ NoQueueUnlessOpen(told, socket)
      BY <2>9, <2>10, PostFits DEF SInv, QueueInv
    <2>12. <<RESULT("OK")>> \in Seq(Allowed'[c])
      <3>1. RESULT("OK") \in Allowed'[c]
        BY DEF Allowed, Packet, RESULT
      <3> QED
        BY <3>1, Singletons
    <2>13. outbox' = Post(told, c, <<RESULT("OK")>>)
      BY <2>1
    <2> HIDE DEF told
    <2>14. Fits(outbox', Allowed') /\ NoQueueUnlessOpen(outbox', socket)
      BY <2>11, <2>12, <2>13, PostFits
    <2>15. QueueInv'
      BY <2>14, ReceivesKeepsOpen
         DEF SInv, QueueInv, Fits, NoQueueUnlessOpen, handle_direct_message
    <2> QED
      BY <1>1, <2>3, <2>4, <2>8, <2>15 DEF SInv
  <1> QED
    BY <1>2, <1>3

-----------------------------------------------------------------------------
(***************************************************************************)
(* The process ends, starts and waits.                                     *)
(***************************************************************************)

\* With the sessions gone, nobody is online and nothing is queued.
LEMMA LostKeeps ==
    ASSUME SessionsLost, UP!IInv', FP!IInv', MailInv'
    PROVE  SInv'
  <1>1. DOMAIN online_users' = {}
    BY DEF SessionsLost
  <1>2. ConnInv'
    BY <1>1, FS_EmptySet DEF SessionsLost, ConnInv, EntriesAuthed, BacklogOnlyOffline, getSession
  <1>3. QueueInv'
    BY DEF SessionsLost, QueueInv, Fits, NoQueueUnlessOpen
  <1> QED
    BY <1>2, <1>3 DEF SInv

LEMMA CrashKeeps == ASSUME SInv, Crash PROVE SInv'
  <1>1. Users!Stop /\ UNCHANGED <<now, written, userVars, friendVars, direct_messages, handed>>
    BY DEF Crash, SessionsLost
  <1>2. UP!IInv' /\ UsersGrow
    BY <1>1, StopIInv, SameUsersGrow DEF SInv, userVars
  <1>3. FP!IInv' /\ FriendsStay
    BY <1>1, FriendshipRests DEF SInv
  <1>4. MailInv'
    BY <1>1, <1>2, <1>3, MailRests, NowIsNat DEF SInv, MailInv
  <1> QED
    BY <1>2, <1>3, <1>4, LostKeeps DEF Crash

LEMMA HistoryKeeps ==
    ASSUME SInv, NEW c \in Conn, NEW t, NEW peer, handle_message_history(c, t, peer)
    PROVE  SInv'
  <1>1. CASE Crash
    BY <1>1, CrashKeeps
  <1>2. CASE ~ Crash
    BY <1>2, LookupKeeps, ReplyOnlyKeeps DEF handle_message_history
  <1> QED
    BY <1>1, <1>2

LEMMA KilledInRegisterKeeps ==
    ASSUME SInv, NEW c \in Conn, NEW l \in Login, NEW p \in Password, KilledInRegister(c, l, p)
    PROVE  SInv'
  <1>1. /\ SessionsLost /\ Users!Stop /\ Users!registerUser(l, p, "OK")
        /\ UNCHANGED <<now, written, sessions, issued, revoked, friendVars, direct_messages,
                       handed>>
    BY DEF KilledInRegister, SessionsLost
  <1>2. /\ users' \in Seq([login: Login, password: Password]) /\ UP!LoginsUnique'
        /\ UsersGrow
    BY <1>1, RegisterKeeps DEF SInv, UsersGrow
  <1>3. UP!IInv'
    BY <1>1, <1>2, GrowIInv DEF SInv, UsersGrow
  <1>4. FP!IInv' /\ FriendsStay
    BY <1>1, FriendshipRests DEF SInv
  <1>5. MailInv'
    BY <1>1, <1>2, <1>4, MailRests, NowIsNat DEF SInv, MailInv
  <1> QED
    BY <1>1, <1>3, <1>4, <1>5, LostKeeps

LEMMA KilledInLoginKeeps ==
    ASSUME SInv, NEW c \in Conn, NEW l \in Login, NEW p \in Password, KilledInLogin(c, l, p)
    PROVE  SInv'
  <1>1. /\ SessionsLost /\ Users!Stop /\ Users!verifyUser(l, p, "OK")
        /\ UNCHANGED <<now, written, users, revoked, friendVars, direct_messages, handed>>
    BY DEF KilledInLogin, SessionsLost
  <1>2. UP!IInv' /\ UsersGrow
    BY <1>1, VerifyFacts DEF SInv
  <1>3. FP!IInv' /\ FriendsStay
    BY <1>1, FriendshipRests DEF SInv
  <1>4. MailInv'
    BY <1>1, <1>2, <1>3, MailRests, NowIsNat DEF SInv, MailInv
  <1> QED
    BY <1>1, <1>2, <1>3, <1>4, LostKeeps

LEMMA KilledInDirectMessageKeeps ==
    ASSUME SInv, NEW c \in Conn, NEW t, NEW recipient, KilledInDirectMessage(c, t, recipient)
    PROVE  SInv'
  <1>1. /\ SessionsLost /\ Users!Stop /\ DirectError(t, recipient) = "OK"
        /\ Messages!saveMessage(SenderId(t), Users!getIdByLogin(recipient))
        /\ UNCHANGED <<now, written, userVars, friendVars, handed>>
    BY DEF KilledInDirectMessage, SessionsLost
  <1>2. UP!IInv' /\ UsersGrow
    BY <1>1, StopIInv, SameUsersGrow DEF SInv, userVars
  <1>3. FP!IInv' /\ FriendsStay
    BY <1>1, FriendshipRests DEF SInv
  <1>4. MailInv'
    BY <1>1, <1>2, <1>3, DirectFacts, SavedRow DEF SInv
  <1> QED
    BY <1>1, <1>2, <1>3, <1>4, LostKeeps

\* Boot, the timer and the clock: nothing but the sessions table and the time.
LEMMA ProcessKeeps == ASSUME SInv, Boot \/ TimerFires \/ Tick PROVE SInv'
  <1>1. UP!IInv' /\ UNCHANGED users /\ now' \in Nat /\ now <= now'
    <2>1. now \in Nat
      BY NowIsNat DEF SInv
    <2>2. CASE Boot
      BY <2>1, <2>2, SweepIInv DEF SInv, Boot, Users!Boot
    <2>3. CASE TimerFires
      BY <2>1, <2>3, SweepIInv DEF SInv, TimerFires, Users!TimerFires
    <2>4. CASE Tick
      BY <2>1, <2>4, TickIInv DEF SInv, Tick, Users!Tick
    <2> QED
      BY <2>2, <2>3, <2>4
  <1>2. UNCHANGED <<friendVars, netVars, mailVars>>
    BY DEF Boot, TimerFires, Tick
  <1>3. FP!IInv' /\ FriendsStay
    BY <1>2, FriendshipRests DEF SInv
  <1>4. MailInv' /\ ConnInv' /\ QueueInv'
    BY <1>1, <1>2, <1>3, SameUsersGrow, QuietStep
       DEF SInv, netVars, mailVars, MailInv, ConnInv, QueueInv
  <1> QED
    BY <1>1, <1>3, <1>4 DEF SInv

-----------------------------------------------------------------------------
(***************************************************************************)
(* Connections.                                                            *)
(***************************************************************************)

\* Steps of a connection touch no table.
LEMMA TablesRest ==
    ASSUME SInv, UNCHANGED <<userVars, friendVars, procVars>>
    PROVE  UP!IInv' /\ FP!IInv' /\ FriendsStay /\ UsersGrow /\ now' \in Nat /\ now <= now'
  BY StutterIInv, FriendshipRests, SameUsersGrow, NowIsNat DEF SInv, userVars, procVars

LEMMA AcceptKeeps == ASSUME SInv, NEW c \in Conn, start_accept(c) PROVE SInv'
  <1>1. UP!IInv' /\ FP!IInv' /\ FriendsStay /\ UsersGrow /\ now' \in Nat /\ now <= now'
    BY TablesRest DEF start_accept
  <1>2. socket' \in [Conn -> {"none", "open", "closing", "closed"}]
    BY DEF start_accept, SInv, ConnInv
  <1>3. NoQueueUnlessOpen(outbox', socket')
    BY DEF start_accept, SInv, ConnInv, QueueInv, NoQueueUnlessOpen
  <1>4. MailInv' /\ ConnInv' /\ QueueInv'
    BY <1>1, <1>2, <1>3, QuietStep
       DEF start_accept, mailVars, SInv, MailInv, ConnInv, QueueInv
  <1> QED
    BY <1>1, <1>4 DEF SInv

\* What is written was queued, and so had been handed over.
LEMMA WriteKeeps == ASSUME SInv, NEW c \in Conn, do_write(c) PROVE SInv'
  <1>1. UP!IInv' /\ FP!IInv' /\ FriendsStay /\ UsersGrow /\ now' \in Nat /\ now <= now'
    BY TablesRest DEF do_write
  <1>2. /\ outbox[c] \in Seq(Allowed[c]) /\ outbox[c] # << >>
        /\ socket[c] = "open" /\ UNCHANGED socket
    BY DEF do_write, SInv, QueueInv, Fits
  <1>3. Head(outbox[c]) \in Allowed[c] /\ Tail(outbox[c]) \in Seq(Allowed[c])
    BY <1>2, HeadTailProperties
  <1>4. outbox' = [outbox EXCEPT ![c] = Tail(outbox[c])]
    BY DEF do_write
  <1>5. Fits(outbox', Allowed) /\ NoQueueUnlessOpen(outbox', socket')
    BY <1>2, <1>3, <1>4 DEF SInv, QueueInv, Fits, NoQueueUnlessOpen
  <1>6. written' \subseteq handed
    BY <1>3 DEF do_write, Allowed, SInv, MailInv
  <1>7. MailInv' /\ ConnInv' /\ QueueInv'
    BY <1>1, <1>5, <1>6, QuietStep DEF do_write, SInv, ConnInv
  <1> QED
    BY <1>1, <1>7 DEF SInv

LEMMA DisconnectKeeps == ASSUME SInv, NEW c \in Conn, Disconnect(c) PROVE SInv'
  <1>1. UP!IInv' /\ FP!IInv' /\ FriendsStay /\ UsersGrow /\ now' \in Nat /\ now <= now'
    BY TablesRest DEF Disconnect
  <1>2. /\ socket' \in [Conn -> {"none", "open", "closing", "closed"}]
        /\ \A d \in Conn \ {c} : socket'[d] = socket[d]
    BY DEF Disconnect, SInv, ConnInv
  <1>3. Fits(outbox', Allowed) /\ NoQueueUnlessOpen(outbox', socket')
    <2>1. outbox' = [outbox EXCEPT ![c] = << >>]
      BY DEF Disconnect
    <2>2. /\ outbox' = [d \in Conn |-> outbox'[d]]
          /\ \A d \in Conn : outbox'[d] = IF d = c THEN << >> ELSE outbox[d]
      BY <2>1 DEF SInv, QueueInv, Fits
    <2>3. \A d \in Conn : outbox'[d] \in Seq(Allowed[d])
      BY <2>2, EmptySeq DEF SInv, QueueInv, Fits
    <2>4. NoQueueUnlessOpen(outbox', socket')
      BY <1>2, <2>2 DEF SInv, QueueInv, NoQueueUnlessOpen
    <2> QED
      BY <2>2, <2>3, <2>4 DEF Fits
  <1>4. MailInv' /\ ConnInv' /\ QueueInv'
    BY <1>1, <1>2, <1>3, QuietStep DEF Disconnect, mailVars, SInv, MailInv, ConnInv
  <1> QED
    BY <1>1, <1>4 DEF SInv

\* The end of a session: its entries expire or go, so that none is left that
\* leads to the next session of the same connection number.
LEMMA DestroyKeeps == ASSUME SInv, NEW c \in Conn, Destroy(c) PROVE SInv'
  <1>1. UP!IInv' /\ FP!IInv' /\ FriendsStay /\ UsersGrow /\ now' \in Nat /\ now <= now'
    BY TablesRest DEF Destroy
  <1>2. /\ socket[c] = "closed" /\ socket' = [socket EXCEPT ![c] = "none"]
        /\ online_users' = EntriesWithout(c)
        /\ current_login' = [current_login EXCEPT ![c] = NoLogin]
        /\ authed' = [authed EXCEPT ![c] = {}]
        /\ UNCHANGED <<outbox, direct_messages, handed, written>>
    BY DEF Destroy, mailVars
  <1>3. MailGrows /\ MailInv'
    BY <1>1, <1>2, MailRests DEF SInv, MailInv
  <1>4. /\ DOMAIN online_users' = DOMAIN online_users \ {current_login[c]}
        /\ \A l \in DOMAIN online_users' :
              online_users'[l] = IF online_users[l] = c THEN Expired ELSE online_users[l]
    BY <1>2 DEF EntriesWithout
  <1>5. ConnInv'
    <2>1. /\ socket' \in [Conn -> {"none", "open", "closing", "closed"}]
          /\ current_login' \in [Conn -> Login \cup {NoLogin}]
          /\ authed' \in [Conn -> SUBSET Login]
      BY <1>2 DEF SInv, ConnInv
    <2>2. IsFiniteSet(DOMAIN online_users')
      BY <1>4, FS_RemoveElement DEF SInv, ConnInv
    <2>3. EntriesAuthed'
      BY <1>2, <1>4, SessionAssumption DEF SInv, ConnInv, EntriesAuthed, SessionAssumption
    <2>4. BacklogOnlyOffline'
      <3> SUFFICES ASSUME NEW i \in DOMAIN direct_messages,
                          ~ direct_messages[i].delivered, i \notin handed
                   PROVE  getSession(Recipient(i))' = NoConn
        BY <1>2 DEF BacklogOnlyOffline
      <3>1. getSession(Recipient(i)) = NoConn /\ Recipient(i)' = Recipient(i)
        BY <1>1, <1>3, RecipientStays DEF SInv, ConnInv, BacklogOnlyOffline
      <3> QED
        BY <1>4, <3>1, SessionAssumption DEF getSession, SInv, ConnInv, SessionAssumption
    <2>5. /\ DOMAIN online_users' \subseteq Login
          /\ \A l \in DOMAIN online_users' : online_users'[l] \in Conn \cup {Expired}
      BY <1>4 DEF SInv, ConnInv
    <2> QED
      BY <2>1, <2>2, <2>3, <2>4, <2>5 DEF ConnInv
  <1>6. QueueInv'
    <2>1. ASSUME NEW d \in Conn PROVE outbox[d] \in Seq(Allowed'[d])
      <3>1. CASE d = c
        <4>1. outbox[d] = << >>
          BY <1>2, <3>1 DEF SInv, QueueInv, NoQueueUnlessOpen
        <4> QED
          BY <4>1
      <3>2. CASE d # c
        <4>1. Allowed[d] \subseteq Allowed'[d]
          <5>1. authed[d] \subseteq authed'[d]
            BY <1>2, <3>2 DEF SInv, ConnInv
          <5> QED
            BY <1>1, <1>3, <5>1, AllowedGrows DEF SInv
        <4> QED
          BY <4>1, SeqMonotonic DEF SInv, QueueInv, Fits
      <3> QED
        BY <3>1, <3>2
    <2>2. Fits(outbox, Allowed')
      BY <2>1 DEF SInv, QueueInv, Fits
    <2>3. NoQueueUnlessOpen(outbox, socket')
      BY <1>2 DEF SInv, ConnInv, QueueInv, NoQueueUnlessOpen
    <2> QED
      BY <1>2, <2>2, <2>3 DEF QueueInv, Fits, NoQueueUnlessOpen
  <1> QED
    BY <1>1, <1>3, <1>5, <1>6 DEF SInv

-----------------------------------------------------------------------------
\* The saved database is one that the repositories' invariants admit.
LEMMA InitUsers == Init => UP!IInv
  <1> SUFFICES ASSUME Init PROVE UP!IInv
    OBVIOUS
  <1>1. /\ DOMAIN sessions = {} /\ DOMAIN issued = {} /\ issued = << >> /\ revoked = {}
        /\ now = 0 /\ up = FALSE /\ timer = 0 /\ users = SavedUsers
    BY DEF Init
  <1>2. UP!TypeOK
    <2>1. issued \in Seq(UP!Session)
      BY <1>1, EmptySeq
    <2>2. users \in Seq([login: Login, password: Password])
      BY <1>1, SavedAssumption DEF SavedAssumption
    <2> QED
      BY <1>1, <2>1, <2>2 DEF UP!TypeOK
  <1>3. UP!LoginsUnique
    BY <1>1, SavedAssumption DEF SavedAssumption, UP!LoginsUnique
  <1> QED
    BY <1>1, <1>2, <1>3 DEF UP!IInv, UP!RowsAreIssued, UP!IssuedToUsers,
       UP!RevokedHaveNoRow, UP!ValidHaveRow, UP!TimerArmed

LEMMA InitFriends == Init => FP!IInv
  <1> SUFFICES ASSUME Init PROVE FP!IInv
    OBVIOUS
  <1>1. DOMAIN SavedUsers \subseteq UserId
    BY SavedAssumption, LenProperties DEF SavedAssumption, UserId
  <1>2. \A f \in friendships : /\ f \in FP!Friendship /\ f.status = "accepted"
                               /\ f.user1 < f.user2 /\ f.initiator \in {f.user1, f.user2}
    BY <1>1, SavedAssumption DEF Init, SavedAssumption, FP!Friendship, FP!Status
  <1>3. consent = UNION {{<<f.user1, f.user2>>, <<f.user2, f.user1>>} : f \in friendships}
    BY DEF Init
  <1>4. FP!TypeOK
    BY <1>2, <1>3 DEF FP!TypeOK, FP!Friendship
  <1>5. FP!RowsNormalized /\ FP!PendingIsOneSided
    BY <1>2 DEF FP!RowsNormalized, FP!PendingIsOneSided
  <1>6. FP!OneRowPerPair
    BY SavedAssumption DEF Init, SavedAssumption, FP!OneRowPerPair
  <1>7. FP!MutualConsent
    BY <1>3 DEF FP!MutualConsent
  <1>8. FP!ConsentHasRow
    <2> SUFFICES ASSUME NEW u \in UserId, NEW v \in UserId, <<u, v>> \in consent
                 PROVE  FP!Rows(u, v) # {}
      BY DEF FP!ConsentHasRow
    <2>1. PICK f \in friendships : <<u, v>> \in {<<f.user1, f.user2>>, <<f.user2, f.user1>>}
      BY <1>3
    <2>2. f \in FP!Rows(u, v)
      BY <1>2, <2>1 DEF FP!Rows, FP!normalize, FP!Friendship, UserId
    <2> QED
      BY <2>2
  <1> QED
    BY <1>4, <1>5, <1>6, <1>7, <1>8 DEF FP!IInv

LEMMA InitSInv == Init => SInv
  <1> SUFFICES ASSUME Init PROVE SInv
    OBVIOUS
  <1>1. /\ DOMAIN direct_messages = {} /\ handed = {} /\ written = {} /\ now = 0
        /\ direct_messages = << >> /\ DOMAIN online_users = {}
    BY DEF Init
  <1>2. MailInv
    BY <1>1 DEF MailInv, Messages!TypeOK, OnlyFriendsExchange, NothingForgotten
  <1>3. ConnInv
    BY <1>1, FS_EmptySet DEF Init, ConnInv, EntriesAuthed, BacklogOnlyOffline
  <1>4. QueueInv
    BY DEF Init, QueueInv, Fits, NoQueueUnlessOpen
  <1> QED
    BY InitUsers, InitFriends, <1>2, <1>3, <1>4 DEF SInv

LEMMA StutterKeeps == SInv /\ UNCHANGED vars => SInv'
  <1> SUFFICES ASSUME SInv, UNCHANGED vars PROVE SInv'
    OBVIOUS
  <1>1. UP!IInv' /\ FP!IInv' /\ FriendsStay /\ UsersGrow /\ now' \in Nat /\ now <= now'
    BY TablesRest DEF vars
  <1>2. MailInv' /\ ConnInv' /\ QueueInv'
    BY <1>1, QuietStep DEF vars, netVars, mailVars, SInv, MailInv, ConnInv, QueueInv
  <1> QED
    BY <1>1, <1>2 DEF SInv

LEMMA NextKeeps == SInv /\ Next => SInv'
  <1> SUFFICES ASSUME SInv, Next PROVE SInv'
    OBVIOUS
  <1>1. ASSUME NEW c \in Conn, Handle(c) PROVE SInv'
    BY <1>1, RegisterHandlerKeeps, LoginHandlerKeeps, TokenVerifyKeeps, LogoutKeeps,
       MessageKeeps, ListKeeps, FriendHandlerKeeps, DirectMessageKeeps, HistoryKeeps,
       UnknownKeeps DEF Handle
  <1>2. ASSUME NEW c \in Conn, Killed(c) PROVE SInv'
    BY <1>2, KilledInRegisterKeeps, KilledInLoginKeeps, KilledInDirectMessageKeeps DEF Killed
  <1>3. ASSUME NEW c \in Conn,
               start_accept(c) \/ do_write(c) \/ Disconnect(c) \/ Destroy(c)
        PROVE  SInv'
    BY <1>3, AcceptKeeps, WriteKeeps, DisconnectKeeps, DestroyKeeps
  <1>4. CASE Crash \/ Boot \/ TimerFires \/ Tick
    BY <1>4, CrashKeeps, ProcessKeeps
  <1> QED
    BY <1>1, <1>2, <1>3, <1>4 DEF Next

-----------------------------------------------------------------------------
\* The strengthened invariant of the server.
THEOREM Invariance == Spec => []SInv
  BY InitSInv, NextKeeps, StutterKeeps, PTL DEF Spec

\* The server's state keeps its types; only messages that exist are queued and only
\* messages handed to a session are written.
THEOREM TypeCorrect == Spec => []TypeOK
  <1>1. ASSUME SInv PROVE TypeOK
    <2>1. Users!TypeOK /\ Friends!TypeOK /\ Messages!TypeOK
      BY <1>1, SameUsers, SameFriends DEF SInv, UP!IInv, FP!IInv, MailInv
    <2>2. \A c \in Conn : Allowed[c] \subseteq Packet
      BY DEF Allowed
    <2>3. \A c \in Conn : outbox[c] \in Seq(Packet)
      BY <1>1, <2>2, SeqMonotonic DEF SInv, QueueInv, Fits
    <2>4. outbox \in [Conn -> Seq(Packet)]
      BY <1>1, <2>3 DEF SInv, QueueInv, Fits
    <2> QED
      BY <1>1, <2>1, <2>4 DEF TypeOK, NetTypeOK, SInv, ConnInv, MailInv
  <1> QED
    BY Invariance, <1>1, PTL

\* areFriends stands before every row of direct_messages, in whatever order the
\* requests of any number of users, restarts and disconnections come.
THEOREM OnlyFriends == Spec => []OnlyFriendsExchange
  BY Invariance, PTL DEF SInv, MailInv

\* markDelivered flags no message that deliver_pending has not posted.
THEOREM Forgotten == Spec => []NothingForgotten
  BY Invariance, PTL DEF SInv, MailInv

\* A user with a session in online_users has no message waiting that was not posted.
THEOREM BacklogOffline == Spec => []BacklogOnlyOffline
  BY Invariance, PTL DEF SInv, ConnInv

\* A direct message is only ever queued on a connection of its recipient.
THEOREM QueuedRight == Spec => []QueuedForItsRecipient
  <1>1. ASSUME SInv PROVE QueuedForItsRecipient
    <2> SUFFICES ASSUME NEW c \in Conn, NEW k \in DOMAIN outbox[c],
                        outbox[c][k].type = "DIRECT_MESSAGE"
                 PROVE  Recipient(outbox[c][k].id) \in authed[c]
      BY DEF QueuedForItsRecipient
    <2>1. outbox[c][k] \in Allowed[c]
      BY <1>1, ElementOfSeq, LenProperties DEF SInv, QueueInv, Fits
    <2> QED
      BY <2>1 DEF Allowed
  <1> QED
    BY Invariance, <1>1, PTL

-----------------------------------------------------------------------------
(***************************************************************************)
(* Who may change an entry of online_users.                                *)
(***************************************************************************)

\* The login of a connection is one that it has authenticated as.
CurrentAuthed == \A c \in Conn : current_login[c] \in authed[c] \cup {NoLogin}

\* A step either leaves the map, the logins and the histories alone, or is a logout,
\* an authentication, the end of the process or the end of a session.
LEMMA MapSteps ==
    ASSUME [Next]_vars
    PROVE  \/ UNCHANGED <<online_users, current_login, authed>>
           \/ \E c \in Conn : /\ current_login' = [current_login EXCEPT ![c] = NoLogin]
                              /\ UNCHANGED <<online_users, authed>>
           \/ \E c \in Conn : \E l, id : Authenticate(c, l, id)
           \/ SessionsLost
           \/ \E c \in Conn : Destroy(c)
  <1>1. ASSUME NEW c \in Conn, Handle(c)
        PROVE  \/ UNCHANGED <<online_users, current_login, authed>>
               \/ /\ current_login' = [current_login EXCEPT ![c] = NoLogin]
                  /\ UNCHANGED <<online_users, authed>>
               \/ \E l, id : Authenticate(c, l, id)
               \/ SessionsLost
    <2> DEFINE Still == UNCHANGED <<online_users, current_login, authed>>
    <2>1. ASSUME NEW l, NEW p, handle_register(c, l, p) \/ handle_login(c, l, p)
          PROVE  Still \/ \E m, id : Authenticate(c, m, id)
      BY <2>1 DEF handle_register, handle_login, ReplyOnly
    <2>2. ASSUME NEW t, handle_token_verify(c, t)
          PROVE  Still \/ \E m, id : Authenticate(c, m, id)
      BY <2>2 DEF handle_token_verify, ReplyOnly
    <2>3. ASSUME NEW t, handle_logout(c, t)
          PROVE  /\ current_login' = [current_login EXCEPT ![c] = NoLogin]
                 /\ UNCHANGED <<online_users, authed>>
      BY <2>3 DEF handle_logout
    <2>4. ASSUME NEW t,
                 \/ handle_message(c, t) \/ handle_friend_list(c, t)
                 \/ handle_chat_list(c, t) \/ handle_unknown(c)
          PROVE  Still
      BY <2>4 DEF handle_message, handle_friend_list, handle_chat_list, handle_unknown, ReplyOnly
    <2>5. ASSUME NEW t, NEW l,
                 \/ handle_friend_request(c, t, l) \/ handle_friend_accept(c, t, l)
                 \/ handle_friend_reject(c, t, l) \/ handle_direct_message(c, t, l)
          PROVE  Still
      BY <2>5 DEF handle_friend_request, handle_friend_accept, handle_friend_reject,
         handle_direct_message, ReplyOnly, NotifyAndReply, FriendRefused
    <2>6. ASSUME NEW t, NEW l, handle_message_history(c, t, l) PROVE Still \/ SessionsLost
      BY <2>6 DEF handle_message_history, ReplyOnly, Crash
    <2> HIDE DEF Still
    <2>7. \/ Still
          \/ /\ current_login' = [current_login EXCEPT ![c] = NoLogin]
             /\ UNCHANGED <<online_users, authed>>
          \/ \E l, id : Authenticate(c, l, id)
          \/ SessionsLost
      BY <1>1, <2>1, <2>2, <2>3, <2>4, <2>5, <2>6 DEF Handle
    <2> QED
      BY <2>7 DEF Still
  <1>2. ASSUME NEW c \in Conn, Killed(c) PROVE SessionsLost
    BY <1>2 DEF Killed, KilledInRegister, KilledInLogin, KilledInDirectMessage
  <1>3. ASSUME NEW c \in Conn, start_accept(c) \/ do_write(c) \/ Disconnect(c)
        PROVE  UNCHANGED <<online_users, current_login, authed>>
    BY <1>3 DEF start_accept, do_write, Disconnect
  <1>4. CASE Boot \/ TimerFires \/ Tick \/ UNCHANGED vars
    BY <1>4 DEF Boot, TimerFires, Tick, netVars, vars
  <1> QED
    BY <1>1, <1>2, <1>3, <1>4 DEF Next, Crash

LEMMA CurrentKeeps == SInv /\ CurrentAuthed /\ [Next]_vars => CurrentAuthed'
  <1> SUFFICES ASSUME SInv, CurrentAuthed, [Next]_vars PROVE CurrentAuthed'
    OBVIOUS
  <1>1. /\ current_login = [c \in Conn |-> current_login[c]]
        /\ authed = [c \in Conn |-> authed[c]]
    BY DEF SInv, ConnInv
  <1>2. ASSUME NEW c \in Conn, NEW l, NEW id, Authenticate(c, l, id) PROVE CurrentAuthed'
    BY <1>1, <1>2 DEF Authenticate, CurrentAuthed
  <1>3. ASSUME NEW c \in Conn, Destroy(c) PROVE CurrentAuthed'
    BY <1>1, <1>3 DEF Destroy, CurrentAuthed
  <1>4. CASE SessionsLost
    BY <1>4 DEF SessionsLost, CurrentAuthed
  <1> QED
    BY <1>1, <1>2, <1>3, <1>4, MapSteps DEF CurrentAuthed

\* A user's entry in online_users is taken away from a connection only by that
\* connection, by another one of the same user, or by the end of the process.
THEOREM Reachable == Spec => ReachableUntilReplaced
  <1> DEFINE Kept(c, l) == \/ getSession(l) # c
                           \/ getSession(l)' = c
                           \/ current_login'[c] # l
                           \/ \E d \in Conn \ {c} : l \in authed[d] \cup authed'[d]
  <1>1. ASSUME SInv, CurrentAuthed, [Next]_vars, NEW c \in Conn, NEW l, l = current_login[c]
        PROVE  Kept(c, l)
    <2> SUFFICES ASSUME getSession(l) = c PROVE Kept(c, l)
      OBVIOUS
    <2>1. l \in Login /\ l \in DOMAIN online_users /\ online_users[l] = c
      BY <1>1, SessionAssumption DEF getSession, SInv, ConnInv, SessionAssumption
    <2>2. ASSUME NEW d \in Conn, NEW m, NEW id, Authenticate(d, m, id) PROVE Kept(c, l)
      <3>1. CASE m = l /\ d # c
        BY <1>1, <2>2, <3>1 DEF Authenticate, SInv, ConnInv
      <3>2. CASE m # l \/ d = c
        <4>1. l \in DOMAIN online_users' /\ online_users'[l] = c
          BY <2>1, <2>2, <3>2 DEF Authenticate
        <4> QED
          BY <1>1, <4>1, SessionAssumption DEF getSession, SessionAssumption
      <3> QED
        BY <3>1, <3>2
    <2>3. ASSUME NEW d \in Conn, Destroy(d) PROVE Kept(c, l)
      <3>1. CASE d = c
        BY <1>1, <2>1, <2>3, <3>1, SessionAssumption
           DEF Destroy, SInv, ConnInv, SessionAssumption
      <3>2. CASE d # c /\ current_login[d] = l
        BY <1>1, <2>1, <3>2, SessionAssumption DEF CurrentAuthed, SessionAssumption
      <3>3. CASE d # c /\ current_login[d] # l
        <4>1. l \in DOMAIN online_users' /\ online_users'[l] = c
          BY <2>1, <2>3, <3>3 DEF Destroy, EntriesWithout
        <4> QED
          BY <1>1, <4>1, SessionAssumption DEF getSession, SessionAssumption
      <3> QED
        BY <3>1, <3>2, <3>3
    <2>4. CASE SessionsLost
      BY <1>1, <2>1, <2>4, SessionAssumption DEF SessionsLost, SessionAssumption
    <2>5. CASE UNCHANGED online_users
      BY <2>5 DEF getSession
    <2> QED
      BY <1>1, <2>2, <2>3, <2>4, <2>5, MapSteps
  <1>2. SInv /\ CurrentAuthed /\ [Next]_vars
            => [\A c \in Conn : LET l == current_login[c]
                               IN  \/ getSession(l) # c
                                   \/ getSession(l)' = c
                                   \/ current_login'[c] # l
                                   \/ \E d \in Conn \ {c} : l \in authed[d] \cup authed'[d]]_vars
    BY <1>1 DEF getSession
  <1>3. Init => CurrentAuthed
    BY DEF Init, CurrentAuthed
  <1> QED
    BY Invariance, CurrentKeeps, <1>2, <1>3, PTL DEF Spec, ReachableUntilReplaced

-----------------------------------------------------------------------------
(***************************************************************************)
(* The order of what one step posts.                                       *)
(***************************************************************************)

AnyPacket == [type: {"RESULT"} \cup PushType, ok: BOOLEAN, id: Nat]

\* Of what the queues in box have beyond those in outbox, no two packets of one
\* queue are direct messages.
PostsOne(box) ==
    /\ box \in [Conn -> Seq(AnyPacket)]
    /\ \A d \in Conn :
          /\ Len(outbox[d]) <= Len(box[d])
          /\ \A j, k \in DOMAIN box[d] :
                Len(outbox[d]) < j /\ Len(outbox[d]) < k
                    /\ box[d][j].id # 0 /\ box[d][k].id # 0 => j = k

LEMMA QueuesTyped == SInv => outbox \in [Conn -> Seq(AnyPacket)] /\ PostsOne(outbox)
  <1> SUFFICES ASSUME SInv PROVE outbox \in [Conn -> Seq(AnyPacket)] /\ PostsOne(outbox)
    OBVIOUS
  <1>1. DOMAIN direct_messages \subseteq Nat
    BY LenProperties DEF SInv, MailInv, Messages!TypeOK
  <1>2. \A c \in Conn : Allowed[c] \subseteq AnyPacket
    BY <1>1 DEF Allowed, Packet, AnyPacket
  <1>3. \A c \in Conn : outbox[c] \in Seq(AnyPacket)
    BY <1>2, SeqMonotonic DEF SInv, QueueInv, Fits
  <1>4. outbox \in [Conn -> Seq(AnyPacket)]
    BY <1>3 DEF SInv, QueueInv, Fits
  <1>5. \A c \in Conn : DOMAIN outbox[c] = 1..Len(outbox[c]) /\ Len(outbox[c]) \in Nat
    BY <1>3, LenProperties
  <1> QED
    BY <1>4, <1>5 DEF PostsOne

\* One packet that is no direct message adds none.
LEMMA PlainPost ==
    ASSUME NEW box, PostsOne(box), outbox \in [Conn -> Seq(AnyPacket)],
           NEW c, NEW p \in AnyPacket, p.id = 0
    PROVE  PostsOne(Post(box, c, <<p>>))
  <1>1. CASE c \in Conn /\ socket[c] = "open"
    <2> DEFINE q == Append(box[c], p)
    <2>1. Post(box, c, <<p>>) = [box EXCEPT ![c] = q]
      <3>1. box[c] \o <<p>> = q
        BY <1>1, AppendIsConcat DEF PostsOne
      <3> QED
        BY <1>1, <3>1 DEF Post
    <2>2. /\ q \in Seq(AnyPacket) /\ Len(q) = Len(box[c]) + 1 /\ Len(box[c]) \in Nat
          /\ DOMAIN q = 1..Len(q) /\ DOMAIN box[c] = 1..Len(box[c])
          /\ \A k \in 1..Len(box[c]) : q[k] = box[c][k]
          /\ q[Len(q)] = p
      BY <1>1, AppendProperties, LenProperties DEF PostsOne
    <2>3. Len(outbox[c]) \in Nat
      BY <1>1, LenProperties
    <2> HIDE DEF q
    <2>4. [box EXCEPT ![c] = q] \in [Conn -> Seq(AnyPacket)]
      BY <2>2 DEF PostsOne
    <2>5. Len(outbox[c]) <= Len(q)
      BY <1>1, <2>2, <2>3 DEF PostsOne
    <2>6. ASSUME NEW j \in DOMAIN q, NEW k \in DOMAIN q,
                 Len(outbox[c]) < j, Len(outbox[c]) < k, q[j].id # 0, q[k].id # 0
          PROVE  j = k
      <3>1. j \in 1..Len(box[c]) /\ k \in 1..Len(box[c])
        <4>1. j # Len(q) /\ k # Len(q)
          BY <2>2, <2>6
        <4>2. j \in 1..Len(q) /\ k \in 1..Len(q)
          BY <2>2
        <4>3. Len(q) = Len(box[c]) + 1 /\ Len(box[c]) \in Nat
          BY <2>2
        <4> QED
          BY <4>1, <4>2, <4>3
      <3>2. box[c][j].id # 0 /\ box[c][k].id # 0
        BY <2>2, <2>6, <3>1
      <3> QED
        BY <1>1, <2>2, <2>6, <3>1, <3>2 DEF PostsOne
    <2>7. PostsOne([box EXCEPT ![c] = q])
      BY <2>4, <2>5, <2>6 DEF PostsOne
    <2> QED
      BY <2>1, <2>7
  <1>2. CASE ~ (c \in Conn /\ socket[c] = "open")
    BY <1>2 DEF Post
  <1> QED
    BY <1>1, <1>2

LEMMA ResultPost ==
    ASSUME NEW box, PostsOne(box), outbox \in [Conn -> Seq(AnyPacket)], NEW c, NEW err
    PROVE  PostsOne(Post(box, c, <<RESULT(err)>>))
  <1>1. RESULT(err) \in AnyPacket /\ RESULT(err).id = 0
    BY DEF RESULT, AnyPacket
  <1> QED
    BY <1>1, PlainPost

\* One direct message.
LEMMA DirectPost ==
    ASSUME outbox \in [Conn -> Seq(AnyPacket)], PostsOne(outbox), NEW c, NEW p \in AnyPacket
    PROVE  PostsOne(Post(outbox, c, <<p>>))
  <1>1. CASE c \in Conn /\ socket[c] = "open"
    <2> DEFINE q == Append(outbox[c], p)
    <2>1. Post(outbox, c, <<p>>) = [outbox EXCEPT ![c] = q]
      <3>1. outbox[c] \o <<p>> = q
        BY <1>1, AppendIsConcat
      <3> QED
        BY <1>1, <3>1 DEF Post
    <2>2. /\ q \in Seq(AnyPacket) /\ Len(q) = Len(outbox[c]) + 1 /\ Len(outbox[c]) \in Nat
          /\ DOMAIN q = 1..Len(q)
      BY <1>1, AppendProperties, LenProperties
    <2> HIDE DEF q
    <2>3. [outbox EXCEPT ![c] = q] \in [Conn -> Seq(AnyPacket)]
      BY <2>2
    <2>4. \A j, k \in DOMAIN q : Len(outbox[c]) < j /\ Len(outbox[c]) < k => j = k
      BY <2>2
    <2>5. PostsOne([outbox EXCEPT ![c] = q])
      BY <2>2, <2>3, <2>4 DEF PostsOne
    <2> QED
      BY <2>1, <2>5
  <1>2. CASE ~ (c \in Conn /\ socket[c] = "open")
    BY <1>2 DEF Post
  <1> QED
    BY <1>1, <1>2

LEMMA BroadcastPost ==
    ASSUME ConnInv, outbox \in [Conn -> Seq(AnyPacket)], PostsOne(outbox), NEW l
    PROVE  PostsOne(broadcast(outbox, l))
  <1> DEFINE entries(c) == {m \in DOMAIN online_users \ {l} : online_users[m] = c}
             more(c) == [i \in 1..Cardinality(entries(c)) |-> Push("MESSAGE")]
             new(c) == IF socket[c] = "open" THEN outbox[c] \o more(c) ELSE outbox[c]
  <1>1. broadcast(outbox, l) = [c \in Conn |-> new(c)]
    BY DEF broadcast
  <1>2. ASSUME NEW c \in Conn
        PROVE  /\ new(c) \in Seq(AnyPacket)
               /\ Len(outbox[c]) <= Len(new(c))
               /\ \A j \in DOMAIN new(c) : Len(outbox[c]) < j => new(c)[j].id = 0
    <2>1. Cardinality(entries(c)) \in Nat
      BY FS_Subset, FS_CardinalityType DEF ConnInv
    <2>2. Push("MESSAGE") \in AnyPacket /\ Push("MESSAGE").id = 0
      BY DEF Push, AnyPacket, PushType
    <2>3. /\ more(c) \in Seq(AnyPacket) /\ Len(more(c)) \in Nat
          /\ \A j \in 1..Len(more(c)) : more(c)[j].id = 0
      BY <2>1, <2>2
    <2>4. Len(outbox[c]) \in Nat /\ DOMAIN outbox[c] = 1..Len(outbox[c])
      BY LenProperties
    <2> HIDE DEF more
    <2>5. CASE socket[c] = "open"
      <3>1. /\ outbox[c] \o more(c) \in Seq(AnyPacket)
            /\ Len(outbox[c] \o more(c)) = Len(outbox[c]) + Len(more(c))
            /\ \A j \in 1..(Len(outbox[c]) + Len(more(c))) :
                  (outbox[c] \o more(c))[j] =
                      IF j <= Len(outbox[c]) THEN outbox[c][j]
                      ELSE more(c)[j - Len(outbox[c])]
        BY <2>3, ConcatProperties
      <3>2. DOMAIN (outbox[c] \o more(c)) = 1..(Len(outbox[c]) + Len(more(c)))
        BY <3>1, LenProperties
      <3>3. ASSUME NEW j \in DOMAIN (outbox[c] \o more(c)), Len(outbox[c]) < j
            PROVE  (outbox[c] \o more(c))[j].id = 0
        <4>1. /\ (outbox[c] \o more(c))[j] = more(c)[j - Len(outbox[c])]
              /\ j - Len(outbox[c]) \in 1..Len(more(c))
          BY <2>3, <2>4, <3>1, <3>2, <3>3
        <4> QED
          BY <2>3, <4>1
      <3> QED
        BY <2>3, <2>4, <2>5, <3>1, <3>3
    <2>6. CASE socket[c] # "open"
      BY <2>4, <2>6
    <2> QED
      BY <2>5, <2>6
  <1> HIDE DEF new
  <1> QED
    BY <1>1, <1>2 DEF PostsOne

\* Apart from a login with its backlog, no step posts two direct messages to one
\* connection; a connection that is lost loses its queue, and a write shortens one.
QueuesShrink ==
    \A d \in Conn : outbox'[d] \in Seq(AnyPacket) /\ Len(outbox'[d]) <= Len(outbox[d])

LEMMA QueueSteps ==
    ASSUME SInv, [Next]_vars
    PROVE  \/ PostsOne(outbox')
           \/ QueuesShrink
           \/ \E c \in Conn : \E l, id : Authenticate(c, l, id)
  <1>1. outbox \in [Conn -> Seq(AnyPacket)] /\ PostsOne(outbox)
    BY QueuesTyped
  <1>2. ASSUME NEW c, NEW err, ReplyOnly(c, err) PROVE PostsOne(outbox')
    BY <1>1, <1>2, ResultPost DEF ReplyOnly
  <1>3. ASSUME NEW c, NEW target, NEW type \in PushType, NEW err,
               NotifyAndReply(c, target, type, err)
        PROVE  PostsOne(outbox')
    <2> DEFINE told == IF err = "OK" THEN Post(outbox, getSession(target), <<Push(type)>>)
                       ELSE outbox
    <2>1. Push(type) \in AnyPacket /\ Push(type).id = 0
      BY DEF Push, AnyPacket
    <2>2. PostsOne(told)
      BY <1>1, <2>1, PlainPost
    <2>3. outbox' = Post(told, c, <<RESULT(err)>>)
      BY <1>3 DEF NotifyAndReply
    <2> HIDE DEF told
    <2> QED
      BY <1>1, <2>2, <2>3, ResultPost
  <1>4. ASSUME UNCHANGED outbox PROVE PostsOne(outbox')
    BY <1>1, <1>4
  <1>5. ASSUME SessionsLost PROVE QueuesShrink
    <2> SUFFICES ASSUME NEW d \in Conn
                 PROVE  outbox'[d] \in Seq(AnyPacket) /\ Len(outbox'[d]) <= Len(outbox[d])
      BY DEF QueuesShrink
    <2>1. outbox'[d] = << >>
      BY <1>5 DEF SessionsLost
    <2>2. Len(outbox[d]) \in Nat /\ Len(<< >>) = 0 /\ << >> \in Seq(AnyPacket)
      BY <1>1, LenProperties, EmptySeq
    <2> QED
      BY <2>1, <2>2
  <1>6. ASSUME NEW c \in Conn, NEW t, handle_message(c, t) PROVE PostsOne(outbox')
    <2>1. CASE Users!TokenError(t) = "OK"
      <3> DEFINE box == broadcast(outbox, Users!LoginOfToken(t))
      <3>1. PostsOne(box)
        BY <1>1, BroadcastPost DEF SInv
      <3>2. outbox' = Post(box, c, <<RESULT("OK")>>)
        BY <1>6, <2>1 DEF handle_message
      <3> HIDE DEF box
      <3> QED
        BY <1>1, <3>1, <3>2, ResultPost
    <2>2. CASE Users!TokenError(t) # "OK"
      BY <1>2, <1>6, <2>2 DEF handle_message
    <2> QED
      BY <2>1, <2>2
  <1>7. ASSUME NEW c \in Conn, NEW t, NEW recipient, handle_direct_message(c, t, recipient)
        PROVE  PostsOne(outbox')
    <2>1. CASE DirectError(t, recipient) = "OK"
      <3> DEFINE p == DirectMessage(NewRowid)
                 told == Post(outbox, getSession(recipient), <<p>>)
      <3>1. p \in AnyPacket
        BY LenProperties
           DEF SInv, MailInv, Messages!TypeOK, NewRowid, DirectMessage, AnyPacket, PushType
      <3>2. outbox' = Post(told, c, <<RESULT("OK")>>)
        BY <1>7, <2>1 DEF handle_direct_message
      <3>3. PostsOne(told)
        <4> HIDE DEF p
        <4> QED
          BY <1>1, <3>1, DirectPost
      <3> HIDE DEF told
      <3> QED
        BY <1>1, <3>2, <3>3, ResultPost
    <2>2. CASE DirectError(t, recipient) # "OK"
      BY <1>2, <1>7, <2>2 DEF handle_direct_message
    <2> QED
      BY <2>1, <2>2
  <1>8. ASSUME NEW c \in Conn, Handle(c)
        PROVE  \/ PostsOne(outbox') \/ UNCHANGED outbox \/ SessionsLost
               \/ \E l, id : Authenticate(c, l, id)
    <2>1. ASSUME NEW l, NEW p, handle_register(c, l, p) \/ handle_login(c, l, p)
          PROVE  PostsOne(outbox') \/ \E m, id : Authenticate(c, m, id)
      BY <1>2, <2>1 DEF handle_register, handle_login
    <2>2. ASSUME NEW t, handle_token_verify(c, t)
          PROVE  PostsOne(outbox') \/ \E m, id : Authenticate(c, m, id)
      BY <1>2, <2>2 DEF handle_token_verify
    <2>3. ASSUME NEW t, handle_friend_list(c, t) \/ handle_chat_list(c, t)
          PROVE  PostsOne(outbox')
      BY <1>2, <2>3 DEF handle_friend_list, handle_chat_list
    <2>4. ASSUME NEW t, handle_logout(c, t) \/ handle_unknown(c) PROVE UNCHANGED outbox
      BY <2>4 DEF handle_logout, handle_unknown
    <2>5. ASSUME NEW t, NEW l,
                 \/ handle_friend_request(c, t, l) \/ handle_friend_accept(c, t, l)
                 \/ handle_friend_reject(c, t, l)
          PROVE  PostsOne(outbox')
      <3>1. CASE FriendRefused(c, t, l)
        BY <1>2, <3>1 DEF FriendRefused
      <3>2. CASE ~ FriendRefused(c, t, l)
        <4>1. PICK type \in PushType, err \in Friends!FriendError : NotifyAndReply(c, l, type, err)
          BY <2>5, <3>2
             DEF handle_friend_request, handle_friend_accept, handle_friend_reject, PushType
        <4> QED
          BY <1>3, <4>1
      <3> QED
        BY <3>1, <3>2
    <2>6. ASSUME NEW t, NEW l, handle_message_history(c, t, l)
          PROVE  PostsOne(outbox') \/ SessionsLost
      BY <1>2, <2>6 DEF handle_message_history, Crash
    <2> QED
      BY <1>6, <1>7, <1>8, <2>1, <2>2, <2>3, <2>4, <2>5, <2>6 DEF Handle
  <1>9. ASSUME NEW c \in Conn, Killed(c) PROVE SessionsLost
    BY <1>9 DEF Killed, KilledInRegister, KilledInLogin, KilledInDirectMessage
  <1>10. ASSUME NEW c \in Conn, do_write(c) PROVE QueuesShrink
    <2>1. /\ outbox[c] \in Seq(AnyPacket) /\ outbox[c] # << >>
          /\ outbox' = [outbox EXCEPT ![c] = Tail(outbox[c])]
      BY <1>1, <1>10 DEF do_write
    <2>2. /\ Tail(outbox[c]) \in Seq(AnyPacket)
          /\ Len(Tail(outbox[c])) = Len(outbox[c]) - 1
          /\ Len(outbox[c]) \in Nat
      BY <2>1, HeadTailProperties, LenProperties
    <2> SUFFICES ASSUME NEW d \in Conn
                 PROVE  outbox'[d] \in Seq(AnyPacket) /\ Len(outbox'[d]) <= Len(outbox[d])
      BY DEF QueuesShrink
    <2>3. CASE d = c
      <3>1. outbox'[d] = Tail(outbox[c])
        BY <1>1, <2>1, <2>3
      <3>2. Len(Tail(outbox[c])) <= Len(outbox[c])
        BY <2>2
      <3> QED
        BY <2>2, <2>3, <3>1, <3>2
    <2>4. CASE d # c
      <3>1. outbox'[d] = outbox[d]
        BY <1>1, <2>1, <2>4
      <3> QED
        BY <1>1, <3>1, LenProperties
    <2> QED
      BY <2>3, <2>4
  <1>11. ASSUME NEW c \in Conn, Disconnect(c) PROVE QueuesShrink
    <2> SUFFICES ASSUME NEW d \in Conn
                 PROVE  outbox'[d] \in Seq(AnyPacket) /\ Len(outbox'[d]) <= Len(outbox[d])
      BY DEF QueuesShrink
    <2>1. outbox'[d] = IF d = c THEN << >> ELSE outbox[d]
      BY <1>1, <1>11 DEF Disconnect
    <2>2. Len(outbox[d]) \in Nat /\ Len(<< >>) = 0 /\ << >> \in Seq(AnyPacket)
      BY <1>1, LenProperties, EmptySeq
    <2> QED
      BY <1>1, <2>1, <2>2
  <1>12. ASSUME NEW c \in Conn, start_accept(c) \/ Destroy(c) PROVE UNCHANGED outbox
    BY <1>12 DEF start_accept, Destroy
  <1>13. ASSUME Boot \/ TimerFires \/ Tick \/ UNCHANGED vars PROVE UNCHANGED outbox
    BY <1>13 DEF Boot, TimerFires, Tick, netVars, vars
  <1> QED
    BY <1>4, <1>5, <1>8, <1>9, <1>10, <1>11, <1>12, <1>13 DEF Next, Crash

\* The numbers PostedTo collects are those of the packets behind the old queue.
LEMMA PostedFacts ==
    ASSUME NEW c \in Conn, outbox[c] \in Seq(AnyPacket), outbox'[c] \in Seq(AnyPacket),
           NEW k \in DOMAIN PostedTo(c)
    PROVE  /\ k \in Nat \ {0}
           /\ Len(outbox[c]) + k \in DOMAIN outbox'[c]
           /\ PostedTo(c)[k] = outbox'[c][Len(outbox[c]) + k].id
  <1> DEFINE n == Len(outbox[c])
             m == Len(outbox'[c])
             new == SubSeq(outbox'[c], n + 1, m)
  <1>1. n \in Nat /\ m \in Nat /\ DOMAIN outbox'[c] = 1..m
    BY LenProperties
  <1>2. k \in DOMAIN new /\ PostedTo(c)[k] = new[k].id
    BY DEF PostedTo
  <1> HIDE DEF n, m
  <1>3. DOMAIN new = 1..(m - n) /\ \A i \in 1..(m - n) : new[i] = outbox'[c][n + i]
    <2>1. \A i \in (n + 1)..m : outbox'[c][i] \in AnyPacket
      BY <1>1, ElementOfSeq
    <2>2. /\ new \in Seq(AnyPacket)
          /\ Len(new) = IF n + 1 <= m THEN m - (n + 1) + 1 ELSE 0
          /\ \A i \in 1..(m - (n + 1) + 1) : new[i] = outbox'[c][(n + 1) + i - 1]
      BY <1>1, <2>1, SubSeqProperties
    <2>3. DOMAIN new = 1..Len(new)
      BY <2>2, LenProperties
    <2> HIDE DEF new
    <2>4. 1..Len(new) = 1..(m - n)
      BY <1>1, <2>2
    <2>5. m - (n + 1) + 1 = m - n
      BY <1>1
    <2>6. \A i \in 1..(m - n) : new[i] = outbox'[c][n + i]
      <3> SUFFICES ASSUME NEW i \in 1..(m - n) PROVE new[i] = outbox'[c][n + i]
        OBVIOUS
      <3>1. new[i] = outbox'[c][(n + 1) + i - 1]
        BY <2>2, <2>5
      <3>2. (n + 1) + i - 1 = n + i
        BY <1>1
      <3> QED
        BY <3>1, <3>2
    <2> QED
      BY <2>3, <2>4, <2>6
  <1> HIDE DEF new
  <1>4. k \in Nat \ {0} /\ n + k \in 1..m
    <2>1. k \in 1..(m - n)
      BY <1>2, <1>3
    <2> QED
      BY <1>1, <2>1
  <1>5. PostedTo(c)[k] = outbox'[c][n + k].id
    BY <1>2, <1>3
  <1> QED
    BY <1>1, <1>4, <1>5 DEF n

InOrder(c) ==
    LET p == PostedTo(c)
    IN  \A j, k \in DOMAIN p : j < k /\ p[j] # 0 /\ p[k] # 0 =>
            direct_messages'[p[j]].create_at <= direct_messages'[p[k]].create_at

\* deliver_pending posts the rows as getUndelivered orders them, and markDelivered
\* leaves their create_at alone.
LEMMA BacklogOrdered ==
    ASSUME SInv, NEW c \in Conn, NEW l, NEW id, Authenticate(c, l, id), NEW d \in Conn
    PROVE  InOrder(d)
  <1>1. outbox \in [Conn -> Seq(AnyPacket)]
    BY QueuesTyped
  <1>2. PICK q \in Backlog(id) :
            /\ Messages!markDelivered(SentIds(q))
            /\ outbox' = Post(outbox, c,
                              [i \in DOMAIN q |-> DirectMessage(q[i])] \o <<RESULT("OK")>>)
    BY DEF Authenticate
  <1>3. /\ Range(q) = Messages!Undelivered(id)
        /\ \E n \in Nat : DOMAIN q = 1..n
    BY BacklogIsUndelivered DEF SInv, MailInv
  <1>4. PICK n \in Nat : DOMAIN q = 1..n
    BY <1>3
  <1>5. \A i \in 1..n : q[i] \in DOMAIN direct_messages
    BY <1>3, <1>4 DEF Range, Messages!Undelivered
  <1>6. \A i, j \in 1..n : i < j =>
            direct_messages[q[i]].create_at <= direct_messages[q[j]].create_at
    BY <1>4 DEF Backlog, Messages!getUndelivered, Messages!OrderedByTime, Messages!Time
  <1>7. \A i \in DOMAIN direct_messages :
            direct_messages'[i].create_at = direct_messages[i].create_at
    <2> SUFFICES ASSUME NEW i \in DOMAIN direct_messages
                 PROVE  direct_messages'[i].create_at = direct_messages[i].create_at
      OBVIOUS
    <2> DEFINE row == direct_messages[i]
               flag == row.delivered \/ i \in SentIds(q)
    <2>1. direct_messages'[i] = [row EXCEPT !.delivered = flag]
      BY <1>2 DEF Messages!markDelivered
    <2>2. row \in [sender: UserId, recipient: UserId, create_at: Nat, delivered: BOOLEAN]
      BY MessageRow DEF SInv, MailInv
    <2> HIDE DEF row, flag
    <2>3. direct_messages'[i].create_at = row.create_at
      BY <2>1, <2>2
    <2> QED
      BY <2>3 DEF row
  <1> DEFINE backlog == [i \in DOMAIN q |-> DirectMessage(q[i])]
             more == backlog \o <<RESULT("OK")>>
  <1>8. /\ backlog \in Seq(AnyPacket) /\ Len(backlog) = n
        /\ \A i \in 1..n : backlog[i].id = q[i]
    <2>1. DOMAIN direct_messages \subseteq Nat
      BY LenProperties DEF SInv, MailInv, Messages!TypeOK
    <2>2. \A i \in 1..n : DirectMessage(q[i]) \in AnyPacket /\ DirectMessage(q[i]).id = q[i]
      BY <1>5, <2>1 DEF DirectMessage, AnyPacket, PushType
    <2> QED
      BY <1>4, <2>2
  <1>9. RESULT("OK") \in AnyPacket /\ RESULT("OK").id = 0
    BY DEF RESULT, AnyPacket
  <1> HIDE DEF backlog
  <1>10. /\ more \in Seq(AnyPacket) /\ Len(more) = n + 1
         /\ \A i \in 1..n : more[i].id = q[i]
         /\ more[n + 1].id = 0
    <2>1. more = Append(backlog, RESULT("OK"))
      BY <1>8, <1>9, AppendIsConcat
    <2> HIDE DEF more
    <2> QED
      BY <1>8, <1>9, <2>1, AppendProperties
  <1>11. outbox' = Post(outbox, c, more)
    BY <1>2 DEF backlog
  <1> HIDE DEF more
  <1>12. CASE d = c /\ socket[c] = "open"
    <2> DEFINE b == Len(outbox[c])
    <2>1. outbox'[c] = outbox[c] \o more
      BY <1>1, <1>11, <1>12 DEF Post
    <2>2. b \in Nat /\ Len(more) \in Nat /\ outbox[c] \in Seq(AnyPacket)
      BY <1>1, <1>10, LenProperties
    <2>3. /\ outbox'[c] \in Seq(AnyPacket) /\ DOMAIN outbox'[c] = 1..(b + n + 1)
          /\ \A i \in 1..(n + 1) : outbox'[c][b + i] = more[i]
      <3>1. /\ outbox'[c] \in Seq(AnyPacket)
            /\ Len(outbox'[c]) = b + Len(more)
            /\ \A i \in 1..(b + Len(more)) :
                  outbox'[c][i] = IF i <= b THEN outbox[c][i] ELSE more[i - b]
        <4>1. /\ outbox[c] \o more \in Seq(AnyPacket)
              /\ Len(outbox[c] \o more) = Len(outbox[c]) + Len(more)
              /\ \A i \in 1..(Len(outbox[c]) + Len(more)) :
                    (outbox[c] \o more)[i] =
                        IF i <= Len(outbox[c]) THEN outbox[c][i] ELSE more[i - Len(outbox[c])]
          BY <1>10, <2>2, ConcatProperties
        <4> QED
          BY <2>1, <4>1
      <3>2. DOMAIN outbox'[c] = 1..(b + n + 1)
        <4>1. DOMAIN outbox'[c] = 1..Len(outbox'[c])
          BY <3>1, LenProperties
        <4>2. b + Len(more) = b + n + 1
          <5>1. Len(more) = n + 1 /\ b \in Nat
            BY <1>10, <2>2
          <5> HIDE DEF b
          <5> QED
            BY <1>4, <5>1
        <4> QED
          BY <3>1, <4>1, <4>2
      <3> HIDE DEF b
      <3>3. ASSUME NEW i \in 1..(n + 1) PROVE outbox'[c][b + i] = more[i]
        <4>1. b + i \in 1..(b + Len(more)) /\ ~ (b + i <= b) /\ (b + i) - b = i
          BY <1>10, <2>2
        <4> QED
          BY <3>1, <4>1
      <3> QED
        BY <3>1, <3>2, <3>3
    <2> DEFINE p == PostedTo(c)
    <2>4. ASSUME NEW k \in DOMAIN p, p[k] # 0 PROVE k \in 1..n /\ p[k] = q[k]
      <3>1. k \in Nat \ {0} /\ b + k \in DOMAIN outbox'[c] /\ p[k] = outbox'[c][b + k].id
        BY <2>2, <2>3, PostedFacts
      <3> HIDE DEF p, b
      <3>2. k \in 1..(n + 1) /\ p[k] = more[k].id
        BY <2>2, <2>3, <3>1
      <3> QED
        BY <1>10, <2>4, <3>2
    <2> HIDE DEF p
    <2>5. ASSUME NEW j \in DOMAIN p, NEW k \in DOMAIN p, j < k, p[j] # 0, p[k] # 0
          PROVE  direct_messages'[p[j]].create_at <= direct_messages'[p[k]].create_at
      <3>1. j \in 1..n /\ k \in 1..n /\ p[j] = q[j] /\ p[k] = q[k]
        BY <2>4, <2>5
      <3> QED
        BY <1>5, <1>6, <1>7, <2>5, <3>1
    <2> QED
      BY <1>12, <2>5 DEF InOrder, p
  <1>13. CASE ~ (d = c /\ socket[c] = "open")
    <2>1. outbox'[d] = outbox[d]
      BY <1>1, <1>11, <1>13 DEF Post
    <2>2. DOMAIN PostedTo(d) = {}
      <3> SUFFICES ASSUME NEW k \in DOMAIN PostedTo(d) PROVE FALSE
        OBVIOUS
      <3>1. k \in Nat \ {0} /\ Len(outbox[d]) + k \in DOMAIN outbox[d]
        BY <1>1, <2>1, PostedFacts
      <3> QED
        BY <1>1, <3>1, LenProperties
    <2> QED
      BY <2>2 DEF InOrder
  <1> QED
    BY <1>12, <1>13

\* In every step of the server, of any length of backlog, the direct messages that
\* one connection is posted are in the order they were sent, to the second.
THEOREM BacklogOrder == Spec => BacklogInOrder
  <1>1. ASSUME SInv, [Next]_vars, NEW d \in Conn PROVE InOrder(d)
    <2>1. outbox \in [Conn -> Seq(AnyPacket)]
      BY <1>1, QueuesTyped
    <2>2. Len(outbox[d]) \in Nat
      BY <2>1, LenProperties
    <2>3. CASE PostsOne(outbox')
      <3>1. outbox'[d] \in Seq(AnyPacket)
        BY <2>3 DEF PostsOne
      <3>2. ASSUME NEW j \in DOMAIN PostedTo(d), NEW k \in DOMAIN PostedTo(d),
                   PostedTo(d)[j] # 0, PostedTo(d)[k] # 0
            PROVE  j = k /\ j \in Nat
        <4> DEFINE b == Len(outbox[d])
        <4>1. /\ j \in Nat \ {0} /\ b + j \in DOMAIN outbox'[d] /\ outbox'[d][b + j].id # 0
              /\ k \in Nat \ {0} /\ b + k \in DOMAIN outbox'[d] /\ outbox'[d][b + k].id # 0
          BY <2>1, <3>1, <3>2, PostedFacts
        <4>2. b < b + j /\ b < b + k
          BY <2>2, <4>1
        <4>3. b + j = b + k
          BY <2>3, <4>1, <4>2 DEF PostsOne
        <4> QED
          BY <2>2, <4>1, <4>3
      <3>3. \A j, k \in DOMAIN PostedTo(d) :
                PostedTo(d)[j] # 0 /\ PostedTo(d)[k] # 0 => ~ (j < k)
        BY <3>2
      <3> QED
        BY <3>3 DEF InOrder
    <2>4. CASE QueuesShrink
      <3>1. DOMAIN PostedTo(d) = {}
        <4> SUFFICES ASSUME NEW k \in DOMAIN PostedTo(d) PROVE FALSE
          OBVIOUS
        <4>1. /\ outbox'[d] \in Seq(AnyPacket) /\ Len(outbox'[d]) <= Len(outbox[d])
              /\ Len(outbox'[d]) \in Nat /\ DOMAIN outbox'[d] = 1..Len(outbox'[d])
          BY <2>4, LenProperties DEF QueuesShrink
        <4>2. k \in Nat \ {0} /\ Len(outbox[d]) + k \in DOMAIN outbox'[d]
          BY <2>1, <4>1, PostedFacts
        <4> QED
          BY <2>2, <4>1, <4>2
      <3> QED
        BY <3>1 DEF InOrder
    <2>5. CASE \E c \in Conn : \E l, id : Authenticate(c, l, id)
      BY <1>1, <2>5, BacklogOrdered
    <2> QED
      BY <1>1, <2>3, <2>4, <2>5, QueueSteps
  <1>2. SInv /\ [Next]_vars =>
            [\A c \in Conn :
                LET p == PostedTo(c)
                IN  \A j, k \in DOMAIN p : j < k /\ p[j] # 0 /\ p[k] # 0 =>
                        direct_messages'[p[j]].create_at <= direct_messages'[p[k]].create_at]_vars
    BY <1>1 DEF InOrder
  <1> QED
    BY Invariance, <1>2, PTL DEF Spec, BacklogInOrder

-----------------------------------------------------------------------------
\* The handlers that combine operations of UserRepository keep what it promises of
\* its own: a token is honoured while it is valid, not longer, and as the user it
\* was issued to, and no row outlives its TTL by more than one interval.
THEOREM TokensInServer ==
    Spec => [](/\ Users!LoginsUnique
               /\ Users!HonouredOnlyIfValid
               /\ Users!ValidIsHonoured
               /\ Users!RowsSweptInTime)
  <1>1. ASSUME UP!IInv
        PROVE  /\ Users!LoginsUnique
               /\ Users!HonouredOnlyIfValid
               /\ Users!ValidIsHonoured
               /\ Users!RowsSweptInTime
    <2>1. /\ UP!LoginsUnique
          /\ UP!HonouredOnlyIfValid
          /\ UP!ValidIsHonoured
          /\ UP!RowsSweptInTime
      BY <1>1, Constants, UP!IInvHonoured, UP!IInvValid, UP!IInvTables, UP!TablesSwept
             DEF UP!IInv
    <2> QED
      BY <2>1 DEF UP!LoginsUnique, Users!LoginsUnique, UP!HonouredOnlyIfValid,
         Users!HonouredOnlyIfValid, UP!ValidIsHonoured, Users!ValidIsHonoured,
         UP!RowsSweptInTime, Users!RowsSweptInTime, UP!ValidToken, Users!ValidToken,
         UP!TokenError, Users!TokenError, UP!LoginOfToken, Users!LoginOfToken,
         UP!getLoginById, Users!getLoginById, UP!Expired, Users!Expired,
         UP!ExpiredAt, Users!ExpiredAt
  <1> QED
    BY Invariance, <1>1, PTL DEF SInv

\* The handlers that combine operations of FriendRepository keep its table as it
\* promises: one row per pair, accepted by both, pending with its initiator.
THEOREM FriendsInServer ==
    Spec => [](Friends!OneRowPerPair /\ Friends!MutualConsent /\ Friends!PendingIsOneSided)
  <1>1. ASSUME FP!IInv
        PROVE  Friends!OneRowPerPair /\ Friends!MutualConsent /\ Friends!PendingIsOneSided
    BY <1>1 DEF FP!IInv, FP!OneRowPerPair, Friends!OneRowPerPair, FP!MutualConsent,
       Friends!MutualConsent, FP!PendingIsOneSided, Friends!PendingIsOneSided
  <1> QED
    BY Invariance, <1>1, PTL DEF SInv

-----------------------------------------------------------------------------
(***************************************************************************)
(* The server implements StoreAndForward.  Every step of the server is, in *)
(* the terms of the store, one of four: a stutter, a friendship, an        *)
(* accepted message or the handing over of a backlog.  The mapping reads   *)
(* the two users of a row through the users table, so the step simulation  *)
(* needs, besides SInv, that friendships are between rows of that table.   *)
(***************************************************************************)

FriendsRegistered ==
    \A f \in friendships : f.user1 \in DOMAIN users /\ f.user2 \in DOMAIN users

\* The abstract variables.
LoginPairs ==
    {{Users!getLoginById(f.user1), Users!getLoginById(f.user2)} :
        f \in {g \in friendships : g.status = "accepted"}}

MailOf ==
    [i \in DOMAIN direct_messages |->
        [from |-> Users!getLoginById(direct_messages[i].sender),
         to |-> Users!getLoginById(direct_messages[i].recipient)]]

StoredIds == {i \in DOMAIN direct_messages : ~ direct_messages[i].delivered}

-----------------------------------------------------------------------------
(***************************************************************************)
(* The steps of the store.                                                 *)
(***************************************************************************)

LEMMA StoreStutter ==
    ASSUME UNCHANGED <<LoginPairs, MailOf, StoredIds, handed>>
    PROVE  UNCHANGED Store!vars
  BY DEF Store!vars, LoginPairs, MailOf, StoredIds

LEMMA StoreBefriends ==
    ASSUME NEW a \in Login, NEW b \in Login, LoginPairs' = LoginPairs \cup {{a, b}},
           UNCHANGED <<MailOf, StoredIds, handed>>
    PROVE  Store!Next
  <1>1. Store!Befriend(a, b)
    BY DEF Store!Befriend, LoginPairs, MailOf, StoredIds
  <1> QED
    BY <1>1 DEF Store!Next

LEMMA StoreAccepts ==
    ASSUME NEW a \in Login, NEW b \in Login, {a, b} \in LoginPairs,
           MailOf' = Append(MailOf, [from |-> a, to |-> b]),
           StoredIds' = StoredIds \cup {Len(MailOf) + 1},
           handed' \in {handed, handed \cup {Len(MailOf) + 1}},
           UNCHANGED LoginPairs
    PROVE  Store!Next
  <1>1. Store!Accept(a, b)
    BY DEF Store!Accept, LoginPairs, MailOf, StoredIds
  <1> QED
    BY <1>1 DEF Store!Next

LEMMA StoreHandsOver ==
    ASSUME NEW u \in Login, NEW S, S = {i \in StoredIds : MailOf[i].to = u},
           StoredIds' = StoredIds \ S, handed' = handed \cup S,
           UNCHANGED <<LoginPairs, MailOf>>
    PROVE  Store!Next
  <1>1. Store!HandOver(u)
    BY DEF Store!HandOver, Store!StoredFor, LoginPairs, MailOf, StoredIds
  <1> QED
    BY <1>1 DEF Store!Next

-----------------------------------------------------------------------------
(***************************************************************************)
(* What leaves the abstract variables alone.                               *)
(***************************************************************************)

LEMMA PairsRest ==
    ASSUME FriendsRegistered, UsersGrow, UNCHANGED friendships
    PROVE  FriendsRegistered' /\ LoginPairs' = LoginPairs
  <1>1. FriendsRegistered'
    BY DEF FriendsRegistered, UsersGrow
  <1>2. \A f \in friendships : /\ users'[f.user1] = users[f.user1]
                               /\ users'[f.user2] = users[f.user2]
    BY DEF FriendsRegistered, UsersGrow
  <1> QED
    BY <1>1, <1>2 DEF LoginPairs, Users!getLoginById

\* The senders and recipients of old messages keep their logins.
LEMMA MailEntries ==
    ASSUME MailInv, UsersGrow, MailGrows, NEW i \in DOMAIN direct_messages
    PROVE  MailOf'[i] = MailOf[i]
  <1>1. /\ users'[direct_messages[i].sender] = users[direct_messages[i].sender]
        /\ users'[direct_messages[i].recipient] = users[direct_messages[i].recipient]
    BY DEF MailInv, UsersGrow
  <1> QED
    BY <1>1 DEF MailGrows, MailOf, Users!getLoginById

LEMMA MailRest ==
    ASSUME MailInv, UsersGrow, UNCHANGED <<direct_messages, handed>>
    PROVE  UNCHANGED <<MailOf, StoredIds, handed>>
  <1>1. MailGrows
    BY DEF MailGrows
  <1>2. \A i \in DOMAIN direct_messages : MailOf'[i] = MailOf[i]
    BY <1>1, MailEntries
  <1> QED
    BY <1>2 DEF MailOf, StoredIds

-----------------------------------------------------------------------------
(***************************************************************************)
(* Each action as a step of the store.                                     *)
(***************************************************************************)

Simulates == FriendsRegistered' /\ [Store!Next]_(Store!vars)

\* Users may be added; friendships, rows and handing over stay.
LEMMA QuietSimulates ==
    ASSUME SInv, FriendsRegistered, UsersGrow, UNCHANGED <<friendships, direct_messages, handed>>
    PROVE  Simulates
  BY PairsRest, MailRest, StoreStutter DEF SInv, Simulates

\* An operation of FriendRepository on two registered users: at most a friendship
\* between the two is new, and none is gone.
LEMMA FriendEffect ==
    ASSUME SInv, FriendsRegistered, NEW a \in DOMAIN users, NEW b \in DOMAIN users, NEW err,
           \/ Friends!sendRequest(a, b, err)
           \/ Friends!acceptRequest(a, b, err)
           \/ Friends!rejectRequest(a, b, err),
           UNCHANGED users
    PROVE  /\ FriendsRegistered'
           /\ LoginPairs' \in {LoginPairs, LoginPairs \cup {{users[a].login, users[b].login}}}
  <1>1. CASE UNCHANGED friendships
    BY <1>1, PairsRest, SameUsersGrow
  <1>2. CASE friendships' = friendships \cup
                {[user1 |-> Friends!normalize(a, b)[1], user2 |-> Friends!normalize(a, b)[2],
                  status |-> "pending", initiator |-> a]}
    <2>1. FriendsRegistered'
      BY <1>2 DEF FriendsRegistered, Friends!normalize
    <2>2. {g \in friendships' : g.status = "accepted"} = {g \in friendships : g.status = "accepted"}
      BY <1>2
    <2> QED
      BY <2>1, <2>2 DEF LoginPairs, Users!getLoginById
  <1>3. ASSUME NEW f \in Friends!PendingRows(a, b)
        PROVE  /\ f \in friendships /\ f.status = "pending" /\ Friends!Rows(a, b) = {f}
               /\ f \in Friends!Friendship
               /\ {users[f.user1].login, users[f.user2].login} = {users[a].login, users[b].login}
    <2>1. /\ f \in friendships /\ f.status = "pending"
          /\ <<f.user1, f.user2>> = Friends!normalize(a, b)
      BY DEF Friends!PendingRows, Friends!Rows
    <2>2. \A g \in Friends!Rows(a, b) : g = f
      BY <2>1 DEF SInv, FP!IInv, FP!OneRowPerPair, Friends!Rows
    <2>3. f \in Friends!Rows(a, b)
      BY DEF Friends!PendingRows
    <2>4. f \in Friends!Friendship
      BY <2>1, SameFriends DEF SInv, FP!IInv, Friends!TypeOK
    <2>5. (f.user1 = a /\ f.user2 = b) \/ (f.user1 = b /\ f.user2 = a)
      BY <2>1 DEF Friends!normalize
    <2> QED
      BY <2>1, <2>2, <2>3, <2>4, <2>5
  <1>4. CASE \E f \in Friends!PendingRows(a, b) :
                friendships' = (friendships \ Friends!Rows(a, b)) \cup
                    {[g EXCEPT !.status = "accepted"] : g \in Friends!Rows(a, b)}
    <2>1. PICK f \in Friends!PendingRows(a, b) :
                friendships' = (friendships \ {f}) \cup {[f EXCEPT !.status = "accepted"]}
      BY <1>3, <1>4
    <2> DEFINE new == [f EXCEPT !.status = "accepted"]
    <2>2. /\ new.user1 = f.user1 /\ new.user2 = f.user2 /\ new.status = "accepted"
      BY <1>3 DEF Friends!Friendship
    <2>3. friendships' = (friendships \ {f}) \cup {new}
      BY <2>1
    <2> HIDE DEF new
    <2>4. FriendsRegistered'
      BY <1>3, <2>2, <2>3 DEF FriendsRegistered
    <2>5. {g \in friendships' : g.status = "accepted"} =
            {g \in friendships : g.status = "accepted"} \cup {new}
      BY <1>3, <2>2, <2>3
    <2>6. LoginPairs' = LoginPairs \cup {{users[new.user1].login, users[new.user2].login}}
      BY <2>5 DEF LoginPairs, Users!getLoginById
    <2> QED
      BY <1>3, <2>2, <2>4, <2>6
  <1>5. CASE \E f \in Friends!PendingRows(a, b) : friendships' = friendships \ Friends!Rows(a, b)
    <2>1. PICK f \in Friends!PendingRows(a, b) : friendships' = friendships \ {f}
      BY <1>3, <1>5
    <2>2. {g \in friendships' : g.status = "accepted"} = {g \in friendships : g.status = "accepted"}
      BY <1>3, <2>1
    <2> QED
      BY <2>1, <2>2 DEF LoginPairs, Users!getLoginById, FriendsRegistered
  <1> QED
    BY <1>1, <1>2, <1>4, <1>5
       DEF Friends!sendRequest, Friends!acceptRequest, Friends!rejectRequest, Friends!vars

LEMMA FriendHandlerSimulates ==
    ASSUME SInv, FriendsRegistered, NEW c \in Conn, NEW t, NEW target,
           \/ handle_friend_request(c, t, target)
           \/ handle_friend_accept(c, t, target)
           \/ handle_friend_reject(c, t, target)
    PROVE  Simulates
  <1>1. UNCHANGED <<users, direct_messages, handed>>
    BY DEF handle_friend_request, handle_friend_accept, handle_friend_reject,
       FriendRefused, ReplyOnly, NotifyAndReply, mailVars
  <1>2. CASE FriendRefused(c, t, target)
    BY <1>1, <1>2, QuietSimulates, SameUsersGrow DEF FriendRefused, ReplyOnly, friendVars
  <1>3. CASE ~ FriendRefused(c, t, target)
    <2>1. PICK a, b : a = SenderId(t) /\ b = Users!getIdByLogin(target)
      OBVIOUS
    <2>2. GateError(t, target) = "OK"
      BY <1>3 DEF handle_friend_request, handle_friend_accept, handle_friend_reject
    <2>3. a \in DOMAIN users /\ b \in DOMAIN users
      BY <2>1, <2>2, GateFacts, TokenFacts, IdFacts DEF SInv
    <2>4. PICK err : \/ Friends!sendRequest(a, b, err)
                     \/ Friends!acceptRequest(a, b, err)
                     \/ Friends!rejectRequest(a, b, err)
      BY <1>3, <2>1 DEF handle_friend_request, handle_friend_accept, handle_friend_reject
    <2>5. /\ FriendsRegistered'
          /\ LoginPairs' \in {LoginPairs, LoginPairs \cup {{users[a].login, users[b].login}}}
      BY <1>1, <2>3, <2>4, FriendEffect
    <2>6. UNCHANGED <<MailOf, StoredIds, handed>>
      BY <1>1, MailRest, SameUsersGrow DEF SInv
    <2>7. users[a].login \in Login /\ users[b].login \in Login
      BY <2>3, UserRow DEF SInv
    <2>8. CASE LoginPairs' = LoginPairs
      BY <2>5, <2>6, <2>8, StoreStutter DEF Simulates
    <2>9. CASE LoginPairs' = LoginPairs \cup {{users[a].login, users[b].login}}
      BY <2>5, <2>6, <2>7, <2>9, StoreBefriends DEF Simulates
    <2> QED
      BY <2>5, <2>8, <2>9
  <1> QED
    BY <1>2, <1>3

\* deliver_pending hands over what is stored for the login that goes online.
LEMMA AuthenticateSimulates ==
    ASSUME SInv, FriendsRegistered, NEW c \in Conn, NEW l \in Login,
           NEW id \in DOMAIN users', users'[id].login = l, UP!LoginsUnique',
           UsersGrow, UNCHANGED now, Authenticate(c, l, id)
    PROVE  Simulates
  <1>1. PICK q \in Backlog(id) : /\ Messages!markDelivered(SentIds(q))
                                 /\ handed' = handed \cup Range(q)
                                 /\ UNCHANGED <<written, friendVars>>
    BY DEF Authenticate
  <1>2. Range(q) = Messages!Undelivered(id)
    BY BacklogIsUndelivered DEF SInv, MailInv
  <1>3. FriendsRegistered' /\ LoginPairs' = LoginPairs
    BY <1>1, PairsRest DEF friendVars
  <1>4. MailGrows
    <2>1. Range(q) \subseteq DOMAIN direct_messages
      BY <1>2 DEF Messages!Undelivered
    <2>2. FriendsStay
      BY <1>1, FriendshipRests DEF SInv
    <2> QED
      BY <1>1, <2>1, <2>2, MarkedRows DEF SInv, MailInv, SentIds
  <1>5. DOMAIN direct_messages' = DOMAIN direct_messages
    BY <1>1 DEF Messages!markDelivered
  <1>6. MailOf' = MailOf
    <2>1. \A i \in DOMAIN direct_messages : MailOf'[i] = MailOf[i]
      BY <1>4, MailEntries DEF SInv
    <2> QED
      BY <1>5, <2>1 DEF MailOf
  <1>7. ASSUME NEW i \in DOMAIN direct_messages
        PROVE  direct_messages'[i].delivered <=> direct_messages[i].delivered \/ i \in Range(q)
    BY <1>1, MessageRow DEF Messages!markDelivered, SentIds, SInv, MailInv
  <1>8. StoredIds' = StoredIds \ Range(q)
    BY <1>5, <1>7 DEF StoredIds
  <1>9. Range(q) = {i \in StoredIds : MailOf[i].to = l}
    <2>1. ASSUME NEW i \in DOMAIN direct_messages
          PROVE  MailOf[i].to = l <=> direct_messages[i].recipient = id
      <3>1. /\ direct_messages[i].recipient \in DOMAIN users
            /\ users'[direct_messages[i].recipient] = users[direct_messages[i].recipient]
        BY DEF SInv, MailInv, UsersGrow
      <3>2. MailOf[i].to = users'[direct_messages[i].recipient].login
        BY <3>1 DEF MailOf, Users!getLoginById
      <3> QED
        BY <3>1, <3>2 DEF UsersGrow, UP!LoginsUnique
    <2> QED
      BY <1>2, <2>1 DEF StoredIds, Messages!Undelivered
  <1> QED
    BY <1>1, <1>3, <1>6, <1>8, <1>9, StoreHandsOver DEF Simulates

\* The requests with which a login goes online, or fails to.
LEMMA RegisterSimulates ==
    ASSUME SInv, FriendsRegistered, NEW c \in Conn, NEW l \in Login, NEW p \in Password,
           handle_register(c, l, p)
    PROVE  Simulates
  <1>1. CASE Users!registerUser(l, p, "OK") /\ Authenticate(c, l, Len(users) + 1)
    <2>1. PICK id : id = Len(users) + 1
      OBVIOUS
    <2>2. UP!LoginsUnique' /\ UsersGrow
      BY <1>1, RegisterKeeps DEF SInv, UsersGrow
    <2>3. users' = Append(users, [login |-> l, password |-> p])
      BY <1>1 DEF Users!registerUser
    <2>4. id \in DOMAIN users' /\ users'[id].login = l
      BY <2>1, <2>3, AppendProperties, LenProperties DEF SInv, UP!IInv, UP!TypeOK
    <2> QED
      BY <1>1, <2>1, <2>2, <2>4, AuthenticateSimulates DEF handle_register, procVars
  <1>2. CASE Users!registerUser(l, p, "LoginExists") /\ ReplyOnly(c, "LoginExists")
    BY <1>2, QuietSimulates, SameUsersGrow
       DEF Users!registerUser, ReplyOnly, friendVars, mailVars
  <1> QED
    BY <1>1, <1>2 DEF handle_register

LEMMA LoginSimulates ==
    ASSUME SInv, FriendsRegistered, NEW c \in Conn, NEW l \in Login, NEW p \in Password,
           handle_login(c, l, p)
    PROVE  Simulates
  <1>1. CASE /\ Users!verifyUser(l, p, "OK")
             /\ Authenticate(c, l, Users!getIdByLogin(l))
    <2>1. PICK id : id = Users!getIdByLogin(l)
      OBVIOUS
    <2>2. UP!IInv' /\ UsersGrow /\ UNCHANGED now /\ id \in DOMAIN users' /\ users'[id].login = l
      BY <1>1, <2>1, VerifyFacts DEF SInv, handle_login, procVars
    <2> QED
      BY <1>1, <2>1, <2>2, AuthenticateSimulates DEF UP!IInv
  <1>2. CASE ReplyOnly(c, "IncorrectCredentials")
    BY <1>2, QuietSimulates, SameUsersGrow DEF handle_login, ReplyOnly, friendVars, mailVars
  <1> QED
    BY <1>1, <1>2 DEF handle_login

LEMMA TokenVerifySimulates ==
    ASSUME SInv, FriendsRegistered, NEW c \in Conn, NEW t, handle_token_verify(c, t)
    PROVE  Simulates
  <1>1. CASE Users!TokenError(t) = "OK"
    <2>1. PICK id, l : id = SenderId(t) /\ l = Users!LoginOfToken(t)
      OBVIOUS
    <2>2. UP!IInv' /\ UsersGrow /\ UNCHANGED now /\ UNCHANGED users
      BY LookupKeeps DEF handle_token_verify
    <2>3. l \in Login /\ id \in DOMAIN users' /\ users'[id].login = l
      BY <1>1, <2>1, <2>2, TokenFacts DEF SInv
    <2> QED
      BY <1>1, <2>1, <2>2, <2>3, AuthenticateSimulates DEF handle_token_verify, UP!IInv
  <1>2. CASE Users!TokenError(t) # "OK"
    BY <1>2, QuietSimulates, SameUsersGrow
       DEF handle_token_verify, ReplyOnly, friendVars, mailVars
  <1> QED
    BY <1>1, <1>2

\* saveMessage after the gate accepts a message into the store.
LEMMA SaveSimulates ==
    ASSUME SInv, FriendsRegistered, NEW a \in DOMAIN users, NEW b \in DOMAIN users,
           Friends!areFriends(a, b), Messages!saveMessage(a, b),
           UNCHANGED <<users, friendVars, now, written>>,
           NEW id, id = NewRowid, handed' \in {handed, handed \cup {id}}
    PROVE  Simulates
  <1>1. FriendsRegistered' /\ LoginPairs' = LoginPairs /\ UsersGrow /\ FriendsStay
    BY PairsRest, SameUsersGrow, FriendshipRests DEF friendVars, SInv
  <1>2. /\ MailGrows
        /\ DOMAIN direct_messages' = DOMAIN direct_messages \cup {id}
        /\ \A i \in DOMAIN direct_messages : direct_messages'[i] = direct_messages[i]
        /\ id \notin DOMAIN direct_messages
    BY <1>1, SavedRow DEF SInv
  <1>3. direct_messages' = Append(direct_messages,
            [sender |-> a, recipient |-> b, create_at |-> now, delivered |-> FALSE])
    BY DEF Messages!saveMessage
  <1>4. /\ direct_messages \in Seq(Messages!Message)
        /\ DOMAIN direct_messages = 1..Len(direct_messages) /\ Len(direct_messages) \in Nat
    BY LenProperties DEF SInv, MailInv, Messages!TypeOK
  <1>5. direct_messages'[id] =
            [sender |-> a, recipient |-> b, create_at |-> now, delivered |-> FALSE]
    BY <1>3, <1>4 DEF NewRowid
  <1> DEFINE from == users[a].login
             to == users[b].login
             packet == [from |-> from, to |-> to]
  <1>6. {from, to} \in LoginPairs
    <2>1. PICK f \in Friends!Rows(a, b) : f.status = "accepted"
      BY DEF Friends!areFriends
    <2>2. f \in friendships /\ <<f.user1, f.user2>> \in {<<a, b>>, <<b, a>>}
      BY <2>1 DEF Friends!Rows, Friends!normalize
    <2>3. {users[f.user1].login, users[f.user2].login} = {from, to}
      BY <2>2
    <2> QED
      BY <2>1, <2>2, <2>3 DEF LoginPairs, Users!getLoginById
  <1>7. /\ MailOf = [i \in 1..Len(direct_messages) |-> MailOf[i]]
        /\ Len(MailOf) + 1 = id
    BY <1>4 DEF MailOf, NewRowid
  <1>8. /\ DOMAIN MailOf' = 1..id
        /\ \A i \in 1..Len(direct_messages) : MailOf'[i] = MailOf[i]
        /\ MailOf'[id] = packet
    <2>1. \A i \in DOMAIN direct_messages : MailOf'[i] = MailOf[i]
      BY <1>1, <1>2, MailEntries DEF SInv
    <2>2. DOMAIN MailOf' = 1..id
      BY <1>2, <1>4 DEF MailOf, NewRowid
    <2>3. MailOf'[id] = packet
      BY <1>2, <1>5 DEF MailOf, Users!getLoginById
    <2> QED
      BY <1>4, <2>1, <2>2, <2>3
  <1>9. MailOf' = Append(MailOf, packet)
    <2>1. MailOf' = [i \in 1..id |-> MailOf'[i]]
      BY <1>8 DEF MailOf
    <2> HIDE DEF packet
    <2>2. Append(MailOf, packet) = [i \in 1..id |-> IF i = id THEN packet ELSE MailOf[i]]
      BY <1>7
    <2> QED
      BY <1>4, <1>8, <2>1, <2>2 DEF NewRowid
  <1>10. StoredIds' = StoredIds \cup {id}
    BY <1>2, <1>5 DEF StoredIds
  <1>11. from \in Login /\ to \in Login
    BY UserRow DEF SInv
  <1> HIDE DEF from, to
  <1> QED
    BY <1>1, <1>6, <1>7, <1>9, <1>10, <1>11, StoreAccepts DEF Simulates

LEMMA DirectSimulates ==
    ASSUME SInv, FriendsRegistered, NEW c \in Conn, NEW t, NEW recipient,
           handle_direct_message(c, t, recipient) \/ KilledInDirectMessage(c, t, recipient)
    PROVE  Simulates
  <1>1. CASE DirectError(t, recipient) = "OK"
    <2>1. PICK a, b, id : a = SenderId(t) /\ b = Users!getIdByLogin(recipient) /\ id = NewRowid
      OBVIOUS
    <2>2. a \in DOMAIN users /\ b \in DOMAIN users /\ Friends!areFriends(a, b)
      BY <1>1, <2>1, DirectFacts DEF SInv
    <2>3. /\ Messages!saveMessage(a, b)
          /\ UNCHANGED <<users, friendVars, now, written>>
          /\ handed' \in {handed, handed \cup {id}}
      <3>1. CASE handle_direct_message(c, t, recipient)
        BY <1>1, <2>1, <3>1 DEF handle_direct_message, procVars
      <3>2. CASE KilledInDirectMessage(c, t, recipient)
        BY <2>1, <3>2 DEF KilledInDirectMessage, SessionsLost, userVars
      <3> QED
        BY <3>1, <3>2
    <2> QED
      BY <2>1, <2>2, <2>3, SaveSimulates
  <1>2. CASE DirectError(t, recipient) # "OK"
    BY <1>2, QuietSimulates, SameUsersGrow
       DEF handle_direct_message, KilledInDirectMessage, ReplyOnly, friendVars, mailVars
  <1> QED
    BY <1>1, <1>2

LEMMA CrashSimulates == ASSUME SInv, FriendsRegistered, Crash PROVE Simulates
  BY QuietSimulates, SameUsersGrow DEF Crash, userVars, friendVars

\* The remaining handlers change no table but sessions.
LEMMA OtherHandlersSimulate ==
    ASSUME SInv, FriendsRegistered, NEW c \in Conn, NEW t, NEW peer,
           \/ handle_logout(c, t) \/ handle_message(c, t)
           \/ handle_friend_list(c, t) \/ handle_chat_list(c, t)
           \/ handle_message_history(c, t, peer) \/ handle_unknown(c)
    PROVE  Simulates
  <1>1. CASE Crash
    BY <1>1, CrashSimulates
  <1>2. CASE ~ Crash
    <2>1. UNCHANGED <<users, friendships, direct_messages, handed>>
      BY <1>2 DEF handle_logout, handle_message, handle_friend_list, handle_chat_list,
         handle_message_history, handle_unknown, ReplyOnly, userVars, friendVars, mailVars
    <2> QED
      BY <2>1, QuietSimulates, SameUsersGrow
  <1> QED
    BY <1>1, <1>2

LEMMA KilledSimulates ==
    ASSUME SInv, FriendsRegistered, NEW c \in Conn, NEW l \in Login, NEW p \in Password,
           KilledInRegister(c, l, p) \/ KilledInLogin(c, l, p)
    PROVE  Simulates
  <1>1. UNCHANGED <<friendships, direct_messages, handed>>
    BY DEF KilledInRegister, KilledInLogin, friendVars
  <1>2. UsersGrow
    BY RegisterKeeps, SameUsersGrow DEF KilledInRegister, KilledInLogin, SInv, UsersGrow
  <1> QED
    BY <1>1, <1>2, QuietSimulates

LEMMA NetworkSimulates ==
    ASSUME SInv, FriendsRegistered, NEW c \in Conn,
           start_accept(c) \/ do_write(c) \/ Disconnect(c) \/ Destroy(c)
    PROVE  Simulates
  <1>1. UNCHANGED <<users, friendships, direct_messages, handed>>
    BY DEF start_accept, do_write, Disconnect, Destroy, userVars, friendVars, mailVars
  <1> QED
    BY <1>1, QuietSimulates, SameUsersGrow

LEMMA NextSimulates == SInv /\ FriendsRegistered /\ [Next]_vars => Simulates
  <1> SUFFICES ASSUME SInv, FriendsRegistered, [Next]_vars PROVE Simulates
    OBVIOUS
  <1>1. ASSUME NEW c \in Conn, Handle(c) PROVE Simulates
    BY <1>1, RegisterSimulates, LoginSimulates, TokenVerifySimulates, FriendHandlerSimulates,
       DirectSimulates, OtherHandlersSimulate DEF Handle
  <1>2. ASSUME NEW c \in Conn, Killed(c) PROVE Simulates
    BY <1>2, KilledSimulates, DirectSimulates DEF Killed
  <1>3. ASSUME NEW c \in Conn,
               start_accept(c) \/ do_write(c) \/ Disconnect(c) \/ Destroy(c)
        PROVE  Simulates
    BY <1>3, NetworkSimulates
  <1>4. CASE Crash
    BY <1>4, CrashSimulates
  <1>5. CASE Boot \/ TimerFires \/ Tick
    <2>1. UNCHANGED <<users, friendships, direct_messages, handed>>
      BY <1>5 DEF Boot, TimerFires, Tick, Users!Boot, Users!TimerFires, Users!Tick,
         friendVars, mailVars
    <2> QED
      BY <2>1, QuietSimulates, SameUsersGrow
  <1>6. CASE UNCHANGED vars
    BY <1>6, QuietSimulates, SameUsersGrow DEF vars, userVars, friendVars, mailVars
  <1> QED
    BY <1>1, <1>2, <1>3, <1>4, <1>5, <1>6 DEF Next

LEMMA InitSimulates == Init => FriendsRegistered /\ Store!Init
  <1> SUFFICES ASSUME Init PROVE FriendsRegistered /\ Store!Init
    OBVIOUS
  <1>1. FriendsRegistered
    BY SavedAssumption DEF Init, SavedAssumption, FriendsRegistered
  <1>2. SInv
    BY InitSInv
  <1>3. LoginPairs \subseteq SUBSET Login
    BY <1>1, <1>2, UserRow DEF LoginPairs, FriendsRegistered, SInv, Users!getLoginById
  <1>4. /\ DOMAIN direct_messages = {} /\ handed = {}
    BY DEF Init
  <1>5. MailOf = << >> /\ StoredIds = {}
    BY <1>4 DEF MailOf, StoredIds
  <1> QED
    BY <1>1, <1>3, <1>4, <1>5 DEF Store!Init, LoginPairs, MailOf, StoredIds

-----------------------------------------------------------------------------
\* The server does with messages what the abstract store does, and no more: no
\* sequence of requests, lost connections, kills in the middle of a handler and
\* restarts accepts a message between strangers, or removes one from the backlog
\* without handing it over with the rest of it.
THEOREM Implements == Spec => ImplementsStore
  <1>1. SInv /\ FriendsRegistered /\ [Next]_vars
            => FriendsRegistered' /\ [Store!Next]_(Store!vars)
    BY NextSimulates DEF Simulates
  <1> QED
    BY Invariance, InitSimulates, <1>1, PTL DEF Spec, ImplementsStore, Store!Spec
=============================================================================
