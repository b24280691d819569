---------------------------- MODULE ClientSession ----------------------------
(***************************************************************************)
(* The server: the request handlers of include/client_session.hpp on their *)
(* connections, the SessionManager's map of online users, the three        *)
(* repositories, the accept loop and the TokenCleaner of server/main.cpp,  *)
(* with connections that are lost and a process that is killed and         *)
(* restarted.                                                              *)
(*                                                                         *)
(* io_context.run() is called by one thread, so a completion handler, and  *)
(* with it a whole handle_packet, is one step.  What send_packet posts is  *)
(* written later, packet by packet: outbox[c] is everything posted to c    *)
(* and not yet written, first in first out.                                *)
(*                                                                         *)
(* The client is any program that speaks the protocol: a request carries a *)
(* token it may have been given on another connection (0 is the empty      *)
(* token), and nothing ties it to the login of the connection.             *)
(***************************************************************************)
EXTENDS Integers, Sequences, FiniteSets, Functions

CONSTANTS
    Login, Password,
    Conn,                           \* TCP connections that may exist at one time
    TokenTTL, Interval,
    Requests,                       \* the request types that clients send in this model
    SavedUsers, SavedFriendships,   \* the database found by the first start
    MaxTokens, MaxTime, MaxMessages, MaxOutbox      \* bounds of the model

RequestType == {"REGISTER", "LOGIN", "TOKEN_VERIFY", "LOGOUT", "MESSAGE",
                "FRIEND_REQUEST", "FRIEND_ACCEPT", "FRIEND_REJECT", "FRIEND_LIST",
                "DIRECT_MESSAGE", "MESSAGE_HISTORY", "CHAT_LIST", "UNKNOWN"}

PushType == {"MESSAGE", "DIRECT_MESSAGE", "FRIEND_NEW_REQUEST",
             "FRIEND_REQUEST_ACCEPTED", "FRIEND_REQUEST_REJECTED"}

NoLogin == ""
NoConn == "none"
Expired == "expired"

UserId == Nat \ {0}

VARIABLES
    users, sessions, issued, revoked,           \* UserRepository
    friendships, consent,                       \* FriendRepository
    direct_messages,                            \* MessageRepository
    now, up, timer,                             \* clock, process, TokenCleaner
    socket,                 \* socket[c]: none, open, closing or closed
    current_login,          \* current_login[c] of the ClientSession of c
    online_users,           \* login |-> connection whose session it points to, or Expired
    outbox,                 \* outbox[c]: packets posted to c, not yet written
    authed,                 \* history: logins that c has authenticated as
    handed,                 \* history: messages posted to a session of their recipient
    written                 \* history: messages written to the socket of one

userVars == <<users, sessions, issued, revoked>>
friendVars == <<friendships, consent>>
procVars == <<now, up, timer>>
netVars == <<socket, current_login, online_users, outbox, authed>>
mailVars == <<direct_messages, handed, written>>
vars == <<userVars, friendVars, procVars, netVars, mailVars>>

Users == INSTANCE UserRepository
Friends == INSTANCE FriendRepository
Messages == INSTANCE MessageRepository WITH Party <- UserId, Limit <- 100

ASSUME SessionAssumption ==
    /\ NoLogin \notin Login
    /\ Conn \cap {NoConn, Expired} = {}
    /\ Requests \subseteq RequestType
    /\ MaxOutbox \in Nat
    /\ Users!UserAssumption

\* The saved database is one that the repositories could have left behind.
ASSUME SavedAssumption ==
    /\ SavedUsers \in Seq([login: Login, password: Password])
    /\ \A i, j \in DOMAIN SavedUsers : SavedUsers[i].login = SavedUsers[j].login => i = j
    /\ SavedFriendships \subseteq [user1: DOMAIN SavedUsers, user2: DOMAIN SavedUsers,
                                   status: {"accepted"}, initiator: DOMAIN SavedUsers]
    /\ \A f \in SavedFriendships : f.user1 < f.user2 /\ f.initiator \in {f.user1, f.user2}
    /\ \A f, g \in SavedFriendships : f.user1 = g.user1 /\ f.user2 = g.user2 => f = g

-----------------------------------------------------------------------------
(***************************************************************************)
(* Packets and the queues they are posted to.                              *)
(***************************************************************************)

RESULT(err) == [type |-> "RESULT", ok |-> err = "OK", id |-> 0]
Push(type) == [type |-> type, ok |-> TRUE, id |-> 0]
DirectMessage(i) == [type |-> "DIRECT_MESSAGE", ok |-> TRUE, id |-> i]

Packet == [type: {"RESULT"} \cup PushType, ok: BOOLEAN, id: {0} \cup DOMAIN direct_messages]

\* The packets of which send_packet on the session of c leaves something to
\* write: on a closed socket do_write fails and the queue is never written.
Post(box, c, packets) ==
    IF c \in Conn /\ socket[c] = "open" THEN [box EXCEPT ![c] = @ \o packets] ELSE box

\* The session that getSession finds for a login: the weak_ptr locked.
getSession(l) ==
    IF l \in DOMAIN online_users /\ online_users[l] # Expired THEN online_users[l] ELSE NoConn

\* One packet for every entry of another login whose session is alive.
broadcast(box, sender) ==
    [c \in Conn |->
        LET entries == {l \in DOMAIN online_users \ {sender} : online_users[l] = c}
        IN  IF socket[c] = "open"
            THEN box[c] \o [i \in 1..Cardinality(entries) |-> Push("MESSAGE")]
            ELSE box[c]]

-----------------------------------------------------------------------------
(***************************************************************************)
(* What all handlers share.                                                *)
(***************************************************************************)

\* read_header and read_body have completed with a packet of this type.  A read
\* may already be queued as completed when the socket is closed (closing).
Receives(c, type) ==
    /\ up
    /\ type \in Requests
    /\ socket[c] \in {"open", "closing"}
    /\ \A d \in Conn : Len(outbox[d]) < MaxOutbox
    /\ socket' = [socket EXCEPT ![c] = IF @ = "closing" THEN "closed" ELSE @]

\* The checks that the handlers naming another user begin with.
GateError(t, target) ==
    IF Users!TokenError(t) # "OK" THEN Users!TokenError(t)
    ELSE IF ~ Users!userExists(target) THEN "NotFound"
    ELSE "OK"

SenderId(t) == Users!getIdByLogin(Users!LoginOfToken(t))

\* handle_packet after a handler that has no effect but its RESULT.
ReplyOnly(c, err) ==
    /\ outbox' = Post(outbox, c, <<RESULT(err)>>)
    /\ UNCHANGED <<friendVars, current_login, online_users, authed, mailVars>>

\* Wrong backlogs: none, and the latest message first.
NoBacklog(id) == {<< >>}
BacklogLatestFirst(id) ==
    {[i \in DOMAIN q |-> q[Len(q) + 1 - i]] : q \in Messages!getUndelivered(id)}

\* The messages deliver_pending reads, in an order the query may give them.
Backlog(id) == Messages!getUndelivered(id)

\* A wrong list of ids: every row of the table.
AllIds(q) == DOMAIN direct_messages

\* The ids deliver_pending collects for markDelivered, one per packet sent.
SentIds(q) == Range(q)

\* handle_packet once is_auth_success: current_login, deliver_pending, addUser,
\* and the RESULT after the messages.
Authenticate(c, l, id) ==
    \E q \in Backlog(id) :
        /\ current_login' = [current_login EXCEPT ![c] = l]
        /\ authed' = [authed EXCEPT ![c] = @ \cup {l}]
        /\ Messages!markDelivered(SentIds(q))
        /\ handed' = handed \cup Range(q)
        /\ online_users' = [m \in DOMAIN online_users \cup {l} |->
                                IF m = l THEN c ELSE online_users[m]]
        /\ outbox' = Post(outbox, c,
                          [i \in DOMAIN q |-> DirectMessage(q[i])] \o <<RESULT("OK")>>)
        /\ UNCHANGED <<written, friendVars>>

-----------------------------------------------------------------------------
(***************************************************************************)
(* The handlers, one per request type.                                     *)
(***************************************************************************)

\* registerUser, then verifyUser with the same password, which succeeds.
handle_register(c, l, p) ==
    /\ Receives(c, "REGISTER")
    /\ \/ /\ Users!registerUser(l, p, "OK")
          /\ Users!issueToken(Len(users) + 1)
          /\ Authenticate(c, l, Len(users) + 1)
       \/ /\ Users!registerUser(l, p, "LoginExists")
          /\ ReplyOnly(c, "LoginExists")
          /\ UNCHANGED <<sessions, issued>>
    /\ UNCHANGED <<revoked, procVars>>

handle_login(c, l, p) ==
    /\ Receives(c, "LOGIN")
    /\ \/ /\ Users!verifyUser(l, p, "OK")
          /\ Authenticate(c, l, Users!getIdByLogin(l))
       \/ /\ Users!verifyUser(l, p, "IncorrectCredentials")
          /\ ReplyOnly(c, "IncorrectCredentials")
    /\ UNCHANGED <<users, revoked, procVars>>

handle_token_verify(c, t) ==
    /\ Receives(c, "TOKEN_VERIFY")
    /\ Users!getLoginByToken(t)
    /\ \/ /\ Users!TokenError(t) = "OK"
          /\ Authenticate(c, Users!LoginOfToken(t), SenderId(t))
       \/ /\ Users!TokenError(t) # "OK"
          /\ ReplyOnly(c, Users!TokenError(t))
    /\ UNCHANGED <<users, issued, revoked, procVars>>

\* A wrong handle_logout: the token's owner is removed from online_users, whatever
\* connection the entry leads to.
handle_logout_of_owner(c, t) ==
    /\ Receives(c, "LOGOUT")
    /\ Users!logout(t)
    /\ current_login' = [current_login EXCEPT ![c] = NoLogin]
    /\ online_users' = IF t \in DOMAIN sessions
                       THEN Restrict(online_users, DOMAIN online_users \ {Users!LoginOfToken(t)})
                       ELSE online_users
    /\ UNCHANGED <<users, issued, friendVars, procVars, outbox, authed, mailVars>>

\* No RESULT, and online_users keeps its entry.
handle_logout(c, t) ==
    /\ Receives(c, "LOGOUT")
    /\ Users!logout(t)
    /\ current_login' = [current_login EXCEPT ![c] = NoLogin]
    /\ UNCHANGED <<users, issued, friendVars, procVars, online_users, outbox, authed, mailVars>>

handle_message(c, t) ==
    /\ Receives(c, "MESSAGE")
    /\ Users!getLoginByToken(t)
    /\ \/ /\ Users!TokenError(t) = "OK"
          /\ outbox' = Post(broadcast(outbox, Users!LoginOfToken(t)), c, <<RESULT("OK")>>)
          /\ UNCHANGED <<friendVars, current_login, online_users, authed, mailVars>>
       \/ /\ Users!TokenError(t) # "OK"
          /\ ReplyOnly(c, Users!TokenError(t))
    /\ UNCHANGED <<users, issued, revoked, procVars>>

\* After the friendship operation: on success the other user is told, if a
\* session is found for the login, and the RESULT follows in any case.
NotifyAndReply(c, target, type, err) ==
    LET told == IF err = "OK" THEN Post(outbox, getSession(target), <<Push(type)>>) ELSE outbox
    IN  /\ outbox' = Post(told, c, <<RESULT(err)>>)
        /\ UNCHANGED <<current_login, online_users, authed, mailVars>>

\* The checks before the friendship operation fail.
FriendRefused(c, t, target) ==
    /\ GateError(t, target) # "OK"
    /\ ReplyOnly(c, GateError(t, target))

handle_friend_request(c, t, target) ==
    /\ Receives(c, "FRIEND_REQUEST")
    /\ Users!getLoginByToken(t)
    /\ \/ FriendRefused(c, t, target)
       \/ /\ GateError(t, target) = "OK"
          /\ \E err \in Friends!FriendError :
                /\ Friends!sendRequest(SenderId(t), Users!getIdByLogin(target), err)
                /\ NotifyAndReply(c, target, "FRIEND_NEW_REQUEST", err)
    /\ UNCHANGED <<users, issued, revoked, procVars>>

handle_friend_accept(c, t, target) ==
    /\ Receives(c, "FRIEND_ACCEPT")
    /\ Users!getLoginByToken(t)
    /\ \/ FriendRefused(c, t, target)
       \/ /\ GateError(t, target) = "OK"
          /\ \E err \in Friends!FriendError :
                /\ Friends!acceptRequest(SenderId(t), Users!getIdByLogin(target), err)
                /\ NotifyAndReply(c, target, "FRIEND_REQUEST_ACCEPTED", err)
    /\ UNCHANGED <<users, issued, revoked, procVars>>

handle_friend_reject(c, t, target) ==
    /\ Receives(c, "FRIEND_REJECT")
    /\ Users!getLoginByToken(t)
    /\ \/ FriendRefused(c, t, target)
       \/ /\ GateError(t, target) = "OK"
          /\ \E err \in Friends!FriendError :
                /\ Friends!rejectRequest(SenderId(t), Users!getIdByLogin(target), err)
                /\ NotifyAndReply(c, target, "FRIEND_REQUEST_REJECTED", err)
    /\ UNCHANGED <<users, issued, revoked, procVars>>

\* A wrong gate: no areFriends.
DirectErrorUngated(t, recipient) == GateError(t, recipient)

\* The gate of handle_direct_message: also a friend of the recipient.
DirectError(t, recipient) ==
    IF GateError(t, recipient) # "OK" THEN GateError(t, recipient)
    ELSE IF ~ Friends!areFriends(SenderId(t), Users!getIdByLogin(recipient)) THEN "NotFriends"
    ELSE "OK"

\* A wrong id: the one of the insertion before.
StaleRowid == Len(direct_messages)

\* getLastInsertRowid after the INSERT of saveMessage.
NewRowid == Len(direct_messages) + 1

\* The row is saved with delivered = 0 whether or not a session is found, and
\* the message posted to the session looked up before the save.
handle_direct_message(c, t, recipient) ==
    LET id == NewRowid
        session == getSession(recipient)
    IN  /\ Receives(c, "DIRECT_MESSAGE")
        /\ Users!getLoginByToken(t)
        /\ \/ /\ DirectError(t, recipient) = "OK"
              /\ Messages!saveMessage(SenderId(t), Users!getIdByLogin(recipient))
              /\ outbox' = Post(Post(outbox, session, <<DirectMessage(id)>>), c, <<RESULT("OK")>>)
              /\ handed' = IF session = NoConn THEN handed ELSE handed \cup {id}
              /\ UNCHANGED <<friendVars, current_login, online_users, authed, written>>
           \/ /\ DirectError(t, recipient) # "OK"
              /\ ReplyOnly(c, DirectError(t, recipient))
        /\ UNCHANGED <<users, issued, revoked, procVars>>

\* FRIEND_LIST and CHAT_LIST only read the database; what they answer is
\* checked with the repositories.
handle_friend_list(c, t) ==
    /\ Receives(c, "FRIEND_LIST")
    /\ Users!getLoginByToken(t)
    /\ ReplyOnly(c, Users!TokenError(t))
    /\ UNCHANGED <<users, issued, revoked, procVars>>

handle_chat_list(c, t) ==
    /\ Receives(c, "CHAT_LIST")
    /\ Users!getLoginByToken(t)
    /\ ReplyOnly(c, Users!TokenError(t))
    /\ UNCHANGED <<users, issued, revoked, procVars>>

\* The default branch of handle_packet.
handle_unknown(c) ==
    /\ Receives(c, "UNKNOWN")
    /\ UNCHANGED <<userVars, friendVars, procVars, current_login, online_users, outbox,
                   authed, mailVars>>

-----------------------------------------------------------------------------
(***************************************************************************)
(* The process.  The database survives it, sessions and queues do not.     *)
(***************************************************************************)

SessionsLost ==
    /\ Users!Stop
    /\ socket' = [c \in Conn |-> "none"]
    /\ current_login' = [c \in Conn |-> NoLogin]
    /\ online_users' = << >>
    /\ outbox' = [c \in Conn |-> << >>]
    /\ authed' = [c \in Conn |-> {}]
    /\ UNCHANGED <<now, written>>

Crash ==
    /\ SessionsLost
    /\ UNCHANGED <<userVars, friendVars, direct_messages, handed>>

\* peer_id.value() of a login that does not exist throws: the exception leaves
\* io_context.run() and ends main.
handle_message_history(c, t, peer) ==
    \/ /\ Receives(c, "MESSAGE_HISTORY")
       /\ Users!getLoginByToken(t)
       /\ Users!TokenError(t) = "OK" => Users!userExists(peer)
       /\ ReplyOnly(c, Users!TokenError(t))
       /\ UNCHANGED <<users, issued, revoked, procVars>>
    \/ /\ "MESSAGE_HISTORY" \in Requests
       /\ socket[c] \in {"open", "closing"}
       /\ Users!TokenError(t) = "OK" /\ ~ Users!userExists(peer)
       /\ Crash

\* Killed inside handle_register, between registerUser and verifyUser.
KilledInRegister(c, l, p) ==
    /\ "REGISTER" \in Requests /\ socket[c] \in {"open", "closing"}
    /\ SessionsLost
    /\ Users!registerUser(l, p, "OK")
    /\ UNCHANGED <<sessions, issued, revoked, friendVars, direct_messages, handed>>

\* Killed after verifyUser and before markDelivered: what deliver_pending has
\* posted by then is lost with the queues.
KilledInLogin(c, l, p) ==
    /\ "LOGIN" \in Requests /\ socket[c] \in {"open", "closing"}
    /\ SessionsLost
    /\ Users!verifyUser(l, p, "OK")
    /\ UNCHANGED <<users, revoked, friendVars, direct_messages, handed>>

\* Killed inside handle_direct_message, after saveMessage.
KilledInDirectMessage(c, t, recipient) ==
    /\ "DIRECT_MESSAGE" \in Requests /\ socket[c] \in {"open", "closing"}
    /\ DirectError(t, recipient) = "OK"
    /\ SessionsLost
    /\ Messages!saveMessage(SenderId(t), Users!getIdByLogin(recipient))
    /\ UNCHANGED <<userVars, friendVars, handed>>

Boot ==
    /\ Users!Boot
    /\ UNCHANGED <<friendVars, netVars, mailVars>>

TimerFires ==
    /\ Users!TimerFires
    /\ UNCHANGED <<friendVars, netVars, mailVars>>

Tick ==
    /\ Users!Tick
    /\ UNCHANGED <<friendVars, netVars, mailVars>>

-----------------------------------------------------------------------------
(***************************************************************************)
(* Connections.                                                            *)
(***************************************************************************)

\* start_accept: a new socket, a new ClientSession, its first read_header.
start_accept(c) ==
    /\ up
    /\ socket[c] = "none"
    /\ socket' = [socket EXCEPT ![c] = "open"]
    /\ UNCHANGED <<userVars, friendVars, procVars, current_login, online_users, outbox,
                   authed, mailVars>>

\* A wrong do_write: the queue is not taken up again after a write while others
\* are waiting.
do_write_alone(c) ==
    /\ socket[c] = "open"
    /\ Len(outbox[c]) = 1
    /\ outbox' = [outbox EXCEPT ![c] = Tail(@)]
    /\ written' = IF Head(outbox[c]).type = "DIRECT_MESSAGE"
                  THEN written \cup {Head(outbox[c]).id} ELSE written
    /\ UNCHANGED <<userVars, friendVars, procVars, socket, current_login, online_users,
                   authed, direct_messages, handed>>

\* do_write has written the first packet and pops it.
do_write(c) ==
    /\ socket[c] = "open"
    /\ outbox[c] # << >>
    /\ outbox' = [outbox EXCEPT ![c] = Tail(@)]
    /\ written' = IF Head(outbox[c]).type = "DIRECT_MESSAGE"
                  THEN written \cup {Head(outbox[c]).id} ELSE written
    /\ UNCHANGED <<userVars, friendVars, procVars, socket, current_login, online_users,
                   authed, direct_messages, handed>>

\* A read or a write fails and the socket is closed: the session lives on until
\* its last handler has run, and what it had queued is never written.
Disconnect(c) ==
    /\ socket[c] = "open"
    /\ \E s \in {"closing", "closed"} : socket' = [socket EXCEPT ![c] = s]
    /\ outbox' = [outbox EXCEPT ![c] = << >>]
    /\ UNCHANGED <<userVars, friendVars, procVars, current_login, online_users, authed,
                   mailVars>>

\* A wrong map: entries outlive the session they lead to.
EntriesKept(c) == online_users

\* The entries of the map when the session of c is gone: the weak_ptrs to it
\* expire, and the destructor erases the entry of current_login, if any.
EntriesWithout(c) ==
    [l \in DOMAIN online_users \ {current_login[c]} |->
        IF online_users[l] = c THEN Expired ELSE online_users[l]]

\* ~ClientSession, when the last handler that held the session has run.
Destroy(c) ==
    /\ socket[c] = "closed"
    /\ socket' = [socket EXCEPT ![c] = "none"]
    /\ online_users' = EntriesWithout(c)
    /\ current_login' = [current_login EXCEPT ![c] = NoLogin]
    /\ authed' = [authed EXCEPT ![c] = {}]
    /\ UNCHANGED <<userVars, friendVars, procVars, outbox, mailVars>>

-----------------------------------------------------------------------------
Init ==
    /\ users = SavedUsers
    /\ friendships = SavedFriendships
    /\ consent = UNION {{<<f.user1, f.user2>>, <<f.user2, f.user1>>} : f \in SavedFriendships}
    /\ sessions = << >> /\ issued = << >> /\ revoked = {}
    /\ direct_messages = << >> /\ handed = {} /\ written = {}
    /\ now = 0 /\ up = FALSE /\ timer = 0
    /\ socket = [c \in Conn |-> "none"]
    /\ current_login = [c \in Conn |-> NoLogin]
    /\ online_users = << >>
    /\ outbox = [c \in Conn |-> << >>]
    /\ authed = [c \in Conn |-> {}]

Tokens == 0..Len(issued)

Handle(c) ==
    \/ \E l \in Login, p \in Password : handle_register(c, l, p) \/ handle_login(c, l, p)
    \/ \E t \in Tokens : \/ handle_token_verify(c, t)
                         \/ handle_logout(c, t)
                         \/ handle_message(c, t)
                         \/ handle_friend_list(c, t)
                         \/ handle_chat_list(c, t)
    \/ \E t \in Tokens, l \in Login : \/ handle_friend_request(c, t, l)
                                      \/ handle_friend_accept(c, t, l)
                                      \/ handle_friend_reject(c, t, l)
                                      \/ handle_direct_message(c, t, l)
                                      \/ handle_message_history(c, t, l)
    \/ handle_unknown(c)

Killed(c) ==
    \/ \E l \in Login, p \in Password : KilledInRegister(c, l, p) \/ KilledInLogin(c, l, p)
    \/ \E t \in Tokens, l \in Login : KilledInDirectMessage(c, t, l)

Next ==
    \/ \E c \in Conn : \/ Handle(c) \/ Killed(c)
                       \/ start_accept(c) \/ do_write(c) \/ Disconnect(c) \/ Destroy(c)
    \/ Crash \/ Boot \/ TimerFires \/ Tick

\* The loop gets to a write whose socket stays open, and to the last handler of a
\* closed session; clients, failures and restarts are under no obligation.
Fairness == \A c \in Conn : WF_vars(do_write(c)) /\ WF_vars(Destroy(c))

Spec == Init /\ [][Next]_vars

FairSpec == Spec /\ Fairness

-----------------------------------------------------------------------------
(***************************************************************************)
(* Properties.                                                             *)
(***************************************************************************)

NetTypeOK ==
    /\ socket \in [Conn -> {"none", "open", "closing", "closed"}]
    /\ current_login \in [Conn -> Login \cup {NoLogin}]
    /\ DOMAIN online_users \subseteq Login
    /\ \A l \in DOMAIN online_users : online_users[l] \in Conn \cup {Expired}
    /\ outbox \in [Conn -> Seq(Packet)]
    /\ authed \in [Conn -> SUBSET Login]
    /\ handed \subseteq DOMAIN direct_messages
    /\ written \subseteq handed

\* Types of the server's state; only messages that exist are queued, and only
\* messages handed to a session are written.
TypeOK ==
    /\ Users!TypeOK
    /\ Friends!TypeOK
    /\ Messages!TypeOK
    /\ NetTypeOK

Recipient(i) == Users!getLoginById(direct_messages[i].recipient)

\* The numbers of the direct messages that a step posts to c.
PostedTo(c) ==
    LET new == SubSeq(outbox'[c], Len(outbox[c]) + 1, Len(outbox'[c]))
    IN  [k \in DOMAIN new |-> new[k].id]

\* Every stored direct message is between friends: no order of requests,
\* answers, logins and restarts gets one past areFriends.
OnlyFriendsExchange ==
    \A i \in DOMAIN direct_messages :
        Friends!areFriends(direct_messages[i].sender, direct_messages[i].recipient)

\* No message is dropped from the backlog without having been posted to a session
\* of its recipient: markDelivered covers no more than deliver_pending sent.
NothingForgotten ==
    \A i \in DOMAIN direct_messages : direct_messages[i].delivered => i \in handed

\* While SessionManager has a session for a user, no message waits for that user
\* in the database without having been posted: deliver_pending comes before
\* addUser, handle_direct_message posts what it saves, and every way of going
\* online (REGISTER, LOGIN, TOKEN_VERIFY) runs both.
BacklogOnlyOffline ==
    \A i \in DOMAIN direct_messages :
        ~ direct_messages[i].delivered /\ i \notin handed => getSession(Recipient(i)) = NoConn

\* A direct message is queued only on a connection that has authenticated as its
\* recipient, whatever was lost, closed, accepted again or logged out since: an
\* entry of online_users never leads to a session of somebody else's connection.
QueuedForItsRecipient ==
    \A c \in Conn : \A k \in DOMAIN outbox[c] :
        outbox[c][k].type = "DIRECT_MESSAGE" => Recipient(outbox[c][k].id) \in authed[c]

\* The messages that one step posts to a connection, the backlog of a login among
\* them, are in the order they were sent, to the second.
BacklogInOrder ==
    [][\A c \in Conn :
        LET p == PostedTo(c)
        IN  \A j, k \in DOMAIN p : j < k /\ p[j] # 0 /\ p[k] # 0 =>
                direct_messages'[p[j]].create_at <= direct_messages'[p[k]].create_at]_vars

\* Message i is in the queue of connection c.
Queued(c, i) == \E k \in DOMAIN outbox[c] : outbox[c][k].id = i

\* A user who is online on c stays reachable there until c itself ends or changes
\* its login, the server stops, or another connection of the same user takes over
\* or goes away: nobody else's login, logout or disconnection interferes.
ReachableUntilReplaced ==
    [][\A c \in Conn : LET l == current_login[c]
                       IN  \/ getSession(l) # c
                           \/ getSession(l)' = c
                           \/ current_login'[c] # l
                           \/ \E d \in Conn \ {c} : l \in authed[d] \cup authed'[d]]_vars

\* What is queued on a connection leaves its queue: written, or lost with the
\* connection or the server.  Packets of every kind, because the queue is empty
\* or gets shorter again and again; and each message, on every connection that
\* it is posted to, whether it has been written to another one or not.
QueuedLeaves ==
    \A c \in Conn :
        /\ []<>(outbox[c] = << >>) \/ []<><<Len(outbox'[c]) < Len(outbox[c])>>_vars
        /\ \A i \in 1..MaxMessages : Queued(c, i) ~> ~ Queued(c, i)

\* A connection that is closed is eventually no longer the one getSession finds
\* for any user, unless a new connection has taken its place.
ClosedIsForgotten ==
    \A c \in Conn : \A l \in Login :
        (socket[c] = "closed" /\ getSession(l) = c)
            ~> (getSession(l) # c \/ socket[c] = "open")

-----------------------------------------------------------------------------
(***************************************************************************)
(* Refinement.  The tables implement the abstract store: the rows without  *)
(* the delivered flag are what is stored, the messages posted to a session *)
(* of the recipient are what is handed over.                               *)
(***************************************************************************)

Store == INSTANCE StoreAndForward WITH
    User <- Login,
    friends <- {{Users!getLoginById(f.user1), Users!getLoginById(f.user2)} :
                    f \in {g \in friendships : g.status = "accepted"}},
    mail <- [i \in DOMAIN direct_messages |->
                [from |-> Users!getLoginById(direct_messages[i].sender),
                 to |-> Users!getLoginById(direct_messages[i].recipient)]],
    stored <- {i \in DOMAIN direct_messages : ~ direct_messages[i].delivered},
    handedOver <- handed

\* Every step of the server is a step of the store or leaves it as it is: also
\* crashes, kills in the middle of a handler, restarts and lost connections.
ImplementsStore == Store!Spec

-----------------------------------------------------------------------------
(***************************************************************************)
(* What README.md says of the delivery of messages and the code does not   *)
(* keep.                                                                   *)
(***************************************************************************)

\* A message is posted to its recipient once.
PostedOnce ==
    [][\A c \in Conn : LET p == PostedTo(c)
                       IN  \A k \in DOMAIN p : p[k] # 0 => p[k] \notin handed]_vars

\* A message posted to a connection is for the user logged in there.
PostedToCurrentLogin ==
    [][\A c \in Conn : LET p == PostedTo(c)
                       IN  \A k \in DOMAIN p : p[k] # 0 =>
                               current_login'[c] = Users!getLoginById(
                                   direct_messages'[p[k]].recipient)]_vars

\* A user logged in on an open connection is reached by a broadcast.
OnlineIsReachable ==
    \A c \in Conn : socket[c] = "open" /\ current_login[c] # NoLogin =>
        getSession(current_login[c]) # NoConn

\* A message that is no longer in the backlog was written to a connection of its
\* recipient, or is about to be.
FlaggedIsWritten ==
    \A i \in DOMAIN direct_messages : direct_messages[i].delivered =>
        \/ i \in written
        \/ \E c \in Conn : Queued(c, i)
=============================================================================
