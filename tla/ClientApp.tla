------------------------------ MODULE ClientApp ------------------------------
(***************************************************************************)
(* The graphical client: client/main.cpp, ClientHandlerQml, NetworkBridge, *)
(* TokenStorage and the QML screens, with the server as this client meets  *)
(* it on its one connection.                                               *)
(*                                                                         *)
(* A handler of the Qt thread (a click, a queued signal, the timer) is one *)
(* step, the packets it sends included.  A screen that StackView replaces  *)
(* or pops is gone at once.  The process may end at any point and be       *)
(* started again: the file with the token is what it keeps.                *)
(*                                                                         *)
(* Both directions of the connection are first in first out, and a RESULT  *)
(* is given to the callback of the request it answers: that is what module *)
(* Connection shows of NetworkSession and ClientAsyncHandler.  The server  *)
(* serves the packets in order.  What the peers do is theirs to choose.    *)
(***************************************************************************)
EXTENDS Protocol, Naturals, Sequences, FiniteSets, Functions

CONSTANTS
    Login,              \* accounts of the person at this client
    Peer,               \* their friends, at other clients
    SavedTokens,        \* owners of the tokens issued to this client before
    SavedMail,          \* messages stored before, not yet delivered
    HistoryLimit,       \* how many messages a history has at most
    MaxClicks, MaxEvents        \* bounds of the model: what the user does, and what happens

NoLogin == ""
NoPeer == ""

ASSUME ClientAssumption ==
    /\ NoLogin \notin Login /\ NoPeer \notin Peer
    /\ SavedTokens \in Seq(Login)
    /\ SavedMail \in Seq([user: Login, peer: Peer, incoming: BOOLEAN])
    /\ HistoryLimit \in Nat

VARIABLES
    connected,      \* the socket is open
    sent,           \* packets on their way to the server
    received,       \* packets on their way to the Qt thread
    token,          \* ClientHandlerQml::token, 0 when empty
    file,           \* the token in TokenStorage's file, 0 when there is none
    stack,          \* the screens on stackView
    tokenCheckTimer,
    lists,          \* what MainScreen's pages show: the friend list and the chat list
    page,           \* DirectMessagePage: its peer, the messages shown, the token of its request
    clicks,         \* how often the user has clicked
    events,         \* how often a peer, the network or the system has acted
    owner, dead,    \* tokens the server issued, and those expired or logged out
    current_login,  \* of the session of this connection
    entries,        \* logins whose entry in online_users leads to that session
    old_logins,     \* current_login of the sessions of earlier connections, until they end
    mail,           \* direct_messages of the accounts, in order
    delivered,      \* ids of those flagged as delivered
    friendships     \* friendships[l]: how often the friend list of l has changed

netVars == <<connected, sent, received>>
appVars == <<token, file, stack, tokenCheckTimer, lists, page>>
serverVars == <<owner, dead, current_login, entries, old_logins, mail, delivered, friendships>>
vars == <<netVars, appVars, serverVars, clicks, events>>

NoLists == [friends |-> [whose |-> NoLogin, version |-> 0], chats |-> [whose |-> NoLogin, ids |-> {}]]
NoPage == [peer |-> NoPeer, shown |-> {}, token |-> 0]

-----------------------------------------------------------------------------
(***************************************************************************)
(* Requests, screens and the Qt thread.                                    *)
(***************************************************************************)

Request(type, t, peer) == [type |-> type, token |-> t, login |-> NoLogin, peer |-> peer]
AuthRequest(type, l) == [type |-> type, token |-> 0, login |-> l, peer |-> NoPeer]
getFriendList(t) == <<Request("FRIEND_LIST", t, NoPeer)>>
getLastMessages(t) == <<Request("CHAT_LIST", t, NoPeer)>>

\* FriendsPage and ChatListPage load what they show, when they are created and when
\* tokenReady is emitted; QML does not say which of the two is first.
PageLoads(t) ==
    LET friends == getFriendList(t)
        chats == getLastMessages(t) \o getFriendList(t)
    IN  {friends \o chats, chats \o friends}

\* Component.onCompleted of the pages of a new MainScreen: only if isTokenReady.
Completed(t) == IF t = 0 THEN {<< >>} ELSE PageLoads(t)

Top == stack[Len(stack)]
Shown(screen) == screen \in Range(stack)

\* Something happens that neither the program nor its user does.
Happens == events < MaxEvents /\ events' = events + 1 /\ UNCHANGED clicks

\* The event sends these packets; on a closed socket they go nowhere.
Sends(packets) ==
    /\ sent' = IF connected THEN sent \o packets ELSE sent
    /\ UNCHANGED connected

\* The Qt thread takes a click, for which the screen must be on top.
Click(screen) ==
    /\ Top = screen
    /\ clicks < MaxClicks /\ clicks' = clicks + 1
    /\ UNCHANGED <<received, tokenCheckTimer, serverVars, events>>

Packet == Head(received)

\* The Qt thread takes the next signal that NetworkBridge has queued.
Takes(name) ==
    /\ received # << >>
    /\ name = Callback(Packet.type, Packet.to)
    /\ received' = Tail(received)
    /\ UNCHANGED <<serverVars, clicks, events>>

\* stackView.replace: a new screen instead of the one on top.
Replace(screen) ==
    /\ stack' = [stack EXCEPT ![Len(stack)] = screen]
    /\ lists' = IF Len(stack) = 1 THEN NoLists ELSE lists
    /\ page' = NoPage

-----------------------------------------------------------------------------
(***************************************************************************)
(* Start, sign in, sign out.                                               *)
(***************************************************************************)

\* tokenCheckTimer is started when there is a token to verify.
Timed == file # 0

\* Without a saved token there is nothing to wait for.
checkSavedToken == IF file = 0 THEN << >> ELSE <<Request("TOKEN_VERIFY", file, NoPeer)>>
FirstScreen == IF file = 0 THEN <<"Auth">> ELSE <<"Loading">>

\* The process has been started, with or without a token from an earlier time.
Init ==
    /\ file \in 0..Len(SavedTokens)
    /\ stack = FirstScreen /\ tokenCheckTimer = Timed /\ sent = checkSavedToken
    /\ connected = TRUE /\ received = << >>
    /\ token = 0 /\ lists = NoLists /\ page = NoPage /\ clicks = 0 /\ events = 0
    /\ owner = SavedTokens /\ dead = {} /\ current_login = NoLogin /\ entries = {} /\ old_logins = {}
    /\ mail = SavedMail /\ delivered = {} /\ friendships = [l \in Login |-> 0]

\* The connection is over for the client; the server's session of it lives on until
\* its last handler has run.
SessionLeft ==
    /\ old_logins' = old_logins \cup ({current_login} \ {NoLogin})
    /\ current_login' = NoLogin
    /\ entries' = {}

\* The process has ended, with whatever was under way, and is started again: a new
\* connection, checkSavedToken, and the login screen if there is no saved token.
Start ==
    /\ Happens
    /\ sent' = checkSavedToken /\ stack' = FirstScreen /\ tokenCheckTimer' = Timed
    /\ token' = 0 /\ lists' = NoLists /\ page' = NoPage
    /\ connected' = TRUE /\ received' = << >>
    /\ SessionLeft
    /\ UNCHANGED <<file, owner, dead, mail, delivered, friendships>>

\* Five seconds without an answer to TOKEN_VERIFY.
TimerTriggered ==
    /\ tokenCheckTimer
    /\ tokenCheckTimer' = FALSE
    /\ Replace("Auth")
    /\ UNCHANGED <<netVars, token, file, serverVars, clicks, events>>

\* A wrong onTokenVerify: the timer runs on.
TimerRunsOn == tokenCheckTimer

\* tokenCheckTimer.stop().
TimerStopped == FALSE

\* main.cpp sets the token to the one in the file, then Main.qml changes the screen.
onTokenVerify ==
    /\ Takes("tokenVerify")
    /\ tokenCheckTimer' = TimerStopped
    /\ IF Packet.ok
       THEN /\ token' = file
            /\ Replace("Main")
            /\ \E q \in Completed(file) : Sends(q)
       ELSE /\ Replace("Auth")
            /\ Sends(<< >>)
            /\ UNCHANGED token
    /\ UNCHANGED file

loginUser(l) ==
    /\ Click("Auth")
    /\ Sends(<<AuthRequest("LOGIN", l)>>)
    /\ UNCHANGED <<token, file, stack, lists, page>>

registerUser(l) ==
    /\ Click("Auth")
    /\ Sends(<<AuthRequest("REGISTER", l)>>)
    /\ UNCHANGED <<token, file, stack, lists, page>>

\* A wrong tokenReady: pages that exist already do not load again.
ReloadsNothing(t) == {<< >>}

\* tokenReady: the pages of a MainScreen that exists load again.
Reloads(t) == IF Shown("Main") THEN PageLoads(t) ELSE {<< >>}

\* A wrong setToken: a client that has a token keeps it.
FirstToken(t) == IF token = 0 THEN t ELSE token

\* setToken.
NewToken(t) == t

\* main.cpp sets and saves the token, then an AuthScreen, if there is one, changes
\* the screen.  After a failure the AuthScreen shows why.
onAuthResult ==
    /\ Takes("authResult")
    /\ IF Packet.ok
       THEN /\ token' = NewToken(Packet.token) /\ file' = token'
            /\ IF Shown("Auth")
               THEN /\ Replace("Main")
                    /\ \E q \in Completed(Packet.token) : Sends(q)
               ELSE /\ \E q \in Reloads(Packet.token) : Sends(q)
                    /\ UNCHANGED <<stack, lists, page>>
       ELSE /\ Sends(<< >>)
            /\ UNCHANGED <<token, file, stack, lists, page>>
    /\ UNCHANGED tokenCheckTimer

\* A wrong logout: only the file is cleared.
TokenKept == token

\* The token of a client that has logged out.
TokenCleared == 0

\* Sidebar: the token is logged out and forgotten, then the login screen is shown.
logout ==
    /\ Click("Main")
    /\ Sends(IF token = 0 THEN << >> ELSE <<Request("LOGOUT", token, NoPeer)>>)
    /\ token' = TokenCleared /\ file' = 0
    /\ Replace("Auth")

-----------------------------------------------------------------------------
(***************************************************************************)
(* MainScreen's pages and DirectMessagePage.                               *)
(***************************************************************************)

\* The lists are shown as they come, errors and the answers to an earlier token's
\* requests too.
onFriendListReceived ==
    /\ Takes("friendListReceived")
    /\ lists' = IF Shown("Main")
                THEN [lists EXCEPT !.friends = [whose |-> Packet.whose, version |-> Packet.version]]
                ELSE lists
    /\ Sends(<< >>)
    /\ UNCHANGED <<token, file, stack, tokenCheckTimer, page>>

onChatListReceived ==
    /\ Takes("chatListReceived")
    /\ lists' = IF Shown("Main")
                THEN [lists EXCEPT !.chats = [whose |-> Packet.whose, ids |-> Packet.ids]]
                ELSE lists
    /\ Sends(<< >>)
    /\ UNCHANGED <<token, file, stack, tokenCheckTimer, page>>

\* A wrong loadHistory: what the page shows already is kept.
loadHistoryAdding(ids) == page.shown \cup ids

\* loadHistory: the list is cleared first.
loadHistory(ids) == ids

\* The answer does not say whose history it is.
onHistoryReceived ==
    /\ Takes("historyReceived")
    /\ page' = IF Shown("Chat") THEN [page EXCEPT !.shown = loadHistory(Packet.ids)] ELSE page
    /\ Sends(<< >>)
    /\ UNCHANGED <<token, file, stack, tokenCheckTimer, lists>>

\* A wrong onDirectMessageReceived: the page relies on the history.
NotAppended(ids) == page.shown

\* messageModel.append.
Appended(ids) == page.shown \cup ids

\* DirectMessagePage appends what its peer sends, ChatListPage loads its list again.
onDirectMessageReceived ==
    /\ Takes("directMessageReceived")
    /\ page' = IF Shown("Chat") /\ Packet.peer = page.peer
               THEN [page EXCEPT !.shown = Appended(Packet.ids)] ELSE page
    /\ Sends(IF Shown("Main") THEN getLastMessages(token) ELSE << >>)
    /\ UNCHANGED <<token, file, stack, tokenCheckTimer, lists>>

\* FriendsPage loads the friend list again.
onFriendNewRequest ==
    /\ Takes("friendNewRequest")
    /\ Sends(IF Shown("Main") THEN getFriendList(token) ELSE << >>)
    /\ UNCHANGED <<token, file, stack, tokenCheckTimer, lists, page>>

\* friendRequestResult shows an error, chatMessageReceived a line of the general chat,
\* and the answers without a callback are dropped.
onOtherSignal ==
    /\ \E name \in {"friendRequestResult", "chatMessageReceived", NoCallback} : Takes(name)
    /\ Sends(<< >>)
    /\ UNCHANGED <<token, file, stack, tokenCheckTimer, lists, page>>

\* FriendsPage: a request; and an answer to one, followed by getFriendList.  Whose
\* friendship it is makes no difference here.
FriendClick ==
    /\ Click("Main")
    /\ \E type \in {"FRIEND_REQUEST", "FRIEND_ACCEPT", "FRIEND_REJECT"} :
          Sends(<<Request(type, token, NoPeer)>> \o
                (IF type = "FRIEND_REQUEST" THEN << >> ELSE getFriendList(token)))
    /\ UNCHANGED <<token, file, stack, lists, page>>

sendMessageGeneralChat ==
    /\ Click("Main")
    /\ Sends(<<Request("MESSAGE", token, NoPeer)>>)
    /\ UNCHANGED <<token, file, stack, lists, page>>

\* A chat of the list, or one started with a friend.  What the list shows may be
\* stale; the page asks for its history.
OpenChat(p) ==
    /\ Click("Main")
    /\ NoLogin # lists.chats.whose \/ NoLogin # lists.friends.whose
    /\ stack' = Append(stack, "Chat")
    /\ page' = [peer |-> p, shown |-> {}, token |-> token]
    /\ Sends(<<Request("MESSAGE_HISTORY", token, p)>>)
    /\ UNCHANGED <<token, file, lists>>

\* A wrong ChatListPage: nothing is loaded when it is shown again.
VisibleAgainSilent(t) == << >>

\* ChatListPage::onVisibleChanged, when it is shown.
VisibleAgain(t) == getLastMessages(t)

\* The tab of ChatListPage is selected.  Which tab is shown is not modelled.
ShowChats ==
    /\ Click("Main")
    /\ Sends(VisibleAgain(token))
    /\ UNCHANGED <<token, file, stack, lists, page>>

\* The arrow of DirectMessagePage: stackView.pop().
CloseChat ==
    /\ Click("Chat")
    /\ stack' = SubSeq(stack, 1, Len(stack) - 1)
    /\ page' = NoPage
    /\ Sends(VisibleAgain(token))
    /\ UNCHANGED <<token, file, lists>>

\* messageSent is emitted first, so ChatListPage asks for its list before the
\* message is sent.
sendDirectMessage ==
    /\ Click("Chat")
    /\ Sends(getLastMessages(token) \o <<Request("DIRECT_MESSAGE", token, page.peer)>>)
    /\ UNCHANGED <<token, file, stack, lists, page>>

-----------------------------------------------------------------------------
(***************************************************************************)
(* The server, on the connection of this client.                           *)
(***************************************************************************)

Live(t) == t \in DOMAIN owner /\ t \notin dead
OwnerOf(t) == IF Live(t) THEN owner[t] ELSE NoLogin

\* A packet; of its fields those that its type has are set.
Blank == [type |-> "RESULT", to |-> "", ok |-> FALSE, token |-> 0, whose |-> NoLogin,
          version |-> 0, ids |-> {}, peer |-> NoPeer]
Push(type) == [Blank EXCEPT !.type = type]
DirectMessage(i) == [Push("DIRECT_MESSAGE") EXCEPT !.peer = mail[i].peer, !.ids = {i}]
RESULT(err) == [Blank EXCEPT !.to = Head(sent).type, !.ok = err = "OK"]

\* Ids of the messages of an account, and of those that wait for it.
MailOf(l) == {i \in DOMAIN mail : mail[i].user = l}
Undelivered(l) == {i \in MailOf(l) : mail[i].incoming /\ i \notin delivered}

\* getHistory: the first HistoryLimit messages of the account and this peer.
History(l, p) ==
    LET all == {i \in MailOf(l) : mail[i].peer = p}
    IN  {i \in all : Cardinality({j \in all : j < i}) < HistoryLimit}

\* The members of a set of ids in the order of the table.
InOrder(ids) == {q \in [1..Cardinality(ids) -> ids] : \A i, j \in DOMAIN q : i < j => q[i] < q[j]}

Incoming(l, p) == {i \in DOMAIN mail : mail[i] = [user |-> l, peer |-> p, incoming |-> TRUE]}

\* The server takes the next packet and answers.
Serves(types, packets) ==
    /\ connected /\ sent # << >> /\ Head(sent).type \in types
    /\ sent' = Tail(sent)
    /\ received' = received \o packets
    /\ UNCHANGED <<connected, appVars, old_logins, clicks, events>>

\* A login: what was not delivered is sent before the RESULT.
Authenticate(l, t) ==
    \E backlog \in InOrder(Undelivered(l)) :
        /\ Serves({"LOGIN", "REGISTER", "TOKEN_VERIFY"},
                  [i \in DOMAIN backlog |-> DirectMessage(backlog[i])]
                      \o <<[RESULT("OK") EXCEPT !.token = t]>>)
        /\ delivered' = delivered \cup Range(backlog)
        /\ current_login' = l
        /\ entries' = entries \cup {l}
        /\ UNCHANGED <<dead, mail, friendships>>

\* A wrong token: not the one that is stored.
OtherToken == Len(owner) + 2

\* The token that verifyUser makes.
FreshToken == Len(owner) + 1

ServeLogin ==
    /\ sent # << >>
    /\ Authenticate(Head(sent).login, FreshToken)
    /\ Head(sent).type # "TOKEN_VERIFY"
    /\ owner' = Append(owner, Head(sent).login)

ServeTokenVerify ==
    /\ sent # << >> /\ Head(sent).type = "TOKEN_VERIFY" /\ Live(Head(sent).token)
    /\ Authenticate(owner[Head(sent).token], Head(sent).token)
    /\ UNCHANGED owner

\* Wrong credentials, a login that is taken, a token that is not known or expired.
ServeRefusal ==
    /\ Serves({"LOGIN", "REGISTER", "TOKEN_VERIFY"}, <<RESULT("NonAuthorized")>>)
    /\ Head(sent).type = "TOKEN_VERIFY" => ~ Live(Head(sent).token)
    /\ UNCHANGED <<owner, dead, current_login, entries, mail, delivered, friendships>>

\* LOGOUT has no RESULT, and the entry in online_users stays.
ServeLogout ==
    /\ Serves({"LOGOUT"}, << >>)
    /\ dead' = dead \cup {Head(sent).token}
    /\ current_login' = NoLogin
    /\ UNCHANGED <<owner, entries, mail, delivered, friendships>>

\* The lists and the history of the owner of the token, empty for a dead one.
ServeRead ==
    /\ sent # << >>
    /\ LET req == Head(sent)
           l == OwnerOf(req.token)
           ids == CASE req.type = "CHAT_LIST" -> MailOf(l)
                    [] req.type = "MESSAGE_HISTORY" -> History(l, req.peer)
                    [] OTHER -> {}
       IN  Serves({"FRIEND_LIST", "CHAT_LIST", "MESSAGE_HISTORY"},
                  <<[RESULT(IF l = NoLogin THEN "NonAuthorized" ELSE "OK") EXCEPT
                        !.whose = l, !.ids = ids,
                        !.version = IF l # NoLogin /\ req.type = "FRIEND_LIST"
                                    THEN friendships[l] ELSE 0]>>)
    /\ UNCHANGED <<owner, dead, current_login, entries, mail, delivered, friendships>>

\* A friendship operation, with or without success; accepting and rejecting change
\* the list of this account.
ServeFriend ==
    \E err \in {"OK", "NotFound"} :
        /\ Serves({"FRIEND_REQUEST", "FRIEND_ACCEPT", "FRIEND_REJECT"}, <<RESULT(err)>>)
        /\ LET l == OwnerOf(Head(sent).token)
           IN  /\ err = "OK" => l # NoLogin
               /\ friendships' = IF err = "OK" /\ Head(sent).type # "FRIEND_REQUEST"
                                 THEN [friendships EXCEPT ![l] = @ + 1] ELSE friendships
        /\ UNCHANGED <<owner, dead, current_login, entries, mail, delivered>>

\* broadcast to the other entries, the ones that lead here too, then the RESULT.
ServeMessage ==
    /\ sent # << >>
    /\ LET l == OwnerOf(Head(sent).token)
           others == IF l = NoLogin THEN {} ELSE entries \ {l}
       IN  Serves({"MESSAGE"}, [i \in 1..Cardinality(others) |-> Push("MESSAGE")]
                                   \o <<RESULT(IF l = NoLogin THEN "NonAuthorized" ELSE "OK")>>)
    /\ UNCHANGED <<owner, dead, current_login, entries, mail, delivered, friendships>>

\* A message to a friend is stored; the other friendships refuse it.
ServeDirectMessage ==
    \E err \in {"OK", "NotFriends"} :
        /\ Serves({"DIRECT_MESSAGE"}, <<RESULT(err)>>)
        /\ err = "OK" => Live(Head(sent).token)
        /\ mail' = IF err = "OK"
                   THEN Append(mail, [user |-> owner[Head(sent).token], peer |-> Head(sent).peer,
                                      incoming |-> FALSE])
                   ELSE mail
        /\ UNCHANGED <<owner, dead, current_login, entries, delivered, friendships>>

-----------------------------------------------------------------------------
(***************************************************************************)
(* Everything else that happens to this client.                            *)
(***************************************************************************)

\* The packets pushed to this connection because of an event of another client.
Pushed(packets) ==
    /\ Happens
    /\ received' = received \o packets
    /\ UNCHANGED <<connected, sent, appVars, owner, dead, current_login, entries, old_logins, delivered>>

PeerWrites(p, l) ==
    /\ mail' = Append(mail, [user |-> l, peer |-> p, incoming |-> TRUE])
    /\ Pushed(IF l \in entries
              THEN <<[Push("DIRECT_MESSAGE") EXCEPT !.peer = p, !.ids = {Len(mail) + 1}]>> ELSE << >>)
    /\ UNCHANGED friendships

\* A peer asks for, accepts or rejects a friendship; the last changes nothing here.
PeerBefriends(l) ==
    \E type \in {"FRIEND_NEW_REQUEST", "FRIEND_REQUEST_ACCEPTED", "FRIEND_REQUEST_REJECTED"} :
        /\ friendships' = IF type = "FRIEND_REQUEST_REJECTED" THEN friendships
                          ELSE [friendships EXCEPT ![l] = @ + 1]
        /\ Pushed(IF l \in entries THEN <<Push(type)>> ELSE << >>)
        /\ UNCHANGED mail

PeerBroadcasts ==
    /\ Pushed([i \in 1..Cardinality(entries) |-> Push("MESSAGE")])
    /\ UNCHANGED <<mail, friendships>>

Expire(t) ==
    /\ Happens
    /\ Live(t)
    /\ dead' = dead \cup {t}
    /\ UNCHANGED <<netVars, appVars, owner, current_login, entries, old_logins, mail,
                   delivered, friendships>>

\* The session of an earlier connection is destroyed: removeUser removes the entry of
\* its login, wherever it leads by then.
OldSessionEnds ==
    /\ \E l \in old_logins :
          /\ old_logins' = old_logins \ {l}
          /\ entries' = entries \ {l}
    /\ UNCHANGED <<netVars, appVars, owner, dead, current_login, mail, delivered,
                   friendships, clicks, events>>

\* The connection is lost; some of what the server had sent may have arrived.  The
\* client does not connect again.
Disconnect ==
    /\ Happens
    /\ connected
    /\ connected' = FALSE
    /\ sent' = << >>
    /\ \E n \in 0..Len(received) : received' = SubSeq(received, 1, n)
    /\ SessionLeft
    /\ UNCHANGED <<appVars, owner, dead, mail,
                   delivered, friendships>>

QtSignal ==
    \/ onTokenVerify \/ onAuthResult \/ onFriendListReceived \/ onChatListReceived
    \/ onHistoryReceived \/ onDirectMessageReceived \/ onFriendNewRequest \/ onOtherSignal

UserClick ==
    \/ \E l \in Login : loginUser(l) \/ registerUser(l)
    \/ \E p \in Peer : OpenChat(p)
    \/ FriendClick \/ logout \/ sendMessageGeneralChat \/ ShowChats \/ CloseChat \/ sendDirectMessage

Server ==
    \/ ServeLogin \/ ServeTokenVerify \/ ServeRefusal \/ ServeLogout \/ ServeRead
    \/ ServeFriend \/ ServeMessage \/ ServeDirectMessage

World ==
    \/ \E l \in Login : PeerBefriends(l) \/ \E p \in Peer : PeerWrites(p, l)
    \/ PeerBroadcasts
    \/ \E t \in DOMAIN owner : Expire(t)
    \/ OldSessionEnds
    \/ Disconnect

Next ==
    \/ QtSignal \/ TimerTriggered \/ UserClick \/ Start \/ Server \/ World

Spec == Init /\ [][Next]_vars

-----------------------------------------------------------------------------
(***************************************************************************)
(* Properties.                                                             *)
(***************************************************************************)

\* The variables hold what the program's variables can hold.
TypeOK ==
    LET Ids == SUBSET (DOMAIN mail)
        Tokens == 0..Len(owner)
        Requests == [type: RequestType, token: Tokens, login: Login \cup {NoLogin},
                     peer: Peer \cup {NoPeer}]
        Packets == [type: {"RESULT"} \cup PushType, to: RequestType \cup {""}, ok: BOOLEAN,
                    token: Tokens, whose: Login \cup {NoLogin}, version: Nat, ids: Ids,
                    peer: Peer \cup {NoPeer}]
    IN  /\ Range(sent) \subseteq Requests /\ Range(received) \subseteq Packets
        /\ connected \in BOOLEAN /\ tokenCheckTimer \in BOOLEAN
        /\ token \in Tokens /\ file \in Tokens /\ dead \subseteq DOMAIN owner
        /\ lists \in [friends: [whose: Login \cup {NoLogin}, version: Nat],
                      chats: [whose: Login \cup {NoLogin}, ids: Ids]]
        /\ page \in [peer: Peer \cup {NoPeer}, shown: Ids, token: Tokens]
        /\ current_login \in Login \cup {NoLogin} /\ entries \subseteq Login
        /\ delivered \subseteq DOMAIN mail /\ friendships \in [Login -> Nat]

\* The main screen is there exactly while the client has a token, the one in the
\* file; the loading screen exactly while the timer runs that will end it; and the
\* screens are one of the four stacks the program means to show: whatever the order of
\* the timer, a late TOKEN_VERIFY, a login begun meanwhile and a logout.
ScreenMatchesToken ==
    /\ stack \in {<<"Loading">>, <<"Auth">>, <<"Main">>, <<"Main", "Chat">>}
    /\ token # 0 <=> Shown("Main")
    /\ token # 0 => file = token
    /\ tokenCheckTimer <=> stack = <<"Loading">>

\* Once the main screen is shown only logout and the end of the process take it away:
\* not the timer, not a late answer.
MainUntilLogout ==
    [][Shown("Main") => \/ Range(stack') \ {"Chat"} = {"Main"}
                        \/ token' = 0]_stack

\* Nothing is under way on a connection that is open.
Quiet == connected /\ sent = << >> /\ received = << >>

\* When all is answered, the session is logged in as the owner of the client's token or
\* not at all (a logout overtaken by a second login's answer), and never as
\* somebody else.
SessionMatchesToken ==
    Quiet /\ token # 0 => current_login \in {NoLogin, owner[token]}

\* The server pushes the events of this token's owner to this connection.
Served(t) == Live(t) /\ owner[t] \in entries

\* When all is answered, the friend list shown is the one of the token's owner, with
\* every change that the client or a peer has made.
FriendListFresh ==
    Quiet /\ Served(token) /\ Shown("Main") =>
        lists.friends = [whose |-> owner[token], version |-> friendships[owner[token]]]

\* When all is answered and no chat covers it, the chat list takes every message of the
\* token's owner into account, own ones too.
ChatListFresh ==
    Quiet /\ Served(token) /\ Top = "Main" =>
        lists.chats = [whose |-> owner[token], ids |-> MailOf(owner[token])]

\* When all is answered, an open chat shows all that its peer wrote to the token's owner
\* among the first HistoryLimit messages of the two, whether it came with the history, a
\* push before or a push after it.  A history replaces what is shown, so of later messages
\* nothing is promised.
PageComplete ==
    Quiet /\ Served(token) /\ Top = "Chat" /\ page.token = token =>
        Incoming(owner[token], page.peer) \cap History(owner[token], page.peer) \subseteq page.shown

\* A page never ends up with the messages of another peer, though an answer to a
\* history request does not say whose it is.
PageOfItsPeer ==
    Quiet /\ Top = "Chat" => \A i \in page.shown : mail[i].peer = page.peer
=============================================================================
