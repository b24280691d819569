# TLA+ models of practice-messenger

Specifications, model-checking runs and proofs for the messenger in `src/`: a
C++ server (Boost.Asio, SQLite) to which a Qt/QML client is connected by one TCP
connection. This directory is self-contained: every module can be parsed with
SANY, every `.cfg` is run with TLC, every `*Proofs` module is checked by TLAPS.

    tlc -config Mail.cfg MCClientSession       # a run
    tlapm FriendRepositoryProofs.tla           # a proof

## 1. The system

### Components

| component | code | state | operations |
|---|---|---|---|
| UserRepository | `include/repositories/user_repository.hpp` | tables `users`, `sessions` | registerUser, verifyUser, getLoginByToken, userExists, getIdByLogin, getLoginById, logout, cleanExpiredTokens |
| TokenCleaner | `include/token_cleaner.hpp` | a `steady_timer` | sweep the sessions table, re-arm |
| FriendRepository | `include/repositories/friend_repository.hpp` | table `friendships` | sendRequest, acceptRequest, rejectRequest, getFriends, getPendingIncoming, areFriends |
| MessageRepository | `include/repositories/message_repository.hpp` | table `direct_messages` | saveMessage, getUndelivered, markDelivered, getHistory, getLastMessages |
| Database | `include/database.hpp` | the SQLite file | opens it, creates tables |
| SessionManager | `include/services/session_manager.*` | `online_users`: login to `weak_ptr<NetworkSession>` | addUser, removeUser, getSession, broadcast |
| NetworkSession | `include/network_session.hpp` | socket, header and body buffers, `write_queue` | start, read_header, parse_header_and_read_body, send_packet, do_write |
| ClientSession | `include/client_session.hpp` | `current_login`, `current_token` | one handler for each packet type, deliver_pending, destructor |
| Server, main | `server/main.cpp` | `io_context`, acceptor | main, start_accept |
| codec, codes | `include/messages.hpp`, `protocol.hpp`, `codes.hpp` | none | pack, unpack, one struct per packet body |
| crypto, files | `include/crypto.hpp`, `cast.hpp` | files in the working directory | sha256, AES, read and write a file |
| ClientAsyncHandler | `include/client_async_handler.hpp` | `pending_requests`, `messages` | send_request, handle_packet |
| client application | `client/*.hpp`, `client/main.cpp` | token in memory, token file, `io_context` thread and Qt thread | the invokables, queued signals |
| QML screens | `client/qml/*.qml` | screens, models, a 5 s timer | reactions to the signals |
| logger | `include/logger.hpp` | none: it prints to stdout | logPacket |

### How they interact

All server code runs in completion handlers of one `io_context`, on the one
thread that calls `run()`. `NetworkSession` reads a packet and calls
`ClientSession::handle_packet`, which calls the repositories (each call a few SQL
statements, each statement its own transaction), looks other sessions up in the
`SessionManager` and calls `send_packet` on them and on itself. `send_packet`
only posts: bytes leave later, in further handlers, one packet at a time. A
session lives as long as a handler holds it; its destructor removes its login
from `online_users`. An exception that leaves a handler leaves `run()` and ends
`main`; `docker-compose.yaml` restarts the process, which finds the database and
the uploaded files as they were and nothing else.

The client has two threads. The Qt thread runs clicks, the timer and the signals
queued for it; what it sends goes through `ClientAsyncHandler::send_request`, which
notes the type in `pending_requests` and posts the packet. The io thread writes and
reads bytes, decodes each packet, a RESULT as the answer to the oldest pending
request, and queues a signal for the Qt thread. Screens keep no state beyond
themselves: a MainScreen that is created, or told of a new token, asks the server
again; the token is also in a file, from which the next start resumes.

### What is hard about it

- Handlers are atomic with respect to each other, but not with respect to
  crashes: the process can end between any two SQL statements of one handler.
- What a handler posts is written later or never. A connection can be lost with
  packets queued, and a read can complete on a socket that is closed already.
- `online_users` maps logins to sessions, while a session changes its login
  (LOGIN, LOGOUT, again LOGIN), a user has several sessions, and the destructor
  of an old session runs after a new one has taken its place.
- A token is not tied to a connection: a request may carry any token that was
  ever issued, expired or revoked in the meantime.
- The schema does not express what the code relies on (one row per pair of
  users, `user1 < user2`, who has to answer a request).
- A RESULT does not say what it answers: the client relies on every request being
  answered once, in order, and on two queues filled by one thread and emptied by
  another staying in step.
- A screen acts on an answer that was asked for in another situation: after the
  five-second timer, after a logout, on a page that has been closed.
- Bodies are decoded with offsets and lengths that the packet itself brings; files
  are written without ever asking whether that worked, and under names that are
  paths in the directory where the database lies as well.
- The queries take what SQL leaves open: the order within one second, a column
  outside the aggregate, the end of a LIMIT.

### What makes each component correct

- *FriendRepository*: two users share one row; friendship by consent of both; a
  request is answered by the right side; lists and gate agree; friendships last.
- *UserRepository, TokenCleaner*: a token is honoured exactly while it is valid,
  as its owner; expired rows go in bounded time; logins are unique.
- *MessageRepository*: a history is the oldest part of a conversation, a preview
  its newest message; backlogs are independent.
- *SessionManager, ClientSession*: messages between friends only; stored until
  handed over; nobody online has an undelivered backlog; a connection gets only
  mail of users it has authenticated as; online users stay reachable.
- *NetworkSession*: packets leave in order, queues are emptied, closed sessions
  are forgotten.
- *codec*: what was packed is unpacked, and what was cut is refused.
- *ClientAsyncHandler*: an answer is decoded as the answer to its request, and
  every request gets one.
- *files*: a download gives what was uploaded.
- *client*: screens, token and file agree; the session is that of the token's owner;
  lists and chats show what the server has once all is answered.

## 2. The modules

    StoreAndForward        abstract specification of direct messages
          ^  implemented by (refinement mapping Store)
    ClientSession          the server ---- MCClientSession (databases, request sets)
          |              ---- ClientSessionProofs
          |  INSTANCE
          +-- UserRepository      users, sessions, TokenCleaner -- UserRepositoryProofs
          |        ^  EXTENDS
          |        +-- FileTransfer   UPLOAD, DOWNLOAD, AES      -- FileTransferProofs, MCFileTransfer
          +-- FriendRepository    friendships                   -- FriendRepositoryProofs
          +-- MessageRepository   direct_messages               -- MessageRepositoryProofs

    ClientAsyncHandler     requests and answers over a FIFO     -- ClientAsyncHandlerProofs
          ^  implemented by (refinement mapping Handler)
    Connection             both ends of a connection            -- ConnectionProofs, MCConnection
          |  EXTENDS
          +-- NetworkSession      queues, bytes, reads and writes
          +-- Codec               the format of the structs

    ClientApp              the graphical client, over what      -- ClientAppProofs
                           ClientAsyncHandler promises          -- MCClientApp

    Protocol               packet types and callbacks, of the last two groups

A repository's operation is an operator over the tables it writes, with the
returned `ErrorCode` as the parameter `err`; the repository's own `Next` calls it
from arbitrary clients, and a handler of `ClientSession` conjoins it with what
else the handler does. So the run of a repository checks it under every caller,
and `ClientSession` uses the same definitions.

**FriendRepository.** `friendships` is a set of records, `consent` a history
variable: who has agreed to be whose friend since the last rejection. A query
that reads one row of several is a `\E`.

**UserRepository.** `users` is a sequence (an AUTOINCREMENT id is a position);
`sessions` maps tokens to rows, a token being the number of its draw; `issued`
and `revoked` are history. Passwords are compared, not hashed. `now` is the
system clock; `up` and `timer` are the process and the TokenCleaner's timer.
`TimerFires` is due before the clock moves on: the model takes the io_context not
to be busy for longer than the clock's unit.

**MessageRepository.** `direct_messages` is a sequence of rows; `ORDER BY
create_at` leaves the order within a second open, so a query is the set of
answers it may give. `getLastMessages` selects `message` and `create_at` outside its
`MAX(create_at)`: SQLite then takes these bare columns from the row at which the
maximum was last raised, in whatever order it scans the group (`BareRow` over `Scans`,
external), and the `HAVING` (`IsMax`) compares that row with the maximum. What a
chat's preview then is, is a property (`ChatListIsNewest`), not part of the query.

**ClientSession.** The server. `socket[c]` is a connection's state (`closing`: closed,
but a completed read is still to be handled; `closed`: no handler but the last is
left), `current_login[c]` the session's member, `online_users` the manager's map
with `Expired` for a `weak_ptr` whose session is gone, `outbox[c]` what is posted
and not yet written. `authed`, `handed` and `written` are history: logins the
connection authenticated as, messages posted to a session found for their
recipient, messages written. One action is one handler with everything it calls.
`current_token` is written and never read, and is left out. The order of a
handler's statements shows in the actions for a process killed in its middle
(`KilledInRegister`, `KilledInLogin`, `KilledInDirectMessage`), in the value of
`getSession` being taken before the message is saved, and in the order of the
packets posted.

**StoreAndForward.** What a user may expect of direct messages: accepted between
friends only, stored until handed over, and the whole backlog handed over in one
step. It does not promise that a message is handed over once, or that it arrives:
the code promises neither (section 4).

**FileTransfer.** Extends UserRepository by the files: `files` maps names to bytes,
`uploaded` and `torn` are history. AES-CBC is what it does to lengths and to the
parts of a file: an initialization vector, whole blocks, a padding that is checked,
and a first part of a ciphertext that decrypts to the first part of the text.
A write puts any number of its bytes into the file and reports nothing, as
`bytesToFile` does; a download that throws stops the server.

A `FileName` is the file that a path leads to, so that `a` and `./a` are one name; the
name in a packet is not checked, and those of `DatabaseFile` (`messenger.db` and
what SQLite keeps beside it) are among them. An upload that writes to one of these clears
`intact`, for good. Assumed of SQLite after that: a running server reads its tables as
before or a statement throws, which is `Crash`; a start is refused, or finds what
`BootOnRemains` finds, the users of an earlier commit (a beginning of the table, since rows
are never deleted) and token rows that have been written for them, or nothing at
all, in an empty file. `files` are those beside the database's; a download of one of the
latter reads what SQLite writes and throws or not (`Throws`).

**Codec.** `Fields` gives the types of each struct's `fields()`; `serialize` joins
what the fields are written as, `deserialize` reads one after the other (`upTo[i]` is
the reader behind the i-th: the values read, the offset, whether an exception was
thrown). Vectors read their size unchecked, so `deserialize` has the byte behind the
body as a parameter. A byte is a digit to base `Radix`, at least 3, so that the type of
a packet fits into four; `Expressible` are the values of the fields' types whose
lengths fit into a `uint32_t`.

**NetworkSession.** One direction of a connection: the functions `send_packet`
posted, `write_queue`, how far its front is written (`done`, any piece at a time),
the bytes under way, the header read. **Connection** joins the client's two threads
with it; `Send` serializes and posts, `Serve` and `handle_packet` decode. The
packets of the server are written by the same code and travel whole here, with
their body; what differs is that the server's thread is the one that also reads.
**ClientAsyncHandler** is the same system without bytes: its `send_request` in
two steps, its queue against a FIFO. `asked`, `answered`, `handled` and the numbers
in packets are history, `to` in a RESULT says what it answers and is read by
properties only.

**ClientApp.** The client over a FIFO connection and, on its other side, what the
server does on that connection: tokens, login, entries in `online_users`, messages
and friend lists of the client's accounts. Peers act freely. A step is a handler of
the Qt thread with the packets it sends. Lists and pages are abstracted to whose
they are and which messages or which version they contain. Assumed: a screen
that StackView replaces is gone at once; requests of a process that has ended are
not served; the token file can be written and the server be reached at the start;
one chat page is open at a time, as the screens allow. A history has the first
`HistoryLimit` messages of two users (100 in `handle_message_history`), in the order they
were stored: the order within one second, which the query leaves open, is left to
MessageRepository. No other client is logged in to
the same accounts. So `ChatListFresh` says nothing of a message that the same user
sends elsewhere, nor of one that the ended process sent and the server reads after
the new process has its list: the code tells a client of neither. Which tab of
MainScreen is shown is not modelled, so that `ShowChats` and the general chat are
possible whenever MainScreen is on top. A page's own messages that are
not answered yet are left out.

### Wrong variants

Beside some definitions stands a variant of it, commented "A wrong ...": the
definition with a plausible bug (a dropped check, a missing reset, a swapped
order). No action uses them. Each property has one, named in PROJECT.json, whose
substitution TLC answers with a counterexample; they show that the properties
depend on the code they are about.

## 3. The runs

| run | instance | what it shows |
|---|---|---|
| FriendRepository | 3 ids | all orders of requests and answers of three users: `OneRowPerPair`, `MutualConsent`, `PendingIsOneSided`, `RowsNormalized`, the lists against the gate, `FriendsForever` |
| Files | 2 logins, 2 passwords, 2 tokens, TTL 1, interval 2, time 0..5; a writable name, an unwritable one and the database's, 3 texts, blocks of 2 bytes | `TokensWhileIntact` through expiry, sweeps, logouts and restarts; `RowsSweptInTime` and `LoginsUnique` also when the database has been overwritten; `DownloadGivesUpload` through torn writes, replaced files and downloads that end the server |
| MessageRepository | 3 users, limit 2, 4 messages, time 0..2 | `HistoryIsOldest`, `ChatListIsNewest`, `BacklogsIndependent` |
| Server | 2 logins, 1 connection, 2 tokens, 1 message, empty database, every request type | every handler and every kill, from registration on: `OnlyFriendsExchange`, `ImplementsStore` |
| Mail | 2 friends, 2 connections, 2 tokens, 2 messages in 2 seconds; LOGIN, DIRECT_MESSAGE | `NothingForgotten`, `BacklogOnlyOffline`, `QueuedForItsRecipient`, `BacklogInOrder` |
| Sessions | 2 friends, 2 connections, 2 tokens, 1 message; LOGIN, TOKEN_VERIFY, LOGOUT, DIRECT_MESSAGE; under fairness | `QueuedLeaves`, `ClosedIsForgotten`, `ReachableUntilReplaced` |
| Connection | one packet per struct that the client sends or receives, bytes 0..3, 2 requests, 1 push; under fairness | `ImplementsHandler`, `AnswersPaired`, `TruncationRefused`, `RequestsAnswered` |
| Client | 2 accounts, 2 peers, a saved token and a waiting message, histories of 1 message, 3 clicks, 1 event | `ScreenMatchesToken`, `MainUntilLogout`, `SessionMatchesToken`, `FriendListFresh`, `ChatListFresh`, `PageComplete`, `PageOfItsPeer` |
| Twice, Routing, Online, Loss | 2 users, 2 connections, as in Mail or Sessions | counterexamples to what `src/README.md` says, section 4 |

**Bounds.** `MaxTokens`, `MaxTime`, `MaxMessages` bound what the code leaves
unbounded; at a bound the request that would exceed it is not sent. `MaxOutbox`
stops the handling of requests while some queue is full, so a queue exceeds it by
at most one handler's packets. Three user ids are the fewest with two disjoint
and two overlapping pairs, and with an id between two others for `normalize`. Two tokens and a
TTL shorter than the interval let one token expire unswept beside a fresh one,
at a lookup, at a sweep and while the server is down; time 5 covers two sweeps and
a restart. Two connections are enough for a user to be replaced, to reconnect and
to be talked to, since a handler touches one connection and those it posts to.
Connections are interchangeable: `Permutations(Conn)` is used as symmetry in
runs of safety properties only, not in Sessions. In Server one connection suffices, for it can
log in as one user after the other; what needs two is in Sessions and Mail.
`MaxTime` is 0 where expiry is not the question: Files covers it for all
its callers. The limit of `getHistory` is 2 in the run of MessageRepository and 1 in Client, 100
in the server: four messages in three seconds are conversations below, at and twice
as long as the limit, with the cut between two seconds and within one, and groups in which
the newest row is scanned first, last or in between; in Client a second message of a
conversation is beyond the limit.

In Files logins are interchangeable, and so are passwords (`UserSymmetry`; all its
properties are invariants). The texts are an empty one, one of a whole block and one
whose first block ends like a padded one, so that a file that ends after it decrypts without an error.
In Connection a byte has four values: lengths and codes then need more than one
digit, an `int64` has 65 536 values, of which the packets use positive and negative
ones. Two requests are enough for the queue to be empty, to have one packet being
written and one behind it, and for a RESULT to arrive between the two halves of the
second `send_request`; the theorems of ConnectionProofs (section 5) have no
bound. `TruncationRefused` is
about the packets, not the state, and is evaluated before the first request.

In Client three clicks are a login and a logout, two logins of different accounts
and a logout, or a chat opened, closed and another opened; the saved token, its
expiry, the timer and the answers are not clicks. One event is a push, an expiry, a
lost connection, or the end of the process and a new start. The client and the server
share nothing but the two queues, so a step of the one commutes with a step of the
other unless they meet at an empty queue; `Reduced` in MCClientApp keeps of the
interleavings that differ by such an exchange the one in which the server acts first,
and lets other clients act when the server takes a packet or the client has taken
all. A lost connection and a restart may come at any time. The properties read
client state alone, or both sides when nothing is under way, and do not tell
the exchanged steps apart.

**Fairness.** In Sessions, weak fairness of `do_write(c)` and of
`Destroy(c)`: the single thread of `Server::run` executes every handler that is
ready, a completed write starts the next one, and an open socket whose peer reads
completes its writes; if the peer stops reading, the connection counts as one that
will be lost, which `Disconnect` may do at any time. In Connection, weak fairness of
the two halves of `send_request`, which the Qt thread runs to their end, of the
completion handlers of both io_contexts and of TCP, and of reading what has arrived;
`io_context::run` on the client's io thread (`main.cpp:537`) and in `Server::run`
is what runs them. `Transport` is one action for fairness: its steps are bounded
in number by the bytes posted, so that none is starved. No request,
push, crash, restart, sweep or tick is assumed to happen.

## 4. Where code and documentation disagree

Each is a property that `src/README.md` states of the system, and a run in which
TLC finds the code violating it.

- *Twice, `PostedOnce`*. `handle_direct_message` leaves `delivered = 0` on a message
  it has pushed to an online recipient; the next login pushes it again. README.md:74
  speaks of `delivered=0` for recipients who are offline.
- *Routing, `PostedToCurrentLogin`*. LOGOUT and a second LOGIN leave the first
  login in `online_users`: its messages go to a connection on which another user is
  logged in (README.md:28, 73).
- *Online, `OnlineIsReachable`*. The destructor of a replaced session erases the
  entry of the session that replaced it; the user is connected and gets neither
  broadcasts nor messages (README.md:59, 60).
- *Loss, `FlaggedIsWritten`*. The backlog is flagged as delivered when it is posted,
  not when it is written; what is lost in between is never sent again
  (README.md:29, 75).

The first weakens what can be promised for the fourth: a message that was pushed
live and lost is sent again, by the very behaviour that sends others twice. The
properties that hold beside these say how far the promises go: nothing is flagged
that was not posted (`NothingForgotten`), mail is never queued on a connection
that has not authenticated as its recipient (`QueuedForItsRecipient`), and only
connections of the same user make a user unreachable (`ReachableUntilReplaced`).

The run Routing has the shorter of two ways, a second login without a logout; that
LOGOUT alone (`client_session.hpp:517`) has the same effect is read from the code. In
Loss the connection is lost before the recipient's LOGIN on it is handled; a loss
between that LOGIN and the write ends the same way.

Three observations without a run. `getHistory` sorts ascending and then cuts, so a
conversation of more than 100 messages shows its oldest 100 (`HistoryIsOldest`); since a
history clears the page, an answer that comes after a live push also takes away a
pushed message that is beyond the limit, which is why `PageComplete` promises the
messages within it only. The timestamp of a live push is the row id `saveMessage`
returns, that of a delivered backlog the creation time. And an upload named
`messenger.db` replaces the database (`client_session.hpp:134`, `cast.hpp:23`,
`database.hpp:16`): with the tables go users, messages and valid tokens, so what Files
says of tokens has `intact` as its condition, and all other modules assume that
there is no such upload.

## 5. The proofs

Checked by TLAPS for every value of the constants.

**FriendRepositoryProofs**, for any set of ids. `MutualConsent` is not inductive:
an acceptance turns a pending row into an accepted one, so `IInv` also says that a
pending row stands for its initiator's agreement and not for the other's
(`PendingIsOneSided`); that an UPDATE or DELETE of a pair touches one row
(`OneRowPerPair`, from `RowsNormalized`); and that no agreement outlives its row
(`ConsentHasRow`), so that a new request starts without any. `Invariance` proves it
operation by operation; the invariants of the run follow, `ListAgreesWithGate`
and `Answerable` from unique rows, `Forever` since an operation deletes only
pending rows.

**UserRepositoryProofs**, for any logins, passwords, TTL and interval. `IInv` says
that rows are never altered (`RowsAreIssued`), belong to users (`IssuedToUsers`),
disappear on logout (`RevokedHaveNoRow`) and do not disappear while valid
(`ValidHaveRow`), and relates the armed timer to the creation of every row
(`TimerArmed`): at the time the timer is due no row is older than the TTL and one
interval. The lemmas are per operation, not per action, so that a step that
joins several operations, as `handle_register` does, can cite them. Each is shown first for
`TablesInv`, the part of `IInv` that stays true when a start finds earlier tables:
types, unique logins, unaltered rows, no token from the future, and the timer.

**ClientSessionProofs**, for any logins, connections, requests, saved database and
bounds. None of the server's invariants is inductive alone. `SInv` is the
conjunction of

- the invariants of the two repositories, carried over by citing their lemmas for
  every operation a handler calls, also when the process is killed between two
  (`TokensInServer`, `FriendsInServer`);
- `MailInv`: rows name registered users who are friends, the delivered flag implies
  handed over, handed over implies stored;
- `ConnInv`: an entry of `online_users` leads to a connection that authenticated as
  its login (`EntriesAuthed`, which needs the expiry of entries in `Destroy`), the map
  is finite, and `BacklogOnlyOffline`;
- `QueueInv`: a queued message was handed over and its recipient is a login of the
  connection; a socket that is not open has an empty queue. Without the latter a
  connection accepted under an old number could inherit a stranger's messages.

Three facts hold of every step and keep the old rows true: users, friendships and
messages only grow (`UsersGrow`, `FriendsStay`, `MailGrows`). The steps fall into
classes with one lemma each: `QuietStep` (no message stored, nobody authenticated),
`AuthenticateKeeps`, `DirectMessageKeeps`, `LostKeeps` and `DestroyKeeps`. In
`AuthenticateKeeps` the backlog is read completely: an injection of `1..n` into a
set of `n` rows is onto (`BacklogIsUndelivered`), and unique logins make the id
that `deliver_pending` asks for the only one of the login that goes online.
`Reachable` adds that the login of a connection is one it authenticated as.
`BacklogOrder` (`BacklogInOrder`, an action property) needs from `SInv` that the table
and the queues are sequences of rows and packets: every step either shortens queues
(`QueuesShrink`), adds at most one direct message to each (`PostsOne`), or is a login,
which appends the rows as `getUndelivered` orders them while `markDelivered` leaves
their `create_at` alone (`BacklogOrdered`).

The last part of the module is the refinement, `Spec => ImplementsStore`. The
abstract variables are named (`LoginPairs`, `MailOf`, `StoredIds`); four lemmas say
when they take a step of the store, and each action is shown to be one of these or a
stutter. Besides `SInv` it needs `FriendsRegistered`, since the mapping reads the
logins of a friendship through the users table.

**MessageRepositoryProofs**, for any users, limit and number of messages. `TypeOK` is
inductive: rows are numbered from 1 and none is dated after the clock. The rest is
about queries. `ORDER BY create_at`: an answer is an injection of `1..n` into a finite
set of `n` rows, hence onto, so that it has each selected row once whatever the
order leaves open. `HistoryIsOldest` (theorem `HistoryIsComplete`) follows by cutting such an
answer at any limit. `ChatListIsNewest` (`ChatListShowsNewest`) needs a lemma about the scan
of a group: by induction over the rows visited, the row of the bare columns is as new as
each of them, so that it passes the `HAVING` and no group is missing from the list.
`BacklogsIndependent` holds of every step: what `Drain` flags is the whole backlog of its
user, no statement clears a flag, and rows never change their recipient.

**FileTransferProofs**, for any file names, texts and block size. The theorems of
UserRepositoryProofs are carried over to `FilesSpec` by two step lemmas: a
handler of the files looks its token up, and may end the process, as the model of the
tables does already. `FInv` has `TablesInv` in every state and `IInv` while `intact`; the
first is kept by `BootOnRemains` as well (`RemainsTables`), so that types, unique
logins and the sweep are theorems about any database file found, and
`TokensWhileIntact` (`FilesTokens`) follows from the second. For `DownloadGivesUpload` the invariant `FilesInv` says what a file
holds: the ciphertext of the text last uploaded under its name, whole or, if a write
to it stopped early (`torn`), cut anywhere. The
lemmas are about what decryption makes of such a file: the whole one gives the text
back (the padding ends with its own length, which is at most a block), a part of
one gives a beginning of the text or is refused. `Data` is a set of byte sequences
(`FileAssumption`), for a last byte is read as a length.

**ClientAppProofs**, for any accounts, peers, saved tokens and mail, any number of
clicks and events. The properties speak of the moments when nothing is under way;
`AppInv` says what the packets under way still owe, in every state.

- `VerifyInv`: TOKEN_VERIFY is the first request of a process and its answer the first
  RESULT, so no answer to a login can be taken before it; while either is under way
  the client has no token and the file has the one that is being verified. With
  `Screens` this gives `ScreenMatchesToken`, and, since a stack without the main
  screen has no token, `MainUntilLogout`.
- `SessionInv`: the session is logged in as the owner of the last token given to
  this client, be it on its way or taken; `TokensInv`: tokens arrive in the order
  they were issued, which is why the last one taken is the last one given.
- `FriendsInv`, `ChatsInv`, `PageInv`, `CompleteInv`: four uses of `Refreshed`. What is
  shown, the answers under way and the requests under way are applied in this
  order, and the last of them brings the right value: unless a request is still
  to be served, or a packet still to be taken whose handler asks again (a push, a
  new token), the last answer under way has the current value, and without one the
  screen has it. So a change on the server needs a request or a push behind it:
  `SentInv` has the requests that the client sends along (an accept is followed by
  getFriendList, a message by getLastMessages unless the chat covers the list), and
  `Served` is what makes the server push. A page's completeness is `Refreshed` for
  each message alone, with the history and the push of that message as answers.

The steps fall into five classes (`ClientStep`, `SignStep`, `AuthStep`, `ChatStep`,
`ServerStep`), each with what it may do to the queues; the invariants are shown for the
classes, and each handler to belong to one. `Start` and `Disconnect` establish them
anew. `EntriesFinite` beside `AppInv` makes the number of packets of a broadcast a number.

**ClientAsyncHandlerProofs**, for any packets and any number of them:
`Spec => []AnswersPaired`. The property speaks of two queues that never meet; the
invariant ties them together by numbers. The n-th request registered is
`asked[n]`; the packets on their way to the server carry consecutive
numbers behind `answered`, those on their way back behind `handled`, where a LOGOUT
and a push repeat the number before them (`SentNumbered`, `ReceivedNumbered`), the
last numbers are what has been asked and answered (`SentEnds`, `ReceivedEnds`,
which hold only while connected: a loss cuts the queues, never their order), a
numbered packet is of the type of its request (`SentFits`, `ReceivedFits`), and
`pending_requests` is `asked` without its first `handled` entries
(`PendingFits`). The step that needs it most is `register_request` between two answers:
it extends `asked` and `pending_requests` alike, before its packet has a number.
ConnectionProofs carries the result to the bytes.

**ConnectionProofs**, for any `Radix` > 2 (256 in the program), any packets that can
be expressed and any number of them.

- *The format.* `RoundTrip`: what `serialize` writes for a struct, `deserialize` reads
  back, and the offset is then at its end. `CutRefused`: a proper prefix of it leads
  to an exception, whatever byte the unchecked size of a vector is completed with;
  `TruncationIsRefused` follows. The argument is one about places: `Holds(body, o, s)`
  says that `s` is in the body at offset `o`, `Beginning` that the body is a part of one
  that was written. A reader at the offset of a field takes that field and moves behind
  it, or fails if the field is not complete. Once it is behind the end it fails
  at the next field (`Past`). That matters for a vector: of one whose size is
  cut off it may read a wrong size, even 0, without noticing, and it is the
  offset behind the body that then makes the next field fail; every struct has one,
  for no struct ends with a vector (`FieldsFacts`). Numbers are digits to base
  `Radix` (`LastDigit`, `PackNumber`, `Packed32`), an `int64_t` two `uint32_t` and a
  complement.
- *The bytes under way.* `Conserved`: while connected, the header that is read, the wire,
  what is left of the front of `write_queue`, the rest of it and `posted` are, one
  behind the other, the frames of `sent`. With `QueuesOK` it is inductive for the steps
  that move bytes (`PostedFlow`, `WriteFlow`, `WrittenFlow`, `ReadHeaderFlow`); `BodyReadFlow`
  says that a header and a body read in any pieces are those of the frame in front.
  `NeverStalled` is the safety part of `RequestsAnswered`: a packet in the queue has a
  write under way.
- *The refinement.* `Inv` adds that the packets are requests (`CallOK`, `SentOK`), that a
  body from the server is that of its values (`ReceivedOK`), and `Inv` of
  ClientAsyncHandlerProofs under the refinement mapping. Each step of `Connection` is
  then one of ClientAsyncHandler or a stutter (`StepInv`): `Serve` decodes the packet
  in front (`BodyIsSent`), and `handle_packet` decodes a RESULT as the right struct because
  the request in front of `pending_requests` is its own (`DecodedValues`), so that the pairing
  and the refinement are one induction. `ConnectionImplementsHandler` and
  `PairedOverBytes` follow.

Induction over sequences and numbers is done with sets: the library's theorems take
an operator, which the prover cannot instantiate, but a set of numbers without a least
element is empty (`SetInduction`, from `WFMin`), and that a recursive function exists is
shown by the same means (`VectorExists`, `StructExists`).

The only assumptions are the named ones of the modules (`UserIdAssumption`,
`UserAssumption`, `MessageAssumption`, `FileAssumption`, `SessionAssumption`,
`SavedAssumption`, `ClientAssumption`, `RadixAssumption`, `ConnectionAssumption`): ids are
numbers, TTL and bounds are naturals, the interval and the block size are positive, a
byte has more than two values, texts are sequences of bytes, no login or peer is the
empty string, the packets sent are expressible (a text or a body is shorter than
4 GB; the pushes about friends are empty), and the database found by the first start
is one the server could have left. TLC evaluates each on a run.

**Model-checked only.** `QueuedLeaves`, `ClosedIsForgotten` and `RequestsAnswered`:
liveness, which rests on fairness and `ENABLED` and is out of the prover's reach. All
other properties of the passing runs are theorems.

## 6. Not modelled, and the plan

- SQLite: a statement is atomic and durable (WAL), foreign keys hold. Disk errors
  are not modelled, but for the writes of uploaded files.
- The destruction of the database by an upload, outside FileTransfer: what ClientSession,
  Connection and ClientApp show assumes that no upload names `messenger.db` or a file that
  SQLite keeps beside it.
- Memory: the body of any announced length is read (the 10 MB check of
  `network_session.hpp:44` is commented out) and `write_queue` has no bound; a process
  that runs out of it is `Crash`.
- SHA-256 as a function: passwords are compared.
- Wording and layout: `packetTypeToString`, `getStructName`, the error texts, the
  logger, QML apart from the handlers named above, toasts.
- `onChatMessageReceived` of `FriendsPage.qml`, which appends to a `chatModel` that this
  page does not have: the handler ends with an error message and no effect.
- The bytes from the server to the client: one direction of the connection is modelled in
  bytes, the other in whole packets.
- Code that does not run: the console client in the comments of `client/main.cpp`,
  `uploadFile` and `downloadFile` of the client (empty), `TokenCleaner::stop`, the
  `messages` deque, the empty headers `chat_service.hpp` and `packet_handler.hpp`.
- Build files and `testing/main.cpp`, which opens the database and no more.

What could follow: which of the four promises of section 4 hold without the steps that
break them, e.g. `OnlineIsReachable` while nobody has two connections; and the bytes
from the server to the client, which are written and read by the same code.
