--------------------------- MODULE MCClientSession ---------------------------
(***************************************************************************)
(* Databases and request sets for model checking ClientSession.            *)
(***************************************************************************)
EXTENDS ClientSession, TLC

\* A first start, with an empty database.
NoUsers == << >>
NoFriendships == {}

\* Two registered users, strangers or friends.
TwoUsers == <<[login |-> "alice", password |-> "p"], [login |-> "bob", password |-> "p"]>>
TwoFriends == {[user1 |-> 1, user2 |-> 2, status |-> "accepted", initiator |-> 1]}

\* Connections are interchangeable.
ConnSymmetry == Permutations(Conn)

AllRequests == RequestType
MailRequests == {"LOGIN", "DIRECT_MESSAGE"}
PresenceRequests == {"LOGIN", "TOKEN_VERIFY", "LOGOUT", "MESSAGE"}
SessionRequests == {"LOGIN", "TOKEN_VERIFY", "LOGOUT", "DIRECT_MESSAGE"}
LogoutRequests == {"LOGIN", "LOGOUT", "DIRECT_MESSAGE"}
=============================================================================
