-------------------------- MODULE FriendRepository --------------------------
(***************************************************************************)
(* The friendships table of the server's database and the operations of    *)
(* include/repositories/friend_repository.hpp on it.                       *)
(*                                                                         *)
(* A friendship is one row (user1, user2, status, initiator).  Nothing in  *)
(* the schema makes (user1, user2) unique: that there is one row per pair  *)
(* of users is up to the operations below.  The AUTOINCREMENT id of a row  *)
(* is never read and is left out.                                          *)
(*                                                                         *)
(* Every operation holds the repository's mutex from its first query to    *)
(* its last statement, and the server runs on one thread: an operation is  *)
(* one step.                                                               *)
(***************************************************************************)
EXTENDS Integers, FiniteSets

CONSTANT UserId                     \* the ids of the users table

ASSUME UserIdAssumption == UserId \subseteq Nat

VARIABLES
    friendships,                    \* the rows of the table
    consent                         \* history: <<u, v>> when u has agreed to be v's friend

vars == <<friendships, consent>>

Status == {"pending", "accepted"}

Friendship == [user1: UserId, user2: UserId, status: Status, initiator: UserId]

FriendError == {"OK", "RequestToYourself", "AlreadySent", "AlreadyFriends",
                "AcceptNonExistentRequest", "AcceptRequestToYourself",
                "RejectNonExistentRequest", "RejectRequestToYourself"}

-----------------------------------------------------------------------------
(***************************************************************************)
(* Queries.                                                                *)
(***************************************************************************)

\* A wrong normalize: the pair as the caller gave it.
normalizeNot(a, b) == <<a, b>>

normalize(a, b) == IF a < b THEN <<a, b>> ELSE <<b, a>>

\* WHERE user1 = ? AND user2 = ?
Rows(a, b) == {f \in friendships : <<f.user1, f.user2>> = normalize(a, b)}

\* WHERE user1 = ? AND user2 = ? AND status = 'pending'
PendingRows(a, b) == {f \in Rows(a, b) : f.status = "pending"}

areFriends(a, b) == \E f \in Rows(a, b) : f.status = "accepted"

\* A wrong query: only the rows in which the user comes first.
getFriendsOneSided(id) ==
    {f.user2 : f \in {g \in friendships : g.status = "accepted" /\ g.user1 = id}}

getFriends(id) ==
    {IF f.user1 = id THEN f.user2 ELSE f.user1 :
        f \in {g \in friendships : g.status = "accepted" /\ id \in {g.user1, g.user2}}}

\* A wrong query: the initiator's own request is listed too.
getPendingIncomingWithOwn(id) ==
    {f.initiator :
        f \in {g \in friendships : g.status = "pending" /\ id \in {g.user1, g.user2}}}

getPendingIncoming(id) ==
    {f.initiator :
        f \in {g \in friendships : /\ g.status = "pending"
                                   /\ id \in {g.user1, g.user2}
                                   /\ g.initiator # id}}

-----------------------------------------------------------------------------
(***************************************************************************)
(* Operations.  err is the ErrorCode returned; executeStep reads one row   *)
(* of the answer, whichever comes first.                                   *)
(***************************************************************************)

\* A wrong sendRequest: a pending row does not stop the INSERT.
sendRequestTwice(from, to, err) ==
    /\ from # to
    /\ err = "OK"
    /\ ~ areFriends(from, to)
    /\ friendships' = friendships \cup
            {[user1 |-> normalize(from, to)[1], user2 |-> normalize(from, to)[2],
              status |-> "pending", initiator |-> from]}
    /\ consent' = consent \cup {<<from, to>>}

\* A wrong sendRequest: the first id of the row is stored as its initiator.
sendRequestAsFirst(from, to, err) ==
    /\ from # to
    /\ Rows(from, to) = {}
    /\ err = "OK"
    /\ friendships' = friendships \cup
            {[user1 |-> normalize(from, to)[1], user2 |-> normalize(from, to)[2],
              status |-> "pending", initiator |-> normalize(from, to)[1]]}
    /\ consent' = consent \cup {<<from, to>>}

sendRequest(from, to, err) ==
    \/ /\ from = to
       /\ err = "RequestToYourself"
       /\ UNCHANGED vars
    \/ /\ from # to
       /\ \E f \in Rows(from, to) :
             err = IF f.status = "pending" THEN "AlreadySent" ELSE "AlreadyFriends"
       /\ UNCHANGED vars
    \/ /\ from # to
       /\ Rows(from, to) = {}
       /\ err = "OK"
       /\ friendships' = friendships \cup
            {[user1 |-> normalize(from, to)[1], user2 |-> normalize(from, to)[2],
              status |-> "pending", initiator |-> from]}
       /\ consent' = consent \cup {<<from, to>>}

\* A wrong acceptRequest: the initiator may accept the request it sent.
acceptOwnRequest(acceptor, requester, err) ==
    /\ PendingRows(acceptor, requester) # {}
    /\ err = "OK"
    /\ friendships' = (friendships \ Rows(acceptor, requester)) \cup
            {[f EXCEPT !.status = "accepted"] : f \in Rows(acceptor, requester)}
    /\ consent' = consent \cup {<<acceptor, requester>>}

acceptRequest(acceptor, requester, err) ==
    \/ /\ PendingRows(acceptor, requester) = {}
       /\ err = "AcceptNonExistentRequest"
       /\ UNCHANGED vars
    \/ /\ \E f \in PendingRows(acceptor, requester) : f.initiator = acceptor
       /\ err = "AcceptRequestToYourself"
       /\ UNCHANGED vars
    \/ /\ \E f \in PendingRows(acceptor, requester) : f.initiator # acceptor
       /\ err = "OK"
       /\ friendships' = (friendships \ Rows(acceptor, requester)) \cup
            {[f EXCEPT !.status = "accepted"] : f \in Rows(acceptor, requester)}
       /\ consent' = consent \cup {<<acceptor, requester>>}

\* A wrong rejectRequest: the check forgets status = 'pending'.
rejectAnyStatus(rejecter, requester, err) ==
    /\ \E f \in Rows(rejecter, requester) : f.initiator # rejecter
    /\ err = "OK"
    /\ friendships' = friendships \ Rows(rejecter, requester)
    /\ consent' = consent \ {<<rejecter, requester>>, <<requester, rejecter>>}

\* A wrong rejectRequest: the row stays, with a status no query knows.
rejectByUpdate(rejecter, requester, err) ==
    /\ \E f \in PendingRows(rejecter, requester) : f.initiator # rejecter
    /\ err = "OK"
    /\ friendships' = (friendships \ Rows(rejecter, requester)) \cup
            {[f EXCEPT !.status = "rejected"] : f \in Rows(rejecter, requester)}
    /\ consent' = consent \ {<<rejecter, requester>>, <<requester, rejecter>>}

rejectRequest(rejecter, requester, err) ==
    \/ /\ PendingRows(rejecter, requester) = {}
       /\ err = "RejectNonExistentRequest"
       /\ UNCHANGED vars
    \/ /\ \E f \in PendingRows(rejecter, requester) : f.initiator = rejecter
       /\ err = "RejectRequestToYourself"
       /\ UNCHANGED vars
    \/ /\ \E f \in PendingRows(rejecter, requester) : f.initiator # rejecter
       /\ err = "OK"
       /\ friendships' = friendships \ Rows(rejecter, requester)
       /\ consent' = consent \ {<<rejecter, requester>>, <<requester, rejecter>>}

-----------------------------------------------------------------------------
Init ==
    /\ friendships = {}
    /\ consent = {}

Send(a, b) == \E err \in FriendError : sendRequest(a, b, err)

Accept(a, b) == \E err \in FriendError : acceptRequest(a, b, err)

Reject(a, b) == \E err \in FriendError : rejectRequest(a, b, err)

Next == \E a, b \in UserId : Send(a, b) \/ Accept(a, b) \/ Reject(a, b)

Spec == Init /\ [][Next]_vars

-----------------------------------------------------------------------------
(***************************************************************************)
(* Properties.                                                             *)
(***************************************************************************)

\* The rows and the history variable keep their types.
TypeOK ==
    /\ friendships \subseteq Friendship
    /\ consent \subseteq UserId \X UserId

\* A row is stored with user1 < user2 and names one of the two as initiator:
\* normalize, which every query relies on to find the row from either side.
RowsNormalized ==
    \A f \in friendships : f.user1 < f.user2 /\ f.initiator \in {f.user1, f.user2}

\* Two users share at most one row, whoever asks and answers in which order:
\* the schema has no such constraint, the check before INSERT stands for it.
OneRowPerPair ==
    \A f, g \in friendships : f.user1 = g.user1 /\ f.user2 = g.user2 => f = g

\* Nobody becomes the friend of somebody who did not agree: behind an accepted
\* row there is a request by one user and its acceptance by the other, neither
\* undone by a rejection since.
MutualConsent ==
    \A f \in friendships : f.status = "accepted" =>
        /\ <<f.user1, f.user2>> \in consent
        /\ <<f.user2, f.user1>> \in consent

\* A pending row is attributed to the user who asked: the initiator has agreed
\* and the other has not, so the check of initiator in acceptRequest and
\* rejectRequest leaves the answer to the right user.
PendingIsOneSided ==
    \A f \in friendships : f.status = "pending" =>
        LET other == IF f.initiator = f.user1 THEN f.user2 ELSE f.user1
        IN  /\ <<f.initiator, other>> \in consent
            /\ <<other, f.initiator>> \notin consent

\* What the friend list shows is what the direct-message gate admits, from both
\* sides: b is in a's list exactly when areFriends(a, b) and areFriends(b, a).
FriendListAgreesWithGate ==
    \A a, b \in UserId :
        /\ (b \in getFriends(a)) <=> areFriends(a, b)
        /\ (b \in getFriends(a)) <=> (a \in getFriends(b))

\* Every request that FRIEND_LIST shows a user as incoming is one that this user
\* may answer: neither acceptRequest nor rejectRequest would refuse it.
IncomingIsAnswerable ==
    \A a, b \in UserId : b \in getPendingIncoming(a) =>
        /\ PendingRows(a, b) # {}
        /\ \A f \in PendingRows(a, b) : f.initiator # a

\* No operation ends a friendship: handle_direct_message may rely on a check of
\* areFriends made in an earlier step.
FriendsForever ==
    [][\A a, b \in UserId : areFriends(a, b) => areFriends(a, b)']_vars
=============================================================================
