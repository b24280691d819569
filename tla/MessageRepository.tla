-------------------------- MODULE MessageRepository --------------------------
(***************************************************************************)
(* The direct_messages table and the operations of                         *)
(* include/repositories/message_repository.hpp on it.                      *)
(*                                                                         *)
(* The id of a message is the position of its row (AUTOINCREMENT, and no   *)
(* row is ever deleted); the id also stands for the text.  A query with    *)
(* ORDER BY create_at leaves the order within one second open, and a       *)
(* grouped one the order in which its rows are scanned: the value of a     *)
(* query here is the set of answers it may give.                           *)
(***************************************************************************)
EXTENDS Integers, Sequences, FiniteSets, Functions

CONSTANTS
    Party,                          \* the ids of users that write to each other
    Limit,                          \* the limit passed to getHistory
    MaxMessages, MaxTime            \* bounds of the model

ASSUME MessageAssumption ==
    /\ Party \subseteq Nat
    /\ Limit \in Nat /\ MaxMessages \in Nat /\ MaxTime \in Nat

VARIABLES
    direct_messages,                \* id |-> [sender, recipient, create_at, delivered]
    now                             \* system_clock in seconds

vars == <<direct_messages, now>>

Message == [sender: Party, recipient: Party, create_at: Nat, delivered: BOOLEAN]

-----------------------------------------------------------------------------
(***************************************************************************)
(* Queries.                                                                *)
(***************************************************************************)

Time(i) == direct_messages[i].create_at

\* The orders in which the rows in S may be visited.
Scans(S) == {q \in [1..Cardinality(S) -> S] : IsInjective(q)}

\* The answers that ORDER BY create_at ASC, or DESC, may give of the rows in S.
OrderedByTime(S) ==
    {q \in Scans(S) : \A i, j \in DOMAIN q : i < j => Time(q[i]) <= Time(q[j])}

NewestFirst(S) ==
    {q \in Scans(S) : \A i, j \in DOMAIN q : i < j => Time(q[i]) >= Time(q[j])}

Undelivered(recipient) ==
    {i \in DOMAIN direct_messages : /\ direct_messages[i].recipient = recipient
                                    /\ ~ direct_messages[i].delivered}

getUndelivered(recipient) == OrderedByTime(Undelivered(recipient))

Conversation(a, b) ==
    {i \in DOMAIN direct_messages :
        LET m == direct_messages[i]
        IN  \/ m.sender = a /\ m.recipient = b
            \/ m.sender = b /\ m.recipient = a}

\* A wrong ORDER BY: DESC, so that the LIMIT keeps the latest.
getHistoryLatest(a, b) ==
    {SubSeq(q, 1, IF Len(q) < Limit THEN Len(q) ELSE Limit) :
        q \in NewestFirst(Conversation(a, b))}

getHistory(a, b) ==
    {SubSeq(q, 1, IF Len(q) < Limit THEN Len(q) ELSE Limit) :
        q \in OrderedByTime(Conversation(a, b))}

\* The CASE of getLastMessages.
PeerOf(u, i) ==
    LET m == direct_messages[i] IN IF m.sender = u THEN m.recipient ELSE m.sender

\* Its WHERE and its GROUP BY.
Own(u) == {i \in DOMAIN direct_messages : u \in {direct_messages[i].sender, direct_messages[i].recipient}}

Peers(u) == {PeerOf(u, i) : i \in Own(u)}

Group(u, p) == {i \in Own(u) : PeerOf(u, i) = p}

\* The row of which a grouped SELECT with MAX(create_at) returns the other
\* columns, when it scans the group in the order q: SQLite takes them from a row
\* whenever that row raises the maximum.
BareRow(q) ==
    LET row[n \in 1..Len(q)] ==
            IF n = 1 THEN q[1]
            ELSE IF Time(q[n]) > Time(row[n - 1]) THEN q[n] ELSE row[n - 1]
    IN  row[Len(q)]

\* HAVING create_at = MAX(create_at).
IsMax(i, S) == \A j \in S : Time(j) <= Time(i)

\* Without the HAVING there is no MAX: each group is shown by any row of it.
getLastMessagesNoMax(u) ==
    UNION {NewestFirst({bare[p] : p \in Peers(u)}) :
              bare \in {f \in [Peers(u) -> Own(u)] : \A p \in Peers(u) : f[p] \in Group(u, p)}}

\* One row for each group that passes the HAVING, ORDER BY create_at DESC.
getLastMessages(u) ==
    UNION {NewestFirst({bare[p] : p \in {r \in Peers(u) : IsMax(bare[r], Group(u, r))}}) :
              bare \in {f \in [Peers(u) -> Own(u)] :
                  \A p \in Peers(u) : \E q \in Scans(Group(u, p)) : f[p] = BareRow(q)}}

-----------------------------------------------------------------------------
(***************************************************************************)
(* Operations.                                                             *)
(***************************************************************************)

\* A wrong create_at: the second that is to come.
saveMessageRoundedUp(sender, recipient) ==
    /\ Len(direct_messages) < MaxMessages
    /\ direct_messages' = Append(direct_messages,
            [sender |-> sender, recipient |-> recipient, create_at |-> now + 1, delivered |-> FALSE])

saveMessage(sender, recipient) ==
    /\ Len(direct_messages) < MaxMessages
    /\ direct_messages' = Append(direct_messages,
            [sender |-> sender, recipient |-> recipient, create_at |-> now, delivered |-> FALSE])

\* A wrong UPDATE: every row up to the last one handed out.
markDeliveredUpTo(ids) ==
    direct_messages' = [i \in DOMAIN direct_messages |->
        [direct_messages[i] EXCEPT !.delivered = @ \/ \E j \in ids : i <= j]]

markDelivered(ids) ==
    direct_messages' = [i \in DOMAIN direct_messages |->
        [direct_messages[i] EXCEPT !.delivered = @ \/ i \in ids]]

-----------------------------------------------------------------------------
Init ==
    /\ direct_messages = << >>
    /\ now = 0

\* The callers save only between friends, who are never one and the same user.
Save(a, b) == saveMessage(a, b) /\ UNCHANGED now

Drain(u) == \E q \in getUndelivered(u) : markDelivered(Range(q)) /\ UNCHANGED now

Tick == now < MaxTime /\ now' = now + 1 /\ UNCHANGED direct_messages

Next ==
    \/ \E a, b \in Party : a # b /\ Save(a, b)
    \/ \E u \in Party : Drain(u)
    \/ Tick

Spec == Init /\ [][Next]_vars

-----------------------------------------------------------------------------
(***************************************************************************)
(* Properties.                                                             *)
(***************************************************************************)

\* Types of the table, and a clock that is never behind a stored message.
TypeOK ==
    /\ direct_messages \in Seq(Message)
    /\ now \in Nat
    /\ \A i \in DOMAIN direct_messages : direct_messages[i].create_at <= now

\* What two users have written to each other.
Between(a, b) ==
    {i \in DOMAIN direct_messages :
        {direct_messages[i].sender, direct_messages[i].recipient} = {a, b}}

\* getHistory answers both users alike: with the whole conversation while it
\* fits the limit, and then with the oldest Limit messages of it; in the order
\* of create_at, no message twice, nothing of anybody else, and nothing left
\* out that is older than what is there.
HistoryIsOldest ==
    \A a, b \in Party :
        /\ getHistory(a, b) = getHistory(b, a)
        /\ \A h \in getHistory(a, b) :
              /\ Range(h) \subseteq Between(a, b) /\ IsInjective(h)
              /\ \/ Range(h) = Between(a, b)
                 \/ Len(h) = Limit /\ Limit < Cardinality(Between(a, b))
              /\ \A n \in DOMAIN h :
                    /\ \A k \in 1..n : Time(h[k]) <= Time(h[n])
                    /\ \A i \in Between(a, b) \ Range(h) : Time(h[n]) <= Time(i)

\* However the groups are scanned, getLastMessages has one row for every user
\* that u has exchanged a message with, as new as any message between the two,
\* no row of anybody else, and the newest conversation first.
ChatListIsNewest ==
    \A u \in Party : \A list \in getLastMessages(u) :
        /\ \A p \in Party : Between(u, p) # {} =>
              \E n \in DOMAIN list :
                  /\ list[n] \in Between(u, p) /\ IsMax(list[n], Between(u, p))
                  /\ \A k \in DOMAIN list \ {n} : list[k] \notin Between(u, p)
        /\ \A n \in DOMAIN list :
              /\ \E p \in Party : list[n] \in Between(u, p)
              /\ \A k \in 1..n : Time(list[k]) >= Time(list[n])

\* A row that is marked delivered stays so, and marking a user's backlog takes
\* all of it: nobody else's backlog changes in that step, and no other step
\* takes anything from a backlog.
BacklogsIndependent ==
    [][/\ \A i \in DOMAIN direct_messages :
             direct_messages[i].delivered => direct_messages'[i].delivered
       /\ \A u \in Party :
             \/ Undelivered(u) \subseteq Undelivered(u)'
             \/ /\ Undelivered(u)' = {}
                /\ \A v \in Party \ {u} : Undelivered(v)' = Undelivered(v)]_vars
=============================================================================
