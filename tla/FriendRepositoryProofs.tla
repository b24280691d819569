----------------------- MODULE FriendRepositoryProofs -----------------------
(***************************************************************************)
(* What the friendships table guarantees for every set of user ids.        *)
(*                                                                         *)
(* MutualConsent is not inductive: an acceptance turns a pending row into  *)
(* an accepted one, so the invariant also says whose agreement a pending   *)
(* row stands for (PendingIsOneSided), that an UPDATE or DELETE of a pair  *)
(* touches one row (OneRowPerPair, RowsNormalized), and that no agreement  *)
(* outlives its row (ConsentHasRow).                                       *)
(***************************************************************************)
EXTENDS FriendRepository, TLAPS

ConsentHasRow == \A u, v \in UserId : <<u, v>> \in consent => Rows(u, v) # {}

IInv ==
    /\ TypeOK
    /\ RowsNormalized
    /\ OneRowPerPair
    /\ PendingIsOneSided
    /\ MutualConsent
    /\ ConsentHasRow

-----------------------------------------------------------------------------
\* normalize returns the two ids in ascending order, the same for both orders
\* of its arguments, and determines the set of the two.
LEMMA NormalizeFacts ==
    ASSUME NEW a \in Nat, NEW b \in Nat
    PROVE  /\ normalize(a, b) = normalize(b, a)
           /\ normalize(a, b) \in {<<a, b>>, <<b, a>>}
           /\ a # b => normalize(a, b)[1] < normalize(a, b)[2]
  BY DEF normalize

\* A stored row is found from either side, and only from its own two users.
LEMMA RowsOfPair ==
    ASSUME IInv, NEW f \in friendships, NEW a \in UserId, NEW b \in UserId
    PROVE  f \in Rows(a, b) <=> ({f.user1, f.user2} = {a, b})
  BY UserIdAssumption DEF IInv, TypeOK, RowsNormalized, Friendship, Rows, normalize

\* The pair of users of a table operation has at most one row.
LEMMA RowIsUnique ==
    ASSUME IInv, NEW a \in UserId, NEW b \in UserId, NEW f \in Rows(a, b)
    PROVE  Rows(a, b) = {f}
  <1>1. ASSUME NEW g \in Rows(a, b) PROVE g = f
    BY <1>1 DEF IInv, OneRowPerPair, Rows
  <1> QED
    BY <1>1

-----------------------------------------------------------------------------
LEMMA InitIInv == Init => IInv
  BY DEF Init, IInv, TypeOK, RowsNormalized, OneRowPerPair, PendingIsOneSided,
         MutualConsent, ConsentHasRow

LEMMA SendIInv ==
    ASSUME IInv, NEW a \in UserId, NEW b \in UserId, Send(a, b)
    PROVE  IInv'
  <1>0. CASE UNCHANGED vars
    BY <1>0 DEF vars, IInv, TypeOK, RowsNormalized, OneRowPerPair, PendingIsOneSided,
           MutualConsent, ConsentHasRow, Rows
  <1> SUFFICES ASSUME a # b, Rows(a, b) = {}, 
                      friendships' = friendships \cup
                        {[user1 |-> normalize(a, b)[1], user2 |-> normalize(a, b)[2],
                          status |-> "pending", initiator |-> a]},
                      consent' = consent \cup {<<a, b>>}
               PROVE  IInv'
    BY <1>0 DEF Send, sendRequest
  <1> DEFINE new == [user1 |-> normalize(a, b)[1], user2 |-> normalize(a, b)[2],
                     status |-> "pending", initiator |-> a]
  <1>1. /\ a \in Nat /\ b \in Nat
        /\ new.user1 < new.user2
        /\ \/ new.user1 = a /\ new.user2 = b
           \/ new.user1 = b /\ new.user2 = a
    BY UserIdAssumption DEF normalize
  <1>2. TypeOK'
    BY <1>1 DEF IInv, TypeOK, Friendship, Status
  <1>3. RowsNormalized'
    BY <1>1 DEF IInv, RowsNormalized
  <1>4. ASSUME NEW f \in friendships PROVE ~(f.user1 = new.user1 /\ f.user2 = new.user2)
    BY <1>1 DEF Rows, normalize
  <1>5. OneRowPerPair'
    BY <1>4 DEF IInv, OneRowPerPair
  <1>6. <<a, b>> \notin consent /\ <<b, a>> \notin consent
    BY <1>1, NormalizeFacts DEF IInv, ConsentHasRow, Rows
  <1>7. ASSUME NEW f \in friendships PROVE ~({f.user1, f.user2} = {a, b})
    BY RowsOfPair
  <1>8. PendingIsOneSided'
    <2>1. ASSUME NEW f \in friendships, f.status = "pending"
          PROVE  LET other == IF f.initiator = f.user1 THEN f.user2 ELSE f.user1
                 IN  /\ <<f.initiator, other>> \in consent'
                     /\ <<other, f.initiator>> \notin consent'
      <3>1. f.initiator \in {f.user1, f.user2}
        BY DEF IInv, RowsNormalized
      <3> QED
        BY <1>7, <2>1, <3>1 DEF IInv, PendingIsOneSided
    <2>2. /\ <<new.initiator, b>> \in consent'
          /\ <<b, new.initiator>> \notin consent'
      BY <1>6
    <2> QED
      BY <1>1, <2>1, <2>2 DEF PendingIsOneSided
  <1>9. MutualConsent'
    BY DEF IInv, MutualConsent
  <1>10. ConsentHasRow'
    <2>1. new \in Rows(a, b)' /\ new \in Rows(b, a)'
      BY <1>1, NormalizeFacts DEF Rows, normalize
    <2>2. \A u, v \in UserId : Rows(u, v) \subseteq Rows(u, v)'
      BY DEF Rows
    <2> QED
      BY <2>1, <2>2 DEF IInv, ConsentHasRow
  <1> QED
    BY <1>2, <1>3, <1>5, <1>8, <1>9, <1>10 DEF IInv

LEMMA AcceptIInv ==
    ASSUME IInv, NEW a \in UserId, NEW b \in UserId, Accept(a, b)
    PROVE  IInv'
  <1>0. CASE UNCHANGED vars
    BY <1>0 DEF vars, IInv, TypeOK, RowsNormalized, OneRowPerPair, PendingIsOneSided,
           MutualConsent, ConsentHasRow, Rows
  <1> SUFFICES ASSUME NEW f \in PendingRows(a, b), f.initiator # a,
                      friendships' = (friendships \ Rows(a, b)) \cup
                        {[g EXCEPT !.status = "accepted"] : g \in Rows(a, b)},
                      consent' = consent \cup {<<a, b>>}
               PROVE  IInv'
    BY <1>0 DEF Accept, acceptRequest
  <1> DEFINE new == [f EXCEPT !.status = "accepted"]
  <1>1. f \in Rows(a, b) /\ f \in friendships /\ f \in Friendship /\ f.status = "pending"
    BY DEF PendingRows, Rows, IInv, TypeOK
  <1>2. Rows(a, b) = {f}
    BY <1>1, RowIsUnique
  <1>3. friendships' = (friendships \ {f}) \cup {new}
    BY <1>2
  <1>4. /\ new \in Friendship
        /\ new.user1 = f.user1 /\ new.user2 = f.user2 /\ new.initiator = f.initiator
        /\ new.status = "accepted"
    BY <1>1 DEF Friendship, Status
  <1>5. {f.user1, f.user2} = {a, b} /\ f.user1 < f.user2 /\ f.initiator = b
    BY <1>1, RowsOfPair DEF IInv, RowsNormalized
  <1>6. TypeOK'
    BY <1>3, <1>4 DEF IInv, TypeOK
  <1>7. RowsNormalized'
    BY <1>3, <1>4, <1>5 DEF IInv, RowsNormalized
  <1>8. OneRowPerPair'
    BY <1>1, <1>3, <1>4 DEF IInv, OneRowPerPair
  <1>9. ASSUME NEW g \in friendships \ {f} PROVE ~({g.user1, g.user2} = {a, b})
    BY <1>2, RowsOfPair
  <1>10. PendingIsOneSided'
    <2>1. ASSUME NEW g \in friendships \ {f}, g.status = "pending"
          PROVE  LET other == IF g.initiator = g.user1 THEN g.user2 ELSE g.user1
                 IN  /\ <<g.initiator, other>> \in consent'
                     /\ <<other, g.initiator>> \notin consent'
      <3>1. g.initiator \in {g.user1, g.user2}
        BY DEF IInv, RowsNormalized
      <3> QED
        BY <1>9, <2>1, <3>1 DEF IInv, PendingIsOneSided
    <2> QED
      BY <1>3, <1>4, <2>1 DEF PendingIsOneSided
  <1>11. MutualConsent'
    <2>1. <<b, a>> \in consent
      BY <1>1, <1>5 DEF IInv, PendingIsOneSided
    <2> QED
      BY <1>3, <1>4, <1>5, <2>1 DEF IInv, MutualConsent
  <1>12. ConsentHasRow'
    <2>1. new \in Rows(a, b)'
      BY <1>1, <1>3, <1>4 DEF Rows
    <2>2. ASSUME NEW u \in UserId, NEW v \in UserId, Rows(u, v) # {} PROVE Rows(u, v)' # {}
      BY <1>3, <1>4, <2>2 DEF Rows
    <2> QED
      BY <2>1, <2>2 DEF IInv, ConsentHasRow
  <1> QED
    BY <1>6, <1>7, <1>8, <1>10, <1>11, <1>12 DEF IInv

LEMMA RejectIInv ==
    ASSUME IInv, NEW a \in UserId, NEW b \in UserId, Reject(a, b)
    PROVE  IInv'
  <1>0. CASE UNCHANGED vars
    BY <1>0 DEF vars, IInv, TypeOK, RowsNormalized, OneRowPerPair, PendingIsOneSided,
           MutualConsent, ConsentHasRow, Rows
  <1> SUFFICES ASSUME friendships' = friendships \ Rows(a, b),
                      consent' = consent \ {<<a, b>>, <<b, a>>}
               PROVE  IInv'
    BY <1>0 DEF Reject, rejectRequest
  <1>1. TypeOK' /\ RowsNormalized' /\ OneRowPerPair'
    BY DEF IInv, TypeOK, RowsNormalized, OneRowPerPair
  <1>2. ASSUME NEW g \in friendships'
        PROVE  ~({g.user1, g.user2} = {a, b})
    BY RowsOfPair
  <1>3. PendingIsOneSided'
    <2>1. \A g \in friendships' : g.initiator \in {g.user1, g.user2}
      BY <1>1 DEF RowsNormalized
    <2> QED
      BY <1>2, <2>1 DEF IInv, PendingIsOneSided
  <1>4. MutualConsent'
    BY <1>2 DEF IInv, MutualConsent
  <1>5. ConsentHasRow'
    <2>1. ASSUME NEW u \in UserId, NEW v \in UserId, <<u, v>> \in consent'
          PROVE  Rows(u, v)' # {}
      <3>1. PICK g \in Rows(u, v) : TRUE
        BY <2>1 DEF IInv, ConsentHasRow
      <3>2. g \in friendships /\ {g.user1, g.user2} = {u, v}
        BY <3>1, RowsOfPair DEF Rows
      <3>3. g \notin Rows(a, b)
        BY <2>1, <3>2, RowsOfPair
      <3> QED
        BY <3>1, <3>3 DEF Rows
    <2> QED
      BY <2>1 DEF ConsentHasRow
  <1> QED
    BY <1>1, <1>3, <1>4, <1>5 DEF IInv

\* An operation on any pair of users leaves every friendship in place.
LEMMA StepKeepsFriends ==
    ASSUME IInv, NEW c \in UserId, NEW d \in UserId,
           Send(c, d) \/ Accept(c, d) \/ Reject(c, d),
           NEW a \in UserId, NEW b \in UserId, areFriends(a, b)
    PROVE  areFriends(a, b)'
  <1>1. PICK f \in Rows(a, b) : f.status = "accepted"
    BY DEF areFriends
  <1>2. CASE UNCHANGED vars
    BY <1>1, <1>2 DEF vars, areFriends, Rows
  <1>3. CASE friendships \subseteq friendships'
    BY <1>1, <1>3 DEF areFriends, Rows
  <1>4. CASE PendingRows(c, d) # {} /\ friendships \ Rows(c, d) \subseteq friendships'
    <2>1. f \notin Rows(c, d)
      BY <1>1, <1>4, RowIsUnique DEF PendingRows
    <2> QED
      BY <1>1, <1>4, <2>1 DEF areFriends, Rows
  <1> QED
    BY <1>2, <1>3, <1>4 DEF Send, sendRequest, Accept, acceptRequest, Reject, rejectRequest

-----------------------------------------------------------------------------
\* The strengthened invariant of the friendships table.
THEOREM Invariance == Spec => []IInv
  <1>1. ASSUME IInv, [Next]_vars PROVE IInv'
    <2>1. CASE UNCHANGED vars
      BY <1>1, <2>1 DEF vars, IInv, TypeOK, RowsNormalized, OneRowPerPair,
             PendingIsOneSided, MutualConsent, ConsentHasRow, Rows
    <2>2. CASE Next
      BY <1>1, <2>2, SendIInv, AcceptIInv, RejectIInv DEF Next
    <2> QED
      BY <1>1, <2>1, <2>2
  <1> QED
    BY InitIInv, <1>1, PTL DEF Spec

\* The rows keep their types: sendRequest, acceptRequest and rejectRequest
\* write only 'pending' and 'accepted' rows of registered ids.
THEOREM TypeCorrect == Spec => []TypeOK
  BY Invariance, PTL DEF IInv

\* user1 < user2 in every row, whichever user's id the request named first.
THEOREM Normalized == Spec => []RowsNormalized
  BY Invariance, PTL DEF IInv

\* One row per pair of users, although the schema has no UNIQUE constraint.
THEOREM OneRow == Spec => []OneRowPerPair
  BY Invariance, PTL DEF IInv

\* An accepted friendship was asked for by one user and agreed to by the other.
THEOREM Mutual == Spec => []MutualConsent
  BY Invariance, PTL DEF IInv

\* The initiator column of a pending row names the one user who has agreed.
THEOREM OneSided == Spec => []PendingIsOneSided
  BY Invariance, PTL DEF IInv

\* getFriends, which fills the friend list, and areFriends, which guards
\* handle_direct_message, give the same answer from both sides.
THEOREM ListAgreesWithGate == Spec => []FriendListAgreesWithGate
  <1>1. ASSUME IInv PROVE FriendListAgreesWithGate
    <2> SUFFICES ASSUME NEW a \in UserId, NEW b \in UserId
                 PROVE  /\ (b \in getFriends(a)) <=> areFriends(a, b)
                        /\ (a \in getFriends(b)) <=> areFriends(a, b)
      BY DEF FriendListAgreesWithGate
    <2>1. ASSUME NEW c \in UserId, NEW d \in UserId
          PROVE  (d \in getFriends(c)) <=>
                 \E f \in friendships : f.status = "accepted" /\ {f.user1, f.user2} = {c, d}
      BY <1>1 DEF getFriends, IInv, RowsNormalized, TypeOK, Friendship
    <2>2. areFriends(a, b) <=>
                 \E f \in friendships : f.status = "accepted" /\ {f.user1, f.user2} = {a, b}
      <3>1. \A f \in friendships : f \in Rows(a, b) <=> {f.user1, f.user2} = {a, b}
        BY <1>1, RowsOfPair
      <3>2. Rows(a, b) \subseteq friendships
        BY DEF Rows
      <3> QED
        BY <3>1, <3>2 DEF areFriends
    <2> QED
      BY <2>1, <2>2
  <1> QED
    BY Invariance, <1>1, PTL

\* What getPendingIncoming lists, acceptRequest and rejectRequest admit.
THEOREM Answerable == Spec => []IncomingIsAnswerable
  <1>1. ASSUME IInv PROVE IncomingIsAnswerable
    <2> SUFFICES ASSUME NEW a \in UserId, NEW b \in UserId, b \in getPendingIncoming(a)
                 PROVE  /\ PendingRows(a, b) # {}
                        /\ \A g \in PendingRows(a, b) : g.initiator # a
      BY DEF IncomingIsAnswerable
    <2>1. PICK f \in friendships : /\ f.status = "pending" /\ f.initiator = b /\ b # a
                                   /\ a \in {f.user1, f.user2}
      BY DEF getPendingIncoming
    <2>2. {f.user1, f.user2} = {a, b}
      BY <1>1, <2>1 DEF IInv, RowsNormalized
    <2>3. f \in Rows(a, b)
      BY <1>1, <2>2, RowsOfPair
    <2>4. Rows(a, b) = {f}
      BY <1>1, <2>3, RowIsUnique
    <2> QED
      BY <2>1, <2>4 DEF PendingRows
  <1> QED
    BY Invariance, <1>1, PTL

\* A friendship, once accepted, is never lost: no operation ends one.
THEOREM Forever == Spec => FriendsForever
  <1>1. ASSUME IInv, [Next]_vars
        PROVE  [\A a, b \in UserId : areFriends(a, b) => areFriends(a, b)']_vars
    BY <1>1, StepKeepsFriends DEF Next
  <1> QED
    BY Invariance, <1>1, PTL DEF Spec, FriendsForever
=============================================================================
