------------------------ MODULE UserRepositoryProofs ------------------------
(***************************************************************************)
(* What the users and sessions tables guarantee for any logins, TTL and    *)
(* interval of the TokenCleaner, with crashes and restarts.                *)
(*                                                                         *)
(* The properties compare a row of sessions with the token as it was drawn *)
(* and with the clock.  The strengthening says that a row is never altered *)
(* (RowsAreIssued), that a token is drawn for a user of the table and not  *)
(* in the future (IssuedToUsers), what becomes of a row on logout and in a *)
(* sweep (RevokedHaveNoRow, ValidHaveRow), and how far the armed timer is  *)
(* from the creation of any row that is left (TimerArmed): a row's age at  *)
(* the next sweep, which no row outlives by more than the TTL.             *)
(*                                                                         *)
(* TablesInv is the part of it that does not need the tables to remember   *)
(* every user and token: FileTransfer, in which an upload may destroy the  *)
(* database, relies on it alone where that has happened.  Each step is     *)
(* shown to keep TablesInv first, and then the rest.                       *)
(***************************************************************************)
EXTENDS UserRepository, SequenceTheorems, TLAPS

RowsAreIssued == \A t \in DOMAIN sessions : sessions[t] = issued[t]

IssuedToUsers ==
    \A t \in DOMAIN issued : issued[t].id \in DOMAIN users /\ issued[t].created_at <= now

RevokedHaveNoRow == DOMAIN sessions \cap revoked = {}

ValidHaveRow == \A t \in DOMAIN issued : ValidToken(t) => t \in DOMAIN sessions

TimerArmed ==
    up => /\ now <= timer
          /\ timer <= now + Interval
          /\ \A t \in DOMAIN sessions :
                timer <= sessions[t].created_at + TokenTTL + Interval

IssuedBefore == \A t \in DOMAIN issued : issued[t].created_at <= now

TablesInv ==
    /\ TypeOK
    /\ LoginsUnique
    /\ RowsAreIssued
    /\ IssuedBefore
    /\ TimerArmed

IInv ==
    /\ TypeOK
    /\ LoginsUnique
    /\ RowsAreIssued
    /\ IssuedToUsers
    /\ RevokedHaveNoRow
    /\ ValidHaveRow
    /\ TimerArmed

LEMMA IInvTables == IInv => TablesInv
  BY DEF IInv, TablesInv, IssuedToUsers, IssuedBefore

-----------------------------------------------------------------------------
\* A login that exists has an id, and the id is that login's.
LEMMA IdOfLogin ==
    ASSUME NEW l, userExists(l)
    PROVE  getIdByLogin(l) \in DOMAIN users /\ users[getIdByLogin(l)].login = l
  BY DEF userExists, getIdByLogin

\* A token's row says what was drawn,
LEMMA RowTables ==
    ASSUME TablesInv, NEW t \in DOMAIN sessions
    PROVE  /\ t \in DOMAIN issued
           /\ sessions[t] = issued[t]
           /\ sessions[t] \in Session
           /\ sessions[t].created_at \in Nat
           /\ sessions[t].created_at <= now
  BY DEF TablesInv, TypeOK, RowsAreIssued, IssuedBefore, Session

\* and names a user.
LEMMA RowFacts ==
    ASSUME IInv, NEW t \in DOMAIN sessions
    PROVE  /\ t \in DOMAIN issued
           /\ sessions[t] = issued[t]
           /\ sessions[t] \in Session
           /\ sessions[t].created_at \in Nat
           /\ sessions[t].created_at <= now
           /\ sessions[t].id \in DOMAIN users
  BY DEF IInv, TypeOK, RowsAreIssued, IssuedToUsers, Session

LEMMA InitIInv == Init => IInv
  <1> SUFFICES ASSUME Init PROVE IInv
    OBVIOUS
  <1>1. /\ DOMAIN users = {} /\ DOMAIN sessions = {} /\ DOMAIN issued = {}
        /\ users \in Seq([login: Login, password: Password]) /\ issued \in Seq(Session)
    BY DEF Init
  <1>2. TypeOK
    BY <1>1 DEF Init, TypeOK
  <1> QED
    BY <1>1, <1>2 DEF Init, IInv, LoginsUnique, RowsAreIssued, IssuedToUsers,
                      RevokedHaveNoRow, ValidHaveRow, TimerArmed

LEMMA StutterIInv == IInv /\ UNCHANGED vars => IInv'
  BY DEF vars, IInv, TypeOK, LoginsUnique, RowsAreIssued, IssuedToUsers, RevokedHaveNoRow,
         ValidHaveRow, TimerArmed, ValidToken

LEMMA StutterTables == TablesInv /\ UNCHANGED vars => TablesInv'
  BY DEF vars, TablesInv, TypeOK, LoginsUnique, RowsAreIssued, IssuedBefore, TimerArmed

\* An INSERT into users after the check keeps the logins unique.
LEMMA RegisterKeepsUnique ==
    ASSUME TypeOK, LoginsUnique, NEW l \in Login, NEW p \in Password, NEW err,
           registerUser(l, p, err)
    PROVE  /\ users' \in Seq([login: Login, password: Password])
           /\ LoginsUnique'
           /\ DOMAIN users \subseteq DOMAIN users'
           /\ \A i \in DOMAIN users : users'[i] = users[i]
  <1>1. CASE UNCHANGED users
    BY <1>1 DEF TypeOK, LoginsUnique
  <1>2. CASE ~ userExists(l) /\ users' = Append(users, [login |-> l, password |-> p])
    <2> DEFINE row == [login |-> l, password |-> p]
    <2>1. users \in Seq([login: Login, password: Password])
      BY DEF TypeOK
    <2>2. row \in [login: Login, password: Password]
      OBVIOUS
    <2>3. /\ users' \in Seq([login: Login, password: Password])
          /\ DOMAIN users' = DOMAIN users \cup {Len(users) + 1}
          /\ \A i \in DOMAIN users : users'[i] = users[i]
          /\ users'[Len(users) + 1] = row
      BY <1>2, <2>1, <2>2, AppendProperties
    <2> QED
      BY <1>2, <2>3 DEF LoginsUnique, userExists
  <1> QED
    BY <1>1, <1>2 DEF registerUser

\* The process goes on as it is, or ends.
LEMMA ProcessTyped ==
    ASSUME TypeOK, UNCHANGED <<up, timer>> \/ Stop
    PROVE  up' \in BOOLEAN /\ timer' \in Nat /\ (up' => up /\ timer' = timer)
  <1>1. up \in BOOLEAN /\ timer \in Nat
    BY DEF TypeOK
  <1>2. CASE UNCHANGED <<up, timer>>
    BY <1>1, <1>2
  <1>3. CASE Stop
    BY <1>3 DEF Stop
  <1> QED
    BY <1>2, <1>3

\* A step that only adds users, or in which the process ends as well.
LEMMA GrowTables ==
    ASSUME TablesInv, users' \in Seq([login: Login, password: Password]), LoginsUnique',
           UNCHANGED <<up, timer>> \/ Stop, UNCHANGED <<sessions, now, issued, revoked>>
    PROVE  TablesInv'
  <1>1. up' \in BOOLEAN /\ timer' \in Nat /\ (up' => up /\ timer' = timer)
    BY ProcessTyped DEF TablesInv
  <1>2. TypeOK' /\ RowsAreIssued' /\ IssuedBefore'
    BY <1>1 DEF TablesInv, TypeOK, RowsAreIssued, IssuedBefore
  <1>3. TimerArmed'
    BY <1>1 DEF TablesInv, TimerArmed
  <1> QED
    BY <1>2, <1>3 DEF TablesInv

LEMMA GrowIInv ==
    ASSUME IInv, users' \in Seq([login: Login, password: Password]), LoginsUnique',
           DOMAIN users \subseteq DOMAIN users', UNCHANGED <<up, timer>> \/ Stop,
           UNCHANGED <<sessions, now, issued, revoked>>
    PROVE  IInv'
  <1>1. TablesInv'
    BY IInvTables, GrowTables
  <1>2. IssuedToUsers' /\ RevokedHaveNoRow' /\ ValidHaveRow'
    BY DEF IInv, IssuedToUsers, RevokedHaveNoRow, ValidHaveRow, ValidToken
  <1> QED
    BY <1>1, <1>2 DEF IInv, TablesInv

\* A token is drawn for a user of the table, perhaps one added in the same step,
\* which may be the last of the process.
LEMMA IssuedRow ==
    ASSUME TypeOK, NEW id \in DOMAIN users', issueToken(id),
           users' \in Seq([login: Login, password: Password])
    PROVE  LET row == [id |-> id, created_at |-> now]
           IN  /\ row \in Session
               /\ issued' \in Seq(Session)
               /\ DOMAIN issued' = DOMAIN issued \cup {NextToken}
               /\ NextToken \notin DOMAIN issued
               /\ \A t \in DOMAIN issued : issued'[t] = issued[t]
               /\ issued'[NextToken] = row
               /\ DOMAIN sessions' = DOMAIN sessions \cup {NextToken}
               /\ sessions'[NextToken] = row
               /\ \A t \in DOMAIN sessions : sessions'[t] = sessions[t]
               /\ DOMAIN sessions \subseteq DOMAIN issued
  <1> DEFINE row == [id |-> id, created_at |-> now]
  <1>1. row \in Session
    BY DEF TypeOK, Session, UserId
  <1>2. /\ issued' \in Seq(Session)
        /\ DOMAIN issued' = DOMAIN issued \cup {NextToken}
        /\ NextToken \notin DOMAIN issued
        /\ \A t \in DOMAIN issued : issued'[t] = issued[t]
        /\ issued'[NextToken] = row
    BY <1>1, AppendProperties DEF issueToken, NextToken, TypeOK
  <1>3. /\ DOMAIN sessions' = DOMAIN sessions \cup {NextToken}
        /\ sessions'[NextToken] = row
        /\ \A t \in DOMAIN sessions : sessions'[t] = sessions[t]
        /\ DOMAIN sessions \subseteq DOMAIN issued
    BY <1>2 DEF issueToken, TypeOK
  <1> QED
    BY <1>1, <1>2, <1>3

LEMMA IssueTables ==
    ASSUME TablesInv, users' \in Seq([login: Login, password: Password]), LoginsUnique',
           NEW id \in DOMAIN users', issueToken(id),
           UNCHANGED <<up, timer>> \/ Stop, UNCHANGED <<now, revoked>>
    PROVE  TablesInv'
  <1> DEFINE row == [id |-> id, created_at |-> now]
  <1>0. up' \in BOOLEAN /\ timer' \in Nat /\ (up' => up /\ timer' = timer)
    BY ProcessTyped DEF TablesInv
  <1>1. /\ row \in Session
        /\ issued' \in Seq(Session)
        /\ DOMAIN issued' = DOMAIN issued \cup {NextToken}
        /\ \A t \in DOMAIN issued : issued'[t] = issued[t]
        /\ issued'[NextToken] = row
        /\ DOMAIN sessions' = DOMAIN sessions \cup {NextToken}
        /\ sessions'[NextToken] = row
        /\ \A t \in DOMAIN sessions : sessions'[t] = sessions[t]
        /\ DOMAIN sessions \subseteq DOMAIN issued
    BY IssuedRow DEF TablesInv
  <1>2. now \in Nat /\ timer \in Nat /\ row.created_at = now
    BY DEF TablesInv, TypeOK
  <1>3. TypeOK'
    BY <1>0, <1>1 DEF TablesInv, TypeOK
  <1>4. RowsAreIssued'
    BY <1>1 DEF TablesInv, RowsAreIssued
  <1>5. IssuedBefore'
    BY <1>1, <1>2 DEF TablesInv, IssuedBefore
  <1>6. TimerArmed'
    BY <1>0, <1>1, <1>2, UserAssumption DEF TablesInv, TimerArmed
  <1> QED
    BY <1>3, <1>4, <1>5, <1>6 DEF TablesInv

LEMMA IssueIInv ==
    ASSUME IInv, users' \in Seq([login: Login, password: Password]), LoginsUnique',
           DOMAIN users \subseteq DOMAIN users', NEW id \in DOMAIN users', issueToken(id),
           UNCHANGED <<up, timer>> \/ Stop, UNCHANGED <<now, revoked>>
    PROVE  IInv'
  <1> DEFINE row == [id |-> id, created_at |-> now]
  <1>1. TablesInv'
    BY IInvTables, IssueTables
  <1>2. /\ DOMAIN issued' = DOMAIN issued \cup {NextToken}
        /\ NextToken \notin DOMAIN issued
        /\ \A t \in DOMAIN issued : issued'[t] = issued[t]
        /\ issued'[NextToken] = row
        /\ DOMAIN sessions' = DOMAIN sessions \cup {NextToken}
    BY IssuedRow DEF IInv
  <1>3. IssuedToUsers'
    BY <1>2 DEF IInv, TypeOK, IssuedToUsers
  <1>4. RevokedHaveNoRow'
    BY <1>2 DEF IInv, TypeOK, RevokedHaveNoRow
  <1>5. ValidHaveRow'
    BY <1>2 DEF IInv, ValidHaveRow, ValidToken
  <1> QED
    BY <1>1, <1>3, <1>4, <1>5 DEF IInv, TablesInv

\* Rows are removed, and the timer is left alone.
LEMMA DropTables ==
    ASSUME TablesInv, NEW S \in SUBSET DOMAIN sessions,
           sessions' = Restrict(sessions, S), revoked' \subseteq DOMAIN issued,
           UNCHANGED <<users, now, up, timer, issued>>
    PROVE  TablesInv'
  <1>1. DOMAIN sessions' = S /\ \A t \in S : sessions'[t] = sessions[t]
    BY DEF Restrict
  <1>2. TypeOK' /\ LoginsUnique' /\ RowsAreIssued' /\ IssuedBefore'
    BY <1>1 DEF TablesInv, TypeOK, LoginsUnique, RowsAreIssued, IssuedBefore
  <1>3. TimerArmed'
    BY <1>1 DEF TablesInv, TimerArmed
  <1> QED
    BY <1>2, <1>3 DEF TablesInv

\* Those that are removed belong to no valid token.
LEMMA DropIInv ==
    ASSUME IInv, NEW S \in SUBSET DOMAIN sessions,
           sessions' = Restrict(sessions, S),
           revoked \subseteq revoked', revoked' \subseteq DOMAIN issued, S \cap revoked' = {},
           \A t \in DOMAIN sessions \ S : ~ ValidToken(t) \/ t \in revoked',
           UNCHANGED <<users, now, up, timer, issued>>
    PROVE  IInv'
  <1>1. DOMAIN sessions' = S
    BY DEF Restrict
  <1>2. TablesInv'
    BY IInvTables, DropTables
  <1>3. IssuedToUsers'
    BY DEF IInv, IssuedToUsers
  <1>4. RevokedHaveNoRow'
    BY <1>1 DEF RevokedHaveNoRow
  <1>5. ValidHaveRow'
    BY <1>1 DEF IInv, ValidHaveRow, ValidToken
  <1> QED
    BY <1>2, <1>3, <1>4, <1>5 DEF IInv, TablesInv

LEMMA LookupTables ==
    ASSUME TablesInv, NEW t, getLoginByToken(t),
           UNCHANGED <<users, now, up, timer, issued, revoked>>
    PROVE  TablesInv'
  <1>1. CASE sessions' = sessions
    BY <1>1, StutterTables DEF vars
  <1>2. CASE sessions' = Restrict(sessions, DOMAIN sessions \ {t})
    BY <1>2, DropTables DEF TablesInv, TypeOK
  <1> QED
    BY <1>1, <1>2 DEF getLoginByToken

LEMMA LookupIInv ==
    ASSUME IInv, NEW t, getLoginByToken(t),
           UNCHANGED <<users, now, up, timer, issued, revoked>>
    PROVE  IInv'
  <1>1. CASE sessions' = sessions
    BY <1>1, StutterIInv DEF vars
  <1>2. CASE TokenError(t) = "TokenExpired" /\ sessions' = Restrict(sessions, DOMAIN sessions \ {t})
    <2>1. t \in DOMAIN sessions /\ Expired(t)
      BY <1>2 DEF TokenError
    <2>2. ~ ValidToken(t)
      BY <2>1, RowFacts, UserAssumption DEF Expired, ExpiredAt, ValidToken, IInv, TypeOK
    <2> QED
      BY <1>2, <2>2, DropIInv DEF IInv, TypeOK, RevokedHaveNoRow
  <1> QED
    BY <1>1, <1>2 DEF getLoginByToken

LEMMA LogoutTables ==
    ASSUME TablesInv, NEW t, logout(t), UNCHANGED <<users, now, up, timer, issued>>
    PROVE  TablesInv'
  <1>1. revoked \subseteq DOMAIN issued
    BY DEF TablesInv, TypeOK
  <1> QED
    BY <1>1, DropTables DEF logout

LEMMA LogoutIInv ==
    ASSUME IInv, NEW t, logout(t), UNCHANGED <<users, now, up, timer, issued>>
    PROVE  IInv'
  <1>1. DOMAIN sessions \subseteq DOMAIN issued /\ revoked \subseteq DOMAIN issued
    BY DEF IInv, TypeOK
  <1> QED
    BY <1>1, DropIInv DEF logout, IInv, RevokedHaveNoRow

\* A sweep that arms the timer: of main at the start, of the timer's handler after.
LEMMA SweepTables ==
    ASSUME TablesInv, cleanExpiredTokens, timer' = now + Interval, up' = TRUE,
           UNCHANGED <<users, now, issued, revoked>>
    PROVE  TablesInv'
  <1> DEFINE S == {t \in DOMAIN sessions : ~ Expired(t)}
  <1>1. /\ DOMAIN sessions' = S
        /\ \A t \in S : sessions'[t] = sessions[t]
        /\ S \subseteq DOMAIN sessions
    BY DEF cleanExpiredTokens, Restrict
  <1>2. now \in Nat /\ timer' \in Nat
    BY UserAssumption DEF TablesInv, TypeOK
  <1>3. TypeOK' /\ LoginsUnique' /\ RowsAreIssued' /\ IssuedBefore'
    BY <1>1, <1>2 DEF TablesInv, TypeOK, LoginsUnique, RowsAreIssued, IssuedBefore
  <1>4. ASSUME NEW t \in S
        PROVE  timer' <= sessions'[t].created_at + TokenTTL + Interval
    BY <1>1, <1>2, RowTables, UserAssumption DEF Expired, ExpiredAt
  <1>5. TimerArmed'
    BY <1>1, <1>2, <1>4, UserAssumption DEF TimerArmed
  <1> QED
    BY <1>3, <1>5 DEF TablesInv

LEMMA SweepIInv ==
    ASSUME IInv, cleanExpiredTokens, timer' = now + Interval, up' = TRUE,
           UNCHANGED <<users, now, issued, revoked>>
    PROVE  IInv'
  <1> DEFINE S == {t \in DOMAIN sessions : ~ Expired(t)}
  <1>1. DOMAIN sessions' = S /\ S \subseteq DOMAIN sessions
    BY DEF cleanExpiredTokens, Restrict
  <1>2. TablesInv'
    BY IInvTables, SweepTables
  <1>3. IssuedToUsers' /\ RevokedHaveNoRow'
    BY <1>1 DEF IInv, IssuedToUsers, RevokedHaveNoRow
  <1>4. ValidHaveRow'
    <2> SUFFICES ASSUME NEW t \in DOMAIN issued, ValidToken(t) PROVE t \in S
      BY <1>1 DEF ValidHaveRow, ValidToken
    <2>1. t \in DOMAIN sessions /\ now \in Nat
      BY DEF IInv, TypeOK, ValidHaveRow
    <2> QED
      BY <2>1, RowFacts, UserAssumption DEF ValidToken, Expired, ExpiredAt
  <1> QED
    BY <1>2, <1>3, <1>4 DEF IInv, TablesInv

LEMMA StopTables ==
    ASSUME TablesInv, Stop, UNCHANGED <<users, sessions, now, issued, revoked>>
    PROVE  TablesInv'
  BY DEF Stop, TablesInv, TypeOK, LoginsUnique, RowsAreIssued, IssuedBefore, TimerArmed

LEMMA StopIInv ==
    ASSUME IInv, Stop, UNCHANGED <<users, sessions, now, issued, revoked>>
    PROVE  IInv'
  BY DEF Stop, IInv, TypeOK, LoginsUnique, RowsAreIssued, IssuedToUsers, RevokedHaveNoRow,
         ValidHaveRow, TimerArmed, ValidToken

LEMMA TickTables == ASSUME TablesInv, Tick PROVE TablesInv'
  <1>1. now \in Nat /\ timer \in Nat /\ now' = now + 1 /\ (up => now' <= timer)
    BY DEF Tick, TablesInv, TypeOK
  <1>2. TypeOK' /\ LoginsUnique' /\ RowsAreIssued'
    BY <1>1 DEF Tick, TablesInv, TypeOK, LoginsUnique, RowsAreIssued
  <1>3. \A t \in DOMAIN issued : issued[t].created_at \in Nat
    <2>1. \A t \in DOMAIN issued : issued[t] \in Session
      BY ElementOfSeq DEF TablesInv, TypeOK
    <2> QED
      BY <2>1 DEF Session
  <1>4. IssuedBefore'
    BY <1>1, <1>3 DEF Tick, TablesInv, IssuedBefore
  <1>5. TimerArmed'
    BY <1>1, UserAssumption DEF Tick, TablesInv, TimerArmed
  <1> QED
    BY <1>2, <1>4, <1>5 DEF TablesInv

LEMMA TickIInv == ASSUME IInv, Tick PROVE IInv'
  <1>1. TablesInv' /\ now \in Nat /\ now' = now + 1
    BY IInvTables, TickTables DEF Tick, IInv, TypeOK
  <1>2. RevokedHaveNoRow'
    BY DEF Tick, IInv, RevokedHaveNoRow
  <1>3. \A t \in DOMAIN issued : issued[t].created_at \in Nat
    <2>1. \A t \in DOMAIN issued : issued[t] \in Session
      BY ElementOfSeq DEF IInv, TypeOK
    <2> QED
      BY <2>1 DEF Session
  <1>4. IssuedToUsers' /\ ValidHaveRow'
    BY <1>1, <1>3, UserAssumption DEF Tick, IInv, IssuedToUsers, ValidHaveRow, ValidToken
  <1> QED
    BY <1>1, <1>2, <1>4 DEF IInv, TablesInv

-----------------------------------------------------------------------------
\* Every step of the repository and of the process keeps the invariant,
LEMMA StepIInv == ASSUME IInv, [Next]_vars PROVE IInv'
  <1>1. ASSUME NEW l \in Login, NEW p \in Password, Register(l, p) PROVE IInv'
    BY <1>1, RegisterKeepsUnique, GrowIInv DEF Register, IInv
  <1>2. ASSUME NEW l \in Login, NEW p \in Password, Verify(l, p) PROVE IInv'
    <2>1. CASE UNCHANGED <<sessions, issued>>
      BY <1>2, <2>1, StutterIInv DEF Verify, vars
    <2>2. CASE verifyPassword(l, p) /\ issueToken(getIdByLogin(l))
      <3>1. userExists(l)
        BY <2>2 DEF verifyPassword, userExists
      <3>2. getIdByLogin(l) \in DOMAIN users /\ UNCHANGED <<users, now, up, timer, revoked>>
        BY <1>2, <3>1, IdOfLogin DEF Verify
      <3>3. LoginsUnique' /\ users' \in Seq([login: Login, password: Password])
        BY <3>2 DEF IInv, LoginsUnique, TypeOK
      <3> QED
        BY <2>2, <3>2, <3>3, IssueIInv
    <2> QED
      BY <1>2, <2>1, <2>2 DEF Verify, verifyUser
  <1>3. ASSUME NEW t \in DOMAIN issued, Lookup(t) \/ Logout(t) PROVE IInv'
    BY <1>3, LookupIInv, LogoutIInv DEF Lookup, Logout
  <1>4. CASE Boot \/ TimerFires
    BY <1>4, SweepIInv DEF Boot, TimerFires
  <1>5. CASE Crash
    BY <1>5, StopIInv DEF Crash
  <1>6. CASE Tick
    BY <1>6, TickIInv
  <1>7. CASE UNCHANGED vars
    BY <1>7, StutterIInv
  <1> QED
    BY <1>1, <1>2, <1>3, <1>4, <1>5, <1>6, <1>7 DEF Next

\* and its part on which the tables may have been rewound.
LEMMA StepTables == ASSUME TablesInv, [Next]_vars PROVE TablesInv'
  <1>1. ASSUME NEW l \in Login, NEW p \in Password, Register(l, p) PROVE TablesInv'
    BY <1>1, RegisterKeepsUnique, GrowTables DEF Register, TablesInv
  <1>2. ASSUME NEW l \in Login, NEW p \in Password, Verify(l, p) PROVE TablesInv'
    <2>1. CASE UNCHANGED <<sessions, issued>>
      BY <1>2, <2>1, StutterTables DEF Verify, vars
    <2>2. CASE verifyPassword(l, p) /\ issueToken(getIdByLogin(l))
      <3>1. userExists(l)
        BY <2>2 DEF verifyPassword, userExists
      <3>2. getIdByLogin(l) \in DOMAIN users /\ UNCHANGED <<users, now, up, timer, revoked>>
        BY <1>2, <3>1, IdOfLogin DEF Verify
      <3>3. LoginsUnique' /\ users' \in Seq([login: Login, password: Password])
        BY <3>2 DEF TablesInv, LoginsUnique, TypeOK
      <3> QED
        BY <2>2, <3>2, <3>3, IssueTables
    <2> QED
      BY <1>2, <2>1, <2>2 DEF Verify, verifyUser
  <1>3. ASSUME NEW t \in DOMAIN issued, Lookup(t) \/ Logout(t) PROVE TablesInv'
    BY <1>3, LookupTables, LogoutTables DEF Lookup, Logout
  <1>4. CASE Boot \/ TimerFires
    BY <1>4, SweepTables DEF Boot, TimerFires
  <1>5. CASE Crash
    BY <1>5, StopTables DEF Crash
  <1>6. CASE Tick
    BY <1>6, TickTables
  <1>7. CASE UNCHANGED vars
    BY <1>7, StutterTables
  <1> QED
    BY <1>1, <1>2, <1>3, <1>4, <1>5, <1>6, <1>7 DEF Next

\* The strengthened invariant of the two tables, the clock and the timer.
THEOREM Invariance == Spec => []IInv
  BY InitIInv, StepIInv, PTL DEF Spec

\* What the invariant says of the tokens.
LEMMA IInvHonoured == ASSUME IInv PROVE HonouredOnlyIfValid
  <1> SUFFICES ASSUME NEW t \in DOMAIN issued, TokenError(t) = "OK"
               PROVE  ValidToken(t) /\ LoginOfToken(t) = getLoginById(issued[t].id)
    BY DEF HonouredOnlyIfValid
  <1>1. t \in DOMAIN sessions /\ ~ Expired(t)
    BY DEF TokenError
  <1>2. sessions[t] = issued[t] /\ sessions[t].created_at \in Nat /\ now \in Nat
    BY <1>1, RowFacts DEF IInv, TypeOK
  <1>3. t \notin revoked
    BY <1>1 DEF IInv, RevokedHaveNoRow
  <1> QED
    BY <1>1, <1>2, <1>3, UserAssumption DEF ValidToken, Expired, ExpiredAt, LoginOfToken,
                                            getLoginById

LEMMA IInvValid == ASSUME IInv PROVE ValidIsHonoured
  <1> SUFFICES ASSUME NEW t \in DOMAIN issued, ValidToken(t) PROVE TokenError(t) = "OK"
    BY DEF ValidIsHonoured
  <1>1. t \in DOMAIN sessions /\ now \in Nat
    BY DEF IInv, TypeOK, ValidHaveRow
  <1>2. /\ sessions[t] = issued[t] /\ sessions[t].created_at \in Nat
        /\ sessions[t].id \in DOMAIN users
    BY <1>1, RowFacts
  <1> QED
    BY <1>1, <1>2, UserAssumption DEF ValidToken, TokenError, Expired, ExpiredAt

LEMMA TablesSwept == ASSUME TablesInv PROVE RowsSweptInTime
  <1> SUFFICES ASSUME up, NEW t \in DOMAIN sessions
               PROVE  now - sessions[t].created_at <= TokenTTL + Interval
    BY DEF RowsSweptInTime
  <1>1. now \in Nat /\ timer \in Nat /\ sessions[t].created_at \in Nat
    BY RowTables DEF TablesInv, TypeOK
  <1> QED
    BY <1>1, UserAssumption DEF TablesInv, TimerArmed

\* The tables, the process and the tokens drawn keep their types.
THEOREM TypeCorrect == Spec => []TypeOK
  BY Invariance, PTL DEF IInv

\* registerUser never gives a login to two users.
THEOREM Unique == Spec => []LoginsUnique
  BY Invariance, PTL DEF IInv

\* getLoginByToken honours no token that was logged out, is older than TOKEN_TTL
\* or was never drawn, and takes its bearer for no other user.
THEOREM HonouredValid == Spec => []HonouredOnlyIfValid
  BY Invariance, IInvHonoured, PTL

\* No sweep, lookup, logout of another token or restart costs a user a token
\* that is still good.
THEOREM ValidHonoured == Spec => []ValidIsHonoured
  BY Invariance, IInvValid, PTL

\* While the server runs, the sweep of main and the re-armed timer let no row
\* grow older than its TTL and one interval, whatever the two are.
THEOREM Swept == Spec => []RowsSweptInTime
  BY Invariance, IInvTables, TablesSwept, PTL
=============================================================================
