--------------------------- MODULE UserRepository ---------------------------
(***************************************************************************)
(* The users and sessions tables, the operations of                        *)
(* include/repositories/user_repository.hpp on them, and the TokenCleaner  *)
(* that sweeps the sessions table.                                         *)
(*                                                                         *)
(* The id of a user is the position of its row: ids are AUTOINCREMENT and  *)
(* no row of users is ever deleted.  A token is the number of the uuid     *)
(* drawn for it: random_generator does not repeat itself.  Salt and hash   *)
(* are abstracted to what verifyPassword decides, whether the password is  *)
(* the one registered.                                                     *)
(*                                                                         *)
(* An operation constrains the tables it writes and leaves the others to   *)
(* its caller, so that a request handler can join several in one step.     *)
(***************************************************************************)
EXTENDS Integers, Sequences, Functions

CONSTANTS
    Login, Password,
    TokenTTL,                       \* TOKEN_TTL
    Interval,                       \* the TokenCleaner's interval
    MaxTokens, MaxTime              \* bounds of the model

ASSUME UserAssumption ==
    /\ TokenTTL \in Nat
    /\ Interval \in Nat \ {0}
    /\ MaxTokens \in Nat
    /\ MaxTime \in Nat

VARIABLES
    users,                          \* id |-> [login, password]
    sessions,                       \* token |-> [id, created_at], the rows of sessions
    now,                            \* system_clock, in units of the TTL's scale
    up,                             \* the server process runs
    timer,                          \* expiry of the TokenCleaner's timer while up
    issued,                         \* history: token |-> [id, created_at] as drawn
    revoked                         \* history: tokens given to logout

vars == <<users, sessions, now, up, timer, issued, revoked>>

UserId == Nat \ {0}

Session == [id: UserId, created_at: Nat]

AuthError == {"OK", "LoginExists", "IncorrectCredentials", "NonAuthorized",
              "TokenExpired", "NotFound"}

-----------------------------------------------------------------------------
(***************************************************************************)
(* users.                                                                  *)
(***************************************************************************)

userExists(l) == \E i \in DOMAIN users : users[i].login = l

\* SELECT id FROM users WHERE login = ?, for a login that exists.
getIdByLogin(l) == CHOOSE i \in DOMAIN users : users[i].login = l

getLoginById(i) == users[i].login

verifyPassword(l, p) == \E i \in DOMAIN users : users[i] = [login |-> l, password |-> p]

\* A wrong registerUser: no SELECT before the INSERT.
registerAlways(l, p, err) ==
    /\ err = "OK"
    /\ users' = Append(users, [login |-> l, password |-> p])

registerUser(l, p, err) ==
    \/ /\ userExists(l)
       /\ err = "LoginExists"
       /\ UNCHANGED users
    \/ /\ ~ userExists(l)
       /\ err = "OK"
       /\ users' = Append(users, [login |-> l, password |-> p])

-----------------------------------------------------------------------------
(***************************************************************************)
(* sessions.                                                               *)
(***************************************************************************)

NextToken == Len(issued) + 1

\* A wrong issueToken: the row takes the id before the SELECT has given it.
issueTokenNoId(id) ==
    /\ Len(issued) < MaxTokens
    /\ issued' = Append(issued, [id |-> 0, created_at |-> now])
    /\ sessions' = [t \in DOMAIN sessions \cup {NextToken} |->
                        IF t = NextToken THEN [id |-> 0, created_at |-> now] ELSE sessions[t]]

\* The second half of verifyUser: a fresh token and its row.
issueToken(id) ==
    /\ Len(issued) < MaxTokens
    /\ issued' = Append(issued, [id |-> id, created_at |-> now])
    /\ sessions' = [t \in DOMAIN sessions \cup {NextToken} |->
                        IF t = NextToken THEN [id |-> id, created_at |-> now] ELSE sessions[t]]

verifyUser(l, p, err) ==
    \/ /\ ~ verifyPassword(l, p)
       /\ err = "IncorrectCredentials"
       /\ UNCHANGED <<sessions, issued>>
    \/ /\ verifyPassword(l, p)
       /\ err = "OK"
       /\ issueToken(getIdByLogin(l))

ExpiredAt(t, time) == time - sessions[t].created_at > TokenTTL

Expired(t) == ExpiredAt(t, now)

\* The ErrorCode of getLoginByToken.
TokenError(t) ==
    IF t \notin DOMAIN sessions THEN "NonAuthorized"
    ELSE IF Expired(t) THEN "TokenExpired"
    ELSE IF sessions[t].id \notin DOMAIN users THEN "NotFound"
    ELSE "OK"

\* Its value, when the error is OK.
LoginOfToken(t) == users[sessions[t].id].login

\* Its effect: the row of an expired token is deleted.
getLoginByToken(t) ==
    sessions' = IF TokenError(t) = "TokenExpired"
                THEN Restrict(sessions, DOMAIN sessions \ {t})
                ELSE sessions

logout(t) ==
    /\ sessions' = Restrict(sessions, DOMAIN sessions \ {t})
    /\ revoked' = revoked \cup ({t} \cap DOMAIN issued)

\* A wrong cleanExpiredTokens: >= where getLoginByToken has >.
cleanOneTooMany ==
    sessions' = Restrict(sessions, {t \in DOMAIN sessions :
                                        now - sessions[t].created_at < TokenTTL})

cleanExpiredTokens ==
    sessions' = Restrict(sessions, {t \in DOMAIN sessions : ~ Expired(t)})

-----------------------------------------------------------------------------
(***************************************************************************)
(* The process: main sweeps the table once, then the TokenCleaner's timer  *)
(* does, re-arming itself in its own handler.  The steady_timer and the    *)
(* system clock are taken to run at one rate, and a due timer's handler to *)
(* run before the clock moves on.                                          *)
(***************************************************************************)

\* A wrong start: the timer is armed but main does not sweep.
BootNoSweep ==
    /\ ~ up
    /\ up' = TRUE
    /\ timer' = now + Interval
    /\ UNCHANGED <<users, sessions, now, issued, revoked>>

Boot ==
    /\ ~ up
    /\ up' = TRUE
    /\ cleanExpiredTokens
    /\ timer' = now + Interval
    /\ UNCHANGED <<users, now, issued, revoked>>

\* The process ends, killed or by an exception that leaves io_context.run().
Stop ==
    /\ up
    /\ up' = FALSE
    /\ timer' = 0

Crash == Stop /\ UNCHANGED <<users, sessions, now, issued, revoked>>

TimerFires ==
    /\ up
    /\ now >= timer
    /\ cleanExpiredTokens
    /\ timer' = now + Interval
    /\ UNCHANGED <<users, now, up, issued, revoked>>

Tick ==
    /\ now < MaxTime
    /\ up => now < timer
    /\ now' = now + 1
    /\ UNCHANGED <<users, sessions, up, timer, issued, revoked>>

-----------------------------------------------------------------------------
Init ==
    /\ users = << >>
    /\ sessions = << >>
    /\ now = 0
    /\ up = FALSE
    /\ timer = 0
    /\ issued = << >>
    /\ revoked = {}

Register(l, p) ==
    /\ up
    /\ \E err \in AuthError : registerUser(l, p, err)
    /\ UNCHANGED <<sessions, now, up, timer, issued, revoked>>

Verify(l, p) ==
    /\ up
    /\ \E err \in AuthError : verifyUser(l, p, err)
    /\ UNCHANGED <<users, now, up, timer, revoked>>

Lookup(t) ==
    /\ up
    /\ getLoginByToken(t)
    /\ UNCHANGED <<users, now, up, timer, issued, revoked>>

Logout(t) ==
    /\ up
    /\ logout(t)
    /\ UNCHANGED <<users, now, up, timer, issued>>

Next ==
    \/ \E l \in Login, p \in Password : Register(l, p) \/ Verify(l, p)
    \/ \E t \in DOMAIN issued : Lookup(t) \/ Logout(t)
    \/ Boot \/ Crash \/ TimerFires \/ Tick

Spec == Init /\ [][Next]_vars

-----------------------------------------------------------------------------
(***************************************************************************)
(* Properties.                                                             *)
(***************************************************************************)

\* Types of the tables, the process and the history.
TypeOK ==
    /\ users \in Seq([login: Login, password: Password])
    /\ DOMAIN sessions \subseteq DOMAIN issued
    /\ \A t \in DOMAIN sessions : sessions[t] \in Session
    /\ now \in Nat /\ up \in BOOLEAN /\ timer \in Nat
    /\ issued \in Seq(Session)
    /\ revoked \subseteq DOMAIN issued

\* A login names one row: getIdByLogin and getLoginById are inverse to each
\* other, which every handler that turns logins into ids and back relies on.
LoginsUnique ==
    \A i, j \in DOMAIN users : users[i].login = users[j].login => i = j

\* A token's own facts: drawn for a registered user, not logged out, not too old.
ValidToken(t) ==
    /\ t \in DOMAIN issued
    /\ t \notin revoked
    /\ now - issued[t].created_at <= TokenTTL

\* getLoginByToken honours a token only while it is valid, and then only as the
\* user it was issued to: whatever sweeps, lookups, logouts and restarts came
\* between.
HonouredOnlyIfValid ==
    \A t \in DOMAIN issued : TokenError(t) = "OK" =>
        /\ ValidToken(t)
        /\ LoginOfToken(t) = getLoginById(issued[t].id)

\* A valid token is honoured: neither the sweep at start, nor the timer's, nor
\* the deletion inside getLoginByToken or logout of another token takes it away.
ValidIsHonoured ==
    \A t \in DOMAIN issued : ValidToken(t) => TokenError(t) = "OK"

\* No row outlives its TTL by more than one interval while the server runs, not
\* even one that expired while it was down: the sweep in main and the re-arming
\* of the timer together.
RowsSweptInTime ==
    up => \A t \in DOMAIN sessions : now - sessions[t].created_at <= TokenTTL + Interval
=============================================================================
