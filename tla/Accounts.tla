------------------------------- MODULE Accounts -------------------------------
(***************************************************************************)
(* Accounts and the rows of their sessions (services/data_service.js): sign *)
(* up by an e-mailed link, sign in, the second factor that lifts a session, *)
(* passkeys, password changes, the end of sessions and of accounts.  A call *)
(* is one run of a handler of controllers/auth.js or webauthn.js, of        *)
(* modules/auth/session.js, or of modules/user/sessions.js or delete.js;    *)
(* `next` is what it does after the await it is in.                         *)
(*                                                                          *)
(* PostgreSQL is external: a statement is atomic, a row id is used once, an *)
(* update of a row that is gone changes nothing, and a statement that needs *)
(* a locked row waits.  What a user types is right or refused.              *)
(***************************************************************************)
EXTENDS Naturals, FiniteSets

CONSTANTS
    Users, Sessions,        \* row ids
    Emails, Passwords,
    Links,                  \* the verification tokens randomBytes can return
    Codes,                  \* the recovery codes of an account
    Challenges,             \* the handles of WebAuthn challenges randomBytes can return
    Keys,                   \* authenticators
    Calls,                  \* handlers in flight
    None                    \* null

ASSUME AccountsAssumption ==
    \A S \in {Users, Sessions, Emails, Passwords, Links, Codes, Challenges, Keys} : None \notin S

VARIABLES
    users,                  \* the table users, with the unused rows of recovery_codes
    pendingUsers,           \* the table pending_users, by its unique e-mail
    usedLinks,              \* tokens generated so far
    sessions,               \* the table sessions
    challenges,             \* the table webauthn_challenges
    credentials,            \* the table credentials: the user of each authenticator
    announced,              \* sessions that a sessions:revoked named
    condemned,              \* history: sessions that were there when their user's password changed
    calls

passkeys == <<challenges, credentials>>
rows == <<users, pendingUsers, usedLinks, sessions, passkeys>>
vars == <<rows, announced, condemned, calls>>

RowStates == {"new", "live", "gone"}
MfaStates == {"setup_required", "challenge_required", "satisfied"}
ASSUME StatesAssumption == None \notin MfaStates

User ==
    [state : RowStates, email : Emails \cup {None}, password : Passwords \cup {None},
     totpPendingSecret : BOOLEAN, totpEnabledAt : BOOLEAN, codes : SUBSET Codes,
     passkeyEnabled : BOOLEAN]
NoUser ==
    [state |-> "new", email |-> None, password |-> None,
     totpPendingSecret |-> FALSE, totpEnabledAt |-> FALSE, codes |-> {},
     passkeyEnabled |-> FALSE]

\* The row keeps its id, `row`, when another sign-up takes it over.
PendingUser == [row : Links, link : Links, password : Passwords]

NoSession == [state |-> "new", user |-> None, mfaState |-> None, expired |-> FALSE]
GoneSession == [NoSession EXCEPT !.state = "gone"]
Session ==
    [state : {"live"}, user : Users, mfaState : MfaStates, expired : BOOLEAN]
        \cup {NoSession, GoneSession}

\* The user of an authenticator.
Credential == Users \cup {None}

\* A registration is for a user, an authentication for whoever can answer it.
Challenge == [state : RowStates, user : Users \cup {None}]
GoneChallenge == [state |-> "gone", user |-> None]

Steps ==
    {"idle", "upsert", "mail", "recheck", "promote", "sweep", "create", "beginTotp",
     "readPending", "confirm", "checkTotp", "readCodes", "useCode", "lift", "verifyOld",
     "findUser", "save", "find", "destroy", "announce", "findDeleted", "lock",
     "deleteFind", "deleteCommit", "challenge", "findChallenge", "consume",
     "consumeOther", "enrol",
     "enrolCommit", "findCredential", "findOwner", "disable", "disableCommit"}

\* What a handler holds across its awaits: `after` follows the announcement of `ids`.
Call ==
    [next : Steps, after : {"idle", "create"}, user : Users \cup {None},
     session : Sessions \cup {None}, ids : SUBSET Sessions, mfaState : MfaStates \cup {None},
     email : Emails \cup {None}, password : Passwords \cup {None},
     secret : Links \cup Codes \cup Challenges \cup Keys \cup {None}, keys : SUBSET Keys]
Idle ==
    [next |-> "idle", after |-> "idle", user |-> None, session |-> None, ids |-> {},
     mfaState |-> None, email |-> None, password |-> None, secret |-> None, keys |-> {}]

Init ==
    /\ users = [u \in Users |-> NoUser]
    /\ pendingUsers = [e \in Emails |-> None]
    /\ usedLinks = {}
    /\ sessions = [s \in Sessions |-> NoSession]
    /\ challenges = [h \in Challenges |-> [state |-> "new", user |-> None]]
    /\ credentials = [k \in Keys |-> None]
    /\ announced = {} /\ condemned = {}
    /\ calls = [c \in Calls |-> Idle]

at(c, step) == calls[c].next = step
goes(c, call) == calls' = [calls EXCEPT ![c] = call]
goesOn(c, step) == goes(c, [calls[c] EXCEPT !.next = step])
returns(c) == goes(c, Idle)

live(u) == u # None /\ users[u].state = "live"
hasEmail(u, e) == live(u) /\ users[u].email = e
getUserByEmail(e) ==
    IF \E u \in Users : hasEmail(u, e) THEN CHOOSE u \in Users : hasEmail(u, e) ELSE None

liveSessions(u) == {s \in Sessions : sessions[s].state = "live" /\ sessions[s].user = u}

\* getSessionByToken, and the gate of the handlers that want a certain state of the session.
getSessionByToken(s, mfaState) ==
    sessions[s].state = "live" /\ ~sessions[s].expired /\ sessions[s].mfaState = mfaState

\* Mutant: deleteUser does not lock the row of the user.
lockedNever(u) == u \notin Users

\* deleteUser holds the row of the user until it commits.
locked(u) == \E c \in Calls : calls[c].user = u /\ calls[c].next \in {"deleteFind", "deleteCommit"}

-----------------------------------------------------------------------------
(* Signing up.                                                              *)

Signup(c) ==
    /\ at(c, "idle")
    /\ \E e \in Emails, p \in Passwords :
        /\ getUserByEmail(e) = None
        /\ goes(c, [Idle EXCEPT !.next = "upsert", !.email = e, !.password = p])
    /\ UNCHANGED <<rows, announced, condemned>>

CreatePendingUser(c) ==
    /\ at(c, "upsert")
    /\ \E t \in Links \ usedLinks, e \in {calls[c].email} :
        /\ usedLinks' = usedLinks \cup {t}
        /\ pendingUsers' = [pendingUsers EXCEPT ![e] =
               [row |-> IF @ = None THEN t ELSE @.row, link |-> t, password |-> calls[c].password]]
    /\ goesOn(c, "mail")
    /\ UNCHANGED <<users, sessions, passkeys, announced, condemned>>

MailSent(c) ==
    /\ at(c, "mail")
    /\ returns(c)
    /\ UNCHANGED <<rows, announced, condemned>>

\* The catch deletes the pending row, whoever's sign-up it is by now.
DeletePendingUser(c) ==
    /\ at(c, "mail")
    /\ pendingUsers' = [pendingUsers EXCEPT ![calls[c].email] = None]
    /\ returns(c)
    /\ UNCHANGED <<users, usedLinks, sessions, passkeys, announced, condemned>>

\* An expired row is found by no query but the sweep of the next sign-up.
LinkExpires(e) ==
    /\ pendingUsers[e] # None
    /\ pendingUsers' = [pendingUsers EXCEPT ![e] = None]
    /\ UNCHANGED <<users, usedLinks, sessions, passkeys, announced, condemned, calls>>

VerifyPendingUser(c) ==
    /\ at(c, "idle")
    /\ \E e \in Emails :
        /\ pendingUsers[e] # None
        /\ goes(c, [Idle EXCEPT !.next = "recheck", !.email = e, !.secret = pendingUsers[e].row,
                                !.password = pendingUsers[e].password])
    /\ UNCHANGED <<rows, announced, condemned>>

\* pending.destroy() of the row the call found, which may be gone.
destroyPending(c) ==
    LET e == calls[c].email
    IN  pendingUsers' = IF pendingUsers[e] # None /\ pendingUsers[e].row = calls[c].secret
                        THEN [pendingUsers EXCEPT ![e] = None] ELSE pendingUsers

VerifyRecheck(c) ==
    /\ at(c, "recheck")
    /\ IF getUserByEmail(calls[c].email) = None
       THEN goesOn(c, "promote") /\ UNCHANGED pendingUsers
       ELSE returns(c) /\ destroyPending(c)
    /\ UNCHANGED <<users, usedLinks, sessions, passkeys, announced, condemned>>

\* Mutant: no unique index on the e-mail of a user.
emailFreeAlways(e) == e \in Emails

emailFree(e) == getUserByEmail(e) = None

\* The transaction; without the e-mail it throws and nothing happens.  An insert waits for a
\* deletion that is about to free the address.
Promote(c) ==
    LET e == calls[c].email
    IN  /\ at(c, "promote")
        /\ getUserByEmail(e) = None \/ ~locked(getUserByEmail(e))
        /\ IF emailFree(e)
           THEN \E u \in Users :
                  /\ users[u].state = "new"
                  /\ users' = [users EXCEPT ![u] = [NoUser EXCEPT !.state = "live", !.email = e,
                                                        !.password = calls[c].password]]
                  /\ destroyPending(c)
                  /\ goes(c, [Idle EXCEPT !.next = "sweep", !.user = u,
                                          !.mfaState = "setup_required"])
           ELSE returns(c) /\ UNCHANGED <<users, pendingUsers>>
        /\ UNCHANGED <<usedLinks, sessions, passkeys, announced, condemned>>

-----------------------------------------------------------------------------
(* Signing in: the password is compared and the session created later.      *)

\* Mutant: the state of the session is left to the default of createSession.
mfaStateDefault(u) == IF live(u) THEN "satisfied" ELSE None

mfaStateOf(u) == IF users[u].totpEnabledAt THEN "challenge_required" ELSE "setup_required"

Login(c) ==
    /\ at(c, "idle")
    /\ \E u \in {getUserByEmail(e) : e \in Emails} \ {None} :
         goes(c, [Idle EXCEPT !.next = "sweep", !.user = u, !.mfaState = mfaStateOf(u)])
    /\ UNCHANGED <<rows, announced, condemned>>

ending(c, ids, after) ==
    goes(c, [calls[c] EXCEPT !.next = IF ids = {} THEN after ELSE "destroy",
                             !.ids = ids, !.after = after])

\* createSession first destroys the user's expired sessions ...
SweepExpired(c) ==
    /\ at(c, "sweep")
    /\ ending(c, {s \in liveSessions(calls[c].user) : sessions[s].expired}, "create")
    /\ UNCHANGED <<rows, announced, condemned>>

\* ... and then inserts the row, which the foreign key refuses if the user is gone.
SessionCreate(c) ==
    /\ at(c, "create")
    /\ ~locked(calls[c].user)
    /\ IF live(calls[c].user)
       THEN \E s \in Sessions :
              /\ sessions[s].state = "new"
              /\ sessions' = [sessions EXCEPT ![s] =
                     [state |-> "live", user |-> calls[c].user, mfaState |-> calls[c].mfaState,
                      expired |-> FALSE]]
       ELSE UNCHANGED sessions
    /\ returns(c)
    /\ UNCHANGED <<users, pendingUsers, usedLinks, passkeys, announced, condemned>>

SessionExpires(s) ==
    /\ sessions[s].state = "live" /\ ~sessions[s].expired
    /\ sessions' = [sessions EXCEPT ![s].expired = TRUE]
    /\ UNCHANGED <<users, pendingUsers, usedLinks, passkeys, announced, condemned, calls>>

-----------------------------------------------------------------------------
(* The second factor.                                                       *)

\* The calls that want a session in one state: what they do is up to the user of the session.
sessionCall(c, s, mfaState, step) ==
    /\ at(c, "idle") /\ getSessionByToken(s, mfaState)
    /\ goes(c, [Idle EXCEPT !.next = step, !.user = sessions[s].user, !.session = s])
    /\ UNCHANGED <<rows, announced, condemned>>

MfaSetup(c, s) == sessionCall(c, s, "setup_required", "beginTotp")

MfaSetupVerify(c, s) == sessionCall(c, s, "setup_required", "readPending")

\* The body has a code of the authenticator or a recovery code.
MfaVerify(c, s) == \E step \in {"checkTotp", "readCodes"} : sessionCall(c, s, "challenge_required", step)

BeginTotpSetup(c) ==
    LET u == calls[c].user
    IN  /\ at(c, "beginTotp") /\ ~locked(u)
        /\ users' = IF live(u) THEN [users EXCEPT ![u].totpPendingSecret = TRUE] ELSE users
        /\ returns(c)
        /\ UNCHANGED <<pendingUsers, usedLinks, sessions, passkeys, announced, condemned>>

ReadPendingSecret(c) ==
    /\ at(c, "readPending")
    /\ live(calls[c].user) /\ users[calls[c].user].totpPendingSecret
    /\ goesOn(c, "confirm")
    /\ UNCHANGED <<rows, announced, condemned>>

ConfirmTotpSetup(c) ==
    LET u == calls[c].user
    IN  /\ at(c, "confirm") /\ ~locked(u)
        /\ IF live(u)
           THEN /\ users' = [users EXCEPT ![u].totpPendingSecret = FALSE,
                                          ![u].totpEnabledAt = TRUE, ![u].codes = Codes]
                /\ goesOn(c, "lift")
           ELSE returns(c) /\ UNCHANGED users
        /\ UNCHANGED <<pendingUsers, usedLinks, sessions, passkeys, announced, condemned>>

VerifyTotpChallenge(c) ==
    /\ at(c, "checkTotp")
    /\ live(calls[c].user) /\ users[calls[c].user].totpEnabledAt
    /\ goesOn(c, "lift")
    /\ UNCHANGED <<rows, announced, condemned>>

ReadRecoveryCode(c) ==
    /\ at(c, "readCodes")
    /\ \E k \in users[calls[c].user].codes :
         goes(c, [calls[c] EXCEPT !.next = "useCode", !.secret = k])
    /\ UNCHANGED <<rows, announced, condemned>>

ConsumeRecoveryCode(c) ==
    LET u == calls[c].user
    IN  /\ at(c, "useCode")
        /\ users' = [users EXCEPT ![u].codes = @ \ {calls[c].secret}]
        /\ goesOn(c, "lift")
        /\ UNCHANGED <<pendingUsers, usedLinks, sessions, passkeys, announced, condemned>>

\* Mutant: the row of a session that ended meanwhile is inserted again.
liftedAgain(s) == [sessions EXCEPT ![s] = [@ EXCEPT !.state = "live", !.mfaState = "satisfied"]]

lifted(s) ==
    IF sessions[s].state = "live" THEN [sessions EXCEPT ![s].mfaState = "satisfied"] ELSE sessions

SetSessionMfaState(c) ==
    LET s == calls[c].session
    IN  /\ at(c, "lift")
        /\ sessions' = lifted(s)
        /\ returns(c)
        /\ UNCHANGED <<users, pendingUsers, usedLinks, passkeys, announced, condemned>>

\* What the user typed is wrong, or the row it is compared with is gone.
Refused(c) ==
    /\ calls[c].next \in {"readPending", "checkTotp", "readCodes", "verifyOld", "findChallenge",
                         "enrol", "findCredential"}
    /\ returns(c)
    /\ UNCHANGED <<rows, announced, condemned>>

-----------------------------------------------------------------------------
(* Passkeys: a challenge is created, read and consumed; the transactions    *)
(* write the credentials and then the flag on the row of the user.          *)

RegisterOptions(c, s) == sessionCall(c, s, "satisfied", "challenge")

RegisterVerify(c, s) == sessionCall(c, s, "satisfied", "findChallenge")

Disable(c, s) == sessionCall(c, s, "satisfied", "disable")

\* The two halves of a sign-in want no session.
AuthenticateCall(c, step) ==
    /\ at(c, "idle")
    /\ goes(c, [Idle EXCEPT !.next = step])
    /\ UNCHANGED <<rows, announced, condemned>>

AuthenticateOptions(c) == AuthenticateCall(c, "challenge")

AuthenticateVerify(c) == AuthenticateCall(c, "findChallenge")

CreateWebauthnChallenge(c) ==
    LET u == calls[c].user
    IN  /\ at(c, "challenge") /\ ~locked(u)
        /\ IF u = None \/ live(u)
           THEN \E h \in Challenges :
                  /\ challenges[h].state = "new"
                  /\ challenges' = [challenges EXCEPT ![h] = [state |-> "live", user |-> u]]
           ELSE UNCHANGED challenges
        /\ returns(c)
        /\ UNCHANGED <<users, pendingUsers, usedLinks, sessions, credentials, announced, condemned>>

\* An expired challenge is refused by whoever finds it.
ChallengeExpires(h) ==
    /\ challenges[h].state = "live"
    /\ challenges' = [challenges EXCEPT ![h] = GoneChallenge]
    /\ UNCHANGED <<users, pendingUsers, usedLinks, sessions, credentials, announced, condemned, calls>>

\* The cascade takes the challenges and credentials of a deleted user with it.
FindChallenge(c) ==
    /\ at(c, "findChallenge")
    /\ \E h \in Challenges :
        /\ challenges[h].state = "live" /\ (challenges[h].user = None \/ live(challenges[h].user))
        /\ goes(c, [calls[c] EXCEPT !.secret = h,
                !.next = IF challenges[h].user = calls[c].user THEN "consume" ELSE "consumeOther"])
    /\ UNCHANGED <<rows, announced, condemned>>

\* The row is deleted whether or not it is of the right type and user.
ConsumeWebauthnChallenge(c) ==
    LET h == calls[c].secret
    IN  /\ calls[c].next \in {"consume", "consumeOther"}
        /\ challenges' = [challenges EXCEPT ![h] = GoneChallenge]
        /\ IF at(c, "consumeOther") THEN returns(c)
           ELSE goes(c, [calls[c] EXCEPT !.secret = None,
                    !.next = IF calls[c].user = None THEN "findCredential" ELSE "enrol"])
        /\ UNCHANGED <<users, pendingUsers, usedLinks, sessions, credentials, announced, condemned>>

enrolled(k) == live(credentials[k])

\* Credential.create: the index wants a new authenticator, the foreign key a user.
EnrolInsert(c) ==
    /\ at(c, "enrol") /\ live(calls[c].user) /\ ~locked(calls[c].user)
    /\ \E k \in Keys :
        /\ ~enrolled(k) /\ \A d \in Calls : ~(at(d, "enrolCommit") /\ calls[d].secret = k)
        /\ goes(c, [calls[c] EXCEPT !.next = "enrolCommit", !.secret = k])
    /\ UNCHANGED <<rows, announced, condemned>>

\* User.update and the commit.
EnrolCommit(c) ==
    LET u == calls[c].user
    IN  /\ at(c, "enrolCommit")
        /\ credentials' = [credentials EXCEPT ![calls[c].secret] = u]
        /\ users' = [users EXCEPT ![u].passkeyEnabled = TRUE]
        /\ returns(c)
        /\ UNCHANGED <<pendingUsers, usedLinks, sessions, challenges, announced, condemned>>

FindCredential(c) ==
    /\ at(c, "findCredential")
    /\ \E k \in Keys :
        /\ enrolled(k)
        /\ goes(c, [calls[c] EXCEPT !.next = "findOwner", !.user = credentials[k]])
    /\ UNCHANGED <<rows, announced, condemned>>

\* The counter is saved and the user read again.
CompletePasskeyAuthentication(c) ==
    /\ at(c, "findOwner")
    /\ IF live(calls[c].user)
       THEN goes(c, [calls[c] EXCEPT !.next = "sweep", !.mfaState = "satisfied"])
       ELSE returns(c)
    /\ UNCHANGED <<rows, announced, condemned>>

\* A call between its two statements that has deleted credentials of u.
disabling(u) == {c \in Calls : at(c, "disableCommit") /\ calls[c].user = u /\ calls[c].keys # {}}

\* Credential.destroy sees the rows that are committed, and waits for those that another
\* call has deleted: when that one commits they are gone.
DisableDelete(c) ==
    /\ at(c, "disable") /\ disabling(calls[c].user) = {}
    /\ goes(c, [calls[c] EXCEPT !.next = "disableCommit",
                                !.keys = {k \in Keys : enrolled(k) /\ credentials[k] = calls[c].user}])
    /\ UNCHANGED <<rows, announced, condemned>>

\* Mutant: disablePasskeys leaves the flag as it is.
flagAfterDisableOn == TRUE

flagAfterDisable == FALSE

DisableCommit(c) ==
    LET u == calls[c].user
    IN  /\ at(c, "disableCommit") /\ ~locked(u)
        /\ credentials' = [k \in Keys |-> IF k \in calls[c].keys THEN None ELSE credentials[k]]
        /\ users' = IF live(u) THEN [users EXCEPT ![u].passkeyEnabled = flagAfterDisable] ELSE users
        /\ returns(c)
        /\ UNCHANGED <<pendingUsers, usedLinks, sessions, challenges, announced, condemned>>

-----------------------------------------------------------------------------
(* Password changes, the end of sessions, the end of an account.            *)

\* Both name their account by the address of the session's user.
accountCall(c, s, step, p) ==
    /\ at(c, "idle") /\ getSessionByToken(s, "satisfied")
    /\ goes(c, [Idle EXCEPT !.next = step, !.session = s, !.password = p,
                            !.email = users[sessions[s].user].email])
    /\ UNCHANGED <<rows, announced, condemned>>

ChangePassword(c, s) == \E p \in Passwords : accountCall(c, s, "verifyOld", p)

VerifyCredentials(c) ==
    /\ at(c, "verifyOld")
    /\ getUserByEmail(calls[c].email) # None
    /\ goesOn(c, "findUser")
    /\ UNCHANGED <<rows, announced, condemned>>

FindUser(c, from, to) ==
    LET u == getUserByEmail(calls[c].email)
    IN  /\ at(c, from)
        /\ IF u = None THEN returns(c) ELSE goes(c, [calls[c] EXCEPT !.next = to, !.user = u])
        /\ UNCHANGED <<rows, announced, condemned>>

SavePassword(c) ==
    LET u == calls[c].user
    IN  /\ at(c, "save") /\ ~locked(u)
        /\ users' = IF live(u) THEN [users EXCEPT ![u].password = calls[c].password] ELSE users
        /\ condemned' = condemned \cup liveSessions(u)
        /\ goesOn(c, "find")
        /\ UNCHANGED <<pendingUsers, usedLinks, sessions, passkeys, announced>>

\* Mutant: a password change spares the session it comes from.
doomedOthers(c) == liveSessions(calls[c].user) \ {calls[c].session}

doomed(c) == liveSessions(calls[c].user)

FindSessions(c) ==
    /\ at(c, "find")
    /\ ending(c, doomed(c), "idle")
    /\ UNCHANGED <<rows, announced, condemned>>

ends(c, ids) ==
    /\ at(c, "idle")
    /\ ending(c, ids, "idle")
    /\ UNCHANGED <<rows, announced, condemned>>

Logout(c, s) == sessions[s].state = "live" /\ ends(c, {s})

RevokeSession(c, s) ==
    /\ getSessionByToken(s, "satisfied")
    /\ \E other \in liveSessions(sessions[s].user) : ends(c, {other})

RevokeOtherSessions(c, s) ==
    /\ getSessionByToken(s, "satisfied")
    /\ ends(c, liveSessions(sessions[s].user) \ {s})

gone(ids) == [s \in Sessions |-> IF s \in ids THEN GoneSession ELSE sessions[s]]

DestroySessions(c) ==
    /\ at(c, "destroy")
    /\ sessions' = gone(calls[c].ids)
    /\ goesOn(c, "announce")
    /\ UNCHANGED <<users, pendingUsers, usedLinks, passkeys, announced, condemned>>

EmitSessionsRevoked(c) ==
    /\ at(c, "announce")
    /\ announced' = announced \cup calls[c].ids
    /\ IF calls[c].after = "idle" THEN returns(c)
       ELSE goes(c, [calls[c] EXCEPT !.next = calls[c].after, !.ids = {}, !.after = "idle"])
    /\ UNCHANGED <<rows, condemned>>

UserDelete(c, s) == accountCall(c, s, "findDeleted", None)

DeleteUserLock(c) ==
    /\ at(c, "lock") /\ ~locked(calls[c].user)
    /\ \A d \in Calls : at(d, "enrolCommit") => calls[d].user # calls[c].user
    /\ goesOn(c, "deleteFind")
    /\ UNCHANGED <<rows, announced, condemned>>

DeleteUserFind(c) ==
    /\ at(c, "deleteFind")
    /\ goes(c, [calls[c] EXCEPT !.next = "deleteCommit", !.ids = liveSessions(calls[c].user)])
    /\ UNCHANGED <<rows, announced, condemned>>

\* The commit: the user and, by the cascade, whatever refers to it.
DeleteUserCommit(c) ==
    LET u == calls[c].user
    IN  /\ at(c, "deleteCommit") /\ disabling(u) = {}
        /\ users' = [users EXCEPT ![u] = [NoUser EXCEPT !.state = "gone"]]
        /\ sessions' = gone(calls[c].ids \cup liveSessions(u))
        /\ IF calls[c].ids = {} THEN returns(c) ELSE goesOn(c, "announce")
        /\ UNCHANGED <<pendingUsers, usedLinks, passkeys, announced, condemned>>

\* The deletion waits for a credential and its holder for the user: one of the two is aborted.
DeadlockVictim(c) ==
    LET u == calls[c].user
    IN  /\ locked(u) /\ disabling(u) # {}
        /\ at(c, "deleteCommit") \/ c \in disabling(u)
        /\ returns(c)
        /\ UNCHANGED <<rows, announced, condemned>>

Next ==
    \/ \E c \in Calls :
        \/ Signup(c) \/ CreatePendingUser(c) \/ MailSent(c) \/ DeletePendingUser(c)
        \/ VerifyPendingUser(c) \/ VerifyRecheck(c)
        \/ Promote(c) \/ Login(c) \/ SweepExpired(c) \/ SessionCreate(c)
        \/ BeginTotpSetup(c) \/ ReadPendingSecret(c) \/ ConfirmTotpSetup(c)
        \/ VerifyTotpChallenge(c) \/ ReadRecoveryCode(c) \/ ConsumeRecoveryCode(c)
        \/ SetSessionMfaState(c) \/ Refused(c)
        \/ VerifyCredentials(c) \/ FindUser(c, "findUser", "save") \/ SavePassword(c)
        \/ FindSessions(c) \/ DestroySessions(c) \/ EmitSessionsRevoked(c)
        \/ FindUser(c, "findDeleted", "lock")
        \/ DeleteUserLock(c) \/ DeleteUserFind(c) \/ DeleteUserCommit(c)
        \/ AuthenticateOptions(c) \/ AuthenticateVerify(c) \/ CreateWebauthnChallenge(c)
        \/ FindChallenge(c) \/ ConsumeWebauthnChallenge(c) \/ EnrolInsert(c) \/ EnrolCommit(c)
        \/ FindCredential(c) \/ CompletePasskeyAuthentication(c)
        \/ DisableDelete(c) \/ DisableCommit(c) \/ DeadlockVictim(c)
    \/ \E c \in Calls, s \in Sessions :
        \/ MfaSetup(c, s) \/ MfaSetupVerify(c, s) \/ MfaVerify(c, s)
        \/ RegisterOptions(c, s) \/ RegisterVerify(c, s) \/ Disable(c, s)
        \/ ChangePassword(c, s) \/ UserDelete(c, s)
        \/ Logout(c, s) \/ RevokeSession(c, s) \/ RevokeOtherSessions(c, s)
    \/ \E e \in Emails : LinkExpires(e)
    \/ \E s \in Sessions : SessionExpires(s)
    \/ \E h \in Challenges : ChallengeExpires(h)

Spec == Init /\ [][Next]_vars

-----------------------------------------------------------------------------
(* Properties.                                                              *)

\* Every table and every handler in flight has its type.
TypeOK ==
    /\ users \in [Users -> User]
    /\ pendingUsers \in [Emails -> PendingUser \cup {None}]
    /\ usedLinks \subseteq Links
    /\ sessions \in [Sessions -> Session]
    /\ challenges \in [Challenges -> Challenge]
    /\ credentials \in [Keys -> Credential]
    /\ announced \subseteq Sessions /\ condemned \subseteq Sessions
    /\ calls \in [Calls -> Call]

\* A handler keeps its session, and the address of its user, over several awaits, and finds by
\* the address the account whose password it saves or that it deletes: while the session lives,
\* that is the account of the session, though accounts are deleted and others signed up for
\* their address meanwhile: auth.js:133-156, user/delete.js:28-40, data_service.js:195-222.
ActsOnOwnAccount ==
    \A c \in Calls : LET s == calls[c].session IN
        s # None /\ sessions[s].state = "live" /\ calls[c].user # None
            => calls[c].user = sessions[s].user

\* A session has full access only if its user has enrolled a second factor, whatever calls of
\* the user's sessions are in flight; the same holds of a user with a passkey, which stands
\* for both factors: auth.js:85-126, data_service.js:505-551.
SatisfiedEnrolled ==
    /\ \A s \in Sessions : sessions[s].state = "live" =>
        /\ live(sessions[s].user)
        /\ sessions[s].mfaState = "satisfied" => users[sessions[s].user].totpEnabledAt
    /\ \A k \in Keys : enrolled(k) => users[credentials[k]].totpEnabledAt

\* The account says that a passkey is enrolled only while one is, however enrolments and
\* disablePasskeys interleave: data_service.js:488-491, 553-559.
PasskeyFlagHonest ==
    \A u \in Users : live(u) /\ users[u].passkeyEnabled => \E k \in Keys : credentials[k] = u

\* Whoever deletes a session's row, the cascade of a deleted account included, names it in
\* sessions:revoked or is about to: data_service.js:199-217.
DeletedAnnounced ==
    \A s \in Sessions : sessions[s].state = "gone" =>
        s \in announced \/ \E c \in Calls : s \in calls[c].ids /\ at(c, "announce")

\* A session that was there when its user's password changed lives only until the change
\* has run to its end: data_service.js:219-237.
ChangedPasswordSignsOut ==
    \A s \in condemned : sessions[s].state = "live" =>
        \E c \in Calls :
            /\ calls[c].user = sessions[s].user /\ calls[c].password # None
            /\ at(c, "find") \/ (at(c, "destroy") /\ s \in calls[c].ids)

\* The rows of the sessions as SessionRows has them.
rowState ==
    [s \in Sessions |->
        IF sessions[s].state # "live" THEN sessions[s].state
        ELSE IF sessions[s].mfaState = "satisfied" THEN "satisfied" ELSE "gated"]

\* No handler announces a session because its time is over: that is the sweep of SessionSockets.
Protocol == INSTANCE SessionRows WITH Ids <- Sessions, row <- rowState, expired <- {}

\* Whatever handlers overlap, a deleted row never comes back, not even by the second factor that
\* was checked before, and none is announced that still lets its browser in:
\* data_service.js:57-70, 326-329, the comment on disconnectSessions of session_sockets.js.
RowsProtocol == Protocol!Spec
=============================================================================
