---------------------------- MODULE AccountsProofs ----------------------------
(***************************************************************************)
(* Proofs about Accounts, for every number of accounts, sessions, devices  *)
(* and handlers in flight.                                                 *)
(***************************************************************************)
EXTENDS Accounts, TLAPS

\* The steps of a handler that has a session whose second factor it is about to check.
FactorSteps == {"readPending", "confirm", "checkTotp", "readCodes", "useCode", "lift"}

\* The steps that are reached only for a user with a second factor.
EnabledSteps == {"useCode", "lift", "findChallenge", "consume", "enrol", "enrolCommit", "findOwner"}

\* A handler holds what its next steps write.
shaped(k) ==
    /\ k.next \in {"upsert", "verifyOld", "findUser", "save", "find"} => k.password # None
    /\ k.next \in {"sweep", "create"} \/ k.after = "create" => k.mfaState # None
    /\ k.mfaState # None => k.next \in {"sweep", "create", "destroy", "announce"}
    /\ k.next = "enrolCommit" => k.secret \in Keys
    /\ k.next \in FactorSteps \cup {"enrolCommit"} => k.user # None
    /\ k.next \in FactorSteps => k.session # None

\* What a handler has read of its user and its session is still true, unless they are gone.
trusted(k) ==
    /\ k.user # None => users[k.user].state # "new"
    /\ k.next \in FactorSteps =>
        /\ sessions[k.session].state # "new"
        /\ sessions[k.session].state = "live" => sessions[k.session].user = k.user
    /\ (k.next \in EnabledSteps \/ k.mfaState = "satisfied") /\ live(k.user)
        => users[k.user].totpEnabledAt

CallsTrusted == \A c \in Calls : shaped(calls[c]) /\ trusted(calls[c])

\* The unique index of the table users.
OneAccountPerEmail ==
    \A u, v \in Users : live(u) /\ live(v) /\ users[u].email = users[v].email => u = v

\* What the tables say of each other.
RowsKnown ==
    /\ SatisfiedEnrolled
    /\ OneAccountPerEmail
    /\ \A u \in Users : users[u].codes # {} => users[u].totpEnabledAt
    /\ \A k \in Keys : credentials[k] # None => users[credentials[k]].state # "new"

\* The invariant of the enrolments: a session is lifted for a handler that may be several
\* awaits behind the check.
Enrolling == TypeOK /\ RowsKnown /\ CallsTrusted

\* No id is used twice, and an account that has a second factor keeps it while it lives.
RowsKept ==
    /\ \A u \in Users : users[u].state # "new" =>
        /\ users'[u].state # "new"
        /\ users'[u].state = "live" =>
            /\ users[u].state = "live"
            /\ users[u].totpEnabledAt => users'[u].totpEnabledAt
    /\ \A s \in Sessions : sessions[s].state # "new" =>
        /\ sessions'[s].state # "new"
        /\ sessions'[s].state = "live" =>
            sessions[s].state = "live" /\ sessions'[s].user = sessions[s].user

TablesTyped ==
    /\ users \in [Users -> User]
    /\ pendingUsers \in [Emails -> PendingUser \cup {None}]
    /\ usedLinks \subseteq Links
    /\ sessions \in [Sessions -> Session]
    /\ challenges \in [Challenges -> Challenge]
    /\ credentials \in [Keys -> Credential]
    /\ announced \subseteq Sessions /\ condemned \subseteq Sessions

LEMMA TypeParts == TypeOK <=> TablesTyped /\ calls \in [Calls -> Call]
    BY DEF TypeOK, TablesTyped

LEMMA InitEnrolling == Init => Enrolling
<1> SUFFICES ASSUME Init PROVE Enrolling
  OBVIOUS
<1>1. NoUser \in User /\ NoSession \in Session /\ Idle \in Call
  BY DEF NoUser, User, RowStates, NoSession, Session, Idle, Call, Steps
<1>2. [state |-> "new", user |-> None] \in Challenge
  BY DEF Challenge, RowStates
<1>3. TypeOK
  BY <1>1, <1>2 DEF Init, TypeOK, Credential
<1>4. RowsKnown
  BY AccountsAssumption DEF Init, RowsKnown, SatisfiedEnrolled, OneAccountPerEmail, enrolled, live,
     NoUser, NoSession
<1>5. shaped(Idle) /\ trusted(Idle)
  BY DEF shaped, trusted, Idle, live, FactorSteps, EnabledSteps
<1>. QED
  BY <1>3, <1>4, <1>5 DEF Init, Enrolling, CallsTrusted

\* What a handler in flight relies on outlives every step of the others.
LEMMA OthersTrusted ==
    ASSUME TypeOK, RowsKept, NEW d \in Calls, shaped(calls[d]), trusted(calls[d]),
           calls'[d] = calls[d]
    PROVE  shaped(calls[d])' /\ trusted(calls[d])'
<1> DEFINE k == calls[d]
<1>1. /\ k.user \in Users \cup {None} /\ k.session \in Sessions \cup {None}
      /\ k.next \in FactorSteps => k.session \in Sessions
  BY DEF TypeOK, Call, shaped
<1>2. shaped(calls[d])'
  BY DEF shaped
<1>3. k.user # None => users'[k.user].state # "new"
  BY <1>1 DEF trusted, RowsKept
<1>4. k.next \in FactorSteps =>
        /\ sessions'[k.session].state # "new"
        /\ sessions'[k.session].state = "live" => sessions'[k.session].user = k.user
  BY <1>1 DEF trusted, RowsKept
<1>5. (k.next \in EnabledSteps \/ k.mfaState = "satisfied") /\ live(k.user)'
        => users'[k.user].totpEnabledAt
  BY <1>1 DEF trusted, RowsKept, live
<1>. QED
  BY <1>2, <1>3, <1>4, <1>5 DEF trusted, live

\* A step of one handler.
LEMMA CallStep ==
    ASSUME Enrolling, RowsKept, TablesTyped', RowsKnown', NEW c \in Calls, NEW k \in Call,
           goes(c, k), shaped(calls[c])', trusted(calls[c])'
    PROVE  Enrolling'
<1>1. calls' = [calls EXCEPT ![c] = k]
  BY DEF goes
<1>2. calls' \in [Calls -> Call] /\ \A d \in Calls \ {c} : calls'[d] = calls[d]
  BY <1>1 DEF Enrolling, TypeOK
<1>3. TypeOK'
  BY <1>2 DEF TypeOK, TablesTyped
<1>4. CallsTrusted'
  BY <1>2, OthersTrusted DEF Enrolling, CallsTrusted
<1>. QED
  BY <1>3, <1>4 DEF Enrolling

\* A step that leaves the tables alone.
LEMMA ReadStep ==
    ASSUME Enrolling, UNCHANGED <<rows, condemned>>, announced' \subseteq Sessions,
           NEW c \in Calls, NEW k \in Call, goes(c, k), shaped(k), trusted(k)
    PROVE  Enrolling'
<1>1. RowsKept /\ RowsKnown'
  BY DEF Enrolling, RowsKept, RowsKnown, SatisfiedEnrolled, OneAccountPerEmail, enrolled, live,
         rows, passkeys
<1>2. TablesTyped'
  BY DEF Enrolling, TypeOK, TablesTyped, rows, passkeys
<1>3. calls'[c] = k
  BY DEF goes, Enrolling, TypeOK
<1>4. shaped(calls[c])' /\ trusted(calls[c])'
  BY <1>3 DEF shaped, trusted, live, rows
<1>. QED
  BY <1>1, <1>2, <1>4, CallStep

LEMMA IdleCall == Idle \in Call /\ shaped(Idle) /\ trusted(Idle)
    BY DEF Idle, Call, Steps, shaped, trusted, live, FactorSteps, EnabledSteps

\* A handler that returns without having written anything.
LEMMA ReturnStep ==
    ASSUME Enrolling, UNCHANGED <<rows, condemned>>, announced' \subseteq Sessions,
           NEW c \in Calls, returns(c)
    PROVE  Enrolling'
    BY IdleCall, ReadStep DEF returns

LEMMA UserByEmail ==
    ASSUME NEW e
    PROVE  /\ getUserByEmail(e) \in Users \cup {None}
           /\ getUserByEmail(e) # None => hasEmail(getUserByEmail(e), e)
           /\ getUserByEmail(e) = None <=> \A u \in Users : ~hasEmail(u, e)
    BY AccountsAssumption DEF getUserByEmail

-----------------------------------------------------------------------------
(* The handlers that only read.                                             *)

LEMMA SignupEnrolling ==
    ASSUME Enrolling, NEW c \in Calls,
           Signup(c) \/ VerifyPendingUser(c) \/ Login(c) \/ AuthenticateOptions(c) \/ AuthenticateVerify(c)
    PROVE  Enrolling'
<1>1. CASE Signup(c)
  <2>1. PICK e \in Emails, p \in Passwords :
           goes(c, [Idle EXCEPT !.next = "upsert", !.email = e, !.password = p])
    BY <1>1 DEF Signup
  <2> DEFINE k == [Idle EXCEPT !.next = "upsert", !.email = e, !.password = p]
  <2>2. k \in Call /\ shaped(k) /\ trusted(k)
    BY AccountsAssumption DEF Idle, Call, Steps, shaped, trusted, live, FactorSteps, EnabledSteps
  <2> HIDE DEF k
  <2>. QED
    BY <1>1, <2>1, <2>2, ReadStep DEF Signup, k, Enrolling, TypeOK
<1>2. CASE VerifyPendingUser(c)
  <2>1. PICK e \in Emails :
           /\ pendingUsers[e] # None
           /\ goes(c, [Idle EXCEPT !.next = "recheck", !.email = e, !.secret = pendingUsers[e].row,
                                   !.password = pendingUsers[e].password])
    BY <1>2 DEF VerifyPendingUser
  <2> DEFINE k == [Idle EXCEPT !.next = "recheck", !.email = e, !.secret = pendingUsers[e].row,
                               !.password = pendingUsers[e].password]
  <2>2. pendingUsers[e] \in PendingUser
    BY <2>1 DEF Enrolling, TypeOK
  <2>3. pendingUsers[e].row \in Links /\ pendingUsers[e].password \in Passwords
    BY <2>2 DEF PendingUser
  <2>4. k \in Call /\ shaped(k) /\ trusted(k)
    BY <2>3 DEF Idle, Call, Steps, shaped, trusted, live, FactorSteps, EnabledSteps
  <2> HIDE DEF k
  <2>. QED
    BY <1>2, <2>1, <2>4, ReadStep DEF VerifyPendingUser, k, Enrolling, TypeOK
<1>3. CASE Login(c)
  <2>1. PICK u \in {getUserByEmail(e) : e \in Emails} \ {None} :
           goes(c, [Idle EXCEPT !.next = "sweep", !.user = u, !.mfaState = mfaStateOf(u)])
    BY <1>3 DEF Login
  <2> DEFINE k == [Idle EXCEPT !.next = "sweep", !.user = u, !.mfaState = mfaStateOf(u)]
  <2>2. u \in Users /\ users[u].state = "live"
    BY <2>1, UserByEmail DEF hasEmail, live
  <2>3. mfaStateOf(u) \in {"challenge_required", "setup_required"}
    BY DEF mfaStateOf
  <2>4. mfaStateOf(u) # None /\ mfaStateOf(u) # "satisfied"
    BY <2>3, StatesAssumption DEF MfaStates
  <2>5. k \in Call
    BY <2>2, <2>3 DEF Idle, Call, Steps, MfaStates
  <2>6. shaped(k) /\ trusted(k)
    BY <2>2, <2>4, AccountsAssumption DEF Idle, shaped, trusted, FactorSteps, EnabledSteps
  <2> HIDE DEF k
  <2>. QED
    BY <1>3, <2>1, <2>5, <2>6, ReadStep DEF Login, k, Enrolling, TypeOK
<1>4. CASE AuthenticateOptions(c) \/ AuthenticateVerify(c)
  <2>1. PICK step \in {"challenge", "findChallenge"} : goes(c, [Idle EXCEPT !.next = step])
    BY <1>4 DEF AuthenticateOptions, AuthenticateVerify, AuthenticateCall
  <2> DEFINE k == [Idle EXCEPT !.next = step]
  <2>2. k \in Call
    BY DEF Idle, Call, Steps
  <2>3. shaped(k) /\ trusted(k)
    BY StatesAssumption DEF Idle, shaped, trusted, live, FactorSteps, EnabledSteps
  <2> HIDE DEF k
  <2>4. UNCHANGED <<rows, announced, condemned>>
    BY <1>4 DEF AuthenticateOptions, AuthenticateVerify, AuthenticateCall
  <2>. QED
    BY <2>1, <2>2, <2>3, <2>4, ReadStep DEF k, Enrolling, TypeOK
<1>. QED
  BY <1>1, <1>2, <1>3, <1>4

\* A session is found for the user of its row; one that is lifted shows that the user has
\* a second factor.
LEMMA SessionCallEnrolling ==
    ASSUME Enrolling, NEW c \in Calls, NEW s \in Sessions,
           \/ MfaSetup(c, s) \/ MfaSetupVerify(c, s) \/ MfaVerify(c, s)
           \/ RegisterOptions(c, s) \/ RegisterVerify(c, s) \/ Disable(c, s)
    PROVE  Enrolling'
<1>1. PICK mfaState, step :
        /\ \/ step \in {"beginTotp", "readPending", "checkTotp", "readCodes"}
           \/ step \in {"challenge", "findChallenge", "disable"} /\ mfaState = "satisfied"
        /\ sessionCall(c, s, mfaState, step)
  BY DEF MfaSetup, MfaSetupVerify, MfaVerify, RegisterOptions, RegisterVerify, Disable
<1> DEFINE k == [Idle EXCEPT !.next = step, !.user = sessions[s].user, !.session = s]
<1>2. /\ goes(c, k) /\ UNCHANGED <<rows, announced, condemned>>
      /\ sessions[s].state = "live" /\ sessions[s].mfaState = mfaState
  BY <1>1 DEF sessionCall, getSessionByToken
<1>3. /\ sessions[s].user \in Users /\ users[sessions[s].user].state = "live"
      /\ mfaState = "satisfied" => users[sessions[s].user].totpEnabledAt
  BY <1>2, AccountsAssumption
  DEF Enrolling, TypeOK, Session, NoSession, GoneSession, RowsKnown, SatisfiedEnrolled, live
<1>4. k \in Call
  BY <1>1, <1>3 DEF Idle, Call, Steps
<1>5. shaped(k) /\ trusted(k)
  BY <1>1, <1>2, <1>3, AccountsAssumption, StatesAssumption
  DEF Idle, shaped, trusted, live, FactorSteps, EnabledSteps, MfaStates
<1> HIDE DEF k
<1>. QED
  BY <1>2, <1>4, <1>5, ReadStep DEF Enrolling, TypeOK

\* Password changes and deletions name their account by its address.
LEMMA AccountCallEnrolling ==
    ASSUME Enrolling, NEW c \in Calls, NEW s \in Sessions, ChangePassword(c, s) \/ UserDelete(c, s)
    PROVE  Enrolling'
<1>1. PICK step \in {"verifyOld", "findDeleted"}, p \in Passwords \cup {None} :
        /\ (step = "verifyOld" /\ p # None) \/ step = "findDeleted"
        /\ accountCall(c, s, step, p)
  <2>1. CASE ChangePassword(c, s)
    BY <2>1, AccountsAssumption DEF ChangePassword
  <2>2. CASE UserDelete(c, s)
    BY <2>2 DEF UserDelete
  <2>. QED
    BY <2>1, <2>2
<1> DEFINE k == [Idle EXCEPT !.next = step, !.session = s, !.password = p,
                             !.email = users[sessions[s].user].email]
<1>2. /\ goes(c, k) /\ UNCHANGED <<rows, announced, condemned>>
      /\ sessions[s].state = "live"
  BY <1>1 DEF accountCall, getSessionByToken
<1>3. users[sessions[s].user].email \in Emails \cup {None}
  <2>1. sessions[s].user \in Users
    BY <1>2 DEF Enrolling, TypeOK, Session, NoSession, GoneSession
  <2>. QED
    BY <2>1 DEF Enrolling, TypeOK, User
<1>4. k \in Call
  BY <1>1, <1>3 DEF Idle, Call, Steps
<1>5. shaped(k) /\ trusted(k)
  BY <1>1, StatesAssumption DEF Idle, shaped, trusted, live, FactorSteps, EnabledSteps, MfaStates
<1> HIDE DEF k
<1>. QED
  BY <1>2, <1>4, <1>5, ReadStep DEF Enrolling, TypeOK

\* The handler goes on to a step for which it holds all there is to hold.
LEMMA GoesOn ==
    ASSUME Enrolling, NEW c \in Calls, NEW step \in Steps,
           shaped([calls[c] EXCEPT !.next = step]), trusted([calls[c] EXCEPT !.next = step]),
           UNCHANGED <<rows, announced, condemned>>, goesOn(c, step)
    PROVE  Enrolling'
<1> DEFINE k == [calls[c] EXCEPT !.next = step]
<1>1. k \in Call
  BY DEF Enrolling, TypeOK, Call
<1>2. goes(c, k) /\ shaped(k) /\ trusted(k)
  BY DEF goesOn
<1> HIDE DEF k
<1>. QED
  BY <1>1, <1>2, ReadStep DEF Enrolling, TypeOK

LEMMA CheckEnrolling ==
    ASSUME Enrolling, NEW c \in Calls,
           ReadPendingSecret(c) \/ VerifyTotpChallenge(c) \/ VerifyCredentials(c) \/ DeleteUserLock(c)
    PROVE  Enrolling'
<1>1. calls[c] \in Call /\ shaped(calls[c]) /\ trusted(calls[c])
  BY DEF Enrolling, TypeOK, CallsTrusted
<1>2. CASE ReadPendingSecret(c)
  <2>1. calls[c].next = "readPending" /\ goesOn(c, "confirm") /\ UNCHANGED <<rows, announced, condemned>>
    BY <1>2 DEF ReadPendingSecret, at
  <2>2. shaped([calls[c] EXCEPT !.next = "confirm"])
    BY <1>1, <2>1 DEF shaped, Call, FactorSteps
  <2>3. trusted([calls[c] EXCEPT !.next = "confirm"])
    BY <1>1, <2>1 DEF trusted, Call, FactorSteps, EnabledSteps
  <2>. QED
    BY <2>1, <2>2, <2>3, GoesOn DEF Steps
<1>3. CASE VerifyTotpChallenge(c)
  <2>1. /\ calls[c].next = "checkTotp" /\ users[calls[c].user].totpEnabledAt
        /\ goesOn(c, "lift") /\ UNCHANGED <<rows, announced, condemned>>
    BY <1>3 DEF VerifyTotpChallenge, at
  <2>2. shaped([calls[c] EXCEPT !.next = "lift"])
    BY <1>1, <2>1 DEF shaped, Call, FactorSteps
  <2>3. trusted([calls[c] EXCEPT !.next = "lift"])
    BY <1>1, <2>1 DEF trusted, Call, FactorSteps, EnabledSteps
  <2>. QED
    BY <2>1, <2>2, <2>3, GoesOn DEF Steps
<1>4. CASE VerifyCredentials(c)
  <2>1. calls[c].next = "verifyOld" /\ goesOn(c, "findUser") /\ UNCHANGED <<rows, announced, condemned>>
    BY <1>4 DEF VerifyCredentials, at
  <2>2. shaped([calls[c] EXCEPT !.next = "findUser"])
    BY <1>1, <2>1 DEF shaped, Call, FactorSteps
  <2>3. trusted([calls[c] EXCEPT !.next = "findUser"])
    BY <1>1, <2>1 DEF trusted, Call, FactorSteps, EnabledSteps
  <2>. QED
    BY <2>1, <2>2, <2>3, GoesOn DEF Steps
<1>5. CASE DeleteUserLock(c)
  <2>1. calls[c].next = "lock" /\ goesOn(c, "deleteFind") /\ UNCHANGED <<rows, announced, condemned>>
    BY <1>5 DEF DeleteUserLock, at
  <2>2. shaped([calls[c] EXCEPT !.next = "deleteFind"])
    BY <1>1, <2>1 DEF shaped, Call, FactorSteps
  <2>3. trusted([calls[c] EXCEPT !.next = "deleteFind"])
    BY <1>1, <2>1 DEF trusted, Call, FactorSteps, EnabledSteps
  <2>. QED
    BY <2>1, <2>2, <2>3, GoesOn DEF Steps
<1>. QED
  BY <1>2, <1>3, <1>4, <1>5

LEMMA RefusedEnrolling ==
    ASSUME Enrolling, NEW c \in Calls, Refused(c) \/ MailSent(c) \/ DeadlockVictim(c)
    PROVE  Enrolling'
<1>1. returns(c) /\ UNCHANGED <<rows, announced, condemned>>
  BY DEF Refused, MailSent, DeadlockVictim
<1>. QED
  BY <1>1, ReturnStep DEF Enrolling, TypeOK

LEMMA LookupEnrolling ==
    ASSUME Enrolling, NEW c \in Calls,
           \/ ReadRecoveryCode(c) \/ FindChallenge(c) \/ EnrolInsert(c) \/ FindCredential(c)
           \/ CompletePasskeyAuthentication(c) \/ DisableDelete(c) \/ DeleteUserFind(c)
    PROVE  Enrolling'
<1>0. calls[c] \in Call /\ shaped(calls[c]) /\ trusted(calls[c])
  BY DEF Enrolling, TypeOK, CallsTrusted
<1>1. UNCHANGED <<rows, announced, condemned>>
  BY IdleCall DEF ReadRecoveryCode, FindChallenge, EnrolInsert, FindCredential,
     CompletePasskeyAuthentication, DisableDelete, DeleteUserFind
<1>2. SUFFICES ASSUME ~returns(c)
               PROVE  \E k \in Call : goes(c, k) /\ shaped(k) /\ trusted(k)
  BY <1>1, ReadStep, ReturnStep DEF Enrolling, TypeOK
<1>3. CASE ReadRecoveryCode(c)
  <2>1. PICK code \in users[calls[c].user].codes :
           goes(c, [calls[c] EXCEPT !.next = "useCode", !.secret = code])
    BY <1>3 DEF ReadRecoveryCode
  <2> DEFINE k == [calls[c] EXCEPT !.next = "useCode", !.secret = code]
  <2>2. calls[c].next = "readCodes" /\ calls[c].user \in Users
    BY <1>0, <1>3 DEF ReadRecoveryCode, at, shaped, FactorSteps, Call
  <2>3. users[calls[c].user].totpEnabledAt /\ code \in Codes
    BY <2>1, <2>2 DEF Enrolling, RowsKnown, TypeOK, User
  <2>4. k \in Call
    BY <1>0, <2>2, <2>3 DEF Call, Steps, MfaStates
  <2>4s. shaped(k) /\ trusted(k)
    BY <1>0, <2>2, <2>3, StatesAssumption DEF Call, MfaStates, shaped, trusted, FactorSteps, EnabledSteps
  <2>. QED
    BY <2>1, <2>4, <2>4s
<1>4. CASE FindChallenge(c)
  <2>1. PICK h \in Challenges, step \in {"consume", "consumeOther"} :
           goes(c, [calls[c] EXCEPT !.secret = h, !.next = step])
    BY <1>4 DEF FindChallenge
  <2> DEFINE k == [calls[c] EXCEPT !.secret = h, !.next = step]
  <2>2. calls[c].next = "findChallenge"
    BY <1>4 DEF FindChallenge, at
  <2>3. k \in Call
    BY <1>0, <2>2 DEF Call, Steps, MfaStates
  <2>3s. shaped(k) /\ trusted(k)
    BY <1>0, <2>2, StatesAssumption DEF Call, MfaStates, shaped, trusted, FactorSteps, EnabledSteps
  <2>. QED
    BY <2>1, <2>3, <2>3s
<1>5. CASE EnrolInsert(c)
  <2>1. PICK y \in Keys : goes(c, [calls[c] EXCEPT !.next = "enrolCommit", !.secret = y])
    BY <1>5 DEF EnrolInsert
  <2> DEFINE k == [calls[c] EXCEPT !.next = "enrolCommit", !.secret = y]
  <2>2. calls[c].next = "enrol" /\ calls[c].user # None
    BY <1>5 DEF EnrolInsert, at, live
  <2>3. k \in Call
    BY <1>0, <2>2 DEF Call, Steps, MfaStates
  <2>3s. shaped(k) /\ trusted(k)
    BY <1>0, <2>2, StatesAssumption DEF Call, MfaStates, shaped, trusted, FactorSteps, EnabledSteps
  <2>. QED
    BY <2>1, <2>3, <2>3s
<1>6. CASE FindCredential(c)
  <2>1. PICK y \in Keys :
           enrolled(y) /\ goes(c, [calls[c] EXCEPT !.next = "findOwner", !.user = credentials[y]])
    BY <1>6 DEF FindCredential
  <2> DEFINE k == [calls[c] EXCEPT !.next = "findOwner", !.user = credentials[y]]
  <2>2. calls[c].next = "findCredential"
    BY <1>6 DEF FindCredential, at
  <2>3. /\ credentials[y] \in Users /\ users[credentials[y]].state = "live"
        /\ users[credentials[y]].totpEnabledAt
    BY <2>1 DEF Enrolling, RowsKnown, SatisfiedEnrolled, TypeOK, Credential, enrolled, live
  <2>4. k \in Call
    BY <1>0, <2>2, <2>3 DEF Call, Steps, MfaStates
  <2>4s. shaped(k) /\ trusted(k)
    BY <1>0, <2>2, <2>3, StatesAssumption DEF Call, MfaStates, shaped, trusted, FactorSteps, EnabledSteps
  <2>. QED
    BY <2>1, <2>4, <2>4s
<1>7. CASE CompletePasskeyAuthentication(c)
  <2> DEFINE k == [calls[c] EXCEPT !.next = "sweep", !.mfaState = "satisfied"]
  <2>1. calls[c].next = "findOwner" /\ goes(c, k)
    BY <1>2, <1>7 DEF CompletePasskeyAuthentication, at
  <2>2. k \in Call
    BY <1>0, <2>1 DEF Call, Steps, MfaStates
  <2>2s. shaped(k) /\ trusted(k)
    BY <1>0, <2>1, StatesAssumption DEF Call, MfaStates, shaped, trusted, FactorSteps, EnabledSteps
  <2>. QED
    BY <2>1, <2>2, <2>2s
<1>8. CASE DisableDelete(c)
  <2> DEFINE deleted == {y \in Keys : enrolled(y) /\ credentials[y] = calls[c].user}
             k == [calls[c] EXCEPT !.next = "disableCommit", !.keys = deleted]
  <2>1. calls[c].next = "disable" /\ goes(c, k)
    BY <1>8 DEF DisableDelete, at
  <2>2. k \in Call
    BY <1>0, <2>1 DEF Call, Steps, MfaStates
  <2>2s. shaped(k) /\ trusted(k)
    BY <1>0, <2>1, StatesAssumption DEF Call, MfaStates, shaped, trusted, FactorSteps, EnabledSteps
  <2>. QED
    BY <2>1, <2>2, <2>2s
<1>9. CASE DeleteUserFind(c)
  <2> DEFINE k == [calls[c] EXCEPT !.next = "deleteCommit", !.ids = liveSessions(calls[c].user)]
  <2>1. calls[c].next = "deleteFind" /\ goes(c, k)
    BY <1>9 DEF DeleteUserFind, at
  <2>2. k \in Call
    BY <1>0, <2>1 DEF Call, Steps, MfaStates, liveSessions
  <2>2s. shaped(k) /\ trusted(k)
    BY <1>0, <2>1, StatesAssumption DEF Call, MfaStates, shaped, trusted, FactorSteps, EnabledSteps
  <2>. QED
    BY <2>1, <2>2, <2>2s
<1>. QED
  BY <1>3, <1>4, <1>5, <1>6, <1>7, <1>8, <1>9

LEMMA FindUserEnrolling ==
    ASSUME Enrolling, NEW c \in Calls,
           FindUser(c, "findUser", "save") \/ FindUser(c, "findDeleted", "lock")
    PROVE  Enrolling'
<1> DEFINE u == getUserByEmail(calls[c].email)
<1>0. calls[c] \in Call /\ shaped(calls[c])
  BY DEF Enrolling, TypeOK, CallsTrusted
<1>1. UNCHANGED <<rows, announced, condemned>>
  BY DEF FindUser
<1>2. CASE u = None
  BY <1>1, <1>2, ReturnStep DEF FindUser, Enrolling, TypeOK
<1>3. CASE u # None
  <2>1. PICK to \in {"save", "lock"} :
           /\ calls[c].next = IF to = "save" THEN "findUser" ELSE "findDeleted"
           /\ goes(c, [calls[c] EXCEPT !.next = to, !.user = u])
    BY <1>3 DEF FindUser, at
  <2>2. u \in Users /\ users[u].state = "live"
    BY <1>3, UserByEmail DEF hasEmail, live
  <2> HIDE DEF u
  <2> DEFINE k == [calls[c] EXCEPT !.next = to, !.user = u]
  <2>3. k \in Call
    BY <1>0, <2>2 DEF Call, Steps
  <2>4. shaped(k) /\ trusted(k)
    BY <1>0, <2>1, <2>2, StatesAssumption
    DEF Call, MfaStates, shaped, trusted, FactorSteps, EnabledSteps
  <2> HIDE DEF k
  <2>. QED
    BY <1>1, <2>1, <2>3, <2>4, ReadStep DEF k, Enrolling, TypeOK
<1>. QED
  BY <1>2, <1>3

LEMMA EndingStep ==
    ASSUME Enrolling, NEW c \in Calls, NEW ids \in SUBSET Sessions, NEW after \in {"idle", "create"},
           \/ after = "create" /\ calls[c].next = "sweep"
           \/ after = "idle" /\ calls[c].next \in {"idle", "find"},
           ending(c, ids, after), UNCHANGED <<rows, announced, condemned>>
    PROVE  Enrolling'
<1> DEFINE k == [calls[c] EXCEPT !.next = IF ids = {} THEN after ELSE "destroy",
                                 !.ids = ids, !.after = after]
<1>0. calls[c] \in Call /\ shaped(calls[c]) /\ trusted(calls[c])
  BY DEF Enrolling, TypeOK, CallsTrusted
<1>1. goes(c, k)
  BY DEF ending
<1>2. k \in Call
  <2> DEFINE next == IF ids = {} THEN after ELSE "destroy"
  <2>1. next \in {"idle", "create", "destroy"}
    OBVIOUS
  <2>2. k = [calls[c] EXCEPT !.next = next, !.ids = ids, !.after = after]
    OBVIOUS
  <2> HIDE DEF next, k
  <2>. QED
    BY <1>0, <2>1, <2>2 DEF Call, Steps
<1>3. /\ k.next \in {"idle", "create", "destroy"} /\ k.after = after /\ k.mfaState = calls[c].mfaState
      /\ k.user = calls[c].user /\ (k.next = "create" => after = "create")
      /\ k.next = "idle" => after = "idle"
  BY <1>0 DEF Call
<1> HIDE DEF k
<1>4. CASE calls[c].next = "sweep" /\ after = "create"
  <2>1. shaped(k)
    BY <1>0, <1>3, <1>4 DEF shaped, FactorSteps
  <2>2. trusted(k)
    BY <1>0, <1>3 DEF trusted, EnabledSteps, FactorSteps
  <2>. QED
    BY <1>1, <1>2, <2>1, <2>2, ReadStep DEF Enrolling, TypeOK
<1>5. CASE calls[c].next \in {"idle", "find"} /\ after = "idle"
  <2>1. calls[c].mfaState = None
    BY <1>0, <1>5 DEF shaped
  <2>2. shaped(k)
    BY <1>3, <1>5, <2>1 DEF shaped, FactorSteps
  <2>3. trusted(k)
    BY <1>0, <1>3 DEF trusted, EnabledSteps, FactorSteps
  <2>. QED
    BY <1>1, <1>2, <2>2, <2>3, ReadStep DEF Enrolling, TypeOK
<1>. QED
  BY <1>4, <1>5

LEMMA EndsEnrolling ==
    ASSUME Enrolling, NEW c \in Calls,
           \/ SweepExpired(c) \/ FindSessions(c)
           \/ \E s \in Sessions : Logout(c, s) \/ RevokeSession(c, s) \/ RevokeOtherSessions(c, s)
    PROVE  Enrolling'
<1>1. CASE SweepExpired(c)
  <2> DEFINE ids == {s \in liveSessions(calls[c].user) : sessions[s].expired}
  <2>1. /\ calls[c].next = "sweep" /\ ending(c, ids, "create") /\ UNCHANGED <<rows, announced, condemned>>
        /\ ids \in SUBSET Sessions
    BY <1>1 DEF SweepExpired, at, liveSessions
  <2> HIDE DEF ids
  <2>. QED
    BY <2>1, EndingStep
<1>2. CASE FindSessions(c)
  <2> DEFINE ids == doomed(c)
  <2>1. /\ calls[c].next = "find" /\ ending(c, ids, "idle") /\ UNCHANGED <<rows, announced, condemned>>
        /\ ids \in SUBSET Sessions
    BY <1>2 DEF FindSessions, at, doomed, liveSessions
  <2> HIDE DEF ids
  <2>. QED
    BY <2>1, EndingStep
<1>3. ASSUME NEW s \in Sessions, Logout(c, s) \/ RevokeSession(c, s) \/ RevokeOtherSessions(c, s)
      PROVE  Enrolling'
  <2>1. PICK ids \in SUBSET Sessions : ends(c, ids)
    <3>1. CASE Logout(c, s)
      BY <3>1 DEF Logout
    <3>2. CASE RevokeSession(c, s)
      BY <3>2 DEF RevokeSession, liveSessions
    <3>3. CASE RevokeOtherSessions(c, s)
      BY <3>3 DEF RevokeOtherSessions, liveSessions
    <3>. QED
      BY <1>3, <3>1, <3>2, <3>3
  <2>2. calls[c].next = "idle" /\ ending(c, ids, "idle") /\ UNCHANGED <<rows, announced, condemned>>
    BY <2>1 DEF ends, at
  <2>. QED
    BY <2>2, EndingStep
<1>. QED
  BY <1>1, <1>2, <1>3

LEMMA EmitEnrolling ==
    ASSUME Enrolling, NEW c \in Calls, EmitSessionsRevoked(c)
    PROVE  Enrolling'
<1>0. calls[c] \in Call /\ shaped(calls[c]) /\ trusted(calls[c]) /\ calls[c].next = "announce"
  BY DEF Enrolling, TypeOK, CallsTrusted, EmitSessionsRevoked, at
<1>1. UNCHANGED <<rows, condemned>> /\ announced' \subseteq Sessions
  BY <1>0 DEF EmitSessionsRevoked, Enrolling, TypeOK, Call
<1>2. CASE calls[c].after = "idle"
  BY <1>1, <1>2, ReturnStep DEF EmitSessionsRevoked
<1>3. CASE calls[c].after # "idle"
  <2> DEFINE k == [calls[c] EXCEPT !.next = calls[c].after, !.ids = {}, !.after = "idle"]
  <2>1. calls[c].after = "create" /\ goes(c, k)
    BY <1>0, <1>3 DEF EmitSessionsRevoked, Call
  <2>2. k \in Call
    BY <1>0, <2>1 DEF Call, Steps
  <2>3. shaped(k) /\ trusted(k)
    BY <1>0, <2>1 DEF Call, shaped, trusted, FactorSteps, EnabledSteps
  <2> HIDE DEF k
  <2>. QED
    BY <1>1, <2>1, <2>2, <2>3, ReadStep
<1>. QED
  BY <1>2, <1>3

-----------------------------------------------------------------------------
(* The handlers that write.                                                 *)

\* An update of rows of users.
UsersKept ==
    \A u \in Users : /\ users'[u].state = users[u].state
                     /\ users'[u].email = users[u].email
                     /\ users[u].totpEnabledAt => users'[u].totpEnabledAt
                     /\ users'[u].codes # {} => users'[u].totpEnabledAt

\* An update or a deletion of rows of sessions: none is lifted.
SessionsKept ==
    \A s \in Sessions : /\ sessions[s].state # "new" => sessions'[s].state # "new"
                        /\ sessions'[s].state = "live" =>
                            /\ sessions[s].state = "live" /\ sessions'[s].user = sessions[s].user
                            /\ sessions'[s].mfaState = "satisfied" => sessions[s].mfaState = "satisfied"

LEMMA KeptRows ==
    ASSUME Enrolling, UsersKept, SessionsKept,
           \A k \in Keys : credentials'[k] \in {credentials[k], None}
    PROVE  RowsKept /\ RowsKnown'
<1>1. /\ \A s \in Sessions : sessions[s].state = "live" => sessions[s].user \in Users
      /\ \A k \in Keys : credentials[k] # None => credentials[k] \in Users
  BY DEF Enrolling, TypeOK, Session, NoSession, GoneSession, Credential
<1>2. RowsKept
  BY DEF RowsKept, UsersKept, SessionsKept
<1>3. OneAccountPerEmail'
  BY DEF OneAccountPerEmail, Enrolling, RowsKnown, UsersKept, live
<1>4. SatisfiedEnrolled'
  BY <1>1 DEF SatisfiedEnrolled, Enrolling, RowsKnown, UsersKept, SessionsKept, live, enrolled
<1>5. /\ \A u \in Users : users'[u].codes # {} => users'[u].totpEnabledAt
      /\ \A k \in Keys : credentials'[k] # None => users'[credentials'[k]].state # "new"
  BY <1>1 DEF Enrolling, RowsKnown, UsersKept
<1>. QED
  BY <1>2, <1>3, <1>4, <1>5 DEF RowsKnown

LEMMA UnchangedRows ==
    /\ Enrolling /\ users' = users => UsersKept
    /\ sessions' = sessions => SessionsKept
    BY DEF Enrolling, RowsKnown, UsersKept, SessionsKept

\* A handler that writes and goes on to a step for which it holds all there is to hold.
LEMMA WriteStep ==
    ASSUME Enrolling, UsersKept, SessionsKept, TablesTyped',
           \A y \in Keys : credentials'[y] \in {credentials[y], None},
           NEW c \in Calls, NEW k \in Call, goes(c, k), shaped(k),
           k.user \in {None, calls[c].user}, k.next \notin FactorSteps,
           k.next \in EnabledSteps \/ k.mfaState = "satisfied"
             => calls[c].next \in EnabledSteps \/ calls[c].mfaState = "satisfied"
    PROVE  Enrolling'
<1>1. RowsKept /\ RowsKnown'
  BY KeptRows
<1>2. calls'[c] = k /\ calls[c] \in Call /\ trusted(calls[c])
  BY DEF goes, Enrolling, TypeOK, CallsTrusted
<1>3. shaped(calls[c])'
  BY <1>2 DEF shaped
<1>4. calls[c].user \in Users \cup {None}
  BY <1>2 DEF Call
<1>5. trusted(calls[c])'
  BY <1>1, <1>2, <1>4 DEF trusted, RowsKept, live
<1>. QED
  BY <1>1, <1>3, <1>5, CallStep

LEMMA WriteReturns ==
    ASSUME Enrolling, UsersKept, SessionsKept, TablesTyped',
           \A y \in Keys : credentials'[y] \in {credentials[y], None},
           NEW c \in Calls, returns(c)
    PROVE  Enrolling'
<1>1. /\ Idle.user = None /\ Idle.next = "idle" /\ Idle.mfaState # "satisfied"
  BY StatesAssumption DEF Idle, MfaStates
<1>. QED
  BY <1>1, IdleCall, WriteStep DEF returns, FactorSteps, EnabledSteps

\* A step of the time that passes.
LEMMA TableStep ==
    ASSUME Enrolling, UsersKept, SessionsKept, TablesTyped', UNCHANGED <<credentials, calls>>
    PROVE  Enrolling'
<1>1. RowsKept /\ RowsKnown'
  BY KeptRows
<1>2. TypeOK'
  BY DEF TypeOK, TablesTyped, Enrolling
<1>3. CallsTrusted'
  BY <1>1, OthersTrusted DEF Enrolling, CallsTrusted
<1>. QED
  BY <1>1, <1>2, <1>3 DEF Enrolling

LEMMA TimeEnrolling ==
    ASSUME Enrolling,
           \/ \E e \in Emails : LinkExpires(e)
           \/ \E s \in Sessions : SessionExpires(s)
           \/ \E h \in Challenges : ChallengeExpires(h)
    PROVE  Enrolling'
<1>1. ASSUME NEW e \in Emails, LinkExpires(e) PROVE Enrolling'
  <2>1. UNCHANGED <<users, sessions, credentials, calls>>
    BY <1>1 DEF LinkExpires, passkeys
  <2>2. TablesTyped'
    BY <1>1 DEF LinkExpires, passkeys, Enrolling, TypeOK, TablesTyped
  <2>. QED
    BY <2>1, <2>2, UnchangedRows, TableStep
<1>2. ASSUME NEW s \in Sessions, SessionExpires(s) PROVE Enrolling'
  <2>1. /\ UNCHANGED <<users, pendingUsers, usedLinks, challenges, credentials, announced, condemned, calls>>
        /\ sessions[s].state = "live"
        /\ sessions' = [sessions EXCEPT ![s].expired = TRUE]
    BY <1>2 DEF SessionExpires, passkeys
  <2>2. sessions[s] \in [state : {"live"}, user : Users, mfaState : MfaStates, expired : BOOLEAN]
    BY <2>1 DEF Enrolling, TypeOK, Session, NoSession, GoneSession
  <2>3. /\ [sessions[s] EXCEPT !.expired = TRUE] \in Session
        /\ [sessions[s] EXCEPT !.expired = TRUE].user = sessions[s].user
        /\ [sessions[s] EXCEPT !.expired = TRUE].mfaState = sessions[s].mfaState
    BY <2>2 DEF Session
  <2>4. sessions' = [sessions EXCEPT ![s] = [sessions[s] EXCEPT !.expired = TRUE]]
    BY <2>1
  <2>5. sessions' \in [Sessions -> Session]
    BY <2>3, <2>4 DEF Enrolling, TypeOK
  <2>6. SessionsKept
    BY <2>1, <2>3, <2>4 DEF SessionsKept, Enrolling, TypeOK
  <2>7. TablesTyped'
    BY <2>1, <2>5 DEF Enrolling, TypeOK, TablesTyped
  <2>. QED
    BY <2>1, <2>6, <2>7, UnchangedRows, TableStep
<1>3. ASSUME NEW h \in Challenges, ChallengeExpires(h) PROVE Enrolling'
  <2>1. UNCHANGED <<users, sessions, credentials, calls>>
    BY <1>3 DEF ChallengeExpires
  <2>2. TablesTyped'
    BY <1>3 DEF ChallengeExpires, Enrolling, TypeOK, TablesTyped, GoneChallenge, Challenge, RowStates
  <2>. QED
    BY <2>1, <2>2, UnchangedRows, TableStep
<1>. QED
  BY <1>1, <1>2, <1>3

LEMMA PendingEnrolling ==
    ASSUME Enrolling, NEW c \in Calls,
           CreatePendingUser(c) \/ DeletePendingUser(c) \/ VerifyRecheck(c)
    PROVE  Enrolling'
<1>0. calls[c] \in Call /\ shaped(calls[c]) /\ trusted(calls[c])
  BY DEF Enrolling, TypeOK, CallsTrusted
<1>1. /\ UNCHANGED <<users, sessions, challenges, credentials, announced, condemned>>
      /\ UsersKept /\ SessionsKept
  BY UnchangedRows DEF CreatePendingUser, DeletePendingUser, VerifyRecheck, passkeys
<1>2. pendingUsers' \in [Emails -> PendingUser \cup {None}] /\ usedLinks' \subseteq Links
  <2>1. CASE CreatePendingUser(c)
    <3> DEFINE e == calls[c].email
    <3>1. PICK t \in Links :
            /\ usedLinks' = usedLinks \cup {t}
            /\ pendingUsers' = [pendingUsers EXCEPT ![e] =
                   [row |-> IF @ = None THEN t ELSE @.row, link |-> t, password |-> calls[c].password]]
      BY <2>1 DEF CreatePendingUser
    <3>2. calls[c].password \in Passwords
      BY <1>0, <2>1 DEF CreatePendingUser, at, shaped, Call
    <3>3. ASSUME e \in Emails
          PROVE  [row |-> IF pendingUsers[e] = None THEN t ELSE pendingUsers[e].row,
                  link |-> t, password |-> calls[c].password] \in PendingUser
      <4>1. pendingUsers[e] \in PendingUser \cup {None}
        BY <3>3 DEF Enrolling, TypeOK
      <4>. QED
        BY <3>2, <4>1 DEF PendingUser
    <3>4. pendingUsers \in [Emails -> PendingUser \cup {None}] /\ usedLinks \subseteq Links
      BY DEF Enrolling, TypeOK
    <3>5. CASE e \in Emails
      BY <3>1, <3>3, <3>4, <3>5
    <3>6. CASE e \notin Emails
      BY <3>1, <3>4, <3>6
    <3>. QED
      BY <3>5, <3>6
  <2>2. CASE DeletePendingUser(c)
    BY <2>2 DEF DeletePendingUser, Enrolling, TypeOK
  <2>3. CASE VerifyRecheck(c)
    BY <2>3 DEF VerifyRecheck, destroyPending, Enrolling, TypeOK
  <2>. QED
    BY <2>1, <2>2, <2>3
<1>3. TablesTyped'
  BY <1>1, <1>2 DEF Enrolling, TypeOK, TablesTyped
<1>4. CASE returns(c)
  BY <1>1, <1>3, <1>4, WriteReturns
<1>5. CASE ~returns(c)
  <2>1. PICK step \in {"mail", "promote"} :
           goesOn(c, step) /\ calls[c].next = IF step = "mail" THEN "upsert" ELSE "recheck"
    BY <1>5 DEF CreatePendingUser, DeletePendingUser, VerifyRecheck, at
  <2> DEFINE k == [calls[c] EXCEPT !.next = step]
  <2>2. k \in Call /\ k.user = calls[c].user /\ k.mfaState = calls[c].mfaState /\ k.next = step
    BY <1>0 DEF Call, Steps
  <2>3. shaped(k)
    BY <1>0, <2>1 DEF Call, shaped, FactorSteps
  <2>4. goes(c, k)
    BY <2>1 DEF goesOn
  <2> HIDE DEF k
  <2>. QED
    BY <1>1, <1>3, <2>2, <2>3, <2>4, WriteStep DEF FactorSteps, EnabledSteps
<1>. QED
  BY <1>4, <1>5

\* A user comes into being with an address that nobody has.
LEMMA PromoteEnrolling ==
    ASSUME Enrolling, NEW c \in Calls, Promote(c)
    PROVE  Enrolling'
<1> DEFINE e == calls[c].email
<1>0. calls[c] \in Call
  BY DEF Enrolling, TypeOK
<1>1. CASE ~emailFree(e)
  <2>1. returns(c) /\ UNCHANGED <<rows, announced, condemned>>
    BY <1>1 DEF Promote, rows
  <2>. QED
    BY <2>1, ReturnStep DEF Enrolling, TypeOK
<1>2. CASE emailFree(e)
  <2>1. PICK u \in Users :
           /\ users[u].state = "new"
           /\ users' = [users EXCEPT ![u] = [NoUser EXCEPT !.state = "live", !.email = e,
                                                 !.password = calls[c].password]]
           /\ destroyPending(c)
           /\ goes(c, [Idle EXCEPT !.next = "sweep", !.user = u, !.mfaState = "setup_required"])
    BY <1>2 DEF Promote
  <2> DEFINE row == [NoUser EXCEPT !.state = "live", !.email = e, !.password = calls[c].password]
             k == [Idle EXCEPT !.next = "sweep", !.user = u, !.mfaState = "setup_required"]
  <2>2. /\ row \in User /\ row.state = "live" /\ row.email = e /\ row.codes = {}
    BY <1>0 DEF Call, NoUser, User, RowStates
  <2>3. /\ UNCHANGED <<usedLinks, sessions, challenges, credentials, announced, condemned>>
        /\ pendingUsers' \in [Emails -> PendingUser \cup {None}]
    BY <2>1 DEF Promote, passkeys, destroyPending, Enrolling, TypeOK
  <2>4. k \in Call /\ k.user = u /\ k.next = "sweep" /\ k.mfaState = "setup_required"
    BY DEF Idle, Call, Steps, MfaStates
  <2>5. shaped(k)
    BY <2>1, StatesAssumption DEF Idle, shaped, FactorSteps, MfaStates
  <2>6. \A v \in Users : ~hasEmail(v, e)
    BY <1>2, UserByEmail DEF emailFree
  <2>7. goes(c, k) /\ users' = [users EXCEPT ![u] = row]
    BY <2>1
  <2> HIDE DEF row, k, e
  <2>8. /\ users' \in [Users -> User] /\ users'[u] = row
        /\ \A v \in Users \ {u} : users'[v] = users[v]
    BY <2>2, <2>7 DEF Enrolling, TypeOK
  <2>9. TablesTyped'
    BY <2>3, <2>8 DEF Enrolling, TypeOK, TablesTyped
  <2>10. RowsKept
    BY <2>1, <2>3, <2>8 DEF RowsKept
  <2>11. RowsKnown'
    <3>1. SatisfiedEnrolled'
      BY <2>1, <2>3, <2>8 DEF Enrolling, RowsKnown, SatisfiedEnrolled, enrolled, live
    <3>2. OneAccountPerEmail'
      BY <2>2, <2>6, <2>8 DEF Enrolling, RowsKnown, OneAccountPerEmail, live, hasEmail
    <3>3. \A v \in Users : users'[v].codes # {} => users'[v].totpEnabledAt
      BY <2>2, <2>8 DEF Enrolling, RowsKnown
    <3>4. \A y \in Keys : credentials'[y] # None => users'[credentials'[y]].state # "new"
      BY <2>1, <2>3, <2>8 DEF Enrolling, RowsKnown, TypeOK, Credential
    <3>. QED
      BY <3>1, <3>2, <3>3, <3>4 DEF RowsKnown
  <2>12. calls'[c] = k
    BY <2>7 DEF goes, Enrolling, TypeOK
  <2>13. shaped(calls[c])' /\ trusted(calls[c])'
    BY <2>2, <2>4, <2>5, <2>8, <2>12 DEF shaped, trusted, FactorSteps, EnabledSteps
  <2>. QED
    BY <2>4, <2>7, <2>9, <2>10, <2>11, <2>13, CallStep
<1>. QED
  BY <1>1, <1>2

\* The session of a sign-in: one that has full access already is of a user with both factors.
LEMMA SessionCreateEnrolling ==
    ASSUME Enrolling, NEW c \in Calls, SessionCreate(c)
    PROVE  Enrolling'
<1> DEFINE u == calls[c].user
<1>0. calls[c] \in Call /\ shaped(calls[c]) /\ trusted(calls[c]) /\ calls[c].next = "create"
  BY DEF Enrolling, TypeOK, CallsTrusted, SessionCreate, at
<1>1. returns(c) /\ UNCHANGED <<users, pendingUsers, usedLinks, challenges, credentials, announced, condemned>>
  BY DEF SessionCreate, passkeys
<1>2. CASE ~live(u)
  BY <1>1, <1>2, ReturnStep DEF SessionCreate, rows, passkeys, Enrolling, TypeOK
<1>3. CASE live(u)
  <2> DEFINE row == [state |-> "live", user |-> u, mfaState |-> calls[c].mfaState, expired |-> FALSE]
  <2>1. PICK s \in Sessions : sessions[s].state = "new" /\ sessions' = [sessions EXCEPT ![s] = row]
    BY <1>3 DEF SessionCreate
  <2>2. /\ u \in Users /\ users[u].state = "live"
        /\ calls[c].mfaState \in MfaStates
        /\ calls[c].mfaState = "satisfied" => users[u].totpEnabledAt
    BY <1>0, <1>3 DEF Call, shaped, trusted, live
  <2>3. row \in Session /\ row.state = "live" /\ row.user = u /\ row.mfaState = calls[c].mfaState
    BY <2>2 DEF Session
  <2> HIDE DEF row, u
  <2>4. sessions' \in [Sessions -> Session]
    BY <2>1, <2>3 DEF Enrolling, TypeOK
  <2>5. TablesTyped'
    BY <1>1, <2>4 DEF Enrolling, TypeOK, TablesTyped
  <2>6. \A z \in Sessions : sessions'[z] = IF z = s THEN row ELSE sessions[z]
    BY <2>1 DEF Enrolling, TypeOK
  <2>7. RowsKept
    BY <1>1, <2>1, <2>6 DEF RowsKept
  <2>8. SatisfiedEnrolled'
    BY <1>1, <2>2, <2>3, <2>6, AccountsAssumption
    DEF Enrolling, RowsKnown, SatisfiedEnrolled, live, enrolled
  <2>9. RowsKnown'
    BY <1>1, <2>8 DEF Enrolling, RowsKnown, OneAccountPerEmail, live
  <2>10. calls'[c] = Idle
    BY <1>1 DEF returns, goes, Enrolling, TypeOK
  <2>11. shaped(calls[c])' /\ trusted(calls[c])'
    BY <2>10, IdleCall DEF shaped, trusted, live, Idle, FactorSteps, EnabledSteps
  <2>. QED
    BY <1>1, <2>5, <2>7, <2>9, <2>11, IdleCall, CallStep DEF returns
<1>. QED
  BY <1>2, <1>3

\* A lifted session is still that of the user whose factor was checked.
LEMMA SetSessionMfaStateEnrolling ==
    ASSUME Enrolling, NEW c \in Calls, SetSessionMfaState(c)
    PROVE  Enrolling'
<1> DEFINE s == calls[c].session
<1>0. calls[c] \in Call /\ shaped(calls[c]) /\ trusted(calls[c]) /\ calls[c].next = "lift"
  BY DEF Enrolling, TypeOK, CallsTrusted, SetSessionMfaState, at
<1>1. /\ returns(c) /\ sessions' = lifted(s)
      /\ UNCHANGED <<users, pendingUsers, usedLinks, challenges, credentials, announced, condemned>>
  BY DEF SetSessionMfaState, passkeys
<1>2. s \in Sessions
  BY <1>0 DEF Call, shaped, FactorSteps
<1>3. CASE sessions[s].state # "live"
  BY <1>1, <1>3, ReturnStep DEF lifted, rows, passkeys, Enrolling, TypeOK
<1>4. CASE sessions[s].state = "live"
  <2> DEFINE row == [sessions[s] EXCEPT !.mfaState = "satisfied"]
  <2>1. sessions[s] \in [state : {"live"}, user : Users, mfaState : MfaStates, expired : BOOLEAN]
    BY <1>2, <1>4 DEF Enrolling, TypeOK, Session, NoSession, GoneSession
  <2>2. /\ row \in Session /\ row.state = "live" /\ row.user = sessions[s].user
        /\ sessions' = [sessions EXCEPT ![s] = row]
    BY <1>1, <1>4, <2>1 DEF Session, MfaStates, lifted
  <2>3. /\ sessions[s].user = calls[c].user /\ sessions[s].user \in Users
        /\ users[sessions[s].user].state = "live"
        /\ users[sessions[s].user].totpEnabledAt
    BY <1>0, <1>2, <1>4, <2>1
    DEF Enrolling, RowsKnown, SatisfiedEnrolled, trusted, live, FactorSteps, EnabledSteps
  <2> HIDE DEF row, s
  <2>4. sessions' \in [Sessions -> Session] /\ \A z \in Sessions : sessions'[z] = IF z = s THEN row ELSE sessions[z]
    BY <2>2 DEF Enrolling, TypeOK
  <2>5. TablesTyped'
    BY <1>1, <2>4 DEF Enrolling, TypeOK, TablesTyped
  <2>6. RowsKept
    BY <1>1, <1>4, <2>2, <2>4 DEF RowsKept
  <2>7. SatisfiedEnrolled'
    BY <1>1, <1>4, <2>2, <2>3, <2>4 DEF Enrolling, RowsKnown, SatisfiedEnrolled, live, enrolled
  <2>8. RowsKnown'
    BY <1>1, <2>7 DEF Enrolling, RowsKnown, OneAccountPerEmail, live
  <2>9. calls'[c] = Idle
    BY <1>1 DEF returns, goes, Enrolling, TypeOK
  <2>10. shaped(calls[c])' /\ trusted(calls[c])'
    BY <2>9, IdleCall DEF shaped, trusted, live, Idle, FactorSteps, EnabledSteps
  <2>. QED
    BY <1>1, <2>5, <2>6, <2>8, <2>10, IdleCall, CallStep DEF returns
<1>. QED
  BY <1>3, <1>4

\* An update of one row of users.
LEMMA UpdateUser ==
    ASSUME Enrolling, NEW u, NEW row \in User,
           u \in Users => /\ row.state = users[u].state /\ row.email = users[u].email
                          /\ users[u].totpEnabledAt => row.totpEnabledAt
                          /\ row.codes # {} => row.totpEnabledAt,
           users' = [users EXCEPT ![u] = row]
    PROVE  UsersKept /\ users' \in [Users -> User]
<1>1. users \in [Users -> User]
  BY DEF Enrolling, TypeOK
<1>2. \A v \in Users : users'[v] = IF v = u THEN row ELSE users[v]
  BY <1>1
<1>3. \A v \in Users : users[v].codes # {} => users[v].totpEnabledAt
  BY DEF Enrolling, RowsKnown
<1>4. UsersKept
  BY <1>2, <1>3 DEF UsersKept
<1>. QED
  BY <1>1, <1>4

LEMMA TotpEnrolling ==
    ASSUME Enrolling, NEW c \in Calls, BeginTotpSetup(c) \/ SavePassword(c)
    PROVE  Enrolling'
<1> DEFINE u == calls[c].user
<1>0. calls[c] \in Call /\ shaped(calls[c]) /\ trusted(calls[c])
  BY DEF Enrolling, TypeOK, CallsTrusted
<1>1. /\ UNCHANGED <<pendingUsers, usedLinks, sessions, challenges, credentials, announced>>
      /\ condemned' \subseteq Sessions
  BY DEF BeginTotpSetup, SavePassword, passkeys, liveSessions, Enrolling, TypeOK
<1>2. UsersKept /\ users' \in [Users -> User]
  <2>1. CASE users' = users
    BY <2>1, UnchangedRows DEF Enrolling, TypeOK
  <2>2. CASE users' # users
    <3>1. live(u) /\ u \in Users
      BY <1>0, <2>2 DEF BeginTotpSetup, SavePassword, live, Call
    <3>2. users[u] \in User
      BY <3>1 DEF Enrolling, TypeOK
    <3>3. users[u].codes # {} => users[u].totpEnabledAt
      BY <3>1 DEF Enrolling, RowsKnown
    <3>4. CASE BeginTotpSetup(c)
      <4> DEFINE row == [users[u] EXCEPT !.totpPendingSecret = TRUE]
      <4>1. row \in User /\ row.state = users[u].state /\ row.email = users[u].email
            /\ row.totpEnabledAt = users[u].totpEnabledAt /\ row.codes = users[u].codes
        BY <3>2 DEF User
      <4>2. users' = [users EXCEPT ![u] = row]
        BY <3>1, <3>4 DEF BeginTotpSetup
      <4> HIDE DEF row, u
      <4>. QED
        BY <3>3, <4>1, <4>2, UpdateUser
    <3>5. CASE SavePassword(c)
      <4> DEFINE row == [users[u] EXCEPT !.password = calls[c].password]
      <4>1. row \in User /\ row.state = users[u].state /\ row.email = users[u].email
            /\ row.totpEnabledAt = users[u].totpEnabledAt /\ row.codes = users[u].codes
        BY <1>0, <3>2 DEF User, Call
      <4>2. users' = [users EXCEPT ![u] = row]
        BY <3>1, <3>5 DEF SavePassword
      <4> HIDE DEF row, u
      <4>. QED
        BY <3>3, <4>1, <4>2, UpdateUser
    <3>. QED
      BY <3>4, <3>5
  <2>. QED
    BY <2>1, <2>2
<1>3. TablesTyped'
  BY <1>1, <1>2 DEF Enrolling, TypeOK, TablesTyped
<1>4. CASE BeginTotpSetup(c)
  BY <1>1, <1>2, <1>3, <1>4, UnchangedRows, WriteReturns DEF BeginTotpSetup
<1>5. CASE SavePassword(c)
  <2> DEFINE k == [calls[c] EXCEPT !.next = "find"]
  <2>1. goes(c, k) /\ calls[c].next = "save"
    BY <1>5 DEF SavePassword, goesOn, at
  <2>2. k \in Call /\ k.user = calls[c].user /\ k.mfaState = calls[c].mfaState /\ k.next = "find"
    BY <1>0 DEF Call, Steps
  <2>3. shaped(k)
    BY <1>0, <2>1 DEF Call, shaped, FactorSteps
  <2> HIDE DEF k
  <2>. QED
    BY <1>1, <1>2, <1>3, <2>1, <2>2, <2>3, UnchangedRows, WriteStep DEF FactorSteps, EnabledSteps
<1>. QED
  BY <1>4, <1>5

\* A factor that was checked, or has just been set, lets the handler go on to lift its session.
LEMMA FactorEnrolling ==
    ASSUME Enrolling, NEW c \in Calls, ConfirmTotpSetup(c) \/ ConsumeRecoveryCode(c)
    PROVE  Enrolling'
<1> DEFINE u == calls[c].user
<1>0. /\ calls[c] \in Call /\ shaped(calls[c]) /\ trusted(calls[c])
      /\ calls[c].next \in {"confirm", "useCode"}
  BY DEF Enrolling, TypeOK, CallsTrusted, ConfirmTotpSetup, ConsumeRecoveryCode, at
<1>1. UNCHANGED <<pendingUsers, usedLinks, sessions, challenges, credentials, announced, condemned>>
  BY DEF ConfirmTotpSetup, ConsumeRecoveryCode, passkeys
<1>2. u \in Users /\ users[u] \in User
  BY <1>0 DEF shaped, FactorSteps, Call, Enrolling, TypeOK
<1>3. users[u].codes # {} => users[u].totpEnabledAt
  BY <1>2 DEF Enrolling, RowsKnown
<1>4. CASE returns(c) /\ users' = users
  BY <1>1, <1>4, ReturnStep DEF rows, passkeys, Enrolling, TypeOK
<1>5. CASE goesOn(c, "lift") /\ ~(returns(c) /\ users' = users)
  <2>1. PICK row \in User :
           /\ row.state = users[u].state /\ row.email = users[u].email
           /\ users[u].totpEnabledAt => row.totpEnabledAt
           /\ row.codes # {} => row.totpEnabledAt
           /\ row.state = "live" => row.totpEnabledAt
           /\ users' = [users EXCEPT ![u] = row]
    <3>1. CASE ConfirmTotpSetup(c)
      <4> DEFINE row == [users[u] EXCEPT !.totpPendingSecret = FALSE, !.totpEnabledAt = TRUE,
                                         !.codes = Codes]
      <4>1. row \in User /\ row.state = users[u].state /\ row.email = users[u].email /\ row.totpEnabledAt
        BY <1>2 DEF User
      <4>2. users' = [users EXCEPT ![u] = row]
        <5>1. users' = [users EXCEPT ![u].totpPendingSecret = FALSE,
                                     ![u].totpEnabledAt = TRUE, ![u].codes = Codes]
          BY <1>5, <3>1 DEF ConfirmTotpSetup
        <5>. QED
          BY <1>2, <5>1 DEF Enrolling, TypeOK
      <4> HIDE DEF row, u
      <4>. QED
        BY <4>1, <4>2
    <3>2. CASE ConsumeRecoveryCode(c)
      <4> DEFINE row == [users[u] EXCEPT !.codes = users[u].codes \ {calls[c].secret}]
      <4>1. /\ row \in User /\ row.state = users[u].state /\ row.email = users[u].email
            /\ row.totpEnabledAt = users[u].totpEnabledAt
            /\ row.codes # {} => users[u].codes # {}
        BY <1>2 DEF User
      <4>2. users' = [users EXCEPT ![u] = row]
        BY <3>2 DEF ConsumeRecoveryCode
      <4>3. users[u].state = "live" => users[u].totpEnabledAt
        BY <1>0, <1>2, <3>2, AccountsAssumption
        DEF trusted, live, EnabledSteps, ConsumeRecoveryCode, at
      <4> HIDE DEF row, u
      <4>. QED
        BY <1>3, <4>1, <4>2, <4>3
    <3>. QED
      BY <3>1, <3>2
  <2>2. UsersKept /\ users' \in [Users -> User]
    BY <2>1, UpdateUser
  <2>3. TablesTyped'
    BY <1>1, <2>2 DEF Enrolling, TypeOK, TablesTyped
  <2>4. RowsKept /\ RowsKnown'
    BY <1>1, <2>2, UnchangedRows, KeptRows
  <2> DEFINE k == [calls[c] EXCEPT !.next = "lift"]
  <2>5. goes(c, k)
    BY <1>5 DEF goesOn
  <2>6. /\ k \in Call /\ k.user = u /\ k.session = calls[c].session /\ k.next = "lift"
    BY <1>0 DEF Call, Steps
  <2>7. shaped(k)
    BY <1>0 DEF Call, shaped, FactorSteps
  <2>8. calls[c].session \in Sessions
    BY <1>0 DEF Call, shaped, FactorSteps
  <2> HIDE DEF k, u
  <2>9. users'[u] = row /\ calls'[c] = k
    BY <1>2, <2>1, <2>5 DEF goes, Enrolling, TypeOK
  <2>10. shaped(calls[c])'
    BY <2>7, <2>9 DEF shaped
  <2>11. u = calls[c].user /\ users[u].state # "new"
    BY <1>0, <1>2, AccountsAssumption DEF u, trusted
  <2>12. trusted(calls[c])'
    BY <1>0, <1>1, <2>1, <2>6, <2>9, <2>11 DEF trusted, live, FactorSteps, EnabledSteps
  <2>. QED
    BY <2>3, <2>4, <2>5, <2>6, <2>10, <2>12, CallStep
<1>. QED
  BY <1>4, <1>5 DEF ConfirmTotpSetup, ConsumeRecoveryCode

LEMMA ChallengeEnrolling ==
    ASSUME Enrolling, NEW c \in Calls, CreateWebauthnChallenge(c) \/ ConsumeWebauthnChallenge(c)
    PROVE  Enrolling'
<1>0. calls[c] \in Call /\ shaped(calls[c]) /\ trusted(calls[c])
  BY DEF Enrolling, TypeOK, CallsTrusted
<1>1. UNCHANGED <<users, pendingUsers, usedLinks, sessions, credentials, announced, condemned>>
  BY DEF CreateWebauthnChallenge, ConsumeWebauthnChallenge
<1>2. challenges' \in [Challenges -> Challenge]
  <2>1. CASE CreateWebauthnChallenge(c)
    <3>1. \A h : [state |-> "live", user |-> calls[c].user] \in Challenge
      BY <1>0 DEF Call, Challenge, RowStates
    <3>. QED
      BY <2>1, <3>1 DEF CreateWebauthnChallenge, Enrolling, TypeOK
  <2>2. CASE ConsumeWebauthnChallenge(c)
    BY <2>2 DEF ConsumeWebauthnChallenge, Enrolling, TypeOK, GoneChallenge, Challenge, RowStates
  <2>. QED
    BY <2>1, <2>2
<1>3. TablesTyped' /\ UsersKept /\ SessionsKept
  BY <1>1, <1>2, UnchangedRows DEF Enrolling, TypeOK, TablesTyped
<1>4. CASE returns(c)
  BY <1>1, <1>3, <1>4, WriteReturns
<1>5. CASE ~returns(c)
  <2>1. PICK step \in {"findCredential", "enrol"} :
           /\ calls[c].next = "consume"
           /\ goes(c, [calls[c] EXCEPT !.secret = None, !.next = step])
    BY <1>0, <1>5 DEF CreateWebauthnChallenge, ConsumeWebauthnChallenge, at
  <2> DEFINE k == [calls[c] EXCEPT !.secret = None, !.next = step]
  <2>2. /\ k \in Call
        /\ k.user = calls[c].user /\ k.mfaState = calls[c].mfaState /\ k.next = step
    <3>1. step \in Steps
      BY DEF Steps
    <3>2. k \in Call
      BY <1>0, <3>1 DEF Call
    <3>3. k.user = calls[c].user /\ k.mfaState = calls[c].mfaState /\ k.next = step
      BY <1>0 DEF Call
    <3>. QED
      BY <3>2, <3>3
  <2>3. shaped(k)
    BY <1>0, <2>1 DEF Call, shaped, FactorSteps
  <2>4. goes(c, k)
    BY <2>1
  <2> HIDE DEF k
  <2>. QED
    BY <1>1, <1>3, <2>1, <2>2, <2>3, <2>4, WriteStep DEF FactorSteps, EnabledSteps
<1>. QED
  BY <1>4, <1>5

\* A device is enrolled for a user who had both factors when the enrolment began.
LEMMA EnrolCommitEnrolling ==
    ASSUME Enrolling, NEW c \in Calls, EnrolCommit(c)
    PROVE  Enrolling'
<1> DEFINE u == calls[c].user
           row == [users[u] EXCEPT !.passkeyEnabled = TRUE]
<1>0. /\ calls[c] \in Call /\ shaped(calls[c]) /\ trusted(calls[c])
      /\ calls[c].next = "enrolCommit"
  BY DEF Enrolling, TypeOK, CallsTrusted, EnrolCommit, at
<1>1. /\ credentials' = [credentials EXCEPT ![calls[c].secret] = u]
      /\ users' = [users EXCEPT ![u] = row]
      /\ returns(c)
      /\ UNCHANGED <<pendingUsers, usedLinks, sessions, challenges, announced, condemned>>
  BY DEF EnrolCommit
<1>2. u \in Users /\ users[u] \in User /\ users[u].state # "new"
      /\ (users[u].state = "live" => users[u].totpEnabledAt)
  BY <1>0, AccountsAssumption DEF shaped, trusted, live, EnabledSteps, Call, Enrolling, TypeOK
<1>3. users[u].codes # {} => users[u].totpEnabledAt
  BY <1>2 DEF Enrolling, RowsKnown
<1>4. /\ row \in User /\ row.state = users[u].state /\ row.email = users[u].email
      /\ row.totpEnabledAt = users[u].totpEnabledAt /\ row.codes = users[u].codes
  BY <1>2 DEF User
<1> HIDE DEF row
<1>5. UsersKept /\ users' \in [Users -> User]
  BY <1>1, <1>3, <1>4, UpdateUser
<1>6. credentials' \in [Keys -> Credential]
  BY <1>0, <1>1, <1>2 DEF Enrolling, TypeOK, Credential
<1>7. TablesTyped'
  BY <1>1, <1>5, <1>6 DEF Enrolling, TypeOK, TablesTyped
<1> HIDE DEF u
<1>8. \A y \in Keys : credentials'[y] \in {credentials[y], u}
  BY <1>1 DEF Enrolling, TypeOK
<1>9. RowsKept
  BY <1>1, <1>5 DEF RowsKept, UsersKept
<1>10. RowsKnown'
  <2>1. OneAccountPerEmail'
    BY <1>5 DEF OneAccountPerEmail, Enrolling, RowsKnown, UsersKept, live
  <2>2. \A y \in Keys : credentials[y] # None => credentials[y] \in Users
    BY DEF Enrolling, TypeOK, Credential
  <2>3. \A s \in Sessions : sessions[s].state = "live" => sessions[s].user \in Users
    BY DEF Enrolling, TypeOK, Session, NoSession, GoneSession
  <2>4. SatisfiedEnrolled'
    BY <1>1, <1>2, <1>5, <1>8, <2>2, <2>3
    DEF SatisfiedEnrolled, Enrolling, RowsKnown, UsersKept, live, enrolled
  <2>5. \A y \in Keys : credentials'[y] # None => users'[credentials'[y]].state # "new"
    BY <1>2, <1>5, <1>8, <2>2 DEF Enrolling, RowsKnown, UsersKept
  <2>. QED
    BY <1>5, <2>1, <2>4, <2>5 DEF RowsKnown, UsersKept
<1>11. calls'[c] = Idle
  BY <1>1 DEF returns, goes, Enrolling, TypeOK
<1>12. shaped(calls[c])' /\ trusted(calls[c])'
  BY <1>11, IdleCall DEF shaped, trusted, live, Idle, FactorSteps, EnabledSteps
<1>. QED
  BY <1>1, <1>7, <1>9, <1>10, <1>12, IdleCall, CallStep DEF returns

LEMMA DisableCommitEnrolling ==
    ASSUME Enrolling, NEW c \in Calls, DisableCommit(c)
    PROVE  Enrolling'
<1> DEFINE u == calls[c].user
           row == [users[u] EXCEPT !.passkeyEnabled = flagAfterDisable]
<1>1. /\ credentials' = [k \in Keys |-> IF k \in calls[c].keys THEN None ELSE credentials[k]]
      /\ users' = IF live(u) THEN [users EXCEPT ![u] = row] ELSE users
      /\ returns(c)
      /\ UNCHANGED <<pendingUsers, usedLinks, sessions, challenges, announced, condemned>>
  BY DEF DisableCommit
<1>2. calls[c].user \in Users \cup {None}
  BY DEF Enrolling, TypeOK, Call
<1>3. UsersKept /\ users' \in [Users -> User]
  <2>1. CASE live(u)
    <3>1. u \in Users /\ users[u] \in User
      BY <1>2, <2>1 DEF live, Enrolling, TypeOK
    <3>2. users[u].codes # {} => users[u].totpEnabledAt
      BY <3>1 DEF Enrolling, RowsKnown
    <3>3. /\ row \in User /\ row.state = users[u].state /\ row.email = users[u].email
          /\ row.totpEnabledAt = users[u].totpEnabledAt /\ row.codes = users[u].codes
      BY <3>1 DEF User, flagAfterDisable
    <3> HIDE DEF row
    <3>. QED
      BY <1>1, <2>1, <3>2, <3>3, UpdateUser
  <2>2. CASE ~live(u)
    BY <1>1, <2>2, UnchangedRows DEF Enrolling, TypeOK
  <2>. QED
    BY <2>1, <2>2
<1>4. /\ credentials' \in [Keys -> Credential]
      /\ \A y \in Keys : credentials'[y] \in {credentials[y], None}
  BY <1>1 DEF Enrolling, TypeOK, Credential
<1>5. TablesTyped'
  BY <1>1, <1>3, <1>4 DEF Enrolling, TypeOK, TablesTyped
<1>. QED
  BY <1>1, <1>3, <1>4, <1>5, UnchangedRows, WriteReturns

LEMMA GoneSessions ==
    ASSUME Enrolling, NEW ids, sessions' = gone(ids)
    PROVE  /\ SessionsKept /\ sessions' \in [Sessions -> Session]
           /\ \A s \in Sessions : sessions'[s] = IF s \in ids THEN GoneSession ELSE sessions[s]
<1>1. GoneSession \in Session /\ GoneSession.state = "gone"
  BY DEF Session, GoneSession, NoSession
<1>2. \A s \in Sessions : sessions'[s] = IF s \in ids THEN GoneSession ELSE sessions[s]
  BY DEF gone
<1>3. sessions' \in [Sessions -> Session]
  BY <1>1 DEF gone, Enrolling, TypeOK
<1>. QED
  BY <1>1, <1>2, <1>3 DEF SessionsKept

LEMMA DestroySessionsEnrolling ==
    ASSUME Enrolling, NEW c \in Calls, DestroySessions(c)
    PROVE  Enrolling'
<1> DEFINE k == [calls[c] EXCEPT !.next = "announce"]
<1>0. /\ calls[c] \in Call /\ shaped(calls[c]) /\ trusted(calls[c]) /\ calls[c].next = "destroy"
  BY DEF Enrolling, TypeOK, CallsTrusted, DestroySessions, at
<1>1. /\ sessions' = gone(calls[c].ids) /\ goes(c, k)
      /\ UNCHANGED <<users, pendingUsers, usedLinks, challenges, credentials, announced, condemned>>
  BY DEF DestroySessions, goesOn, passkeys
<1>2. UsersKept /\ SessionsKept /\ TablesTyped'
  BY <1>1, GoneSessions, UnchangedRows DEF Enrolling, TypeOK, TablesTyped
<1>3. /\ k \in Call /\ k.user = calls[c].user /\ k.mfaState = calls[c].mfaState /\ k.next = "announce"
  BY <1>0 DEF Call, Steps
<1>4. shaped(k)
  BY <1>0 DEF Call, shaped, FactorSteps
<1> HIDE DEF k
<1>. QED
  BY <1>1, <1>2, <1>3, <1>4, WriteStep DEF FactorSteps, EnabledSteps

\* The row of the account goes with those of its sessions.
LEMMA DeleteUserCommitEnrolling ==
    ASSUME Enrolling, NEW c \in Calls, DeleteUserCommit(c)
    PROVE  Enrolling'
<1> DEFINE u == calls[c].user
           row == [NoUser EXCEPT !.state = "gone"]
           ids == calls[c].ids \cup liveSessions(u)
<1>0. /\ calls[c] \in Call /\ shaped(calls[c]) /\ trusted(calls[c]) /\ calls[c].next = "deleteCommit"
  BY DEF Enrolling, TypeOK, CallsTrusted, DeleteUserCommit, at
<1>1. /\ users' = [users EXCEPT ![u] = row] /\ sessions' = gone(ids)
      /\ UNCHANGED <<pendingUsers, usedLinks, challenges, credentials, announced, condemned>>
  BY DEF DeleteUserCommit, passkeys
<1>2. row \in User /\ row.state = "gone" /\ row.codes = {}
  BY DEF User, NoUser, RowStates
<1>3. \A s \in Sessions : sessions[s].state = "live" /\ sessions[s].user = u => s \in ids
  BY DEF liveSessions
<1> HIDE DEF row, ids
<1>4. /\ users' \in [Users -> User]
      /\ \A v \in Users : users'[v] = IF v = u THEN row ELSE users[v]
  BY <1>1, <1>2 DEF Enrolling, TypeOK
<1>5. /\ SessionsKept /\ sessions' \in [Sessions -> Session]
      /\ \A s \in Sessions : sessions'[s] = IF s \in ids THEN GoneSession ELSE sessions[s]
  BY <1>1, GoneSessions
<1>6. TablesTyped'
  BY <1>1, <1>4, <1>5 DEF Enrolling, TypeOK, TablesTyped
<1>7. RowsKept
  BY <1>2, <1>4, <1>5 DEF RowsKept, SessionsKept
<1>8. RowsKnown'
  <2>1. OneAccountPerEmail'
    BY <1>2, <1>4 DEF OneAccountPerEmail, Enrolling, RowsKnown, live
  <2>2. /\ \A y \in Keys : credentials[y] # None => credentials[y] \in Users
        /\ \A s \in Sessions : sessions[s].state = "live" => sessions[s].user \in Users
        /\ GoneSession.state = "gone"
    BY DEF Enrolling, TypeOK, Credential, Session, NoSession, GoneSession
  <2>3. SatisfiedEnrolled'
    BY <1>1, <1>2, <1>3, <1>4, <1>5, <2>2 DEF SatisfiedEnrolled, Enrolling, RowsKnown, live, enrolled
  <2>4. \A v \in Users : users'[v].codes # {} => users'[v].totpEnabledAt
    BY <1>2, <1>4 DEF Enrolling, RowsKnown
  <2>5. \A y \in Keys : credentials'[y] # None => users'[credentials'[y]].state # "new"
    BY <1>1, <1>2, <1>4, <2>2 DEF Enrolling, RowsKnown
  <2>. QED
    BY <2>1, <2>3, <2>4, <2>5 DEF RowsKnown
<1>9. PICK k \in Call : /\ goes(c, k) /\ k \in {Idle, [calls[c] EXCEPT !.next = "announce"]}
  <2>1. [calls[c] EXCEPT !.next = "announce"] \in Call
    BY <1>0 DEF Call, Steps
  <2>. QED
    BY <2>1, IdleCall DEF DeleteUserCommit, returns, goesOn
<1>10. /\ k.user \in {None, calls[c].user} /\ k.next \in {"idle", "announce"}
       /\ k.mfaState # "satisfied" /\ k.session \in {None, calls[c].session}
       /\ shaped(k)
  BY <1>0, <1>9, StatesAssumption, IdleCall DEF Call, Idle, shaped, FactorSteps, MfaStates
<1>11. calls'[c] = k
  BY <1>9 DEF goes, Enrolling, TypeOK
<1>12. shaped(calls[c])'
  BY <1>10, <1>11 DEF shaped
<1>13. trusted(calls[c])'
  <2>1. calls[c].user # None => calls[c].user \in Users /\ users[calls[c].user].state # "new"
    BY <1>0 DEF Call, trusted
  <2>. QED
    BY <1>2, <1>4, <1>10, <1>11, <2>1 DEF trusted, FactorSteps, EnabledSteps
<1>. QED
  BY <1>6, <1>7, <1>8, <1>9, <1>12, <1>13, CallStep

LEMMA NextEnrolling == Enrolling /\ [Next]_vars => Enrolling'
<1> SUFFICES ASSUME Enrolling, [Next]_vars PROVE Enrolling'
  OBVIOUS
<1>1. CASE UNCHANGED vars
  <2>1. UsersKept /\ SessionsKept /\ TablesTyped'
    BY <1>1, UnchangedRows DEF vars, rows, passkeys, Enrolling, TypeOK, TablesTyped
  <2>. QED
    BY <1>1, <2>1, TableStep DEF vars, rows, passkeys
<1>2. CASE Next
  BY <1>2, SignupEnrolling, SessionCallEnrolling, AccountCallEnrolling, CheckEnrolling,
     RefusedEnrolling, LookupEnrolling, FindUserEnrolling, EndsEnrolling, EmitEnrolling,
     TimeEnrolling, PendingEnrolling, PromoteEnrolling, SessionCreateEnrolling,
     SetSessionMfaStateEnrolling, TotpEnrolling, FactorEnrolling, ChallengeEnrolling,
     EnrolCommitEnrolling, DisableCommitEnrolling, DestroySessionsEnrolling,
     DeleteUserCommitEnrolling
  DEF Next
<1>. QED
  BY <1>1, <1>2

LEMMA InvariantEnrolling == Spec => []Enrolling
    BY InitEnrolling, NextEnrolling, PTL DEF Spec

\* Every table and every handler in flight keeps its type.
THEOREM AccountsTypeCorrect == Spec => []TypeOK
<1>1. Enrolling => TypeOK
  BY DEF Enrolling
<1>. QED
  BY <1>1, InvariantEnrolling, PTL

\* A session has full access, and a device is enrolled, only for a user with a second
\* factor: the handler that lifts the session is several awaits behind the check.
THEOREM SatisfiedAreEnrolled == Spec => []SatisfiedEnrolled
<1>1. Enrolling => SatisfiedEnrolled
  BY DEF Enrolling, RowsKnown
<1>. QED
  BY <1>1, InvariantEnrolling, PTL

-----------------------------------------------------------------------------
(* The end of sessions.                                                     *)

\* A deletion has read every session there is to end, and a change of password condemns
\* no id that another session could get.
SignedOut ==
    /\ DeletedAnnounced
    /\ ChangedPasswordSignsOut
    /\ \A c \in Calls : at(c, "deleteCommit") => liveSessions(calls[c].user) \subseteq calls[c].ids
    /\ \A s \in condemned : sessions[s].state # "new"

\* A step that neither ends sessions nor announces their end: no handler that is at work on
\* either moves, and no session is created for an account that is being deleted.
Quiet ==
    /\ UNCHANGED <<announced, condemned>>
    /\ \A c \in Calls :
        \/ calls'[c] = calls[c]
        \/ /\ calls[c].next \notin {"find", "destroy", "announce"}
           /\ calls'[c].next # "deleteCommit"
    /\ \A s \in Sessions :
        /\ sessions'[s].state = "gone" => sessions[s].state = "gone"
        /\ sessions'[s].state = "new" => sessions[s].state = "new"
        /\ sessions'[s].state = "live" =>
            \/ sessions[s].state = "live" /\ sessions'[s].user = sessions[s].user
            \/ sessions[s].state = "new" /\ ~locked(sessions'[s].user)

LEMMA Goes ==
    ASSUME TypeOK, NEW c \in Calls, NEW k, goes(c, k)
    PROVE  calls'[c] = k /\ \A d \in Calls \ {c} : calls'[d] = calls[d]
    BY DEF TypeOK, goes

LEMMA QuietStep ==
    ASSUME TypeOK, SignedOut, Quiet
    PROVE  SignedOut'
<1>1. DeletedAnnounced'
  BY DEF SignedOut, DeletedAnnounced, Quiet, at
<1>2. ChangedPasswordSignsOut'
  <2>1. SUFFICES ASSUME NEW s \in condemned, sessions'[s].state = "live"
                 PROVE  \E c \in Calls :
                          /\ calls'[c].user = sessions'[s].user /\ calls'[c].password # None
                          /\ \/ calls'[c].next = "find"
                             \/ calls'[c].next = "destroy" /\ s \in calls'[c].ids
    BY DEF ChangedPasswordSignsOut, Quiet, at
  <2>2. s \in Sessions /\ sessions[s].state = "live" /\ sessions'[s].user = sessions[s].user
    BY <2>1 DEF SignedOut, Quiet, TypeOK
  <2>3. PICK c \in Calls :
           /\ calls[c].user = sessions[s].user /\ calls[c].password # None
           /\ calls[c].next = "find" \/ (calls[c].next = "destroy" /\ s \in calls[c].ids)
    BY <2>2 DEF SignedOut, ChangedPasswordSignsOut, at
  <2>4. calls'[c] = calls[c]
    BY <2>3 DEF Quiet
  <2>. QED
    BY <2>2, <2>3, <2>4
<1>3. \A c \in Calls : at(c, "deleteCommit")' => liveSessions(calls[c].user)' \subseteq calls'[c].ids
  <2>1. SUFFICES ASSUME NEW c \in Calls, calls'[c].next = "deleteCommit", NEW s \in Sessions,
                        sessions'[s].state = "live", sessions'[s].user = calls'[c].user
                 PROVE  s \in calls'[c].ids
    BY DEF at, liveSessions
  <2>2. calls'[c] = calls[c]
    BY <2>1 DEF Quiet
  <2>3. locked(calls[c].user)
    BY <2>1, <2>2 DEF locked
  <2>4. sessions[s].state = "live" /\ sessions[s].user = calls[c].user
    BY <2>1, <2>2, <2>3 DEF Quiet
  <2>. QED
    BY <2>1, <2>2, <2>4 DEF SignedOut, at, liveSessions
<1>4. \A s \in condemned' : sessions'[s].state # "new"
  BY DEF Quiet, SignedOut, TypeOK
<1>. QED
  BY <1>1, <1>2, <1>3, <1>4 DEF SignedOut

\* A step of one handler that leaves the sessions alone.
LEMMA QuietCall ==
    ASSUME TypeOK, NEW c \in Calls, NEW k, goes(c, k), k.next # "deleteCommit",
           calls[c].next \notin {"find", "destroy", "announce"},
           UNCHANGED <<sessions, announced, condemned>>
    PROVE  Quiet
    BY Goes DEF Quiet

LEMMA QuietOn ==
    ASSUME TypeOK, NEW c \in Calls, NEW step, goesOn(c, step), step # "deleteCommit",
           calls[c].next \notin {"find", "destroy", "announce"},
           UNCHANGED <<sessions, announced, condemned>>
    PROVE  Quiet
<1>1. [calls[c] EXCEPT !.next = step].next = step
  BY DEF TypeOK, Call
<1>. QED
  BY <1>1, QuietCall DEF goesOn

LEMMA QuietReturn ==
    ASSUME TypeOK, NEW c \in Calls, returns(c),
           calls[c].next \notin {"find", "destroy", "announce"},
           UNCHANGED <<sessions, announced, condemned>>
    PROVE  Quiet
    BY QuietCall DEF returns, Idle

LEMMA SignupQuiet ==
    ASSUME TypeOK, NEW c \in Calls,
           \/ Signup(c) \/ CreatePendingUser(c) \/ MailSent(c) \/ DeletePendingUser(c)
           \/ VerifyPendingUser(c) \/ VerifyRecheck(c) \/ Promote(c) \/ Login(c)
           \/ AuthenticateOptions(c) \/ AuthenticateVerify(c)
    PROVE  Quiet
<1>1. CASE Signup(c)
  BY <1>1, QuietCall DEF Signup, at, Idle, rows
<1>2. CASE CreatePendingUser(c)
  BY <1>2, QuietOn DEF CreatePendingUser, at
<1>3. CASE MailSent(c) \/ DeletePendingUser(c)
  BY <1>3, QuietReturn DEF MailSent, DeletePendingUser, at, rows
<1>4. CASE VerifyPendingUser(c)
  BY <1>4, QuietCall DEF VerifyPendingUser, at, Idle, rows
<1>5. CASE VerifyRecheck(c)
  BY <1>5, QuietOn, QuietReturn DEF VerifyRecheck, at
<1>6. CASE Promote(c)
  BY <1>6, QuietCall, QuietReturn DEF Promote, at, Idle
<1>7. CASE Login(c)
  BY <1>7, QuietCall DEF Login, at, Idle, rows
<1>8. CASE AuthenticateOptions(c) \/ AuthenticateVerify(c)
  BY <1>8, QuietCall DEF AuthenticateOptions, AuthenticateVerify, AuthenticateCall, at, Idle, rows
<1>. QED
  BY <1>1, <1>2, <1>3, <1>4, <1>5, <1>6, <1>7, <1>8

LEMMA SessionCallQuiet ==
    ASSUME TypeOK, NEW c \in Calls, NEW s \in Sessions,
           \/ MfaSetup(c, s) \/ MfaSetupVerify(c, s) \/ MfaVerify(c, s)
           \/ RegisterOptions(c, s) \/ RegisterVerify(c, s) \/ Disable(c, s)
           \/ ChangePassword(c, s) \/ UserDelete(c, s)
    PROVE  Quiet
<1>1. ASSUME NEW mfaState, NEW step, step # "deleteCommit", sessionCall(c, s, mfaState, step)
      PROVE  Quiet
  BY <1>1, QuietCall DEF sessionCall, at, Idle, rows
<1>2. ASSUME NEW p, NEW step, step # "deleteCommit", accountCall(c, s, step, p)
      PROVE  Quiet
  BY <1>2, QuietCall DEF accountCall, at, Idle, rows
<1>3. CASE \/ MfaSetup(c, s) \/ MfaSetupVerify(c, s) \/ MfaVerify(c, s)
           \/ RegisterOptions(c, s) \/ RegisterVerify(c, s) \/ Disable(c, s)
  BY <1>1, <1>3 DEF MfaSetup, MfaSetupVerify, MfaVerify, RegisterOptions, RegisterVerify, Disable
<1>4. CASE ChangePassword(c, s) \/ UserDelete(c, s)
  BY <1>2, <1>4 DEF ChangePassword, UserDelete
<1>. QED
  BY <1>3, <1>4

LEMMA FactorQuiet ==
    ASSUME TypeOK, NEW c \in Calls,
           \/ BeginTotpSetup(c) \/ ReadPendingSecret(c) \/ ConfirmTotpSetup(c)
           \/ VerifyTotpChallenge(c) \/ ReadRecoveryCode(c) \/ ConsumeRecoveryCode(c)
           \/ Refused(c) \/ VerifyCredentials(c) \/ DeleteUserLock(c)
           \/ FindUser(c, "findUser", "save") \/ FindUser(c, "findDeleted", "lock")
    PROVE  Quiet
<1>0. calls[c] \in Call
  BY DEF TypeOK
<1>1. CASE BeginTotpSetup(c) \/ Refused(c)
  BY <1>1, QuietReturn DEF BeginTotpSetup, Refused, at, rows
<1>2. CASE ReadPendingSecret(c) \/ VerifyTotpChallenge(c) \/ VerifyCredentials(c) \/ DeleteUserLock(c)
  BY <1>2, QuietOn DEF ReadPendingSecret, VerifyTotpChallenge, VerifyCredentials, DeleteUserLock, at, rows
<1>3. CASE ConfirmTotpSetup(c)
  BY <1>3, QuietOn, QuietReturn DEF ConfirmTotpSetup, at
<1>4. CASE ConsumeRecoveryCode(c)
  BY <1>4, QuietOn DEF ConsumeRecoveryCode, at
<1>5. CASE ReadRecoveryCode(c)
  <2>1. \A code : [calls[c] EXCEPT !.next = "useCode", !.secret = code].next = "useCode"
    BY <1>0 DEF Call
  <2>. QED
    BY <1>5, <2>1, QuietCall DEF ReadRecoveryCode, at, rows
<1>6. ASSUME NEW from, NEW to, to # "deleteCommit", from \notin {"find", "destroy", "announce"},
             FindUser(c, from, to)
      PROVE  Quiet
  <2>1. \A u : [calls[c] EXCEPT !.next = to, !.user = u].next = to
    BY <1>0 DEF Call
  <2>. QED
    BY <1>6, <2>1, QuietCall, QuietReturn DEF FindUser, at, rows
<1>. QED
  BY <1>1, <1>2, <1>3, <1>4, <1>5, <1>6

LEMMA PasskeyQuiet ==
    ASSUME TypeOK, NEW c \in Calls,
           \/ CreateWebauthnChallenge(c) \/ FindChallenge(c) \/ ConsumeWebauthnChallenge(c)
           \/ EnrolInsert(c) \/ EnrolCommit(c) \/ FindCredential(c)
           \/ CompletePasskeyAuthentication(c) \/ DisableDelete(c) \/ DisableCommit(c)
           \/ DeadlockVictim(c)
    PROVE  Quiet
<1>0. calls[c] \in Call
  BY DEF TypeOK
<1>1. CASE \/ CreateWebauthnChallenge(c) \/ EnrolCommit(c) \/ DisableCommit(c) \/ DeadlockVictim(c)
  BY <1>1, QuietReturn DEF CreateWebauthnChallenge, EnrolCommit, DisableCommit, DeadlockVictim,
     disabling, at, rows
<1>2. \A step, x : [calls[c] EXCEPT !.secret = x, !.next = step].next = step
  BY <1>0 DEF Call
<1>3. CASE FindChallenge(c)
  <2>1. PICK h \in Challenges, step \in {"consume", "consumeOther"} :
           goes(c, [calls[c] EXCEPT !.secret = h, !.next = step])
    BY <1>3 DEF FindChallenge
  <2>. QED
    BY <1>2, <1>3, <2>1, QuietCall DEF FindChallenge, at, rows
<1>4. CASE ConsumeWebauthnChallenge(c)
  BY <1>2, <1>4, QuietCall, QuietReturn DEF ConsumeWebauthnChallenge, at, rows
<1>5. CASE EnrolInsert(c)
  <2>1. \A x : [calls[c] EXCEPT !.next = "enrolCommit", !.secret = x].next = "enrolCommit"
    BY <1>0 DEF Call
  <2>. QED
    BY <1>5, <2>1, QuietCall DEF EnrolInsert, at, rows
<1>6. CASE FindCredential(c)
  <2>1. \A x : [calls[c] EXCEPT !.next = "findOwner", !.user = x].next = "findOwner"
    BY <1>0 DEF Call
  <2>. QED
    BY <1>6, <2>1, QuietCall DEF FindCredential, at, rows
<1>7. CASE CompletePasskeyAuthentication(c)
  <2>1. [calls[c] EXCEPT !.next = "sweep", !.mfaState = "satisfied"].next = "sweep"
    BY <1>0 DEF Call
  <2>. QED
    BY <1>7, <2>1, QuietCall, QuietReturn DEF CompletePasskeyAuthentication, at, rows
<1>8. CASE DisableDelete(c)
  <2>1. \A x : [calls[c] EXCEPT !.next = "disableCommit", !.keys = x].next = "disableCommit"
    BY <1>0 DEF Call
  <2>. QED
    BY <1>8, <2>1, QuietCall DEF DisableDelete, at, rows
<1>. QED
  BY <1>1, <1>3, <1>4, <1>5, <1>6, <1>7, <1>8

\* What follows is up to the handler; nothing has ended yet.
LEMMA EndsQuiet ==
    ASSUME TypeOK, NEW c \in Calls,
           \/ SweepExpired(c)
           \/ \E s \in Sessions : Logout(c, s) \/ RevokeSession(c, s) \/ RevokeOtherSessions(c, s)
    PROVE  Quiet
<1>1. ASSUME NEW ids, NEW after \in {"idle", "create"}, ending(c, ids, after),
             calls[c].next \notin {"find", "destroy", "announce"},
             UNCHANGED <<sessions, announced, condemned>>
      PROVE  Quiet
  <2> DEFINE next == IF ids = {} THEN after ELSE "destroy"
  <2>1. next # "deleteCommit" /\ goes(c, [calls[c] EXCEPT !.next = next, !.ids = ids, !.after = after])
    BY <1>1 DEF ending
  <2> HIDE DEF next
  <2>2. [calls[c] EXCEPT !.next = next, !.ids = ids, !.after = after].next = next
    BY DEF TypeOK, Call
  <2>. QED
    BY <1>1, <2>1, <2>2, QuietCall
<1>2. CASE SweepExpired(c)
  BY <1>1, <1>2 DEF SweepExpired, at, rows
<1>3. ASSUME NEW ids, ends(c, ids)
      PROVE  Quiet
  BY <1>1, <1>3 DEF ends, at, rows
<1>. QED
  BY <1>2, <1>3 DEF Logout, RevokeSession, RevokeOtherSessions

LEMMA SessionCreateQuiet ==
    ASSUME TypeOK, NEW c \in Calls, SessionCreate(c)
    PROVE  Quiet
<1>1. /\ calls[c].next = "create" /\ ~locked(calls[c].user) /\ returns(c)
      /\ UNCHANGED <<announced, condemned>>
  BY DEF SessionCreate, at
<1>2. /\ calls'[c].next = "idle"
      /\ \A d \in Calls \ {c} : calls'[d] = calls[d]
  BY <1>1, Goes DEF returns, Idle
<1>3. CASE UNCHANGED sessions
  BY <1>1, <1>2, <1>3 DEF Quiet
<1>4. CASE live(calls[c].user)
  <2>1. PICK s \in Sessions :
           /\ sessions[s].state = "new"
           /\ sessions' = [sessions EXCEPT ![s] =
                  [state |-> "live", user |-> calls[c].user, mfaState |-> calls[c].mfaState,
                   expired |-> FALSE]]
    BY <1>4 DEF SessionCreate
  <2>2. /\ sessions'[s].state = "live" /\ sessions'[s].user = calls[c].user
        /\ \A r \in Sessions \ {s} : sessions'[r] = sessions[r]
    BY <2>1 DEF TypeOK
  <2>. QED
    BY <1>1, <1>2, <2>1, <2>2 DEF Quiet
<1>. QED
  BY <1>3, <1>4 DEF SessionCreate

LEMMA SetSessionMfaStateQuiet ==
    ASSUME TypeOK, NEW c \in Calls, SetSessionMfaState(c)
    PROVE  Quiet
<1> DEFINE s == calls[c].session
           row == [sessions[s] EXCEPT !.mfaState = "satisfied"]
<1>1. /\ calls[c].next = "lift" /\ returns(c) /\ UNCHANGED <<announced, condemned>>
      /\ sessions' = IF sessions[s].state = "live" THEN [sessions EXCEPT ![s] = row] ELSE sessions
  BY DEF SetSessionMfaState, at, lifted
<1>2. /\ calls'[c].next = "idle"
      /\ \A d \in Calls \ {c} : calls'[d] = calls[d]
  BY <1>1, Goes DEF returns, Idle
<1>3. ASSUME NEW r \in Sessions
      PROVE  sessions'[r].state = sessions[r].state /\ sessions'[r].user = sessions[r].user
  <2>1. CASE r = s /\ sessions[s].state = "live"
    <3>1. sessions[s] \in Session
      BY <2>1 DEF TypeOK
    <3>2. row.state = sessions[s].state /\ row.user = sessions[s].user
      BY <3>1 DEF Session, NoSession, GoneSession
    <3> HIDE DEF row
    <3>. QED
      BY <1>1, <2>1, <3>2 DEF TypeOK
  <2>2. CASE ~(r = s /\ sessions[s].state = "live")
    BY <1>1, <2>2 DEF TypeOK
  <2>. QED
    BY <2>1, <2>2
<1>. QED
  BY <1>1, <1>2, <1>3 DEF Quiet

LEMMA TimeQuiet ==
    ASSUME TypeOK,
           \/ \E e \in Emails : LinkExpires(e)
           \/ \E s \in Sessions : SessionExpires(s)
           \/ \E h \in Challenges : ChallengeExpires(h)
           \/ UNCHANGED vars
    PROVE  Quiet
<1>1. UNCHANGED <<announced, condemned, calls>>
  BY DEF LinkExpires, SessionExpires, ChallengeExpires, vars, rows
<1>2. ASSUME NEW r \in Sessions
      PROVE  sessions'[r].state = sessions[r].state /\ sessions'[r].user = sessions[r].user
  <2>1. CASE UNCHANGED sessions
    BY <2>1
  <2>2. ASSUME NEW s \in Sessions, SessionExpires(s)
        PROVE  sessions'[r].state = sessions[r].state /\ sessions'[r].user = sessions[r].user
    <3> DEFINE row == [sessions[s] EXCEPT !.expired = TRUE]
    <3>1. sessions[s] \in Session /\ sessions' = [sessions EXCEPT ![s] = row]
      BY <2>2 DEF SessionExpires, TypeOK
    <3>2. row.state = sessions[s].state /\ row.user = sessions[s].user
      BY <3>1 DEF Session, NoSession, GoneSession
    <3> HIDE DEF row
    <3>. QED
      BY <3>1, <3>2 DEF TypeOK
  <2>. QED
    BY <2>1, <2>2 DEF LinkExpires, ChallengeExpires, vars, rows
<1>. QED
  BY <1>1, <1>2 DEF Quiet

\* Whoever holds the old password is signed out by the call that condemns the session.
LEMMA SavePasswordSignedOut ==
    ASSUME TypeOK, CallsTrusted, SignedOut, NEW c \in Calls, SavePassword(c)
    PROVE  SignedOut'
<1> DEFINE k == [calls[c] EXCEPT !.next = "find"]
<1>1. /\ calls[c].next = "save" /\ calls[c].password # None /\ goes(c, k)
      /\ condemned' = condemned \cup liveSessions(calls[c].user)
      /\ UNCHANGED <<sessions, announced>>
  BY DEF SavePassword, at, goesOn, CallsTrusted, shaped
<1>2. /\ k.next = "find" /\ k.user = calls[c].user /\ k.password = calls[c].password
  BY DEF TypeOK, Call
<1> HIDE DEF k
<1>3. calls'[c] = k /\ \A d \in Calls \ {c} : calls'[d] = calls[d]
  BY <1>1, Goes
<1>4. DeletedAnnounced'
  BY <1>1, <1>3 DEF SignedOut, DeletedAnnounced, at
<1>5. ChangedPasswordSignsOut'
  <2>1. SUFFICES ASSUME NEW s \in condemned', sessions[s].state = "live"
                 PROVE  \E d \in Calls :
                          /\ calls'[d].user = sessions[s].user /\ calls'[d].password # None
                          /\ \/ calls'[d].next = "find"
                             \/ calls'[d].next = "destroy" /\ s \in calls'[d].ids
    BY <1>1 DEF ChangedPasswordSignsOut, at
  <2>2. CASE sessions[s].user = calls[c].user
    BY <1>1, <1>2, <1>3, <2>2
  <2>3. CASE sessions[s].user # calls[c].user
    <3>1. s \in condemned
      BY <1>1, <2>1, <2>3 DEF liveSessions
    <3>2. PICK d \in Calls :
             /\ calls[d].user = sessions[s].user /\ calls[d].password # None
             /\ calls[d].next = "find" \/ (calls[d].next = "destroy" /\ s \in calls[d].ids)
      BY <2>1, <3>1 DEF SignedOut, ChangedPasswordSignsOut, at
    <3>. QED
      BY <1>3, <2>3, <3>2
  <2>. QED
    BY <2>2, <2>3
<1>6. \A d \in Calls : at(d, "deleteCommit")' => liveSessions(calls[d].user)' \subseteq calls'[d].ids
  BY <1>1, <1>2, <1>3 DEF SignedOut, at, liveSessions
<1>7. \A s \in condemned' : sessions'[s].state # "new"
  BY <1>1 DEF SignedOut, liveSessions
<1>. QED
  BY <1>4, <1>5, <1>6, <1>7 DEF SignedOut

LEMMA FindSessionsSignedOut ==
    ASSUME TypeOK, SignedOut, NEW c \in Calls, FindSessions(c)
    PROVE  SignedOut'
<1> DEFINE ids == liveSessions(calls[c].user)
           next == IF ids = {} THEN "idle" ELSE "destroy"
           k == [calls[c] EXCEPT !.next = next, !.ids = ids, !.after = "idle"]
<1>1. /\ calls[c].next = "find" /\ goes(c, k)
      /\ UNCHANGED <<sessions, announced, condemned>>
  BY DEF FindSessions, at, ending, doomed, rows
<1>2. /\ k.next = next /\ k.ids = ids /\ k.user = calls[c].user /\ k.password = calls[c].password
  BY DEF TypeOK, Call
<1>3. next \in {"idle", "destroy"}
  OBVIOUS
<1>4. \A s \in Sessions : sessions[s].state = "live" /\ sessions[s].user = calls[c].user =>
        s \in ids /\ next = "destroy"
  BY DEF liveSessions
<1> HIDE DEF k, ids, next
<1>5. calls'[c] = k /\ \A d \in Calls \ {c} : calls'[d] = calls[d]
  BY <1>1, Goes
<1>6. DeletedAnnounced'
  BY <1>1, <1>5 DEF SignedOut, DeletedAnnounced, at
<1>7. ChangedPasswordSignsOut'
  <2>1. SUFFICES ASSUME NEW s \in condemned, sessions[s].state = "live"
                 PROVE  \E d \in Calls :
                          /\ calls'[d].user = sessions[s].user /\ calls'[d].password # None
                          /\ \/ calls'[d].next = "find"
                             \/ calls'[d].next = "destroy" /\ s \in calls'[d].ids
    BY <1>1 DEF ChangedPasswordSignsOut, at
  <2>2. PICK d \in Calls :
           /\ calls[d].user = sessions[s].user /\ calls[d].password # None
           /\ calls[d].next = "find" \/ (calls[d].next = "destroy" /\ s \in calls[d].ids)
    BY <2>1 DEF SignedOut, ChangedPasswordSignsOut, at
  <2>3. CASE d = c
    <3>1. s \in ids /\ next = "destroy"
      BY <1>4, <2>1, <2>2, <2>3 DEF TypeOK
    <3>. QED
      BY <1>2, <1>5, <2>2, <2>3, <3>1
  <2>4. CASE d # c
    BY <1>5, <2>2, <2>4
  <2>. QED
    BY <2>3, <2>4
<1>8. \A d \in Calls : at(d, "deleteCommit")' => liveSessions(calls[d].user)' \subseteq calls'[d].ids
  BY <1>1, <1>2, <1>3, <1>5 DEF SignedOut, at, liveSessions
<1>. QED
  BY <1>1, <1>6, <1>7, <1>8 DEF SignedOut

\* The sessions of a handler are gone and it will announce them.
LEMMA DestroySessionsSignedOut ==
    ASSUME Enrolling, SignedOut, NEW c \in Calls, DestroySessions(c)
    PROVE  SignedOut'
<1> DEFINE k == [calls[c] EXCEPT !.next = "announce"]
<1>0. TypeOK
  BY DEF Enrolling
<1>1. /\ calls[c].next = "destroy" /\ goes(c, k) /\ sessions' = gone(calls[c].ids)
      /\ UNCHANGED <<announced, condemned>>
  BY DEF DestroySessions, at, goesOn
<1>2. k.next = "announce" /\ k.ids = calls[c].ids
  BY <1>0 DEF TypeOK, Call
<1> HIDE DEF k
<1>3. calls'[c] = k /\ \A d \in Calls \ {c} : calls'[d] = calls[d]
  BY <1>0, <1>1, Goes
<1>4. \A s \in Sessions : sessions'[s] = IF s \in calls[c].ids THEN GoneSession ELSE sessions[s]
  BY <1>1, GoneSessions
<1>5. GoneSession.state = "gone"
  BY DEF GoneSession, NoSession
<1>6. DeletedAnnounced'
  BY <1>1, <1>2, <1>3, <1>4 DEF SignedOut, DeletedAnnounced, at
<1>7. ChangedPasswordSignsOut'
  <2>1. SUFFICES ASSUME NEW s \in condemned, sessions'[s].state = "live"
                 PROVE  \E d \in Calls :
                          /\ calls'[d].user = sessions'[s].user /\ calls'[d].password # None
                          /\ \/ calls'[d].next = "find"
                             \/ calls'[d].next = "destroy" /\ s \in calls'[d].ids
    BY <1>1 DEF ChangedPasswordSignsOut, at
  <2>2. s \notin calls[c].ids /\ sessions'[s] = sessions[s]
    BY <1>0, <1>4, <1>5, <2>1 DEF TypeOK
  <2>3. PICK d \in Calls :
           /\ calls[d].user = sessions[s].user /\ calls[d].password # None
           /\ calls[d].next = "find" \/ (calls[d].next = "destroy" /\ s \in calls[d].ids)
    BY <2>1, <2>2 DEF SignedOut, ChangedPasswordSignsOut, at
  <2>4. d # c
    BY <1>1, <2>2, <2>3
  <2>. QED
    BY <1>3, <2>2, <2>3, <2>4
<1>8. \A d \in Calls : at(d, "deleteCommit")' => liveSessions(calls[d].user)' \subseteq calls'[d].ids
  BY <1>2, <1>3, <1>4, <1>5 DEF SignedOut, at, liveSessions
<1>9. \A s \in condemned' : sessions'[s].state # "new"
  BY <1>0, <1>1, <1>4, <1>5 DEF SignedOut, TypeOK
<1>. QED
  BY <1>6, <1>7, <1>8, <1>9 DEF SignedOut

LEMMA EmitSignedOut ==
    ASSUME TypeOK, SignedOut, NEW c \in Calls, EmitSessionsRevoked(c)
    PROVE  SignedOut'
<1>1. /\ calls[c].next = "announce" /\ announced' = announced \cup calls[c].ids
      /\ UNCHANGED <<sessions, condemned>>
  BY DEF EmitSessionsRevoked, at, rows
<1>2. PICK k : goes(c, k) /\ k.next \in {"idle", "create"}
  <2>1. CASE calls[c].after = "idle"
    BY <2>1 DEF EmitSessionsRevoked, returns, Idle
  <2>2. CASE calls[c].after # "idle"
    <3> DEFINE k == [calls[c] EXCEPT !.next = calls[c].after, !.ids = {}, !.after = "idle"]
    <3>1. goes(c, k)
      BY <2>2 DEF EmitSessionsRevoked
    <3>2. k.next \in {"idle", "create"}
      BY DEF TypeOK, Call
    <3>. QED
      BY <3>1, <3>2
  <2>. QED
    BY <2>1, <2>2
<1>3. calls'[c] = k /\ \A d \in Calls \ {c} : calls'[d] = calls[d]
  BY <1>2, Goes
<1>4. DeletedAnnounced'
  BY <1>1, <1>3 DEF SignedOut, DeletedAnnounced, at
<1>5. ChangedPasswordSignsOut'
  BY <1>1, <1>3 DEF SignedOut, ChangedPasswordSignsOut, at
<1>6. \A d \in Calls : at(d, "deleteCommit")' => liveSessions(calls[d].user)' \subseteq calls'[d].ids
  BY <1>1, <1>2, <1>3 DEF SignedOut, at, liveSessions
<1>. QED
  BY <1>1, <1>4, <1>5, <1>6 DEF SignedOut

\* The deletion reads the sessions under the lock.
LEMMA DeleteUserFindSignedOut ==
    ASSUME TypeOK, SignedOut, NEW c \in Calls, DeleteUserFind(c)
    PROVE  SignedOut'
<1> DEFINE ids == liveSessions(calls[c].user)
           k == [calls[c] EXCEPT !.next = "deleteCommit", !.ids = ids]
<1>1. /\ calls[c].next = "deleteFind" /\ goes(c, k)
      /\ UNCHANGED <<sessions, announced, condemned>>
  BY DEF DeleteUserFind, at, rows
<1>2. k.next = "deleteCommit" /\ k.ids = ids /\ k.user = calls[c].user
  BY DEF TypeOK, Call
<1> HIDE DEF k
<1>3. calls'[c] = k /\ \A d \in Calls \ {c} : calls'[d] = calls[d]
  BY <1>1, Goes
<1>4. DeletedAnnounced'
  BY <1>1, <1>3 DEF SignedOut, DeletedAnnounced, at
<1>5. ChangedPasswordSignsOut'
  BY <1>1, <1>3 DEF SignedOut, ChangedPasswordSignsOut, at
<1>6. \A d \in Calls : at(d, "deleteCommit")' => liveSessions(calls[d].user)' \subseteq calls'[d].ids
  BY <1>1, <1>2, <1>3 DEF SignedOut, at, liveSessions
<1>. QED
  BY <1>1, <1>4, <1>5, <1>6 DEF SignedOut

\* The cascade takes no session that the deletion has not read.
LEMMA DeleteUserCommitSignedOut ==
    ASSUME Enrolling, SignedOut, NEW c \in Calls, DeleteUserCommit(c)
    PROVE  SignedOut'
<1> DEFINE ids == calls[c].ids \cup liveSessions(calls[c].user)
<1>0. TypeOK
  BY DEF Enrolling
<1>1. /\ calls[c].next = "deleteCommit" /\ sessions' = gone(ids)
      /\ UNCHANGED <<announced, condemned>>
  BY DEF DeleteUserCommit, at
<1>2. ids = calls[c].ids
  BY <1>1 DEF SignedOut, at
<1> HIDE DEF ids
<1>3. PICK k : /\ goes(c, k)
               /\ \/ k.next = "idle" /\ calls[c].ids = {}
                  \/ k.next = "announce" /\ k.ids = calls[c].ids
  <2>1. CASE calls[c].ids = {}
    BY <2>1 DEF DeleteUserCommit, returns, Idle
  <2>2. CASE calls[c].ids # {}
    <3> DEFINE k == [calls[c] EXCEPT !.next = "announce"]
    <3>1. goes(c, k)
      BY <2>2 DEF DeleteUserCommit, goesOn
    <3>2. k.next = "announce" /\ k.ids = calls[c].ids
      BY <1>0 DEF TypeOK, Call
    <3>. QED
      BY <3>1, <3>2
  <2>. QED
    BY <2>1, <2>2
<1>4. calls'[c] = k /\ \A d \in Calls \ {c} : calls'[d] = calls[d]
  BY <1>0, <1>3, Goes
<1>5. \A s \in Sessions : sessions'[s] = IF s \in calls[c].ids THEN GoneSession ELSE sessions[s]
  BY <1>1, <1>2, GoneSessions
<1>6. GoneSession.state = "gone"
  BY DEF GoneSession, NoSession
<1>7. DeletedAnnounced'
  BY <1>1, <1>3, <1>4, <1>5 DEF SignedOut, DeletedAnnounced, at
<1>8. ChangedPasswordSignsOut'
  <2>1. SUFFICES ASSUME NEW s \in condemned, sessions'[s].state = "live"
                 PROVE  \E d \in Calls :
                          /\ calls'[d].user = sessions'[s].user /\ calls'[d].password # None
                          /\ \/ calls'[d].next = "find"
                             \/ calls'[d].next = "destroy" /\ s \in calls'[d].ids
    BY <1>1 DEF ChangedPasswordSignsOut, at
  <2>2. sessions'[s] = sessions[s]
    BY <1>0, <1>5, <1>6, <2>1 DEF TypeOK
  <2>3. PICK d \in Calls :
           /\ calls[d].user = sessions[s].user /\ calls[d].password # None
           /\ calls[d].next = "find" \/ (calls[d].next = "destroy" /\ s \in calls[d].ids)
    BY <2>1, <2>2 DEF SignedOut, ChangedPasswordSignsOut, at
  <2>4. d # c
    BY <1>1, <2>3
  <2>. QED
    BY <1>4, <2>2, <2>3, <2>4
<1>9. \A d \in Calls : at(d, "deleteCommit")' => liveSessions(calls[d].user)' \subseteq calls'[d].ids
  BY <1>3, <1>4, <1>5, <1>6 DEF SignedOut, at, liveSessions
<1>10. \A s \in condemned' : sessions'[s].state # "new"
  BY <1>0, <1>1, <1>5, <1>6 DEF SignedOut, TypeOK
<1>. QED
  BY <1>7, <1>8, <1>9, <1>10 DEF SignedOut

LEMMA InitSignedOut == Init => SignedOut
    BY DEF Init, SignedOut, DeletedAnnounced, ChangedPasswordSignsOut, at, NoSession, Idle

LEMMA NextSignedOut == Enrolling /\ SignedOut /\ [Next]_vars => SignedOut'
<1> SUFFICES ASSUME Enrolling, SignedOut, [Next]_vars PROVE SignedOut'
  OBVIOUS
<1>1. TypeOK /\ CallsTrusted
  BY DEF Enrolling
<1>2. CASE Quiet
  BY <1>1, <1>2, QuietStep
<1>3. CASE ~Quiet
  BY <1>1, <1>3, SignupQuiet, SessionCallQuiet, FactorQuiet, PasskeyQuiet, EndsQuiet,
     SessionCreateQuiet, SetSessionMfaStateQuiet, TimeQuiet, SavePasswordSignedOut,
     FindSessionsSignedOut, DestroySessionsSignedOut, EmitSignedOut, DeleteUserFindSignedOut,
     DeleteUserCommitSignedOut
  DEF Next
<1>. QED
  BY <1>2, <1>3

LEMMA InvariantSignedOut == Spec => []SignedOut
    BY InitSignedOut, NextSignedOut, InvariantEnrolling, PTL DEF Spec

\* No row of a session disappears unannounced, not even by the cascade of a deleted account.
THEOREM DeletionsAreAnnounced == Spec => []DeletedAnnounced
<1>1. SignedOut => DeletedAnnounced
  BY DEF SignedOut
<1>. QED
  BY <1>1, InvariantSignedOut, PTL

\* A session of the old password does not survive the call that changed it.
THEOREM ChangesSignOut == Spec => []ChangedPasswordSignsOut
<1>1. SignedOut => ChangedPasswordSignsOut
  BY DEF SignedOut
<1>. QED
  BY <1>1, InvariantSignedOut, PTL

-----------------------------------------------------------------------------
(* The flag of the passkeys.                                                *)

\* Between its two statements, an enrolment has the authenticator for itself and
\* disablePasskeys has rows of its own user, which nobody else deletes.
DevicesHeld ==
    /\ PasskeyFlagHonest
    /\ \A c \in Calls : at(c, "enrolCommit") => ~enrolled(calls[c].secret)
    /\ \A c, d \in Calls :
        at(c, "enrolCommit") /\ at(d, "enrolCommit") /\ calls[c].secret = calls[d].secret => c = d
    /\ \A c \in Calls : at(c, "disableCommit") =>
        \A y \in calls[c].keys : enrolled(y) /\ credentials[y] = calls[c].user
    /\ \A c, d \in Calls : c \in disabling(calls[d].user) /\ d \in disabling(calls[d].user) => c = d

\* A step that neither enrols a device nor removes one, and deletes no account of which
\* another call is removing them.
Undisturbed ==
    /\ UNCHANGED credentials
    /\ \A c \in Calls :
        calls'[c] = calls[c] \/ calls'[c].next \notin {"enrolCommit", "disableCommit"}
    /\ \A u \in Users :
        /\ live(u)' /\ users'[u].passkeyEnabled => live(u) /\ users[u].passkeyEnabled
        /\ live(u) /\ disabling(u) # {} => live(u)'
        /\ users[u].state # "new" /\ live(u)' => live(u)

LEMMA UndisturbedStep ==
    ASSUME Enrolling, DevicesHeld, Undisturbed
    PROVE  DevicesHeld'
<1>1. PasskeyFlagHonest'
  BY DEF DevicesHeld, PasskeyFlagHonest, Undisturbed
<1>2. \A y \in Keys : credentials[y] # None =>
        credentials[y] \in Users /\ users[credentials[y]].state # "new"
  BY DEF Enrolling, RowsKnown, TypeOK, Credential
<1>3. \A c \in Calls : at(c, "enrolCommit")' => ~enrolled(calls[c].secret)'
  <2>1. SUFFICES ASSUME NEW c \in Calls, calls'[c].next = "enrolCommit"
                 PROVE  ~live(credentials[calls[c].secret])' /\ calls'[c] = calls[c]
    BY DEF at, enrolled, Undisturbed
  <2>2. calls'[c] = calls[c] /\ calls[c].secret \in Keys
    BY <2>1 DEF Undisturbed, Enrolling, CallsTrusted, shaped
  <2>3. ~live(credentials[calls[c].secret])
    BY <2>1, <2>2 DEF DevicesHeld, at, enrolled
  <2>. QED
    BY <1>2, <2>2, <2>3 DEF Undisturbed, live
<1>4. \A c, d \in Calls :
        at(c, "enrolCommit")' /\ at(d, "enrolCommit")' /\ calls'[c].secret = calls'[d].secret => c = d
  BY DEF DevicesHeld, Undisturbed, at
<1>5. ASSUME NEW c \in Calls, at(c, "disableCommit")', NEW y \in calls'[c].keys
      PROVE  enrolled(y)' /\ credentials'[y] = calls'[c].user
  <2>1. calls'[c] = calls[c] /\ calls[c].next = "disableCommit"
    BY <1>5 DEF Undisturbed, at
  <2>2. y \in Keys /\ credentials[y] = calls[c].user /\ live(credentials[y])
    BY <1>5, <2>1 DEF DevicesHeld, at, enrolled, Enrolling, TypeOK, Call
  <2>3. c \in disabling(calls[c].user) /\ calls[c].user \in Users
    BY <1>2, <1>5, <2>1, <2>2 DEF disabling, at, live
  <2>. QED
    BY <2>1, <2>2, <2>3 DEF Undisturbed, enrolled, live
<1>6. \A c, d \in Calls :
        (c \in disabling(calls[d].user))' /\ (d \in disabling(calls[d].user))' => c = d
  BY DEF DevicesHeld, Undisturbed, disabling, at
<1>. QED
  BY <1>1, <1>3, <1>4, <1>5, <1>6 DEF DevicesHeld

\* No account is created, deleted, or changed as to its passkeys.
FlagsKept ==
    \A u \in Users : users'[u].state = users[u].state /\ users'[u].passkeyEnabled = users[u].passkeyEnabled

\* A step of one handler that leaves the passkeys alone.
LEMMA UndisturbedCall ==
    ASSUME TypeOK, NEW c \in Calls, NEW k, goes(c, k), k.next \notin {"enrolCommit", "disableCommit"},
           FlagsKept, UNCHANGED credentials
    PROVE  Undisturbed
<1>1. \A d \in Calls :
        calls'[d] = calls[d] \/ calls'[d].next \notin {"enrolCommit", "disableCommit"}
  BY Goes
<1>. QED
  BY <1>1 DEF Undisturbed, FlagsKept, live

LEMMA UndisturbedOn ==
    ASSUME TypeOK, NEW c \in Calls, NEW step, goesOn(c, step),
           step \notin {"enrolCommit", "disableCommit"}, FlagsKept, UNCHANGED credentials
    PROVE  Undisturbed
<1>1. [calls[c] EXCEPT !.next = step].next = step
  BY DEF TypeOK, Call
<1>. QED
  BY <1>1, UndisturbedCall DEF goesOn

LEMMA UndisturbedReturn ==
    ASSUME TypeOK, NEW c \in Calls, returns(c), FlagsKept, UNCHANGED credentials
    PROVE  Undisturbed
    BY UndisturbedCall DEF returns, Idle

LEMMA SameFlags == users' = users => FlagsKept
    BY DEF FlagsKept

LEMMA SignupUndisturbed ==
    ASSUME TypeOK, NEW c \in Calls,
           \/ Signup(c) \/ CreatePendingUser(c) \/ MailSent(c) \/ DeletePendingUser(c)
           \/ VerifyPendingUser(c) \/ VerifyRecheck(c) \/ Login(c) \/ SessionCreate(c)
           \/ AuthenticateOptions(c) \/ AuthenticateVerify(c) \/ SetSessionMfaState(c)
    PROVE  Undisturbed
<1>0. FlagsKept /\ UNCHANGED credentials
  BY SameFlags DEF Signup, CreatePendingUser, MailSent, DeletePendingUser, VerifyPendingUser,
     VerifyRecheck, Login, SessionCreate, AuthenticateOptions, AuthenticateVerify, AuthenticateCall,
     SetSessionMfaState, rows, passkeys
<1>1. CASE Signup(c)
  BY <1>0, <1>1, UndisturbedCall DEF Signup, Idle
<1>2. CASE CreatePendingUser(c)
  BY <1>0, <1>2, UndisturbedOn DEF CreatePendingUser
<1>3. CASE MailSent(c) \/ DeletePendingUser(c) \/ SessionCreate(c) \/ SetSessionMfaState(c)
  BY <1>0, <1>3, UndisturbedReturn DEF MailSent, DeletePendingUser, SessionCreate, SetSessionMfaState
<1>4. CASE VerifyPendingUser(c)
  BY <1>0, <1>4, UndisturbedCall DEF VerifyPendingUser, Idle
<1>5. CASE VerifyRecheck(c)
  BY <1>0, <1>5, UndisturbedOn, UndisturbedReturn DEF VerifyRecheck
<1>6. CASE Login(c)
  BY <1>0, <1>6, UndisturbedCall DEF Login, Idle
<1>7. CASE AuthenticateOptions(c) \/ AuthenticateVerify(c)
  BY <1>0, <1>7, UndisturbedCall DEF AuthenticateOptions, AuthenticateVerify, AuthenticateCall, Idle
<1>. QED
  BY <1>1, <1>2, <1>3, <1>4, <1>5, <1>6, <1>7

LEMMA SessionCallUndisturbed ==
    ASSUME TypeOK, NEW c \in Calls, NEW s \in Sessions,
           \/ MfaSetup(c, s) \/ MfaSetupVerify(c, s) \/ MfaVerify(c, s)
           \/ RegisterOptions(c, s) \/ RegisterVerify(c, s) \/ Disable(c, s)
           \/ ChangePassword(c, s) \/ UserDelete(c, s)
    PROVE  Undisturbed
<1>1. ASSUME NEW mfaState, NEW step, step \notin {"enrolCommit", "disableCommit"},
             sessionCall(c, s, mfaState, step)
      PROVE  Undisturbed
  BY <1>1, SameFlags, UndisturbedCall DEF sessionCall, Idle, rows, passkeys
<1>2. ASSUME NEW p, NEW step, step \notin {"enrolCommit", "disableCommit"}, accountCall(c, s, step, p)
      PROVE  Undisturbed
  BY <1>2, SameFlags, UndisturbedCall DEF accountCall, Idle, rows, passkeys
<1>3. CASE \/ MfaSetup(c, s) \/ MfaSetupVerify(c, s) \/ MfaVerify(c, s)
           \/ RegisterOptions(c, s) \/ RegisterVerify(c, s) \/ Disable(c, s)
  BY <1>1, <1>3 DEF MfaSetup, MfaSetupVerify, MfaVerify, RegisterOptions, RegisterVerify, Disable
<1>4. CASE ChangePassword(c, s) \/ UserDelete(c, s)
  BY <1>2, <1>4 DEF ChangePassword, UserDelete
<1>. QED
  BY <1>3, <1>4

LEMMA CheckUndisturbed ==
    ASSUME TypeOK, NEW c \in Calls,
           \/ ReadPendingSecret(c) \/ VerifyTotpChallenge(c) \/ ReadRecoveryCode(c)
           \/ Refused(c) \/ VerifyCredentials(c) \/ DeleteUserLock(c) \/ DeleteUserFind(c)
           \/ FindUser(c, "findUser", "save") \/ FindUser(c, "findDeleted", "lock")
    PROVE  Undisturbed
<1>0. calls[c] \in Call
  BY DEF TypeOK
<1>1. FlagsKept /\ UNCHANGED credentials
  BY SameFlags DEF ReadPendingSecret, VerifyTotpChallenge, ReadRecoveryCode, Refused,
     VerifyCredentials, DeleteUserLock, DeleteUserFind, FindUser, rows, passkeys
<1>2. CASE ReadPendingSecret(c) \/ VerifyTotpChallenge(c) \/ VerifyCredentials(c) \/ DeleteUserLock(c)
  BY <1>1, <1>2, UndisturbedOn
  DEF ReadPendingSecret, VerifyTotpChallenge, VerifyCredentials, DeleteUserLock
<1>3. CASE Refused(c)
  BY <1>1, <1>3, UndisturbedReturn DEF Refused
<1>4. CASE ReadRecoveryCode(c)
  <2>1. \A code : [calls[c] EXCEPT !.next = "useCode", !.secret = code].next = "useCode"
    BY <1>0 DEF Call
  <2>. QED
    BY <1>1, <1>4, <2>1, UndisturbedCall DEF ReadRecoveryCode
<1>5. CASE DeleteUserFind(c)
  <2>1. \A ids : [calls[c] EXCEPT !.next = "deleteCommit", !.ids = ids].next = "deleteCommit"
    BY <1>0 DEF Call
  <2>. QED
    BY <1>1, <1>5, <2>1, UndisturbedCall DEF DeleteUserFind
<1>6. ASSUME NEW from, NEW to, to \notin {"enrolCommit", "disableCommit"}, FindUser(c, from, to)
      PROVE  Undisturbed
  <2>1. \A u : [calls[c] EXCEPT !.next = to, !.user = u].next = to
    BY <1>0 DEF Call
  <2>. QED
    BY <1>1, <1>6, <2>1, UndisturbedCall, UndisturbedReturn DEF FindUser
<1>. QED
  BY <1>2, <1>3, <1>4, <1>5, <1>6

LEMMA LookupUndisturbed ==
    ASSUME TypeOK, NEW c \in Calls,
           \/ CreateWebauthnChallenge(c) \/ FindChallenge(c) \/ ConsumeWebauthnChallenge(c)
           \/ FindCredential(c) \/ CompletePasskeyAuthentication(c) \/ DeadlockVictim(c)
    PROVE  Undisturbed
<1>0. calls[c] \in Call
  BY DEF TypeOK
<1>1. FlagsKept /\ UNCHANGED credentials
  BY SameFlags DEF CreateWebauthnChallenge, FindChallenge, ConsumeWebauthnChallenge, FindCredential,
     CompletePasskeyAuthentication, DeadlockVictim, rows, passkeys
<1>2. CASE CreateWebauthnChallenge(c) \/ DeadlockVictim(c)
  BY <1>1, <1>2, UndisturbedReturn DEF CreateWebauthnChallenge, DeadlockVictim
<1>3. \A step, x : [calls[c] EXCEPT !.secret = x, !.next = step].next = step
  BY <1>0 DEF Call
<1>4. CASE FindChallenge(c)
  <2>1. PICK h \in Challenges, step \in {"consume", "consumeOther"} :
           goes(c, [calls[c] EXCEPT !.secret = h, !.next = step])
    BY <1>4 DEF FindChallenge
  <2>. QED
    BY <1>1, <1>3, <2>1, UndisturbedCall
<1>5. CASE ConsumeWebauthnChallenge(c)
  BY <1>1, <1>3, <1>5, UndisturbedCall, UndisturbedReturn DEF ConsumeWebauthnChallenge
<1>6. CASE FindCredential(c)
  <2>1. \A x : [calls[c] EXCEPT !.next = "findOwner", !.user = x].next = "findOwner"
    BY <1>0 DEF Call
  <2>. QED
    BY <1>1, <1>6, <2>1, UndisturbedCall DEF FindCredential
<1>7. CASE CompletePasskeyAuthentication(c)
  <2>1. [calls[c] EXCEPT !.next = "sweep", !.mfaState = "satisfied"].next = "sweep"
    BY <1>0 DEF Call
  <2>. QED
    BY <1>1, <1>7, <2>1, UndisturbedCall, UndisturbedReturn DEF CompletePasskeyAuthentication
<1>. QED
  BY <1>2, <1>4, <1>5, <1>6, <1>7

LEMMA EndsUndisturbed ==
    ASSUME TypeOK, NEW c \in Calls,
           \/ SweepExpired(c) \/ FindSessions(c) \/ DestroySessions(c) \/ EmitSessionsRevoked(c)
           \/ \E s \in Sessions : Logout(c, s) \/ RevokeSession(c, s) \/ RevokeOtherSessions(c, s)
    PROVE  Undisturbed
<1>1. ASSUME NEW ids, NEW after \in {"idle", "create"}, ending(c, ids, after), UNCHANGED rows
      PROVE  Undisturbed
  <2> DEFINE next == IF ids = {} THEN after ELSE "destroy"
  <2>1. /\ next \notin {"enrolCommit", "disableCommit"}
        /\ goes(c, [calls[c] EXCEPT !.next = next, !.ids = ids, !.after = after])
    BY <1>1 DEF ending
  <2> HIDE DEF next
  <2>2. [calls[c] EXCEPT !.next = next, !.ids = ids, !.after = after].next = next
    BY DEF TypeOK, Call
  <2>. QED
    BY <1>1, <2>1, <2>2, SameFlags, UndisturbedCall DEF rows, passkeys
<1>2. CASE SweepExpired(c)
  BY <1>1, <1>2 DEF SweepExpired
<1>3. CASE FindSessions(c)
  BY <1>1, <1>3 DEF FindSessions
<1>4. CASE DestroySessions(c)
  BY <1>4, SameFlags, UndisturbedOn DEF DestroySessions, passkeys
<1>5. CASE EmitSessionsRevoked(c)
  <2>1. CASE calls[c].after = "idle"
    BY <1>5, <2>1, SameFlags, UndisturbedReturn DEF EmitSessionsRevoked, rows, passkeys
  <2>2. CASE calls[c].after # "idle"
    <3>1. [calls[c] EXCEPT !.next = calls[c].after, !.ids = {}, !.after = "idle"].next \in {"idle", "create"}
      BY DEF TypeOK, Call
    <3>. QED
      BY <1>5, <2>2, <3>1, SameFlags, UndisturbedCall DEF EmitSessionsRevoked, rows, passkeys
  <2>. QED
    BY <2>1, <2>2
<1>6. ASSUME NEW ids, ends(c, ids)
      PROVE  Undisturbed
  BY <1>1, <1>6 DEF ends
<1>. QED
  BY <1>2, <1>3, <1>4, <1>5, <1>6 DEF Logout, RevokeSession, RevokeOtherSessions

LEMMA TimeUndisturbed ==
    ASSUME \/ \E e \in Emails : LinkExpires(e)
           \/ \E s \in Sessions : SessionExpires(s)
           \/ \E h \in Challenges : ChallengeExpires(h)
           \/ UNCHANGED vars
    PROVE  Undisturbed
<1>1. UNCHANGED <<users, credentials, calls>>
  BY DEF LinkExpires, SessionExpires, ChallengeExpires, vars, rows, passkeys
<1>. QED
  BY <1>1 DEF Undisturbed, live

LEMMA UserWritesUndisturbed ==
    ASSUME TypeOK, NEW c \in Calls,
           BeginTotpSetup(c) \/ ConfirmTotpSetup(c) \/ ConsumeRecoveryCode(c) \/ SavePassword(c)
    PROVE  Undisturbed
<1> DEFINE u == calls[c].user
<1>1. UNCHANGED credentials
  BY DEF BeginTotpSetup, ConfirmTotpSetup, ConsumeRecoveryCode, SavePassword, passkeys
<1>2. FlagsKept
  <2>1. ASSUME NEW row, u \in Users => row.state = users[u].state /\ row.passkeyEnabled = users[u].passkeyEnabled,
               users' = [users EXCEPT ![u] = row]
        PROVE  FlagsKept
    BY <2>1 DEF FlagsKept, TypeOK
  <2>2. u \in Users => users[u] \in User
    BY DEF TypeOK
  <2>3. CASE users' = users
    BY <2>3, SameFlags
  <2>4. CASE BeginTotpSetup(c) /\ users' # users
    <3> DEFINE row == [users[u] EXCEPT !.totpPendingSecret = TRUE]
    <3>1. users' = [users EXCEPT ![u] = row]
      BY <2>4 DEF BeginTotpSetup
    <3>2. u \in Users => row.state = users[u].state /\ row.passkeyEnabled = users[u].passkeyEnabled
      BY <2>2 DEF User
    <3> HIDE DEF row, u
    <3>. QED
      BY <2>1, <3>1, <3>2
  <2>5. CASE ConfirmTotpSetup(c) /\ users' # users
    <3> DEFINE row == [users[u] EXCEPT !.totpPendingSecret = FALSE, !.totpEnabledAt = TRUE,
                                       !.codes = Codes]
    <3>1. users' = [users EXCEPT ![u].totpPendingSecret = FALSE,
                                 ![u].totpEnabledAt = TRUE, ![u].codes = Codes]
      BY <2>5 DEF ConfirmTotpSetup
    <3>2. u \in Users => users' = [users EXCEPT ![u] = row]
      BY <3>1 DEF TypeOK
    <3>3. u \in Users => row.state = users[u].state /\ row.passkeyEnabled = users[u].passkeyEnabled
      BY <2>2 DEF User
    <3>4. u \notin Users => users' = users
      BY <3>1 DEF TypeOK
    <3> HIDE DEF row, u
    <3>. QED
      BY <2>1, <2>3, <3>2, <3>3, <3>4
  <2>6. CASE ConsumeRecoveryCode(c)
    <3> DEFINE row == [users[u] EXCEPT !.codes = users[u].codes \ {calls[c].secret}]
    <3>1. users' = [users EXCEPT ![u] = row]
      BY <2>6 DEF ConsumeRecoveryCode
    <3>2. u \in Users => row.state = users[u].state /\ row.passkeyEnabled = users[u].passkeyEnabled
      BY <2>2 DEF User
    <3> HIDE DEF row, u
    <3>. QED
      BY <2>1, <3>1, <3>2
  <2>7. CASE SavePassword(c) /\ users' # users
    <3> DEFINE row == [users[u] EXCEPT !.password = calls[c].password]
    <3>1. users' = [users EXCEPT ![u] = row]
      BY <2>7 DEF SavePassword
    <3>2. u \in Users => row.state = users[u].state /\ row.passkeyEnabled = users[u].passkeyEnabled
      BY <2>2 DEF User
    <3> HIDE DEF row, u
    <3>. QED
      BY <2>1, <3>1, <3>2
  <2>. QED
    BY <2>3, <2>4, <2>5, <2>6, <2>7
<1>3. CASE BeginTotpSetup(c)
  BY <1>1, <1>2, <1>3, UndisturbedReturn DEF BeginTotpSetup
<1>4. CASE ConfirmTotpSetup(c)
  BY <1>1, <1>2, <1>4, UndisturbedOn, UndisturbedReturn DEF ConfirmTotpSetup
<1>5. CASE ConsumeRecoveryCode(c)
  BY <1>1, <1>2, <1>5, UndisturbedOn DEF ConsumeRecoveryCode
<1>6. CASE SavePassword(c)
  BY <1>1, <1>2, <1>6, UndisturbedOn DEF SavePassword
<1>. QED
  BY <1>3, <1>4, <1>5, <1>6

LEMMA PromoteUndisturbed ==
    ASSUME TypeOK, NEW c \in Calls, Promote(c)
    PROVE  Undisturbed
<1>1. UNCHANGED credentials
  BY DEF Promote, passkeys
<1>2. CASE users' = users /\ returns(c)
  BY <1>1, <1>2, SameFlags, UndisturbedReturn
<1>3. CASE ~(users' = users /\ returns(c))
  <2> DEFINE row == [NoUser EXCEPT !.state = "live", !.email = calls[c].email,
                                   !.password = calls[c].password]
  <2>1. PICK u \in Users :
           /\ users[u].state = "new" /\ users' = [users EXCEPT ![u] = row]
           /\ goes(c, [Idle EXCEPT !.next = "sweep", !.user = u, !.mfaState = "setup_required"])
    BY <1>3 DEF Promote
  <2>2. row.passkeyEnabled = FALSE
    BY DEF NoUser
  <2> HIDE DEF row
  <2>3. users'[u] = row /\ \A v \in Users \ {u} : users'[v] = users[v]
    BY <2>1 DEF TypeOK
  <2>4. \A d \in Calls :
          calls'[d] = calls[d] \/ calls'[d].next \notin {"enrolCommit", "disableCommit"}
    <3>1. [Idle EXCEPT !.next = "sweep", !.user = u, !.mfaState = "setup_required"].next = "sweep"
      BY DEF Idle
    <3>. QED
      BY <2>1, <3>1, Goes
  <2>. QED
    BY <1>1, <2>1, <2>2, <2>3, <2>4 DEF Undisturbed, live
<1>. QED
  BY <1>2, <1>3

LEMMA DeleteUserCommitUndisturbed ==
    ASSUME TypeOK, NEW c \in Calls, DeleteUserCommit(c)
    PROVE  Undisturbed
<1> DEFINE u == calls[c].user
           row == [NoUser EXCEPT !.state = "gone"]
<1>1. UNCHANGED credentials /\ disabling(u) = {} /\ users' = [users EXCEPT ![u] = row]
  BY DEF DeleteUserCommit, passkeys
<1>2. row.state = "gone"
  BY DEF NoUser
<1> HIDE DEF row
<1>3. \A v \in Users : users'[v] = IF v = u THEN row ELSE users[v]
  BY <1>1 DEF TypeOK
<1>4. \A d \in Calls :
        calls'[d] = calls[d] \/ calls'[d].next \notin {"enrolCommit", "disableCommit"}
  <2>1. [calls[c] EXCEPT !.next = "announce"].next = "announce" /\ Idle.next = "idle"
    BY DEF TypeOK, Call, Idle
  <2>. QED
    BY <2>1, Goes DEF DeleteUserCommit, returns, goesOn
<1> HIDE DEF u
<1>. QED
  BY <1>1, <1>2, <1>3, <1>4 DEF Undisturbed, live

\* The index lets one enrolment at a time insert an authenticator.
LEMMA EnrolInsertHeld ==
    ASSUME TypeOK, DevicesHeld, NEW c \in Calls, EnrolInsert(c)
    PROVE  DevicesHeld'
<1>1. PICK y \in Keys :
        /\ ~enrolled(y) /\ \A d \in Calls : ~(calls[d].next = "enrolCommit" /\ calls[d].secret = y)
        /\ goes(c, [calls[c] EXCEPT !.next = "enrolCommit", !.secret = y])
  BY DEF EnrolInsert, at
<1>2. UNCHANGED <<users, credentials>>
  BY DEF EnrolInsert, rows, passkeys
<1> DEFINE k == [calls[c] EXCEPT !.next = "enrolCommit", !.secret = y]
<1>3. k.next = "enrolCommit" /\ k.secret = y /\ goes(c, k)
  BY <1>1 DEF TypeOK, Call
<1> HIDE DEF k
<1>4. calls'[c] = k /\ \A d \in Calls \ {c} : calls'[d] = calls[d]
  BY <1>3, Goes
<1>5. PasskeyFlagHonest'
  BY <1>2 DEF DevicesHeld, PasskeyFlagHonest, live
<1>6. \A d \in Calls : at(d, "enrolCommit")' => ~enrolled(calls[d].secret)'
  BY <1>1, <1>2, <1>3, <1>4 DEF DevicesHeld, at, enrolled, live
<1>7. \A d, e \in Calls :
        at(d, "enrolCommit")' /\ at(e, "enrolCommit")' /\ calls'[d].secret = calls'[e].secret => d = e
  BY <1>1, <1>3, <1>4 DEF DevicesHeld, at
<1>8. \A d \in Calls : at(d, "disableCommit")' =>
        \A x \in calls'[d].keys : enrolled(x)' /\ credentials'[x] = calls'[d].user
  BY <1>2, <1>3, <1>4 DEF DevicesHeld, at, enrolled, live
<1>9. \A d, e \in Calls :
        (d \in disabling(calls[e].user))' /\ (e \in disabling(calls[e].user))' => d = e
  BY <1>3, <1>4 DEF DevicesHeld, disabling, at
<1>. QED
  BY <1>5, <1>6, <1>7, <1>8, <1>9 DEF DevicesHeld

\* The account has the authenticator its flag is set for, and nobody else had it.
LEMMA EnrolCommitHeld ==
    ASSUME Enrolling, DevicesHeld, NEW c \in Calls, EnrolCommit(c)
    PROVE  DevicesHeld'
<1> DEFINE u == calls[c].user
           y == calls[c].secret
           row == [users[u] EXCEPT !.passkeyEnabled = TRUE]
<1>1. /\ calls[c].next = "enrolCommit" /\ returns(c)
      /\ credentials' = [credentials EXCEPT ![y] = u] /\ users' = [users EXCEPT ![u] = row]
  BY DEF EnrolCommit, at
<1>2. y \in Keys /\ u \in Users /\ ~enrolled(y) /\ TypeOK
  BY <1>1 DEF Enrolling, CallsTrusted, shaped, TypeOK, Call, DevicesHeld, at
<1>3. row.state = users[u].state
  BY <1>2 DEF TypeOK, User
<1> HIDE DEF row
<1>4. /\ \A v \in Users : users'[v] = IF v = u THEN row ELSE users[v]
      /\ \A x \in Keys : credentials'[x] = IF x = y THEN u ELSE credentials[x]
  BY <1>1, <1>2 DEF TypeOK
<1>5. calls'[c].next = "idle" /\ \A d \in Calls \ {c} : calls'[d] = calls[d]
  BY <1>1, <1>2, Goes DEF returns, Idle
<1>6. \A v : live(v) /\ v \in Users <=> live(v)' /\ v \in Users
  BY <1>3, <1>4 DEF live
<1>7. PasskeyFlagHonest'
  <2>1. SUFFICES ASSUME NEW v \in Users, live(v), users'[v].passkeyEnabled
                 PROVE  \E x \in Keys : credentials'[x] = v
    BY <1>6 DEF PasskeyFlagHonest
  <2>2. CASE v = u
    BY <1>2, <1>4, <2>2
  <2>3. CASE v # u
    <3>1. PICK x \in Keys : credentials[x] = v
      BY <1>4, <2>1, <2>3 DEF DevicesHeld, PasskeyFlagHonest
    <3>2. x # y
      BY <1>2, <2>1, <3>1 DEF enrolled
    <3>. QED
      BY <1>4, <3>1, <3>2
  <2>. QED
    BY <2>2, <2>3
<1>8. \A x \in Keys : credentials[x] \in Users \cup {None}
  BY <1>2 DEF TypeOK, Credential
<1>9. ASSUME NEW x \in Keys, x # y
      PROVE  enrolled(x)' <=> enrolled(x)
  BY <1>4, <1>6, <1>8, <1>9 DEF enrolled, live
<1>10. ASSUME NEW d \in Calls, at(d, "enrolCommit")'
       PROVE  ~enrolled(calls[d].secret)'
  <2>1. d # c /\ calls'[d] = calls[d] /\ calls[d].next = "enrolCommit"
    BY <1>5, <1>10 DEF at
  <2>2. calls[d].secret \in Keys /\ calls[d].secret # y /\ ~enrolled(calls[d].secret)
    BY <1>1, <2>1 DEF Enrolling, CallsTrusted, shaped, DevicesHeld, at
  <2>. QED
    BY <1>9, <2>1, <2>2 DEF enrolled
<1>11. \A d, e \in Calls :
         at(d, "enrolCommit")' /\ at(e, "enrolCommit")' /\ calls'[d].secret = calls'[e].secret => d = e
  BY <1>5 DEF DevicesHeld, at
<1>12. ASSUME NEW d \in Calls, at(d, "disableCommit")', NEW x \in calls'[d].keys
       PROVE  enrolled(x)' /\ credentials'[x] = calls'[d].user
  <2>1. calls'[d] = calls[d] /\ calls[d].next = "disableCommit"
    BY <1>5, <1>12 DEF at
  <2>2. x \in Keys /\ enrolled(x) /\ credentials[x] = calls[d].user
    BY <1>2, <1>12, <2>1 DEF DevicesHeld, at, TypeOK, Call
  <2>3. x # y
    BY <1>2, <2>2
  <2>. QED
    BY <1>4, <1>9, <2>1, <2>2, <2>3
<1>13. \A d, e \in Calls :
         (d \in disabling(calls[e].user))' /\ (e \in disabling(calls[e].user))' => d = e
  BY <1>5 DEF DevicesHeld, disabling, at
<1>. QED
  BY <1>7, <1>10, <1>11, <1>12, <1>13 DEF DevicesHeld

\* The call waits for the rows that another one has deleted.
LEMMA DisableDeleteHeld ==
    ASSUME TypeOK, DevicesHeld, NEW c \in Calls, DisableDelete(c)
    PROVE  DevicesHeld'
<1> DEFINE deleted == {y \in Keys : enrolled(y) /\ credentials[y] = calls[c].user}
           k == [calls[c] EXCEPT !.next = "disableCommit", !.keys = deleted]
<1>1. disabling(calls[c].user) = {} /\ goes(c, k) /\ UNCHANGED <<users, credentials>>
  BY DEF DisableDelete, rows, passkeys
<1>2. k.next = "disableCommit" /\ k.keys = deleted /\ k.user = calls[c].user
  BY DEF TypeOK, Call
<1> HIDE DEF k
<1>3. calls'[c] = k /\ \A d \in Calls \ {c} : calls'[d] = calls[d]
  BY <1>1, Goes
<1>4. PasskeyFlagHonest'
  BY <1>1 DEF DevicesHeld, PasskeyFlagHonest, live
<1>5. /\ \A d \in Calls : at(d, "enrolCommit")' => ~enrolled(calls[d].secret)'
      /\ \A d, e \in Calls :
          at(d, "enrolCommit")' /\ at(e, "enrolCommit")' /\ calls'[d].secret = calls'[e].secret => d = e
  BY <1>1, <1>2, <1>3 DEF DevicesHeld, at, enrolled, live
<1>6. \A d \in Calls : at(d, "disableCommit")' =>
        \A x \in calls'[d].keys : enrolled(x)' /\ credentials'[x] = calls'[d].user
  BY <1>1, <1>2, <1>3 DEF DevicesHeld, at, enrolled, live
<1> HIDE DEF deleted
<1>7. \A d, e \in Calls :
        (d \in disabling(calls[e].user))' /\ (e \in disabling(calls[e].user))' => d = e
  BY <1>1, <1>2, <1>3 DEF DevicesHeld, disabling, at
<1>. QED
  BY <1>4, <1>5, <1>6, <1>7 DEF DevicesHeld

\* The flag is cleared with the last authenticators of the user.
LEMMA DisableCommitHeld ==
    ASSUME Enrolling, DevicesHeld, NEW c \in Calls, DisableCommit(c)
    PROVE  DevicesHeld'
<1> DEFINE u == calls[c].user
           row == [users[u] EXCEPT !.passkeyEnabled = flagAfterDisable]
<1>1. /\ calls[c].next = "disableCommit" /\ returns(c)
      /\ credentials' = [y \in Keys |-> IF y \in calls[c].keys THEN None ELSE credentials[y]]
      /\ users' = IF live(u) THEN [users EXCEPT ![u] = row] ELSE users
  BY DEF DisableCommit, at
<1>2. TypeOK /\ \A y \in calls[c].keys : enrolled(y) /\ credentials[y] = u
  BY <1>1 DEF Enrolling, DevicesHeld, at
<1>3. u \in Users => row.state = users[u].state /\ ~row.passkeyEnabled
  BY <1>2 DEF TypeOK, User, flagAfterDisable
<1> HIDE DEF row
<1>4. \A v \in Users : users'[v] = IF v = u /\ live(u) THEN row ELSE users[v]
  BY <1>1, <1>2 DEF TypeOK
<1>5. \A y \in Keys : credentials'[y] = IF y \in calls[c].keys THEN None ELSE credentials[y]
  BY <1>1
<1>6. calls'[c].next = "idle" /\ \A d \in Calls \ {c} : calls'[d] = calls[d]
  BY <1>1, <1>2, Goes DEF returns, Idle
<1>7. \A v \in Users : live(v)' <=> live(v)
  BY <1>3, <1>4 DEF live
<1>8. PasskeyFlagHonest'
  <2>1. SUFFICES ASSUME NEW v \in Users, live(v), users'[v].passkeyEnabled
                 PROVE  \E y \in Keys : credentials'[y] = v
    BY <1>7 DEF PasskeyFlagHonest
  <2>2. v # u
    BY <1>3, <1>4, <2>1
  <2>3. PICK y \in Keys : credentials[y] = v
    BY <1>4, <2>1, <2>2 DEF DevicesHeld, PasskeyFlagHonest
  <2>4. y \notin calls[c].keys
    BY <1>2, <2>2, <2>3
  <2>. QED
    BY <1>5, <2>3, <2>4
<1>9. \A y \in Keys : credentials[y] \in Users \cup {None}
  BY <1>2 DEF TypeOK, Credential
<1>10. \A y \in Keys :
         /\ enrolled(y)' => enrolled(y)
         /\ y \notin calls[c].keys => (enrolled(y) => enrolled(y)')
  BY <1>5, <1>7, <1>9 DEF enrolled, live
<1>11. \A d \in Calls : at(d, "enrolCommit")' => ~enrolled(calls[d].secret)'
  <2>1. SUFFICES ASSUME NEW d \in Calls, calls'[d].next = "enrolCommit"
                 PROVE  ~enrolled(calls[d].secret)'
    BY DEF at
  <2>2. calls'[d] = calls[d] /\ calls[d].secret \in Keys /\ ~enrolled(calls[d].secret)
    BY <1>6, <2>1 DEF Enrolling, CallsTrusted, shaped, DevicesHeld, at
  <2>. QED
    BY <1>10, <2>2 DEF enrolled
<1>12. \A d, e \in Calls :
         at(d, "enrolCommit")' /\ at(e, "enrolCommit")' /\ calls'[d].secret = calls'[e].secret => d = e
  BY <1>6 DEF DevicesHeld, at
<1>13. ASSUME NEW d \in Calls, at(d, "disableCommit")', NEW x \in calls'[d].keys
       PROVE  enrolled(x)' /\ credentials'[x] = calls'[d].user
  <2>1. d # c /\ calls'[d] = calls[d] /\ calls[d].next = "disableCommit"
    BY <1>6, <1>13 DEF at
  <2>2. x \in Keys /\ enrolled(x) /\ credentials[x] = calls[d].user
    BY <1>2, <1>13, <2>1 DEF DevicesHeld, at, TypeOK, Call
  <2>3. x \notin calls[c].keys
    <3>1. SUFFICES ASSUME x \in calls[c].keys PROVE FALSE
      OBVIOUS
    <3>2. calls[d].user = u
      BY <1>2, <2>2, <3>1
    <3>3. d \in disabling(calls[d].user) /\ c \in disabling(calls[d].user)
      BY <1>1, <1>13, <2>1, <3>1, <3>2 DEF disabling, at
    <3>. QED
      BY <2>1, <3>3 DEF DevicesHeld
  <2>. QED
    BY <1>5, <1>10, <2>1, <2>2, <2>3
<1>14. \A d, e \in Calls :
         (d \in disabling(calls[e].user))' /\ (e \in disabling(calls[e].user))' => d = e
  BY <1>6 DEF DevicesHeld, disabling, at
<1>. QED
  BY <1>8, <1>11, <1>12, <1>13, <1>14 DEF DevicesHeld

LEMMA InitDevicesHeld == Init => DevicesHeld
    BY DEF Init, DevicesHeld, PasskeyFlagHonest, disabling, at, live, NoUser, Idle

LEMMA NextDevicesHeld == Enrolling /\ DevicesHeld /\ [Next]_vars => DevicesHeld'
<1> SUFFICES ASSUME Enrolling, DevicesHeld, [Next]_vars PROVE DevicesHeld'
  OBVIOUS
<1>1. TypeOK
  BY DEF Enrolling
<1>2. CASE Undisturbed
  BY <1>2, UndisturbedStep
<1>3. CASE ~Undisturbed
  BY <1>1, <1>3, SignupUndisturbed, SessionCallUndisturbed, CheckUndisturbed, LookupUndisturbed,
     EndsUndisturbed, TimeUndisturbed, UserWritesUndisturbed, PromoteUndisturbed,
     DeleteUserCommitUndisturbed, EnrolInsertHeld, EnrolCommitHeld, DisableDeleteHeld,
     DisableCommitHeld
  DEF Next
<1>. QED
  BY <1>2, <1>3

\* An account that says it has a passkey has one, however enrolments, disablePasskeys and
\* deletions of accounts interleave.
THEOREM FlagsAreHonest == Spec => []PasskeyFlagHonest
<1>1. DevicesHeld => PasskeyFlagHonest
  BY DEF DevicesHeld
<1>. QED
  BY <1>1, InitDevicesHeld, NextDevicesHeld, InvariantEnrolling, PTL DEF Spec

-----------------------------------------------------------------------------
(* The rows of the sessions and their announcements are those of            *)
(* SessionRows.                                                             *)

\* A handler names sessions that there are, and announces those that are gone.
IdsEnded ==
    \A c \in Calls : \A s \in calls[c].ids :
        /\ sessions[s].state # "new"
        /\ at(c, "announce") => sessions[s].state = "gone"

\* A step that leaves the sessions alone and comes to no announcement.
Unsaid ==
    /\ UNCHANGED <<sessions, announced>>
    /\ \A c \in Calls :
        \/ calls'[c] = calls[c]
        \/ /\ calls'[c].next # "announce"
           /\ \A s \in calls'[c].ids : s \in calls[c].ids \/ sessions[s].state = "live"

LEMMA UnsaidCall ==
    ASSUME TypeOK, NEW c \in Calls, NEW k, goes(c, k), k.next # "announce",
           \A s \in k.ids : s \in calls[c].ids \/ sessions[s].state = "live",
           UNCHANGED <<sessions, announced>>
    PROVE  Unsaid
    BY Goes DEF Unsaid

LEMMA UnsaidOn ==
    ASSUME TypeOK, NEW c \in Calls, NEW step, goesOn(c, step), step # "announce",
           UNCHANGED <<sessions, announced>>
    PROVE  Unsaid
<1> DEFINE k == [calls[c] EXCEPT !.next = step]
<1>1. k.next = step /\ k.ids = calls[c].ids
  BY DEF TypeOK, Call
<1>2. goes(c, k)
  BY DEF goesOn
<1> HIDE DEF k
<1>. QED
  BY <1>1, <1>2, UnsaidCall

LEMMA UnsaidFresh ==
    ASSUME TypeOK, NEW c \in Calls, NEW k, goes(c, k), k.next # "announce", k.ids = {},
           UNCHANGED <<sessions, announced>>
    PROVE  Unsaid
    BY UnsaidCall

LEMMA UnsaidReturn ==
    ASSUME TypeOK, NEW c \in Calls, returns(c), UNCHANGED <<sessions, announced>>
    PROVE  Unsaid
    BY UnsaidFresh DEF returns, Idle

LEMMA SignupUnsaid ==
    ASSUME TypeOK, NEW c \in Calls,
           \/ Signup(c) \/ CreatePendingUser(c) \/ MailSent(c) \/ DeletePendingUser(c)
           \/ VerifyPendingUser(c) \/ VerifyRecheck(c) \/ Promote(c) \/ Login(c)
           \/ AuthenticateOptions(c) \/ AuthenticateVerify(c)
    PROVE  Unsaid
<1>1. CASE Signup(c)
  BY <1>1, UnsaidFresh DEF Signup, Idle, rows
<1>2. CASE CreatePendingUser(c)
  BY <1>2, UnsaidOn DEF CreatePendingUser
<1>3. CASE MailSent(c) \/ DeletePendingUser(c)
  BY <1>3, UnsaidReturn DEF MailSent, DeletePendingUser, rows
<1>4. CASE VerifyPendingUser(c)
  BY <1>4, UnsaidFresh DEF VerifyPendingUser, Idle, rows
<1>5. CASE VerifyRecheck(c)
  BY <1>5, UnsaidOn, UnsaidReturn DEF VerifyRecheck
<1>6. CASE Promote(c)
  BY <1>6, UnsaidFresh, UnsaidReturn DEF Promote, Idle
<1>7. CASE Login(c)
  BY <1>7, UnsaidFresh DEF Login, Idle, rows
<1>8. CASE AuthenticateOptions(c) \/ AuthenticateVerify(c)
  BY <1>8, UnsaidFresh DEF AuthenticateOptions, AuthenticateVerify, AuthenticateCall, Idle, rows
<1>. QED
  BY <1>1, <1>2, <1>3, <1>4, <1>5, <1>6, <1>7, <1>8

LEMMA SessionCallUnsaid ==
    ASSUME TypeOK, NEW c \in Calls, NEW s \in Sessions,
           \/ MfaSetup(c, s) \/ MfaSetupVerify(c, s) \/ MfaVerify(c, s)
           \/ RegisterOptions(c, s) \/ RegisterVerify(c, s) \/ Disable(c, s)
           \/ ChangePassword(c, s) \/ UserDelete(c, s)
    PROVE  Unsaid
<1>1. ASSUME NEW mfaState, NEW step, step # "announce", sessionCall(c, s, mfaState, step)
      PROVE  Unsaid
  BY <1>1, UnsaidFresh DEF sessionCall, Idle, rows
<1>2. ASSUME NEW p, NEW step, step # "announce", accountCall(c, s, step, p)
      PROVE  Unsaid
  BY <1>2, UnsaidFresh DEF accountCall, Idle, rows
<1>3. CASE \/ MfaSetup(c, s) \/ MfaSetupVerify(c, s) \/ MfaVerify(c, s)
           \/ RegisterOptions(c, s) \/ RegisterVerify(c, s) \/ Disable(c, s)
  BY <1>1, <1>3 DEF MfaSetup, MfaSetupVerify, MfaVerify, RegisterOptions, RegisterVerify, Disable
<1>4. CASE ChangePassword(c, s) \/ UserDelete(c, s)
  BY <1>2, <1>4 DEF ChangePassword, UserDelete
<1>. QED
  BY <1>3, <1>4

LEMMA FactorUnsaid ==
    ASSUME TypeOK, NEW c \in Calls,
           \/ BeginTotpSetup(c) \/ ReadPendingSecret(c) \/ ConfirmTotpSetup(c)
           \/ VerifyTotpChallenge(c) \/ ReadRecoveryCode(c) \/ ConsumeRecoveryCode(c)
           \/ Refused(c) \/ VerifyCredentials(c) \/ DeleteUserLock(c) \/ SavePassword(c)
           \/ FindUser(c, "findUser", "save") \/ FindUser(c, "findDeleted", "lock")
    PROVE  Unsaid
<1>0. calls[c] \in Call
  BY DEF TypeOK
<1>1. CASE BeginTotpSetup(c) \/ Refused(c)
  BY <1>1, UnsaidReturn DEF BeginTotpSetup, Refused, rows
<1>2. CASE ReadPendingSecret(c) \/ VerifyTotpChallenge(c) \/ VerifyCredentials(c) \/ DeleteUserLock(c)
  BY <1>2, UnsaidOn DEF ReadPendingSecret, VerifyTotpChallenge, VerifyCredentials, DeleteUserLock, rows
<1>3. CASE ConfirmTotpSetup(c)
  BY <1>3, UnsaidOn, UnsaidReturn DEF ConfirmTotpSetup
<1>4. CASE ConsumeRecoveryCode(c) \/ SavePassword(c)
  BY <1>4, UnsaidOn DEF ConsumeRecoveryCode, SavePassword
<1>5. CASE ReadRecoveryCode(c)
  <2>1. \A code : LET k == [calls[c] EXCEPT !.next = "useCode", !.secret = code]
                  IN  k.next = "useCode" /\ k.ids = calls[c].ids
    BY <1>0 DEF Call
  <2>. QED
    BY <1>5, <2>1, UnsaidCall DEF ReadRecoveryCode, rows
<1>6. ASSUME NEW from, NEW to, to # "announce", FindUser(c, from, to)
      PROVE  Unsaid
  <2>1. \A u : LET k == [calls[c] EXCEPT !.next = to, !.user = u]
               IN  k.next = to /\ k.ids = calls[c].ids
    BY <1>0 DEF Call
  <2>. QED
    BY <1>6, <2>1, UnsaidCall, UnsaidReturn DEF FindUser, rows
<1>. QED
  BY <1>1, <1>2, <1>3, <1>4, <1>5, <1>6

LEMMA PasskeyUnsaid ==
    ASSUME TypeOK, NEW c \in Calls,
           \/ CreateWebauthnChallenge(c) \/ FindChallenge(c) \/ ConsumeWebauthnChallenge(c)
           \/ EnrolInsert(c) \/ EnrolCommit(c) \/ FindCredential(c)
           \/ CompletePasskeyAuthentication(c) \/ DisableDelete(c) \/ DisableCommit(c)
           \/ DeadlockVictim(c)
    PROVE  Unsaid
<1>0. calls[c] \in Call
  BY DEF TypeOK
<1>1. CASE \/ CreateWebauthnChallenge(c) \/ EnrolCommit(c) \/ DisableCommit(c) \/ DeadlockVictim(c)
  BY <1>1, UnsaidReturn DEF CreateWebauthnChallenge, EnrolCommit, DisableCommit, DeadlockVictim, rows
<1>2. \A step, x : LET k == [calls[c] EXCEPT !.secret = x, !.next = step]
                   IN  k.next = step /\ k.ids = calls[c].ids
  BY <1>0 DEF Call
<1>3. CASE FindChallenge(c)
  <2>1. PICK h \in Challenges, step \in {"consume", "consumeOther"} :
           goes(c, [calls[c] EXCEPT !.secret = h, !.next = step])
    BY <1>3 DEF FindChallenge
  <2> DEFINE k == [calls[c] EXCEPT !.secret = h, !.next = step]
  <2>2. k.next = step /\ k.ids = calls[c].ids
    BY <1>0 DEF Call
  <2>3. goes(c, k) /\ k.next # "announce" /\ UNCHANGED <<sessions, announced>>
    BY <1>3, <2>1, <2>2 DEF FindChallenge, rows
  <2> HIDE DEF k
  <2>. QED
    BY <2>2, <2>3, UnsaidCall
<1>4. CASE ConsumeWebauthnChallenge(c)
  BY <1>2, <1>4, UnsaidCall, UnsaidReturn DEF ConsumeWebauthnChallenge
<1>5. CASE EnrolInsert(c)
  <2>1. \A x : LET k == [calls[c] EXCEPT !.next = "enrolCommit", !.secret = x]
               IN  k.next = "enrolCommit" /\ k.ids = calls[c].ids
    BY <1>0 DEF Call
  <2>. QED
    BY <1>5, <2>1, UnsaidCall DEF EnrolInsert, rows
<1>6. CASE FindCredential(c)
  <2>1. \A x : LET k == [calls[c] EXCEPT !.next = "findOwner", !.user = x]
               IN  k.next = "findOwner" /\ k.ids = calls[c].ids
    BY <1>0 DEF Call
  <2>. QED
    BY <1>6, <2>1, UnsaidCall DEF FindCredential, rows
<1>7. CASE CompletePasskeyAuthentication(c)
  <2> DEFINE k == [calls[c] EXCEPT !.next = "sweep", !.mfaState = "satisfied"]
  <2>1. k.next = "sweep" /\ k.ids = calls[c].ids
    BY <1>0 DEF Call
  <2>2. goes(c, k) \/ returns(c)
    BY <1>7 DEF CompletePasskeyAuthentication
  <2> HIDE DEF k
  <2>. QED
    BY <1>7, <2>1, <2>2, UnsaidCall, UnsaidReturn DEF CompletePasskeyAuthentication, rows
<1>8. CASE DisableDelete(c)
  <2>1. \A x : LET k == [calls[c] EXCEPT !.next = "disableCommit", !.keys = x]
               IN  k.next = "disableCommit" /\ k.ids = calls[c].ids
    BY <1>0 DEF Call
  <2>. QED
    BY <1>8, <2>1, UnsaidCall DEF DisableDelete, rows
<1>. QED
  BY <1>1, <1>3, <1>4, <1>5, <1>6, <1>7, <1>8

\* What a handler finds to end, lives.
LEMMA EndsUnsaid ==
    ASSUME TypeOK, NEW c \in Calls,
           \/ SweepExpired(c) \/ FindSessions(c) \/ DeleteUserFind(c)
           \/ \E s \in Sessions : Logout(c, s) \/ RevokeSession(c, s) \/ RevokeOtherSessions(c, s)
    PROVE  Unsaid
<1>0. calls[c] \in Call
  BY DEF TypeOK
<1>1. ASSUME NEW ids, NEW after \in {"idle", "create"}, ending(c, ids, after),
             \A s \in ids : sessions[s].state = "live", UNCHANGED <<sessions, announced>>
      PROVE  Unsaid
  <2> DEFINE next == IF ids = {} THEN after ELSE "destroy"
             k == [calls[c] EXCEPT !.next = next, !.ids = ids, !.after = after]
  <2>1. next # "announce" /\ goes(c, k)
    BY <1>1 DEF ending
  <2>2. k.next = next /\ k.ids = ids
    BY <1>0 DEF Call
  <2> HIDE DEF next, k
  <2>. QED
    BY <1>1, <2>1, <2>2, UnsaidCall
<1>2. CASE SweepExpired(c)
  BY <1>1, <1>2 DEF SweepExpired, liveSessions, rows
<1>3. CASE FindSessions(c)
  BY <1>1, <1>3 DEF FindSessions, doomed, liveSessions, rows
<1>4. CASE DeleteUserFind(c)
  <2> DEFINE k == [calls[c] EXCEPT !.next = "deleteCommit", !.ids = liveSessions(calls[c].user)]
  <2>1. k.next = "deleteCommit" /\ k.ids = liveSessions(calls[c].user)
    BY <1>0 DEF Call
  <2>2. goes(c, k) /\ UNCHANGED <<sessions, announced>>
    BY <1>4 DEF DeleteUserFind, rows
  <2> HIDE DEF k
  <2>. QED
    BY <2>1, <2>2, UnsaidCall DEF liveSessions
<1>5. ASSUME NEW ids, ends(c, ids), \A s \in ids : sessions[s].state = "live"
      PROVE  Unsaid
  BY <1>1, <1>5 DEF ends, rows
<1>6. ASSUME NEW s \in Sessions, Logout(c, s) \/ RevokeSession(c, s) \/ RevokeOtherSessions(c, s)
      PROVE  Unsaid
  <2>1. CASE Logout(c, s)
    BY <1>5, <2>1 DEF Logout
  <2>2. CASE RevokeSession(c, s)
    BY <1>5, <2>2 DEF RevokeSession, liveSessions
  <2>3. CASE RevokeOtherSessions(c, s)
    <3>1. \A x \in liveSessions(sessions[s].user) \ {s} : sessions[x].state = "live"
      BY DEF liveSessions
    <3>. QED
      BY <1>5, <2>3, <3>1 DEF RevokeOtherSessions
  <2>. QED
    BY <1>6, <2>1, <2>2, <2>3
<1>. QED
  BY <1>2, <1>3, <1>4, <1>6

LEMMA TimeUnsaid ==
    ASSUME \/ \E e \in Emails : LinkExpires(e)
           \/ \E h \in Challenges : ChallengeExpires(h)
           \/ UNCHANGED vars
    PROVE  Unsaid
    BY DEF LinkExpires, ChallengeExpires, vars, rows, Unsaid

LEMMA InitIdsEnded == Init => IdsEnded
    BY DEF Init, IdsEnded, Idle

LEMMA UnsaidIdsEnded == IdsEnded /\ Unsaid => IdsEnded'
    BY DEF IdsEnded, Unsaid, at

\* A write that brings no row back, and no call to an announcement.
LEMMA SameCallsIdsEnded ==
    ASSUME IdsEnded,
           \A s \in Sessions : sessions[s].state # "new" => sessions'[s].state # "new",
           \A s \in Sessions : sessions[s].state = "gone" => sessions'[s].state = "gone",
           TypeOK,
           \A c \in Calls : \/ calls'[c] = calls[c]
                             \/ calls'[c].ids = {}
    PROVE  IdsEnded'
<1>1. \A c \in Calls : calls[c].ids \subseteq Sessions
  BY DEF TypeOK, Call
<1>. QED
  BY <1>1 DEF IdsEnded, at

\* A new session has an id that no handler holds.
LEMMA SessionCreateKeeps ==
    ASSUME TypeOK, IdsEnded, NEW c \in Calls, SessionCreate(c)
    PROVE  IdsEnded' /\ [Protocol!Next]_<<rowState, {}, announced>>
<1>1. returns(c) /\ UNCHANGED announced
  BY DEF SessionCreate
<1>2. calls'[c].ids = {} /\ \A d \in Calls \ {c} : calls'[d] = calls[d]
  BY <1>1, Goes DEF returns, Idle
<1>3. CASE UNCHANGED sessions
  <2>1. Unsaid
    BY <1>1, <1>3, UnsaidReturn
  <2>. QED
    BY <1>1, <1>3, <2>1, UnsaidIdsEnded DEF rowState
<1>4. CASE live(calls[c].user)
  <2>1. PICK s \in Sessions :
           /\ sessions[s].state = "new"
           /\ sessions' = [sessions EXCEPT ![s] =
                  [state |-> "live", user |-> calls[c].user, mfaState |-> calls[c].mfaState,
                   expired |-> FALSE]]
    BY <1>4 DEF SessionCreate
  <2>2. /\ sessions'[s].state = "live" /\ sessions'[s].mfaState = calls[c].mfaState
        /\ \A r \in Sessions \ {s} : sessions'[r] = sessions[r]
    BY <2>1 DEF TypeOK
  <2>3. IdsEnded'
    BY <1>2, <2>1, <2>2, SameCallsIdsEnded
  <2>4. /\ rowState[s] = "new"
        /\ \A r \in Sessions \ {s} : rowState'[r] = rowState[r]
    <3>1. rowState[s] = "new"
      BY <2>1 DEF rowState
    <3>2. ASSUME NEW r \in Sessions \ {s} PROVE rowState'[r] = rowState[r]
      BY <2>2 DEF rowState
    <3>. QED
      BY <3>1, <3>2
  <2>5. rowState'[s] \in {"gated", "satisfied"}
    BY <2>2 DEF rowState
  <2>6. rowState = [r \in Sessions |-> rowState[r]] /\ rowState' = [r \in Sessions |-> rowState'[r]]
    BY DEF rowState
  <2>7. rowState' = [rowState EXCEPT ![s] = rowState'[s]]
    BY <2>4, <2>6
  <2>8. Protocol!Create(s, rowState'[s])
    BY <1>1, <2>4, <2>7 DEF Protocol!Create
  <2>. QED
    BY <2>3, <2>5, <2>8 DEF Protocol!Next
<1>. QED
  BY <1>3, <1>4 DEF SessionCreate

\* The second factor lifts a session that lives, if it had not full access already.
LEMMA SetSessionMfaStateKeeps ==
    ASSUME TypeOK, IdsEnded, NEW c \in Calls, SetSessionMfaState(c)
    PROVE  IdsEnded' /\ [Protocol!Next]_<<rowState, {}, announced>>
<1> DEFINE s == calls[c].session
           k == [sessions[s] EXCEPT !.mfaState = "satisfied"]
<1>1. /\ returns(c) /\ UNCHANGED announced
      /\ sessions' = IF sessions[s].state = "live" THEN [sessions EXCEPT ![s] = k] ELSE sessions
  BY DEF SetSessionMfaState, lifted
<1>2. calls'[c].ids = {} /\ \A d \in Calls \ {c} : calls'[d] = calls[d]
  BY <1>1, Goes DEF returns, Idle
<1>3. CASE UNCHANGED sessions
  <2>1. Unsaid
    BY <1>1, <1>3, UnsaidReturn
  <2>. QED
    BY <1>1, <1>3, <2>1, UnsaidIdsEnded DEF rowState
<1>4. CASE s \in Sessions /\ sessions[s].state = "live"
  <2>1. sessions[s] \in Session
    BY <1>4 DEF TypeOK
  <2>2. k.state = "live" /\ k.mfaState = "satisfied"
    BY <1>4, <2>1 DEF Session, NoSession, GoneSession
  <2> HIDE DEF k
  <2>3. sessions'[s] = k /\ \A r \in Sessions \ {s} : sessions'[r] = sessions[r]
    BY <1>1, <1>4 DEF TypeOK
  <2>4. IdsEnded'
    BY <1>2, <1>4, <2>2, <2>3, SameCallsIdsEnded
  <2>5. rowState' = [rowState EXCEPT ![s] = "satisfied"]
    BY <1>4, <2>2, <2>3 DEF rowState
  <2>6. rowState[s] \in {"gated", "satisfied"}
    BY <1>4 DEF rowState
  <2>7. CASE rowState[s] = "gated"
    BY <1>1, <1>4, <2>4, <2>5, <2>7 DEF Protocol!Lift, Protocol!Next
  <2>8. CASE rowState[s] = "satisfied"
    <3>1. rowState' = rowState
      BY <1>4, <2>5, <2>8 DEF rowState
    <3>. QED
      BY <1>1, <2>4, <3>1
  <2>. QED
    BY <2>6, <2>7, <2>8
<1>5. CASE s \notin Sessions
  <2>1. [sessions EXCEPT ![s] = k] = sessions
    BY <1>5 DEF TypeOK
  <2>. QED
    BY <1>1, <1>3, <2>1
<1>. QED
  BY <1>1, <1>3, <1>4, <1>5

LEMMA SessionExpiresKeeps ==
    ASSUME TypeOK, IdsEnded, NEW s \in Sessions, SessionExpires(s)
    PROVE  IdsEnded' /\ UNCHANGED <<rowState, announced>>
<1> DEFINE k == [sessions[s] EXCEPT !.expired = TRUE]
<1>1. sessions[s] \in Session /\ sessions' = [sessions EXCEPT ![s] = k] /\ UNCHANGED <<calls, announced>>
  BY DEF SessionExpires, TypeOK
<1>2. k.state = sessions[s].state /\ k.mfaState = sessions[s].mfaState
  BY <1>1 DEF Session, NoSession, GoneSession
<1> HIDE DEF k
<1>3. \A r \in Sessions : sessions'[r].state = sessions[r].state /\ sessions'[r].mfaState = sessions[r].mfaState
  BY <1>1, <1>2 DEF TypeOK
<1>4. IdsEnded'
  BY <1>1, <1>3, SameCallsIdsEnded
<1>. QED
  BY <1>1, <1>3, <1>4 DEF rowState

\* Rows that are there go, and so do those that another handler has deleted before.
LEMMA GoneKeeps ==
    ASSUME Enrolling, NEW ids \in SUBSET Sessions, \A s \in ids : sessions[s].state # "new",
           sessions' = gone(ids), UNCHANGED announced
    PROVE  Protocol!Destroy(ids)
<1>1. \A s \in Sessions : sessions'[s] = IF s \in ids THEN GoneSession ELSE sessions[s]
  BY GoneSessions
<1>2. GoneSession.state = "gone"
  BY DEF GoneSession, NoSession
<1>3. rowState' = [s \in Sessions |-> IF s \in ids THEN "gone" ELSE rowState[s]]
  BY <1>1, <1>2 DEF rowState
<1>4. \A s \in ids : rowState[s] # "new"
  BY DEF rowState
<1>. QED
  BY <1>3, <1>4 DEF Protocol!Destroy

LEMMA DestroySessionsKeeps ==
    ASSUME Enrolling, IdsEnded, NEW c \in Calls, DestroySessions(c)
    PROVE  IdsEnded' /\ [Protocol!Next]_<<rowState, {}, announced>>
<1> DEFINE k == [calls[c] EXCEPT !.next = "announce"]
<1>0. TypeOK /\ calls[c].ids \in SUBSET Sessions
  BY DEF Enrolling, TypeOK, Call
<1>1. goes(c, k) /\ sessions' = gone(calls[c].ids) /\ UNCHANGED announced
  BY DEF DestroySessions, goesOn
<1>2. k.next = "announce" /\ k.ids = calls[c].ids
  BY <1>0 DEF TypeOK, Call
<1> HIDE DEF k
<1>3. calls'[c] = k /\ \A d \in Calls \ {c} : calls'[d] = calls[d]
  BY <1>0, <1>1, Goes
<1>4. \A s \in Sessions : sessions'[s].state = IF s \in calls[c].ids THEN "gone" ELSE sessions[s].state
  BY <1>1, GoneSessions DEF GoneSession, NoSession
<1>5. \A d \in Calls : calls[d].ids \subseteq Sessions
  BY <1>0 DEF TypeOK, Call
<1>6. IdsEnded'
  BY <1>2, <1>3, <1>4, <1>5 DEF IdsEnded, at
<1>7. Protocol!Destroy(calls[c].ids)
  BY <1>0, <1>1, GoneKeeps DEF IdsEnded
<1>. QED
  BY <1>0, <1>6, <1>7 DEF Protocol!Next

LEMMA DeleteUserCommitKeeps ==
    ASSUME Enrolling, IdsEnded, NEW c \in Calls, DeleteUserCommit(c)
    PROVE  IdsEnded' /\ [Protocol!Next]_<<rowState, {}, announced>>
<1> DEFINE ids == calls[c].ids \cup liveSessions(calls[c].user)
<1>0. TypeOK /\ calls[c].ids \in SUBSET Sessions
  BY DEF Enrolling, TypeOK, Call
<1>1. sessions' = gone(ids) /\ UNCHANGED announced
  BY DEF DeleteUserCommit
<1>2. ids \in SUBSET Sessions /\ calls[c].ids \subseteq ids
  BY <1>0 DEF liveSessions
<1>3. \A s \in ids : sessions[s].state # "new"
  BY DEF IdsEnded, liveSessions
<1> HIDE DEF ids
<1>4. PICK k : goes(c, k) /\ k.ids \subseteq calls[c].ids
  <2>1. CASE calls[c].ids = {}
    BY <2>1 DEF DeleteUserCommit, returns, Idle
  <2>2. CASE calls[c].ids # {}
    <3> DEFINE k == [calls[c] EXCEPT !.next = "announce"]
    <3>1. goes(c, k)
      BY <2>2 DEF DeleteUserCommit, goesOn
    <3>2. k.ids = calls[c].ids
      BY <1>0 DEF TypeOK, Call
    <3>. QED
      BY <3>1, <3>2
  <2>. QED
    BY <2>1, <2>2
<1>5. calls'[c] = k /\ \A d \in Calls \ {c} : calls'[d] = calls[d]
  BY <1>0, <1>4, Goes
<1>6. \A s \in Sessions : sessions'[s].state = IF s \in ids THEN "gone" ELSE sessions[s].state
  BY <1>1, GoneSessions DEF GoneSession, NoSession
<1>7. \A d \in Calls : calls[d].ids \subseteq Sessions
  BY <1>0 DEF TypeOK, Call
<1>8. IdsEnded'
  BY <1>2, <1>4, <1>5, <1>6, <1>7 DEF IdsEnded, at
<1>9. Protocol!Destroy(ids)
  BY <1>1, <1>2, <1>3, GoneKeeps
<1>. QED
  BY <1>2, <1>8, <1>9 DEF Protocol!Next

\* Whoever announces sessions has deleted them.
LEMMA EmitKeeps ==
    ASSUME TypeOK, IdsEnded, NEW c \in Calls, EmitSessionsRevoked(c)
    PROVE  IdsEnded' /\ [Protocol!Next]_<<rowState, {}, announced>>
<1>1. /\ calls[c].next = "announce" /\ announced' = announced \cup calls[c].ids
      /\ UNCHANGED sessions
  BY DEF EmitSessionsRevoked, at, rows
<1>2. PICK k : goes(c, k) /\ k.ids = {}
  <2>1. CASE calls[c].after = "idle"
    BY <2>1 DEF EmitSessionsRevoked, returns, Idle
  <2>2. CASE calls[c].after # "idle"
    <3> DEFINE k == [calls[c] EXCEPT !.next = calls[c].after, !.ids = {}, !.after = "idle"]
    <3>1. goes(c, k)
      BY <2>2 DEF EmitSessionsRevoked
    <3>2. k.ids = {}
      BY DEF TypeOK, Call
    <3>. QED
      BY <3>1, <3>2
  <2>. QED
    BY <2>1, <2>2
<1>3. calls'[c] = k /\ \A d \in Calls \ {c} : calls'[d] = calls[d]
  BY <1>2, Goes
<1>4. IdsEnded'
  BY <1>1, <1>2, <1>3, SameCallsIdsEnded
<1>5. calls[c].ids \in SUBSET Sessions /\ \A s \in calls[c].ids : sessions[s].state = "gone"
  BY <1>1 DEF TypeOK, Call, IdsEnded, at
<1>6. Protocol!Announce(calls[c].ids)
  BY <1>1, <1>5 DEF Protocol!Announce, rowState
<1>. QED
  BY <1>4, <1>5, <1>6 DEF Protocol!Next

LEMMA NextKeeps ==
    Enrolling /\ IdsEnded /\ [Next]_vars => IdsEnded' /\ [Protocol!Next]_<<rowState, {}, announced>>
<1> SUFFICES ASSUME Enrolling, IdsEnded, [Next]_vars
             PROVE  IdsEnded' /\ [Protocol!Next]_<<rowState, {}, announced>>
  OBVIOUS
<1>1. TypeOK
  BY DEF Enrolling
<1>2. CASE Unsaid
  BY <1>2, UnsaidIdsEnded DEF Unsaid, rowState
<1>3. CASE ~Unsaid
  <2>1. \/ \E c \in Calls :
              \/ SessionCreate(c) \/ SetSessionMfaState(c) \/ DestroySessions(c)
              \/ DeleteUserCommit(c) \/ EmitSessionsRevoked(c)
        \/ \E s \in Sessions : SessionExpires(s)
    BY <1>1, <1>3, SignupUnsaid, SessionCallUnsaid, FactorUnsaid, PasskeyUnsaid, EndsUnsaid,
       TimeUnsaid
    DEF Next
  <2>. QED
    BY <1>1, <2>1, SessionCreateKeeps, SetSessionMfaStateKeeps, SessionExpiresKeeps,
       DestroySessionsKeeps, DeleteUserCommitKeeps, EmitKeeps
<1>. QED
  BY <1>2, <1>3

LEMMA InitProtocol == Init => Protocol!Init
    BY DEF Init, Protocol!Init, rowState, NoSession

\* What the handlers do to the session rows, overlapping ends, second factors and deleted
\* accounts included, is what SessionRows allows and the sockets of a session rely on.
THEOREM SessionsKeepProtocol == Spec => RowsProtocol
<1>1. Spec => Protocol!Spec
  BY InitIdsEnded, InitProtocol, NextKeeps, InvariantEnrolling, PTL DEF Spec, Protocol!Spec
<1>. QED
  BY <1>1 DEF RowsProtocol


-----------------------------------------------------------------------------
(* A handler acts on the account of its session.                            *)

\* The steps of a handler that has an address and not yet the account.
AddressSteps == {"verifyOld", "findUser", "findDeleted"}

\* What a handler holds of the account of its session, when the tables are ss and us.
own(k, ss, us) ==
    k.session # None =>
        /\ k.next # "findCredential"
        /\ k.user = None => k.next \in AddressSteps
        /\ ss[k.session].state # "new"
        /\ ss[k.session].state = "live" =>
            /\ k.user # None => k.user = ss[k.session].user
            /\ k.next \in AddressSteps => us[ss[k.session].user].email = k.email

CallsOwn == \A c \in Calls : own(calls[c], sessions, users)

\* A session keeps its user and an account its address while they live.
SessionsStay ==
    \A s \in Sessions : sessions[s].state # "new" =>
        /\ sessions'[s].state # "new"
        /\ sessions'[s].state = "live" =>
            sessions[s].state = "live" /\ sessions'[s].user = sessions[s].user

AddressesStay == \A u \in Users : live(u) /\ live(u)' => users'[u].email = users[u].email

\* The handler k goes on as k2 with no new session or account.
continues(k, k2) ==
    \/ k2.session = None
    \/ /\ k2.session = k.session /\ k2.user = k.user
       /\ k2.next # "findCredential"
       /\ k2.next \in AddressSteps <=> k.next \in AddressSteps
       /\ k2.next \in AddressSteps => k2.email = k.email

Continued ==
    /\ SessionsStay /\ AddressesStay
    /\ \A c \in Calls : calls'[c] = calls[c] \/ continues(calls[c], calls'[c])

\* What a handler holds stays true while the sessions and the addresses stay.
LEMMA OwnStays ==
    ASSUME Enrolling, Enrolling', SessionsStay, AddressesStay, NEW c \in Calls,
           own(calls[c], sessions, users)
    PROVE  own(calls[c], sessions', users')
<1> DEFINE s == calls[c].session
<1> SUFFICES ASSUME s # None, s \in Sessions
             PROVE  /\ sessions'[s].state # "new"
                    /\ sessions'[s].state = "live" =>
                        /\ calls[c].user # None => calls[c].user = sessions'[s].user
                        /\ calls[c].next \in AddressSteps => users'[sessions'[s].user].email = calls[c].email
  BY DEF own, Enrolling, TypeOK, Call
<1>1. sessions[s].state # "new" /\ sessions'[s].state # "new"
  BY DEF own, SessionsStay
<1>2. ASSUME sessions'[s].state = "live"
      PROVE  /\ calls[c].user # None => calls[c].user = sessions'[s].user
             /\ calls[c].next \in AddressSteps => users'[sessions'[s].user].email = calls[c].email
  <2>1. sessions[s].state = "live" /\ sessions'[s].user = sessions[s].user
    BY <1>1, <1>2 DEF SessionsStay
  <2>2. PICK u \in Users : u = sessions[s].user
    BY <2>1 DEF Enrolling, TypeOK, Session, NoSession, GoneSession
  <2>3. SatisfiedEnrolled /\ SatisfiedEnrolled'
    BY DEF Enrolling, RowsKnown
  <2>4. live(u) /\ live(u)'
    BY <1>2, <2>1, <2>2, <2>3 DEF SatisfiedEnrolled, live
  <2>5. users'[u].email = users[u].email
    BY <2>4 DEF AddressesStay
  <2>. QED
    BY <2>1, <2>2, <2>5 DEF own
<1>. QED
  BY <1>1, <1>2

LEMMA ContinuedOwn ==
    ASSUME Enrolling, Enrolling', CallsOwn, Continued
    PROVE  CallsOwn'
<1> SUFFICES ASSUME NEW c \in Calls PROVE own(calls'[c], sessions', users')
  BY DEF CallsOwn
<1>1. own(calls[c], sessions', users')
  BY OwnStays DEF CallsOwn, Continued
<1>2. CASE calls'[c] = calls[c]
  BY <1>1, <1>2
<1>3. CASE continues(calls[c], calls'[c])
  BY <1>1, <1>3 DEF continues, own
<1>. QED
  BY <1>2, <1>3 DEF Continued

LEMMA SameTables == UNCHANGED <<sessions, users>> => SessionsStay /\ AddressesStay
    BY DEF SessionsStay, AddressesStay

LEMMA ContinuedCall ==
    ASSUME TypeOK, NEW c \in Calls, NEW k, goes(c, k), continues(calls[c], k),
           SessionsStay, AddressesStay
    PROVE  Continued
    BY Goes DEF Continued

LEMMA ContinuedOn ==
    ASSUME TypeOK, NEW c \in Calls, NEW step, goesOn(c, step), step # "findCredential",
           step \in AddressSteps <=> calls[c].next \in AddressSteps, SessionsStay, AddressesStay
    PROVE  Continued
<1> DEFINE k == [calls[c] EXCEPT !.next = step]
<1>1. k.next = step /\ k.session = calls[c].session /\ k.user = calls[c].user /\ k.email = calls[c].email
  BY DEF TypeOK, Call
<1>2. goes(c, k)
  BY DEF goesOn
<1> HIDE DEF k
<1>. QED
  BY <1>1, <1>2, ContinuedCall DEF continues

LEMMA ContinuedFresh ==
    ASSUME TypeOK, NEW c \in Calls, NEW k, goes(c, k), k.session = None,
           SessionsStay, AddressesStay
    PROVE  Continued
    BY ContinuedCall DEF continues

LEMMA ContinuedReturn ==
    ASSUME TypeOK, NEW c \in Calls, returns(c), SessionsStay, AddressesStay
    PROVE  Continued
    BY ContinuedFresh DEF returns, Idle


LEMMA SignupContinued ==
    ASSUME TypeOK, NEW c \in Calls,
           \/ Signup(c) \/ CreatePendingUser(c) \/ MailSent(c) \/ DeletePendingUser(c)
           \/ VerifyPendingUser(c) \/ VerifyRecheck(c) \/ Login(c)
           \/ AuthenticateOptions(c) \/ AuthenticateVerify(c)
    PROVE  Continued
<1>0. SessionsStay /\ AddressesStay
  BY SameTables DEF Signup, CreatePendingUser, MailSent, DeletePendingUser, VerifyPendingUser,
     VerifyRecheck, Login, AuthenticateOptions, AuthenticateVerify, AuthenticateCall, rows
<1>1. CASE Signup(c)
  BY <1>0, <1>1, ContinuedFresh DEF Signup, Idle
<1>2. CASE CreatePendingUser(c)
  BY <1>0, <1>2, ContinuedOn DEF CreatePendingUser, at, AddressSteps
<1>3. CASE MailSent(c) \/ DeletePendingUser(c)
  BY <1>0, <1>3, ContinuedReturn DEF MailSent, DeletePendingUser
<1>4. CASE VerifyPendingUser(c)
  BY <1>0, <1>4, ContinuedFresh DEF VerifyPendingUser, Idle
<1>5. CASE VerifyRecheck(c)
  BY <1>0, <1>5, ContinuedOn, ContinuedReturn DEF VerifyRecheck, at, AddressSteps
<1>6. CASE Login(c)
  BY <1>0, <1>6, ContinuedFresh DEF Login, Idle
<1>7. CASE AuthenticateOptions(c) \/ AuthenticateVerify(c)
  BY <1>0, <1>7, ContinuedFresh DEF AuthenticateOptions, AuthenticateVerify, AuthenticateCall, Idle
<1>. QED
  BY <1>1, <1>2, <1>3, <1>4, <1>5, <1>6, <1>7

LEMMA CheckContinued ==
    ASSUME TypeOK, NEW c \in Calls,
           \/ ReadPendingSecret(c) \/ VerifyTotpChallenge(c) \/ ReadRecoveryCode(c)
           \/ Refused(c) \/ VerifyCredentials(c) \/ DeleteUserLock(c) \/ DeleteUserFind(c)
           \/ CreateWebauthnChallenge(c) \/ FindChallenge(c) \/ EnrolInsert(c)
           \/ CompletePasskeyAuthentication(c) \/ DisableDelete(c) \/ DeadlockVictim(c)
    PROVE  Continued
<1>0. calls[c] \in Call
  BY DEF TypeOK
<1>1. SessionsStay /\ AddressesStay
  BY SameTables DEF ReadPendingSecret, VerifyTotpChallenge, ReadRecoveryCode, Refused,
     VerifyCredentials, DeleteUserLock, DeleteUserFind, CreateWebauthnChallenge, FindChallenge,
     EnrolInsert, CompletePasskeyAuthentication, DisableDelete, DeadlockVictim, rows
<1>2. CASE ReadPendingSecret(c) \/ VerifyTotpChallenge(c) \/ VerifyCredentials(c) \/ DeleteUserLock(c)
  BY <1>1, <1>2, ContinuedOn
  DEF ReadPendingSecret, VerifyTotpChallenge, VerifyCredentials, DeleteUserLock, at, AddressSteps
<1>3. CASE Refused(c) \/ CreateWebauthnChallenge(c) \/ DeadlockVictim(c)
  BY <1>1, <1>3, ContinuedReturn DEF Refused, CreateWebauthnChallenge, DeadlockVictim
<1>4. \A step \in {"useCode", "deleteCommit", "consume", "consumeOther", "enrolCommit", "disableCommit", "sweep"} :
        step # "findCredential" /\ step \notin AddressSteps
  BY DEF AddressSteps
<1>5. CASE ReadRecoveryCode(c)
  <2>1. calls[c].next = "readCodes" /\ \E x : goes(c, [calls[c] EXCEPT !.next = "useCode", !.secret = x])
    BY <1>5 DEF ReadRecoveryCode, at
  <2>2. \A x : continues(calls[c], [calls[c] EXCEPT !.next = "useCode", !.secret = x])
    BY <1>0, <2>1 DEF Call, continues, AddressSteps
  <2>. QED
    BY <1>1, <2>1, <2>2, ContinuedCall
<1>6. CASE DeleteUserFind(c)
  <2>1. calls[c].next = "deleteFind" /\ \E x : goes(c, [calls[c] EXCEPT !.next = "deleteCommit", !.ids = x])
    BY <1>6 DEF DeleteUserFind, at
  <2>2. \A x : continues(calls[c], [calls[c] EXCEPT !.next = "deleteCommit", !.ids = x])
    BY <1>0, <2>1 DEF Call, continues, AddressSteps
  <2>. QED
    BY <1>1, <2>1, <2>2, ContinuedCall
<1>7. CASE FindChallenge(c)
  <2>1. PICK h \in Challenges, step \in {"consume", "consumeOther"} :
           goes(c, [calls[c] EXCEPT !.secret = h, !.next = step])
    BY <1>7 DEF FindChallenge
  <2>2. calls[c].next = "findChallenge"
    BY <1>7 DEF FindChallenge, at
  <2>3. continues(calls[c], [calls[c] EXCEPT !.secret = h, !.next = step])
    BY <1>0, <2>2 DEF Call, continues, AddressSteps
  <2>. QED
    BY <1>1, <2>1, <2>3, ContinuedCall
<1>8. CASE EnrolInsert(c)
  <2>1. calls[c].next = "enrol" /\ \E x : goes(c, [calls[c] EXCEPT !.next = "enrolCommit", !.secret = x])
    BY <1>8 DEF EnrolInsert, at
  <2>2. \A x : continues(calls[c], [calls[c] EXCEPT !.next = "enrolCommit", !.secret = x])
    BY <1>0, <2>1 DEF Call, continues, AddressSteps
  <2>. QED
    BY <1>1, <2>1, <2>2, ContinuedCall
<1>9. CASE CompletePasskeyAuthentication(c)
  <2> DEFINE k == [calls[c] EXCEPT !.next = "sweep", !.mfaState = "satisfied"]
  <2>1. calls[c].next = "findOwner" /\ (goes(c, k) \/ returns(c))
    BY <1>9 DEF CompletePasskeyAuthentication, at
  <2>2. continues(calls[c], k)
    BY <1>0, <2>1 DEF Call, continues, AddressSteps
  <2> HIDE DEF k
  <2>. QED
    BY <1>1, <2>1, <2>2, ContinuedCall, ContinuedReturn
<1>10. CASE DisableDelete(c)
  <2>1. calls[c].next = "disable" /\ \E x : goes(c, [calls[c] EXCEPT !.next = "disableCommit", !.keys = x])
    BY <1>10 DEF DisableDelete, at
  <2>2. \A x : continues(calls[c], [calls[c] EXCEPT !.next = "disableCommit", !.keys = x])
    BY <1>0, <2>1 DEF Call, continues, AddressSteps
  <2>. QED
    BY <1>1, <2>1, <2>2, ContinuedCall
<1>. QED
  BY <1>2, <1>3, <1>5, <1>6, <1>7, <1>8, <1>9, <1>10

\* The halves of a sign-in by passkey have no session.
LEMMA PasskeyContinued ==
    ASSUME Enrolling, CallsOwn, NEW c \in Calls, ConsumeWebauthnChallenge(c) \/ FindCredential(c)
    PROVE  Continued
<1>0. calls[c] \in Call /\ own(calls[c], sessions, users) /\ TypeOK
  BY DEF TypeOK, Enrolling, CallsOwn
<1>1. SessionsStay /\ AddressesStay
  BY SameTables DEF ConsumeWebauthnChallenge, FindCredential, rows
<1>2. CASE ConsumeWebauthnChallenge(c)
  <2>1. calls[c].next \in {"consume", "consumeOther"}
    BY <1>2 DEF ConsumeWebauthnChallenge
  <2>2. CASE returns(c)
    BY <1>0, <1>1, <2>2, ContinuedReturn
  <2>3. CASE ~returns(c)
    <3> DEFINE step == IF calls[c].user = None THEN "findCredential" ELSE "enrol"
               k == [calls[c] EXCEPT !.secret = None, !.next = step]
    <3>1. goes(c, k)
      BY <1>2, <2>3 DEF ConsumeWebauthnChallenge
    <3>2. k.session = calls[c].session /\ k.user = calls[c].user /\ k.next = step
      BY <1>0 DEF Call
    <3>3. k.session = None \/ step = "enrol"
      BY <1>0, <2>1, <3>2 DEF own, AddressSteps
    <3> HIDE DEF step, k
    <3>4. continues(calls[c], k)
      BY <2>1, <3>2, <3>3 DEF continues, AddressSteps
    <3>. QED
      BY <1>0, <1>1, <3>1, <3>4, ContinuedCall
  <2>. QED
    BY <2>2, <2>3
<1>3. CASE FindCredential(c)
  <2>1. PICK x : goes(c, [calls[c] EXCEPT !.next = "findOwner", !.user = x])
    BY <1>3 DEF FindCredential
  <2> DEFINE k == [calls[c] EXCEPT !.next = "findOwner", !.user = x]
  <2>2. calls[c].next = "findCredential" /\ k.session = calls[c].session
    BY <1>0, <1>3 DEF FindCredential, at, Call
  <2>3. goes(c, k) /\ k.session = None
    BY <1>0, <2>1, <2>2 DEF own
  <2> HIDE DEF k
  <2>. QED
    BY <1>0, <1>1, <2>3, ContinuedFresh
<1>. QED
  BY <1>2, <1>3

LEMMA EndsContinued ==
    ASSUME TypeOK, NEW c \in Calls,
           \/ SweepExpired(c) \/ FindSessions(c) \/ EmitSessionsRevoked(c)
           \/ \E s \in Sessions : Logout(c, s) \/ RevokeSession(c, s) \/ RevokeOtherSessions(c, s)
    PROVE  Continued
<1>0. calls[c] \in Call
  BY DEF TypeOK
<1>1. ASSUME NEW ids, NEW after \in {"idle", "create"}, ending(c, ids, after), UNCHANGED rows,
             calls[c].next \notin AddressSteps
      PROVE  Continued
  <2> DEFINE next == IF ids = {} THEN after ELSE "destroy"
             k == [calls[c] EXCEPT !.next = next, !.ids = ids, !.after = after]
  <2>1. next # "findCredential" /\ next \notin AddressSteps /\ goes(c, k)
    BY <1>1 DEF ending, AddressSteps
  <2>2. k.next = next /\ k.session = calls[c].session /\ k.user = calls[c].user
    BY <1>0 DEF Call
  <2> HIDE DEF next, k
  <2>. QED
    BY <1>1, <2>1, <2>2, SameTables, ContinuedCall DEF continues, rows
<1>2. CASE SweepExpired(c)
  BY <1>1, <1>2 DEF SweepExpired, at, AddressSteps
<1>3. CASE FindSessions(c)
  BY <1>1, <1>3 DEF FindSessions, at, AddressSteps
<1>4. CASE EmitSessionsRevoked(c)
  <2>0. SessionsStay /\ AddressesStay /\ calls[c].next = "announce"
    BY <1>4, SameTables DEF EmitSessionsRevoked, rows, at
  <2>1. CASE calls[c].after = "idle"
    BY <1>4, <2>0, <2>1, ContinuedReturn DEF EmitSessionsRevoked
  <2>2. CASE calls[c].after # "idle"
    <3> DEFINE k == [calls[c] EXCEPT !.next = calls[c].after, !.ids = {}, !.after = "idle"]
    <3>1. k.next = calls[c].after /\ k.session = calls[c].session /\ k.user = calls[c].user
          /\ calls[c].after \in {"idle", "create"}
      BY <1>0 DEF Call
    <3>2. goes(c, k)
      BY <1>4, <2>2 DEF EmitSessionsRevoked
    <3> HIDE DEF k
    <3>. QED
      BY <2>0, <3>1, <3>2, ContinuedCall DEF continues, AddressSteps
  <2>. QED
    BY <2>1, <2>2
<1>5. ASSUME NEW ids, ends(c, ids)
      PROVE  Continued
  BY <1>1, <1>5 DEF ends, at, AddressSteps
<1>. QED
  BY <1>2, <1>3, <1>4, <1>5 DEF Logout, RevokeSession, RevokeOtherSessions

LEMMA TimeContinued ==
    ASSUME TypeOK,
           \/ \E e \in Emails : LinkExpires(e)
           \/ \E s \in Sessions : SessionExpires(s)
           \/ \E h \in Challenges : ChallengeExpires(h)
           \/ UNCHANGED vars
    PROVE  Continued
<1>1. CASE \/ \E e \in Emails : LinkExpires(e)
           \/ \E h \in Challenges : ChallengeExpires(h)
           \/ UNCHANGED vars
  BY <1>1, SameTables DEF LinkExpires, ChallengeExpires, vars, rows, Continued
<1>2. CASE \E s \in Sessions : SessionExpires(s)
  <2>1. PICK s \in Sessions : sessions' = [sessions EXCEPT ![s].expired = TRUE] /\ UNCHANGED <<users, calls>>
    BY <1>2 DEF SessionExpires
  <2> DEFINE row == [sessions[s] EXCEPT !.expired = TRUE]
  <2>2. sessions' = [sessions EXCEPT ![s] = row] /\ sessions[s] \in Session
    BY <2>1 DEF TypeOK
  <2>3. row.state = sessions[s].state /\ row.user = sessions[s].user
    BY <2>2 DEF Session, NoSession, GoneSession
  <2> HIDE DEF row
  <2>4. \A r \in Sessions : sessions'[r].state = sessions[r].state /\ sessions'[r].user = sessions[r].user
    BY <2>2, <2>3 DEF TypeOK
  <2>. QED
    BY <2>1, <2>4 DEF Continued, SessionsStay, AddressesStay
<1>. QED
  BY <1>1, <1>2


\* An update of one row of users.
LEMMA AddressStays ==
    ASSUME TypeOK, NEW u, NEW row,
           u \in Users /\ users[u].state = "live" /\ row.state = "live" => row.email = users[u].email,
           users' = [users EXCEPT ![u] = row]
    PROVE  AddressesStay
<1>1. \A v \in Users : users'[v] = IF v = u THEN row ELSE users[v]
  BY DEF TypeOK
<1>. QED
  BY <1>1 DEF AddressesStay, live

LEMMA UserWritesContinued ==
    ASSUME TypeOK, NEW c \in Calls,
           BeginTotpSetup(c) \/ ConfirmTotpSetup(c) \/ ConsumeRecoveryCode(c) \/ SavePassword(c)
    PROVE  Continued
<1> DEFINE u == calls[c].user
<1>1. SessionsStay
  BY DEF BeginTotpSetup, ConfirmTotpSetup, ConsumeRecoveryCode, SavePassword, SessionsStay
<1>2. AddressesStay
  <2>1. u \in Users => users[u] \in User
    BY DEF TypeOK
  <2>2. CASE users' = users
    BY <2>2 DEF AddressesStay
  <2>3. CASE BeginTotpSetup(c) /\ users' # users
    <3> DEFINE row == [users[u] EXCEPT !.totpPendingSecret = TRUE]
    <3>1. users' = [users EXCEPT ![u] = row]
      BY <2>3 DEF BeginTotpSetup
    <3>2. u \in Users => row.email = users[u].email
      BY <2>1 DEF User
    <3> HIDE DEF row, u
    <3>. QED
      BY <3>1, <3>2, AddressStays
  <2>4. CASE ConfirmTotpSetup(c) /\ users' # users
    <3> DEFINE row == [users[u] EXCEPT !.totpPendingSecret = FALSE, !.totpEnabledAt = TRUE,
                                       !.codes = Codes]
    <3>1. users' = [users EXCEPT ![u].totpPendingSecret = FALSE,
                                 ![u].totpEnabledAt = TRUE, ![u].codes = Codes]
      BY <2>4 DEF ConfirmTotpSetup
    <3>2. u \in Users => users' = [users EXCEPT ![u] = row]
      BY <3>1 DEF TypeOK
    <3>3. u \in Users => row.email = users[u].email
      BY <2>1 DEF User
    <3>4. u \notin Users => users' = users
      BY <3>1 DEF TypeOK
    <3> HIDE DEF row, u
    <3>. QED
      BY <2>2, <3>2, <3>3, <3>4, AddressStays
  <2>5. CASE ConsumeRecoveryCode(c)
    <3> DEFINE row == [users[u] EXCEPT !.codes = users[u].codes \ {calls[c].secret}]
    <3>1. users' = [users EXCEPT ![u] = row]
      BY <2>5 DEF ConsumeRecoveryCode
    <3>2. u \in Users => row.email = users[u].email
      BY <2>1 DEF User
    <3> HIDE DEF row, u
    <3>. QED
      BY <3>1, <3>2, AddressStays
  <2>6. CASE SavePassword(c) /\ users' # users
    <3> DEFINE row == [users[u] EXCEPT !.password = calls[c].password]
    <3>1. users' = [users EXCEPT ![u] = row]
      BY <2>6 DEF SavePassword
    <3>2. u \in Users => row.email = users[u].email
      BY <2>1 DEF User
    <3> HIDE DEF row, u
    <3>. QED
      BY <3>1, <3>2, AddressStays
  <2>. QED
    BY <2>2, <2>3, <2>4, <2>5, <2>6
<1>3. CASE BeginTotpSetup(c)
  BY <1>1, <1>2, <1>3, ContinuedReturn DEF BeginTotpSetup
<1>4. CASE ConfirmTotpSetup(c)
  BY <1>1, <1>2, <1>4, ContinuedOn, ContinuedReturn DEF ConfirmTotpSetup, at, AddressSteps
<1>5. CASE ConsumeRecoveryCode(c)
  BY <1>1, <1>2, <1>5, ContinuedOn DEF ConsumeRecoveryCode, at, AddressSteps
<1>6. CASE SavePassword(c)
  BY <1>1, <1>2, <1>6, ContinuedOn DEF SavePassword, at, AddressSteps
<1>. QED
  BY <1>3, <1>4, <1>5, <1>6

LEMMA FlagWritesContinued ==
    ASSUME Enrolling, NEW c \in Calls, EnrolCommit(c) \/ DisableCommit(c)
    PROVE  Continued
<1> DEFINE u == calls[c].user
<1>1. SessionsStay /\ returns(c) /\ TypeOK
  BY DEF EnrolCommit, DisableCommit, SessionsStay, Enrolling
<1>2. AddressesStay
  <2>1. CASE users' = users
    BY <2>1 DEF AddressesStay
  <2>2. CASE users' # users
    <3>1. PICK flag : users' = [users EXCEPT ![u].passkeyEnabled = flag]
      BY <2>2 DEF EnrolCommit, DisableCommit
    <3> DEFINE row == [users[u] EXCEPT !.passkeyEnabled = flag]
    <3>2. users' = [users EXCEPT ![u] = row]
      BY <3>1
    <3>3. u \in Users => row.email = users[u].email
      BY <1>1 DEF TypeOK, User
    <3> HIDE DEF row, u
    <3>. QED
      BY <1>1, <3>2, <3>3, AddressStays
  <2>. QED
    BY <2>1, <2>2
<1>. QED
  BY <1>1, <1>2, ContinuedReturn

\* A new account, or session, has an id that no handler holds.
LEMMA PromoteContinued ==
    ASSUME TypeOK, NEW c \in Calls, Promote(c)
    PROVE  Continued
<1>1. SessionsStay
  BY DEF Promote, SessionsStay
<1>2. CASE users' = users /\ returns(c)
  BY <1>1, <1>2, ContinuedReturn DEF AddressesStay
<1>3. CASE ~(users' = users /\ returns(c))
  <2> DEFINE row == [NoUser EXCEPT !.state = "live", !.email = calls[c].email,
                                   !.password = calls[c].password]
  <2>1. PICK u \in Users :
           /\ users[u].state = "new" /\ users' = [users EXCEPT ![u] = row]
           /\ goes(c, [Idle EXCEPT !.next = "sweep", !.user = u, !.mfaState = "setup_required"])
    BY <1>3 DEF Promote
  <2> HIDE DEF row
  <2>2. AddressesStay
    BY <2>1, AddressStays
  <2>. QED
    BY <1>1, <2>1, <2>2, ContinuedFresh DEF Idle
<1>. QED
  BY <1>2, <1>3

LEMMA SessionWritesContinued ==
    ASSUME TypeOK, NEW c \in Calls, SessionCreate(c) \/ SetSessionMfaState(c)
    PROVE  Continued
<1>1. AddressesStay /\ returns(c)
  BY DEF SessionCreate, SetSessionMfaState, AddressesStay
<1>2. CASE sessions' = sessions
  BY <1>1, <1>2, ContinuedReturn DEF SessionsStay
<1>3. CASE SessionCreate(c) /\ sessions' # sessions
  <2>1. PICK s \in Sessions :
           /\ sessions[s].state = "new"
           /\ \A r \in Sessions \ {s} : sessions'[r] = sessions[r]
    BY <1>3 DEF SessionCreate, TypeOK
  <2>2. SessionsStay
    BY <2>1 DEF SessionsStay
  <2>. QED
    BY <1>1, <2>2, ContinuedReturn
<1>4. CASE SetSessionMfaState(c) /\ sessions' # sessions
  <2> DEFINE s == calls[c].session
             k == [sessions[s] EXCEPT !.mfaState = "satisfied"]
  <2>1. sessions[s].state = "live" /\ sessions' = [sessions EXCEPT ![s] = k]
    BY <1>4 DEF SetSessionMfaState, lifted
  <2>2. s \in Sessions => k.state = "live" /\ k.user = sessions[s].user
    BY <2>1 DEF TypeOK, Session, NoSession, GoneSession
  <2> HIDE DEF k, s
  <2>3. \A r \in Sessions : sessions'[r] = IF r = s THEN k ELSE sessions[r]
    BY <2>1 DEF TypeOK
  <2>4. SessionsStay
    BY <2>1, <2>2, <2>3 DEF SessionsStay
  <2>. QED
    BY <1>1, <2>4, ContinuedReturn
<1>. QED
  BY <1>2, <1>3, <1>4

LEMMA DestroyContinued ==
    ASSUME Enrolling, NEW c \in Calls, DestroySessions(c) \/ DeleteUserCommit(c)
    PROVE  Continued
<1>0. TypeOK
  BY DEF Enrolling
<1>1. PICK ids : sessions' = gone(ids)
  BY DEF DestroySessions, DeleteUserCommit
<1>2. SessionsStay
  BY <1>1, GoneSessions DEF SessionsStay, SessionsKept
<1>3. AddressesStay
  <2>1. CASE DestroySessions(c)
    BY <2>1 DEF DestroySessions, AddressesStay
  <2>2. CASE DeleteUserCommit(c)
    <3> DEFINE row == [NoUser EXCEPT !.state = "gone"]
    <3>1. row.state = "gone"
      BY DEF NoUser
    <3>2. users' = [users EXCEPT ![calls[c].user] = row]
      BY <2>2 DEF DeleteUserCommit
    <3> HIDE DEF row
    <3>. QED
      BY <1>0, <3>1, <3>2, AddressStays
  <2>. QED
    BY <2>1, <2>2
<1>4. goesOn(c, "announce") \/ returns(c)
  BY DEF DestroySessions, DeleteUserCommit
<1>5. calls[c].next \in {"destroy", "deleteCommit"}
  BY DEF DestroySessions, DeleteUserCommit, at
<1>. QED
  BY <1>0, <1>2, <1>3, <1>4, <1>5, ContinuedOn, ContinuedReturn DEF AddressSteps

-----------------------------------------------------------------------------
(* The steps that take a session, or find the account of its address.       *)

\* The step of c starts with a session, or has its account.
LEMMA OwnCall ==
    ASSUME Enrolling, Enrolling', CallsOwn, NEW c \in Calls, NEW k, goes(c, k),
           UNCHANGED <<sessions, users>>, own(k, sessions, users)
    PROVE  CallsOwn'
<1>1. calls'[c] = k /\ \A d \in Calls \ {c} : calls'[d] = calls[d]
  BY Goes DEF Enrolling
<1>. QED
  BY <1>1 DEF CallsOwn

LEMMA SessionCallOwn ==
    ASSUME Enrolling, Enrolling', CallsOwn, NEW c \in Calls, NEW s \in Sessions,
           \/ MfaSetup(c, s) \/ MfaSetupVerify(c, s) \/ MfaVerify(c, s)
           \/ RegisterOptions(c, s) \/ RegisterVerify(c, s) \/ Disable(c, s)
           \/ ChangePassword(c, s) \/ UserDelete(c, s)
    PROVE  CallsOwn'
<1>1. ASSUME NEW mfaState, NEW step, sessionCall(c, s, mfaState, step),
             step # "findCredential", step \notin AddressSteps
      PROVE  CallsOwn'
  <2> DEFINE k == [Idle EXCEPT !.next = step, !.user = sessions[s].user, !.session = s]
  <2>1. k.next = step /\ k.user = sessions[s].user /\ k.session = s
    BY DEF Idle
  <2>2. /\ goes(c, k) /\ UNCHANGED <<sessions, users>> /\ sessions[s].state = "live"
    BY <1>1 DEF sessionCall, getSessionByToken, rows
  <2>3. sessions[s].user # None
    BY <2>2, AccountsAssumption DEF Enrolling, TypeOK, Session, NoSession, GoneSession
  <2> HIDE DEF k
  <2>4. own(k, sessions, users)
    BY <1>1, <2>1, <2>2, <2>3 DEF own
  <2>. QED
    BY <2>2, <2>4, OwnCall
<1>2. ASSUME NEW p, NEW step \in AddressSteps, accountCall(c, s, step, p)
      PROVE  CallsOwn'
  <2> DEFINE k == [Idle EXCEPT !.next = step, !.session = s, !.password = p,
                               !.email = users[sessions[s].user].email]
  <2>1. k.next = step /\ k.user = None /\ k.session = s /\ k.email = users[sessions[s].user].email
    BY DEF Idle
  <2>2. /\ goes(c, k) /\ UNCHANGED <<sessions, users>> /\ sessions[s].state = "live"
    BY <1>2 DEF accountCall, getSessionByToken, rows
  <2> HIDE DEF k
  <2>3. own(k, sessions, users)
    BY <1>2, <2>1, <2>2 DEF own, AddressSteps
  <2>. QED
    BY <2>2, <2>3, OwnCall
<1>3. CASE \/ MfaSetup(c, s) \/ MfaSetupVerify(c, s) \/ MfaVerify(c, s)
           \/ RegisterOptions(c, s) \/ RegisterVerify(c, s) \/ Disable(c, s)
  BY <1>1, <1>3 DEF MfaSetup, MfaSetupVerify, MfaVerify, RegisterOptions, RegisterVerify, Disable,
     AddressSteps
<1>4. CASE ChangePassword(c, s) \/ UserDelete(c, s)
  BY <1>2, <1>4 DEF ChangePassword, UserDelete, AddressSteps
<1>. QED
  BY <1>3, <1>4

\* The account found by the address is that of the session: the address has one.
LEMMA FindUserOwn ==
    ASSUME Enrolling, Enrolling', CallsOwn, NEW c \in Calls,
           FindUser(c, "findUser", "save") \/ FindUser(c, "findDeleted", "lock")
    PROVE  CallsOwn'
<1>0. calls[c] \in Call /\ own(calls[c], sessions, users) /\ TypeOK
  BY DEF Enrolling, TypeOK, CallsOwn
<1>1. UNCHANGED <<sessions, users>> /\ calls[c].next \in AddressSteps
  BY DEF FindUser, rows, at, AddressSteps
<1>2. PICK u : u = getUserByEmail(calls[c].email)
  OBVIOUS
<1>3. CASE u = None
  <2>1. Continued
    BY <1>0, <1>1, <1>2, <1>3, SameTables, ContinuedReturn DEF FindUser
  <2>. QED
    BY <2>1, ContinuedOwn
<1>4. CASE u # None
  <2>1. PICK to \in {"save", "lock"} : goes(c, [calls[c] EXCEPT !.next = to, !.user = u])
    BY <1>2, <1>4 DEF FindUser
  <2> DEFINE k == [calls[c] EXCEPT !.next = to, !.user = u]
             s == calls[c].session
  <2>2. k.next = to /\ k.user = u /\ k.session = s
    BY <1>0 DEF Call
  <2>3. u \in Users /\ hasEmail(u, calls[c].email)
    BY <1>2, <1>4, UserByEmail
  <2>4. ASSUME s # None, sessions[s].state = "live" PROVE u = sessions[s].user
    <3>1. s \in Sessions
      BY <1>0, <2>4 DEF Call
    <3>2. sessions[s].user \in Users /\ live(sessions[s].user)
      BY <2>4, <3>1
      DEF Enrolling, RowsKnown, SatisfiedEnrolled, TypeOK, Session, NoSession, GoneSession
    <3>3. users[sessions[s].user].email = calls[c].email
      BY <1>0, <1>1, <2>4 DEF own
    <3>. QED
      BY <2>3, <3>2, <3>3 DEF Enrolling, RowsKnown, OneAccountPerEmail, hasEmail
  <2>5. s # None => sessions[s].state # "new"
    BY <1>0 DEF own
  <2> HIDE DEF k, s
  <2>6. own(k, sessions, users)
    BY <1>4, <2>2, <2>4, <2>5 DEF own, AddressSteps
  <2>. QED
    BY <1>1, <2>1, <2>6, OwnCall DEF k
<1>. QED
  BY <1>3, <1>4

LEMMA InitOwn == Init => CallsOwn
    BY DEF Init, CallsOwn, own, Idle

LEMMA NextOwn == Enrolling /\ Enrolling' /\ CallsOwn /\ [Next]_vars => CallsOwn'
<1> SUFFICES ASSUME Enrolling, Enrolling', CallsOwn, [Next]_vars PROVE CallsOwn'
  OBVIOUS
<1>1. TypeOK
  BY DEF Enrolling
<1>2. \/ Continued
      \/ \E c \in Calls, s \in Sessions :
            \/ MfaSetup(c, s) \/ MfaSetupVerify(c, s) \/ MfaVerify(c, s)
            \/ RegisterOptions(c, s) \/ RegisterVerify(c, s) \/ Disable(c, s)
            \/ ChangePassword(c, s) \/ UserDelete(c, s)
      \/ \E c \in Calls : FindUser(c, "findUser", "save") \/ FindUser(c, "findDeleted", "lock")
  BY <1>1, SignupContinued, CheckContinued, PasskeyContinued, EndsContinued, TimeContinued,
     UserWritesContinued, FlagWritesContinued, PromoteContinued, SessionWritesContinued,
     DestroyContinued
  DEF Next
<1>. QED
  BY <1>2, ContinuedOwn, SessionCallOwn, FindUserOwn

\* While its session lives, a handler saves the password of, ends the sessions of, or deletes,
\* the account the session belongs to, though it finds the account by an address it read
\* before, and accounts are deleted and others signed up meanwhile.
THEOREM ActsOnOwn == Spec => []ActsOnOwnAccount
<1>1. Enrolling /\ [Next]_vars => Enrolling'
  BY NextEnrolling
<1>2. CallsOwn => ActsOnOwnAccount
  BY DEF CallsOwn, own, ActsOnOwnAccount
<1>. QED
  BY <1>1, <1>2, InitOwn, NextOwn, InvariantEnrolling, PTL DEF Spec

=============================================================================
