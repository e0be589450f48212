---------------------------- MODULE Certificates ----------------------------
(***************************************************************************)
(* The challenges by which a node proves that it holds its name            *)
(* (modules/node/acme.js, and present, cleanup and cleanupAll of           *)
(* services/domain_service.js): a TXT record and a row each, a limit per   *)
(* week, and a probe some time after a cleanup.  What Domains says of      *)
(* claims and removals is here one node whose name and row come and go.    *)
(***************************************************************************)
EXTENDS Naturals, FiniteSets

CONSTANTS
    Domain,                 \* names the node may hold
    ChallengeRows,          \* row ids: free again once no handler holds them
    AcmeCalls,              \* handlers in flight
    IssuanceLimit,          \* ISSUANCE_LIMIT
    NoName

ASSUME CertificatesAssumption ==
    IssuanceLimit \in Nat \ {0} /\ NoName \notin Domain /\ IsFiniteSet(AcmeCalls)

VARIABLES
    nodeRow,                \* whether the node has a row
    heldName,               \* the name of its cluster
    acmeChallenges,         \* the table of AcmeChallenge: the name of a challenge
    recent,                 \* challenges created in the last week
    pendingReprobe,         \* the timer of scheduleReprobe
    acmeCalls

certificateVars == <<nodeRow, heldName, acmeChallenges, recent, pendingReprobe, acmeCalls>>
certificateTables == <<nodeRow, heldName, acmeChallenges, recent>>

AcmeCall ==
    [next : {"idle", "count", "create", "find", "findAll", "destroy", "deleteRow"},
     then : {"idle", "deleteRow"}, name : Domain \cup {NoName}, rows : SUBSET ChallengeRows]
NoCall == [next |-> "idle", then |-> "idle", name |-> NoName, rows |-> {}]

CertificatesInit ==
    /\ nodeRow = TRUE /\ heldName = NoName
    /\ acmeChallenges = [r \in ChallengeRows |-> NoName] /\ recent = {}
    /\ pendingReprobe = FALSE
    /\ acmeCalls = [c \in AcmeCalls |-> NoCall]

acmeAt(c, step) == acmeCalls[c].next = step
acmeGoes(c, call) == acmeCalls' = [acmeCalls EXCEPT ![c] = call]
challengesOf(f) == {r \in ChallengeRows : acmeChallenges[r] = f}
isFree(r) == acmeChallenges[r] = NoName /\ \A c \in AcmeCalls : r \notin acmeCalls[c].rows

\* The name and the row change hands elsewhere.
Claimed ==
    /\ nodeRow' = TRUE /\ heldName' \in Domain
    /\ UNCHANGED <<acmeChallenges, recent, pendingReprobe, acmeCalls>>

\* authorize: only names of the cluster the node is a member of.
Authorize(c, step) ==
    \E f \in Domain :
        /\ acmeAt(c, "idle") /\ heldName = f
        /\ acmeGoes(c, [NoCall EXCEPT !.next = step, !.name = f])
        /\ UNCHANGED <<certificateTables, pendingReprobe>>

AcmePresent(c) == Authorize(c, "count")
AcmeCleanup(c) == Authorize(c, "find")

\* Mutant: one too many.
tooManyButOne == Cardinality(recent) > IssuanceLimit

tooMany == Cardinality(recent) >= IssuanceLimit

CountRecent(c) ==
    /\ acmeAt(c, "count")
    /\ acmeGoes(c, IF tooMany THEN NoCall ELSE [acmeCalls[c] EXCEPT !.next = "create"])
    /\ UNCHANGED <<certificateTables, pendingReprobe>>

\* The TXT record and then the row, if the node still has one itself.
Present(c) ==
    /\ acmeAt(c, "create")
    /\ IF ~nodeRow THEN UNCHANGED <<acmeChallenges, recent>>
       ELSE \E r \in ChallengeRows :
            /\ isFree(r)
            /\ acmeChallenges' = [acmeChallenges EXCEPT ![r] = acmeCalls[c].name]
            /\ recent' = recent \cup {r}
    /\ acmeGoes(c, NoCall)
    /\ UNCHANGED <<nodeRow, heldName, pendingReprobe>>

\* Those of the name that have the value the node gives.
FindChallenges(c) ==
    /\ acmeAt(c, "find")
    /\ \E found \in SUBSET challengesOf(acmeCalls[c].name) :
        acmeGoes(c, [acmeCalls[c] EXCEPT !.next = "destroy", !.rows = found])
    /\ UNCHANGED <<certificateTables, pendingReprobe>>

FindAll(c) ==
    /\ acmeAt(c, "findAll")
    /\ acmeGoes(c, [acmeCalls[c] EXCEPT !.next = "destroy",
                        !.rows = ChallengeRows \ challengesOf(NoName)])
    /\ UNCHANGED <<certificateTables, pendingReprobe>>

\* The challenges found go one by one, wherever they may be gone already.
RemoveChallenge(c) ==
    /\ acmeAt(c, "destroy")
    /\ \E r \in acmeCalls[c].rows :
        /\ acmeChallenges' = [acmeChallenges EXCEPT ![r] = NoName]
        /\ recent' = recent \ {r}
        /\ acmeGoes(c, [acmeCalls[c] EXCEPT !.rows = @ \ {r}])
    /\ UNCHANGED <<nodeRow, heldName, pendingReprobe>>

\* A cleanup ends with the timer, started anew if it is running.
CleanedUp(c) ==
    /\ acmeAt(c, "destroy") /\ acmeCalls[c].rows = {}
    /\ IF acmeCalls[c].then = "idle"
       THEN pendingReprobe' = TRUE /\ acmeGoes(c, NoCall)
       ELSE UNCHANGED pendingReprobe /\ acmeGoes(c, [NoCall EXCEPT !.next = acmeCalls[c].then])
    /\ UNCHANGED certificateTables

\* release: the name goes, then all challenges; the node's row follows with what was added since.
ReleaseName(c) ==
    /\ acmeAt(c, "idle") /\ heldName # NoName
    /\ heldName' = NoName
    /\ acmeGoes(c, [NoCall EXCEPT !.next = "findAll", !.then = "deleteRow"])
    /\ UNCHANGED <<nodeRow, acmeChallenges, recent, pendingReprobe>>

DeleteNodeRow(c) ==
    /\ acmeAt(c, "deleteRow")
    /\ nodeRow' = FALSE /\ heldName' = NoName
    /\ acmeChallenges' = [r \in ChallengeRows |-> NoName] /\ recent' = {}
    /\ acmeGoes(c, NoCall)
    /\ UNCHANGED pendingReprobe

\* A minute after the last cleanup, the reprobe that Domains has.
ReprobeFires ==
    /\ pendingReprobe /\ pendingReprobe' = FALSE
    /\ UNCHANGED <<certificateTables, acmeCalls>>

WeekPasses ==
    /\ \E r \in recent : recent' = recent \ {r}
    /\ UNCHANGED <<nodeRow, heldName, acmeChallenges, pendingReprobe, acmeCalls>>

CertificatesRestart ==
    /\ acmeCalls' = [c \in AcmeCalls |-> NoCall] /\ pendingReprobe' = FALSE
    /\ UNCHANGED certificateTables

CertificatesNext ==
    \/ Claimed \/ ReprobeFires \/ WeekPasses \/ CertificatesRestart
    \/ \E c \in AcmeCalls :
        \/ AcmePresent(c) \/ AcmeCleanup(c) \/ CountRecent(c) \/ Present(c) \/ FindChallenges(c)
        \/ FindAll(c) \/ RemoveChallenge(c) \/ CleanedUp(c) \/ ReleaseName(c) \/ DeleteNodeRow(c)

CertificatesSpec == CertificatesInit /\ [][CertificatesNext]_certificateVars

-----------------------------------------------------------------------------
\* Presents count and create in separate statements, and only challenges that exist are
\* counted: still a node has never more of one week than the limit allows and the handlers in
\* flight may add (domain_service.js:378-389).
IssuanceBounded ==
    /\ \A r \in recent : acmeChallenges[r] # NoName
    /\ Cardinality(recent) < IssuanceLimit + Cardinality(AcmeCalls)
=============================================================================
