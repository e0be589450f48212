---------------------------- MODULE NodeNotices ----------------------------
(***************************************************************************)
(* What members of a node are told by Web Push: updates that are waiting   *)
(* and pools that change their state (notifyUpdatesAvailable and           *)
(* notifyStorageHealth in modules/node/index.js), by subscriptions that    *)
(* browsers save and push services refuse (services/push.js,               *)
(* controllers/push.js).  What the members were last told about is kept in *)
(* a row, written before they are told; handlers of one node overlap.      *)
(*                                                                         *)
(* An item of news is an update, or a pool with its state: online, or one  *)
(* of the states that are not.                                             *)
(***************************************************************************)
EXTENDS Naturals, FiniteSets

CONSTANTS
    SystemUpdates, AppUpdates, Pools,
    Watchers,               \* the members of the node
    Endpoints,              \* browsers that may subscribe
    NoticeCalls,            \* handlers in flight
    Nobody                  \* no user

PoolStates == {"online", "faulted"}
Updates == SystemUpdates \cup AppUpdates
News == Updates \cup (Pools \X PoolStates)
Kinds == {"updates", "storage"}

VARIABLES
    signatures,             \* lastUpdateSignature and lastStorageSignature of the node's row
    watching,               \* users with the fleet open
    subscriptions,          \* the table of PushSubscription: the user of an endpoint
    notices,                \* handlers in flight
    told                    \* history: news that was pushed to whoever was there to be told, or
                            \* whose handler failed once it had written the row

noticeVars == <<signatures, watching, subscriptions, notices, told>>

NoticeCall ==
    [next : {"idle", "store", "members", "list", "send", "prune"},
     kind : Kinds, previous : SUBSET News, current : SUBSET News,
     users : SUBSET Watchers, endpoints : SUBSET Endpoints]
NoNotice ==
    [next |-> "idle", kind |-> "updates", previous |-> {}, current |-> {}, users |-> {},
     endpoints |-> {}]

NoticesInit ==
    /\ signatures = [k \in Kinds |-> {}]
    /\ watching = {}
    /\ subscriptions = [e \in Endpoints |-> Nobody]
    /\ notices = [c \in NoticeCalls |-> NoNotice]
    /\ told = {}

noticeAt(c, step) == notices[c].next = step
becomes(c, call) == notices' = [notices EXCEPT ![c] = call]
ends(c) == becomes(c, NoNotice)

\* updateKeys: a side the node does not know yet keeps what was last known of it.
updateKeys(system, apps, previous) ==
    (IF system = Nobody THEN previous \cap SystemUpdates ELSE system)
        \cup (IF apps = Nobody THEN previous \cap AppUpdates ELSE apps)

\* A handler starts: it reads the signature, or nothing if that fails, and compares what the node
\* reports with it.
NodeUpdates(c) ==
    \E system \in (SUBSET SystemUpdates) \cup {Nobody},
       apps \in (SUBSET AppUpdates) \cup {Nobody},
       previous \in {signatures["updates"], {}} :
        /\ noticeAt(c, "idle")
        /\ becomes(c, [NoNotice EXCEPT !.next = "store", !.previous = previous,
                          !.current = updateKeys(system, apps, previous)])
        /\ UNCHANGED <<signatures, watching, subscriptions, told>>

\* Each pool in one state, or not reported.
NodeStorage(c) ==
    \E pools \in SUBSET Pools : \E state \in [pools -> PoolStates] :
        LET current == {<<p, state[p]>> : p \in pools}
        IN  /\ noticeAt(c, "idle") /\ current # signatures["storage"]
            /\ becomes(c, [NoNotice EXCEPT !.next = "store", !.kind = "storage",
                              !.previous = signatures["storage"], !.current = current])
            /\ UNCHANGED <<signatures, watching, subscriptions, told>>

\* Mutant: a count instead of a list.
moreThan(current, previous) == Cardinality(current) > Cardinality(previous)

\* Something that was not waiting before.
isNews(current, previous) == \E k \in current : k \notin previous

\* A pool in another state than before, unless it is online and was not known to be otherwise.
hasChanges(current, previous) ==
    \E k \in current \ previous :
        k[2] = "online" => \E before \in previous : before[1] = k[1]

StoreSignature(c) ==
    LET call == notices[c]
        news == IF call.kind = "updates" THEN isNews(call.current, call.previous)
                ELSE hasChanges(call.current, call.previous)
    IN  /\ noticeAt(c, "store")
        /\ signatures' = [signatures EXCEPT ![call.kind] = call.current]
        /\ IF news THEN becomes(c, [call EXCEPT !.next = "members", !.previous = {}]) ELSE ends(c)
        /\ UNCHANGED <<watching, subscriptions, told>>

\* Updates are no news to a member who has the fleet open; a pool is.
FindRecipients(c) ==
    LET call == notices[c]
        users == IF call.kind = "updates" THEN Watchers \ watching ELSE Watchers
    IN  /\ noticeAt(c, "members")
        /\ IF users = {} THEN ends(c) /\ told' = told \cup call.current
           ELSE UNCHANGED told /\ becomes(c, [call EXCEPT !.next = "list", !.users = users])
        /\ UNCHANGED <<signatures, watching, subscriptions>>

ListSubscriptions(c) ==
    LET call == notices[c]
    IN  /\ noticeAt(c, "list")
        /\ becomes(c, [call EXCEPT !.next = "send", !.users = {},
                          !.endpoints = {e \in Endpoints : subscriptions[e] \in call.users}])
        /\ UNCHANGED <<signatures, watching, subscriptions, told>>

\* All are sent at once; some push services answer that the subscription is gone.
SendNotifications(c) ==
    /\ noticeAt(c, "send")
    /\ told' = told \cup notices[c].current
    /\ \E gone \in SUBSET notices[c].endpoints :
        becomes(c, [NoNotice EXCEPT !.next = IF gone = {} THEN "idle" ELSE "prune",
                                    !.endpoints = gone])
    /\ UNCHANGED <<signatures, watching, subscriptions>>

\* The subscription goes by its endpoint, whoever has saved it anew meanwhile.
DeletePushSubscription(c) ==
    LET rest(e) == notices[c].endpoints \ {e}
    IN  /\ noticeAt(c, "prune")
        /\ \E e \in notices[c].endpoints :
            /\ subscriptions' = [subscriptions EXCEPT ![e] = Nobody]
            /\ IF rest(e) = {} THEN ends(c)
               ELSE becomes(c, [notices[c] EXCEPT !.endpoints = rest(e)])
        /\ UNCHANGED <<signatures, watching, told>>

unsent(call) == IF call.next \in {"members", "list", "send"} THEN call.current ELSE {}

\* A query fails before anything was sent.
NoticeFails(c) ==
    /\ notices[c].next \in {"members", "list"}
    /\ told' = told \cup unsent(notices[c])
    /\ ends(c)
    /\ UNCHANGED <<signatures, watching, subscriptions>>

-----------------------------------------------------------------------------
(* The members.                                                             *)

\* A browser subscribes, with the endpoint it had or for the first time.
EnablePush ==
    /\ \E u \in Watchers, e \in Endpoints : subscriptions' = [subscriptions EXCEPT ![e] = u]
    /\ UNCHANGED <<signatures, watching, notices, told>>

\* A user turns notifications off, for all browsers.
DisablePush ==
    /\ \E u \in Watchers : subscriptions' =
            [e \in Endpoints |-> IF subscriptions[e] = u THEN Nobody ELSE subscriptions[e]]
    /\ UNCHANGED <<signatures, watching, notices, told>>

OpenOrClose ==
    /\ \E u \in Watchers : watching' = IF u \in watching THEN watching \ {u} ELSE watching \cup {u}
    /\ UNCHANGED <<signatures, subscriptions, notices, told>>

NoticesRestart ==
    /\ told' = told \cup UNION {unsent(notices[c]) : c \in NoticeCalls}
    /\ notices' = [c \in NoticeCalls |-> NoNotice] /\ watching' = {}
    /\ UNCHANGED <<signatures, subscriptions>>

NoticesNext ==
    \/ OpenOrClose \/ EnablePush \/ DisablePush \/ NoticesRestart
    \/ \E c \in NoticeCalls :
        \/ NodeUpdates(c) \/ NodeStorage(c) \/ StoreSignature(c) \/ FindRecipients(c)
        \/ ListSubscriptions(c) \/ SendNotifications(c) \/ DeletePushSubscription(c)
        \/ NoticeFails(c)

NoticesSpec == NoticesInit /\ [][NoticesNext]_noticeVars

-----------------------------------------------------------------------------
\* Silence is never a mistake: what the row says members were told about, a pool that is not
\* online or an update, they were told, or are about to be, or the handler failed once it had
\* written the row; overlapping reports do not make news pass for known: modules/node/index.js:495-526, 547-583.
NewsTold ==
    \A k \in signatures["updates"] \cup {s \in signatures["storage"] : s[2] # "online"} :
        k \in told \cup UNION {unsent(notices[c]) : c \in NoticeCalls}
=============================================================================
