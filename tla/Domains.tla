------------------------------ MODULE Domains ------------------------------
(***************************************************************************)
(* Names of clusters and the nodes that share them:                        *)
(* services/domain_service.js, called by modules/node/domain.js and        *)
(* register.js, by the timer acme.js sets, and by the removal of a node    *)
(* and of an account.  A handler awaits the database, the DNS service or a *)
(* probe between any two of its statements; queries that only read are     *)
(* joined with the statement that uses them.  Certificates has the rest.   *)
(*                                                                         *)
(* A name is a member of Names: that of a cluster, which stands for those  *)
(* of the nodes under it.  A records are left out: of what the DNS service *)
(* holds, the module keeps only whether a cluster is meant to be reached   *)
(* from outside (its target).                                              *)
(***************************************************************************)
EXTENDS Naturals, FiniteSets

CONSTANTS
    Users, Nodes, Names,
    Clusters,               \* row ids: free again once no handler holds them
    Calls,                  \* handlers in flight
    MaxDeleted,             \* bound: accounts gone before another deletion starts
    None                    \* null

VARIABLES
    users,                  \* the accounts that exist
    nodes,                  \* ownerUserId of a node, None if it has no row
    clusters,               \* the table of Cluster
    members,                \* the table of ClusterMember: the cluster of a node
    moved,                  \* history: nodes registered while a claim of theirs was in flight
    calls

tables == <<users, nodes, clusters, members>>
vars == <<tables, moved, calls>>

Cluster == [fqdn : Names, owner : Users \cup {None}, target : {"lan", "public"}]

ASSUME DomainsAssumption == None \notin Users \cup Nodes \cup Names \cup Clusters \cup Cluster

ClaimSteps == {"find", "available", "probe", "join"}

\* What a handler holds across its awaits: the membership it read (`old`, and in `held` whether
\* that row still exists), the cluster it found (`into`) with its target as it was (`seen`);
\* `then` is what follows once it has left its cluster.
Call ==
    [next : ClaimSteps \cup {"idle", "leave", "count", "destroy", "sync", "saveSync", "saveReprobe",
                             "release", "deleteNode", "owned", "deleteUser"},
     then : {"idle", "probe", "release"},
     node : Nodes \cup {None}, user : Users \cup {None}, name : Names \cup {None},
     old : Clusters \cup {None}, held : BOOLEAN, joined : BOOLEAN,
     into : Clusters \cup {None}, seen : {"none", "lan", "public"},
     todo : SUBSET Nodes]
Idle ==
    [next |-> "idle", then |-> "idle", node |-> None, user |-> None, name |-> None,
     old |-> None, held |-> FALSE, joined |-> FALSE, into |-> None, seen |-> "none",
     todo |-> {}]

Init ==
    /\ users = Users
    /\ nodes = [n \in Nodes |-> None]
    /\ clusters = [k \in Clusters |-> None]
    /\ members = [n \in Nodes |-> None]
    /\ moved = {}
    /\ calls = [c \in Calls |-> Idle]

at(c, step) == calls[c].next = step
goes(c, call) == calls' = [calls EXCEPT ![c] = call]
goesOn(c, step) == goes(c, [calls[c] EXCEPT !.next = step])
returns(c) == goes(c, Idle)
starts(c, call) ==
    at(c, "idle") /\ goes(c, call) /\ UNCHANGED <<tables, moved>>

live(k) == k # None /\ clusters[k] # None
named(f) == {k \in Clusters : clusters[k] # None /\ clusters[k].fqdn = f}
clusterNamed(f) == IF named(f) = {} THEN None ELSE CHOOSE k \in named(f) : TRUE
targetOf(k) == IF live(k) THEN clusters[k].target ELSE "none"

unusedCluster(k) == clusters[k] = None /\ \A c \in Calls : k \notin {calls[c].old, calls[c].into}

\* The memberships of the nodes ns go, here or by a cascade: c goes on with call, and the others
\* hold a row that is no more.
membersLeave(ns, c, call) ==
    /\ members' = [n \in Nodes |-> IF n \in ns THEN None ELSE members[n]]
    /\ calls' = [d \in Calls |->
                    LET after == IF d = c THEN call ELSE calls[d]
                    IN  IF after.node \in ns THEN [after EXCEPT !.held = FALSE] ELSE after]

clustersGo(ks) == clusters' = [k \in Clusters |-> IF k \in ks THEN None ELSE clusters[k]]
membersOf(ks) == {n \in Nodes : members[n] \in ks}

claiming(c, n) ==
    calls[c].node = n /\ (calls[c].next \in ClaimSteps \/ calls[c].then = "probe")

nodesGo(ns) ==
    /\ nodes' = [n \in Nodes |-> IF n \in ns THEN None ELSE nodes[n]]
    /\ moved' = moved \ ns

-----------------------------------------------------------------------------
(* Claiming a name.                                                         *)

\* upsertNode; the claim of the same handler is NodeDomainClaim.
Register ==
    \E u \in users, n \in Nodes :
        /\ nodes[n] = None
        /\ nodes' = [nodes EXCEPT ![n] = u]
        /\ moved' = moved \cup {m \in {n} : \E c \in Calls : claiming(c, m)}
        /\ UNCHANGED <<users, clusters, members, calls>>

\* A node claims a name that lies under the zone: its membership is read.  Its socket outlives its
\* row until it is disconnected: nothing asks here whether there is one.
NodeDomainClaim(c) ==
    \E n \in Nodes, f \in Names :
        LET k == members[n]
        IN  starts(c, [Idle EXCEPT !.next = "find", !.node = n, !.name = f, !.old = k,
                       !.held = k # None, !.joined = k # None /\ clusters[k].fqdn = f])

FindCluster(c) ==
    LET k == clusterNamed(calls[c].name)
    IN  /\ at(c, "find")
        /\ goes(c, [calls[c] EXCEPT !.next = IF calls[c].joined THEN "probe" ELSE "available",
                                    !.into = k, !.seen = targetOf(k)])
        /\ UNCHANGED <<tables, moved>>

\* Mutant: whoever asks.
isAvailableToAll(k, n) == TRUE

\* A name nobody holds, or one of the owner of the node.
isAvailable(k, n) == k = None \/ (nodes[n] # None /\ nodes[n] = clusters[k].owner)

\* A node may have the very name of the cluster (apex), but cannot take that of an existing one.
Available(c) ==
    /\ at(c, "available")
    /\ \E apex \in BOOLEAN :
        IF ~isAvailable(clusterNamed(calls[c].name), calls[c].node) \/ (apex /\ calls[c].into # None)
        THEN returns(c)
        ELSE goes(c, [calls[c] EXCEPT !.next = IF calls[c].old = None THEN "probe" ELSE "leave",
                                      !.then = IF calls[c].old = None THEN "idle" ELSE "probe"])
    /\ UNCHANGED <<tables, moved>>

\* leaveCluster: the membership, then the cluster if that was the last one.
LeaveMembership(c) ==
    LET call == [calls[c] EXCEPT !.next = "count"]
    IN  /\ at(c, "leave")
        /\ membersLeave(IF calls[c].held THEN {calls[c].node} ELSE {}, c, call)
        /\ UNCHANGED <<users, nodes, clusters, moved>>

\* Where a handler goes once it has left.
left(c) ==
    [calls[c] EXCEPT !.next = calls[c].then, !.then = "idle", !.old = None, !.held = FALSE,
                     !.node = IF calls[c].user = None THEN @ ELSE None]

LeaveCount(c) ==
    /\ at(c, "count")
    /\ goes(c, IF membersOf({calls[c].old}) = {} THEN [calls[c] EXCEPT !.next = "destroy"] ELSE left(c))
    /\ UNCHANGED <<tables, moved>>

LeaveDestroy(c) ==
    /\ at(c, "destroy")
    /\ clustersGo({calls[c].old})
    /\ membersLeave(membersOf({calls[c].old}), c, left(c))
    /\ UNCHANGED <<users, nodes, moved>>

\* Mutant: the row is written as it was read.
savesRow(k, seen, target) ==
    clusters' = IF live(k) THEN [clusters EXCEPT ![k].target = target] ELSE clusters

\* save() writes the columns that differ from what was read, if the row still exists.
saves(k, seen, target) ==
    clusters' = IF live(k) /\ target # seen
                THEN [clusters EXCEPT ![k].target = target] ELSE clusters

joining(c, k) ==
    [Idle EXCEPT !.next = "join", !.node = calls[c].node, !.joined = calls[c].joined, !.into = k]

\* The probe, then the cluster is created, without an owner if the node has no row, or saved with a target that is never taken back.
ProbeAndSave(c) ==
    LET call == calls[c]
    IN  /\ at(c, "probe")
        /\ \E probed \in {"lan", "public"} :
            IF call.into # None
            THEN /\ saves(call.into, call.seen, IF call.seen = "public" THEN "public" ELSE probed)
                 /\ goes(c, joining(c, call.into))
            ELSE IF clusterNamed(call.name) # None
            THEN UNCHANGED clusters /\ returns(c)
            ELSE \E k \in Clusters :
                 /\ unusedCluster(k)
                 /\ clusters' = [clusters EXCEPT ![k] =
                        [fqdn |-> call.name, owner |-> nodes[call.node], target |-> probed]]
                 /\ goes(c, joining(c, k))
        /\ UNCHANGED <<users, nodes, members, moved>>

\* Mutant: the cluster is not referenced.
canJoinAnything(n, k) == nodes[n] # None /\ members[n] = None

\* One membership per node, and neither its node nor its cluster may be gone.
canJoin(n, k) == nodes[n] # None /\ members[n] = None /\ live(k)

Join(c) ==
    LET call == calls[c]
        joins == ~call.joined /\ canJoin(call.node, call.into)
    IN  /\ at(c, "join")
        /\ members' = IF joins THEN [members EXCEPT ![call.node] = call.into] ELSE members
        /\ IF joins \/ call.joined
           THEN goes(c, [Idle EXCEPT !.next = "sync", !.node = call.node])
           ELSE returns(c)
        /\ UNCHANGED <<users, nodes, clusters, moved>>

\* syncRecords: the cluster is saved when its records are in place, or not at all if that fails.
SyncRead(c) ==
    LET k == members[calls[c].node]
    IN  /\ at(c, "sync")
        /\ IF k = None THEN returns(c)
           ELSE goes(c, [calls[c] EXCEPT !.next = "saveSync", !.into = k, !.seen = targetOf(k)])
        /\ UNCHANGED <<tables, moved>>

SyncRecords(c) ==
    /\ at(c, "saveSync")
    /\ saves(calls[c].into, calls[c].seen, calls[c].seen) \/ UNCHANGED clusters
    /\ returns(c)
    /\ UNCHANGED <<users, nodes, members, moved>>

-----------------------------------------------------------------------------
(* Probing again, a minute after a certificate.                             *)

\* The timer of any node that once cleaned up after a certificate: here, of any at any time.
ScheduledReprobe(c) ==
    \E n \in Nodes :
        LET k == members[n]
        IN  /\ k # None /\ targetOf(k) # "public"
            /\ starts(c, [Idle EXCEPT !.next = "saveReprobe", !.node = n,
                                      !.into = k, !.seen = targetOf(k)])

Reprobe(c) ==
    LET call == calls[c]
    IN  /\ at(c, "saveReprobe")
        /\ \/ UNCHANGED clusters /\ returns(c)
           \/ /\ saves(call.into, call.seen, "public")
              /\ goes(c, [Idle EXCEPT !.next = "sync", !.node = call.node])
        /\ UNCHANGED <<users, nodes, members, moved>>

-----------------------------------------------------------------------------
(* The removal of a node, and of an account with its nodes.                 *)

TeardownNode(c) ==
    \E n \in Nodes :
        /\ nodes[n] # None
        /\ starts(c, [Idle EXCEPT !.next = "release", !.node = n, !.todo = {n}])

UserDelete(c) ==
    \E u \in users :
        /\ Cardinality(Users \ users) < MaxDeleted
        /\ starts(c, [Idle EXCEPT !.next = "release", !.user = u,
                                  !.todo = {n \in Nodes : nodes[n] = u}])

Release(c) ==
    LET call == calls[c]
    IN  /\ at(c, "release")
        /\ \/ \E n \in call.todo :
               goes(c, IF members[n] = None THEN [call EXCEPT !.todo = @ \ {n}]
                       ELSE [call EXCEPT !.next = "leave", !.then = "release", !.node = n,
                                         !.old = members[n], !.held = TRUE, !.todo = @ \ {n}])
           \/ /\ call.todo = {}
              /\ goesOn(c, IF call.user = None THEN "deleteNode" ELSE "owned")
        /\ UNCHANGED <<tables, moved>>

DeleteNode(c) ==
    /\ at(c, "deleteNode")
    /\ nodesGo({calls[c].node})
    /\ membersLeave({calls[c].node}, c, Idle)
    /\ UNCHANGED <<users, clusters>>

ownedBy(u) == {k \in Clusters : clusters[k] # None /\ clusters[k].owner = u}

\* The clusters that remain of the owner, with the members they have by now.
ReleaseOwned(c) ==
    LET ks == ownedBy(calls[c].user)
    IN  /\ at(c, "owned")
        /\ clustersGo(ks)
        /\ membersLeave(membersOf(ks), c, [calls[c] EXCEPT !.next = "deleteUser"])
        /\ UNCHANGED <<users, nodes, moved>>

\* The account goes with its nodes, its clusters, and the members of both.
DeleteUser(c) ==
    LET u == calls[c].user
        ns == {n \in Nodes : nodes[n] = u}
    IN  /\ at(c, "deleteUser")
        /\ users' = users \ {u}
        /\ nodesGo(ns)
        /\ clustersGo(ownedBy(u))
        /\ membersLeave(ns \cup membersOf(ownedBy(u)), c, Idle)

\* The server restarts: handlers are lost where they stand.
Restart ==
    /\ calls' = [c \in Calls |-> Idle]
    /\ UNCHANGED <<tables, moved>>

Handler(c) ==
    \/ NodeDomainClaim(c) \/ FindCluster(c) \/ Available(c)
    \/ LeaveMembership(c) \/ LeaveCount(c) \/ LeaveDestroy(c) \/ ProbeAndSave(c) \/ Join(c)
    \/ SyncRead(c) \/ SyncRecords(c) \/ ScheduledReprobe(c) \/ Reprobe(c)
    \/ TeardownNode(c) \/ UserDelete(c) \/ Release(c) \/ DeleteNode(c) \/ ReleaseOwned(c)
    \/ DeleteUser(c)

Next == Register \/ Restart \/ \E c \in Calls : Handler(c)

Spec == Init /\ [][Next]_vars

-----------------------------------------------------------------------------
\* Every variable has its type, and the foreign keys and unique indexes of the tables hold.
TypeOK ==
    /\ users \subseteq Users
    /\ nodes \in [Nodes -> users \cup {None}]
    /\ clusters \in [Clusters -> Cluster \cup {None}]
    /\ members \in [Nodes -> Clusters \cup {None}]
    /\ moved \subseteq Nodes
    /\ calls \in [Calls -> Call]
    /\ \A n \in Nodes : members[n] # None => nodes[n] # None /\ live(members[n])
    /\ \A k, l \in Clusters : live(k) /\ live(l) /\ clusters[k].fqdn = clusters[l].fqdn => k = l
    /\ \A k \in Clusters : live(k) => clusters[k].owner \in users \cup {None}

\* A node only ever is a member of a cluster of its own owner, whatever claims, leaves and
\* deletions fall between the comparison of the owners and the membership: a claim that its node
\* had no row for creates a cluster that nobody owns, and a claim is joined by the node as it is by
\* then, so that a node registered under a claim in flight is the exception
\* (domain_service.js:154, 202, 212).
ClusterOfOwner ==
    \A n \in Nodes \ moved : members[n] # None => clusters[members[n]].owner = nodes[n]

\* No save of a handler that read the cluster earlier takes back what another has found out: a
\* cluster reachable from outside stays so for as long as it exists (domain_service.js:207).
PublicStays ==
    [][\A k \in Clusters : live(k) /\ clusters[k].target = "public" /\ clusters'[k] # None
            => clusters'[k].target = "public"]_vars
=============================================================================
