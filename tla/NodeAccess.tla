------------------------------ MODULE NodeAccess ------------------------------
(***************************************************************************)
(* Who may reach which node: accounts, nodes and their owners, direct      *)
(* grants, groups, their members and the nodes shared with them.  A call is *)
(* one run of a handler of modules/node/register.js, modules/node/proxy.js, *)
(* modules/group/* or modules/user/delete.js; it reads lists, awaits,       *)
(* changes rows of services/data_service.js, awaits, and then tears down    *)
(* the live sessions of whoever lost access (utils/node_proxy.js).          *)
(*                                                                          *)
(* A node stands for one registration of a nodeId, and is registered anew   *)
(* as another one.  A live session is a bridge of NodeProxy or a WebRTC     *)
(* session of WebrtcSignal; it is opened in one step with its access check, *)
(* and what can fall in between is the subject of those modules.            *)
(***************************************************************************)
EXTENDS Naturals, FiniteSets

CONSTANTS
    Users, Nodes, Groups,   \* row ids, used once
    Calls,                  \* handlers in flight
    None                    \* null

ASSUME AccessAssumption == None \notin Users \cup Nodes \cup Groups

VARIABLES
    accounts,               \* the users that exist
    nodes, groups,          \* the rows, with ownerUserId and createdByUserId
    grants,                 \* the table of NodeAccess: the role of a user on a node
    members,                \* the table of UserGroup: the role of a user in a group
    shares,                 \* the table of GroupNodeAccess: the nodes shared with a group
    bridged,                \* pairs of a user and a node with a live session
    missed,                 \* history: pairs whose loss of access no handler examines
    calls

tables == <<accounts, nodes, groups, grants, members, shares>>
vars == <<tables, bridged, missed, calls>>

Row == [state : {"new", "live", "gone"}, by : Users \cup {None}]
NewRow == [state |-> "new", by |-> None]
GoneRow == [state |-> "gone", by |-> None]
Pairs == Users \X Nodes

Steps ==
    {"idle", "grant", "revoke", "cutUser", "addUser", "listMembers", "listNodes", "removeUser",
     "deleteGroup", "unshare", "enforce", "enforceCut", "share", "collapse", "removeUsers",
     "clearUsers", "clearGroups", "destroyNode", "disconnect", "deleteAccount", "unregister"}

\* What a handler holds across its awaits: `then` follows the lists it reads, users and nodes;
\* `due` is a history: the pairs it was called to re-examine, as they were then and when it read.
Call ==
    [next : Steps, then : Steps, user : Users \cup {None}, node : Nodes \cup {None},
     group : Groups \cup {None}, role : {"none", "admin", "owner", "member", "manager"},
     users : SUBSET Users, nodes : SUBSET Nodes, due : SUBSET Pairs]
Idle ==
    [next |-> "idle", then |-> "idle", user |-> None, node |-> None, group |-> None,
     role |-> "none", users |-> {}, nodes |-> {}, due |-> {}]

Init ==
    /\ accounts = Users
    /\ nodes = [n \in Nodes |-> NewRow]
    /\ groups = [g \in Groups |-> NewRow]
    /\ grants = [u \in Users |-> [n \in Nodes |-> "none"]]
    /\ members = [g \in Groups |-> [u \in Users |-> "none"]]
    /\ shares = [g \in Groups |-> {}]
    /\ bridged = {} /\ missed = {}
    /\ calls = [c \in Calls |-> Idle]

at(c, step) == calls[c].next = step
goes(c, call) == calls' = [calls EXCEPT ![c] = call]
goesOn(c, step) == goes(c, [calls[c] EXCEPT !.next = step])
returns(c) == goes(c, Idle)

\* A handler starts; what it checks first cannot change while the rows it names exist.
starts(c, call) == at(c, "idle") /\ goes(c, call) /\ UNCHANGED <<tables, bridged, missed>>

liveNode(n) == n # None /\ nodes[n].state = "live"
liveGroup(g) == g # None /\ groups[g].state = "live"
isNodeOwner(u, n) == u \in accounts /\ liveNode(n) /\ nodes[n].by = u
isGroupManager(u, g) == u \in accounts /\ members[g][u] = "manager"

membersOf(g) == {u \in Users : members[g][u] # "none"}
through(g) == membersOf(g) \X shares[g]

\* canUserAccessNode, of the rows as they are or as a step leaves them.
accessBy(gr, me, sh) ==
    {p \in Pairs : gr[p[1]][p[2]] # "none" \/ \E g \in Groups : me[g][p[1]] # "none" /\ p[2] \in sh[g]}
access == accessBy(grants, members, shares)
lost == bridged \cap (access \ accessBy(grants', members', shares'))

-----------------------------------------------------------------------------
(* Registration, invitations, and the revoke of one user.                   *)

\* upsertNode creates the row, or finds that of the same owner; the grant follows.
Register(c) ==
    /\ at(c, "idle")
    /\ \E u \in accounts, n \in Nodes :
        /\ nodes[n].state = "new" \/ isNodeOwner(u, n)
        /\ nodes' = [nodes EXCEPT ![n] = [state |-> "live", by |-> u]]
        /\ goes(c, [Idle EXCEPT !.next = "grant", !.user = u, !.node = n, !.role = "owner"])
    /\ UNCHANGED <<accounts, groups, grants, members, shares, bridged, missed>>

Invite(c) ==
    \E by, u \in accounts, n \in Nodes :
        /\ isNodeOwner(by, n) /\ ~isNodeOwner(u, n) /\ <<u, n>> \notin access
        /\ starts(c, [Idle EXCEPT !.next = "grant", !.user = u, !.node = n, !.role = "admin"])

\* Mutant: the node is looked up, the user is not.
canGrantAnyone(u, n) == u # None /\ liveNode(n)

canGrant(u, n) == u \in accounts /\ liveNode(n)

\* addUser inserts the row or updates its role; without the user or the node it throws.
GrantNodeAccess(c) ==
    LET u == calls[c].user
        n == calls[c].node
    IN  /\ at(c, "grant")
        /\ grants' = IF canGrant(u, n)
                     THEN [grants EXCEPT ![u][n] = calls[c].role] ELSE grants
        /\ returns(c)
        /\ UNCHANGED <<accounts, nodes, groups, members, shares, bridged, missed>>

\* node:revoke by the owner or the user, and node:delete by a user who does not own the node.
Revoke(c) ==
    \E by, u \in accounts, n \in Nodes :
        /\ liveNode(n) /\ (isNodeOwner(by, n) \/ by = u)
        /\ starts(c, [Idle EXCEPT !.next = "revoke", !.user = u, !.node = n,
                                  !.due = {<<u, n>>}])

\* Mutant: the owner is not protected.
mayRevokeAny(u, n) == u \in accounts /\ liveNode(n)

mayRevoke(u, n) == u \in accounts /\ liveNode(n) /\ nodes[n].by # u

RevokeNodeAccess(c) ==
    LET u == calls[c].user
        n == calls[c].node
    IN  /\ at(c, "revoke")
        /\ IF mayRevoke(u, n)
           THEN grants' = [grants EXCEPT ![u][n] = "none"] /\ goesOn(c, "cutUser")
           ELSE UNCHANGED grants /\ returns(c)
        /\ UNCHANGED <<accounts, nodes, groups, members, shares, bridged, missed>>

DisconnectNodeUser(c) ==
    /\ at(c, "cutUser")
    /\ bridged' = bridged \ {<<calls[c].user, calls[c].node>>}
    /\ returns(c)
    /\ UNCHANGED <<tables, missed>>

-----------------------------------------------------------------------------
(* Groups.                                                                  *)

\* The group exists before its creator manages it.
CreateGroup(c) ==
    /\ at(c, "idle")
    /\ \E u \in accounts, g \in Groups :
        /\ groups[g].state = "new"
        /\ groups' = [groups EXCEPT ![g] = [state |-> "live", by |-> u]]
        /\ goes(c, [Idle EXCEPT !.next = "addUser", !.user = u, !.group = g, !.role = "manager"])
    /\ UNCHANGED <<accounts, nodes, grants, members, shares, bridged, missed>>

GroupUserAdd(c) ==
    \E by, u \in accounts, g \in Groups, role \in {"member", "manager"} :
        /\ isGroupManager(by, g)
        /\ starts(c, [Idle EXCEPT !.next = "addUser", !.user = u, !.group = g, !.role = role])

AddUserToGroup(c) ==
    LET u == calls[c].user
        g == calls[c].group
    IN  /\ at(c, "addUser")
        /\ members' = IF u \in accounts /\ liveGroup(g)
                      THEN [members EXCEPT ![g][u] = calls[c].role] ELSE members
        /\ returns(c)
        /\ UNCHANGED <<accounts, nodes, groups, grants, shares, bridged, missed>>

\* What a call about u in the group has to see to: all users, if u is None.
dueOf(g, u, n) == {p \in through(g) : u \in {p[1], None} /\ n \in {p[2], None}}

GroupUserRemove(c) ==
    \E by, u \in accounts, g \in Groups :
        /\ isGroupManager(by, g)
        /\ starts(c, [Idle EXCEPT !.next = "listNodes", !.then = "removeUser", !.user = u,
                                  !.users = {u}, !.group = g, !.due = dueOf(g, u, None)])

GroupDelete(c) ==
    \E by \in accounts, g \in Groups :
        /\ isGroupManager(by, g)
        /\ starts(c, [Idle EXCEPT !.next = "listMembers", !.then = "deleteGroup", !.group = g,
                                  !.due = through(g)])

GroupNodeRemove(c) ==
    \E by \in accounts, g \in Groups, n \in Nodes :
        /\ liveGroup(g) /\ (isNodeOwner(by, n) \/ isGroupManager(by, g))
        /\ starts(c, [Idle EXCEPT !.next = "listMembers", !.then = "unshare", !.group = g,
                                  !.node = n, !.nodes = {n}, !.due = dueOf(g, None, n)])

ListGroupMembers(c) ==
    /\ at(c, "listMembers")
    /\ goes(c, [calls[c] EXCEPT !.users = membersOf(calls[c].group),
                    !.due = @ \cap through(calls[c].group),
                    !.next = IF calls[c].then = "unshare" THEN "unshare" ELSE "listNodes"])
    /\ UNCHANGED <<tables, bridged, missed>>

ListGroupNodes(c) ==
    /\ at(c, "listNodes")
    /\ goes(c, [calls[c] EXCEPT !.nodes = shares[calls[c].group],
                    !.due = @ \cap through(calls[c].group), !.next = calls[c].then])
    /\ UNCHANGED <<tables, bridged, missed>>

\* Mutant: nobody is examined when only one user left the group.
examinedMany(c) == calls[c].users # {} /\ calls[c].nodes # {} /\ calls[c].user = None

examined(c) == calls[c].users # {} /\ calls[c].nodes # {}

\* revokeStaleNodeAccess returns at once when there is nothing to examine.
enforces(c) ==
    /\ missed' = missed \cup (lost \ calls[c].due)
    /\ IF examined(c) THEN goesOn(c, "enforce") ELSE returns(c)

RemoveUserFromGroup(c) ==
    LET g == calls[c].group
    IN  /\ at(c, "removeUser")
        /\ IF liveGroup(g) /\ calls[c].user \in accounts
           THEN members' = [members EXCEPT ![g][calls[c].user] = "none"] /\ UNCHANGED shares
                /\ grants' = grants /\ enforces(c)
           ELSE returns(c) /\ UNCHANGED <<members, shares, grants, missed>>
        /\ UNCHANGED <<accounts, nodes, groups, bridged>>

DeleteGroup(c) ==
    LET g == calls[c].group
    IN  /\ at(c, "deleteGroup")
        /\ IF liveGroup(g)
           THEN /\ groups' = [groups EXCEPT ![g] = GoneRow]
                /\ members' = [members EXCEPT ![g] = [u \in Users |-> "none"]]
                /\ shares' = [shares EXCEPT ![g] = {}]
                /\ grants' = grants /\ enforces(c)
           ELSE returns(c) /\ UNCHANGED <<groups, members, shares, grants, missed>>
        /\ UNCHANGED <<accounts, nodes, bridged>>

RevokeGroupNodeAccess(c) ==
    LET g == calls[c].group
    IN  /\ at(c, "unshare")
        /\ IF liveGroup(g) /\ liveNode(calls[c].node)
           THEN shares' = [shares EXCEPT ![g] = @ \ {calls[c].node}] /\ UNCHANGED members
                /\ grants' = grants /\ enforces(c)
           ELSE returns(c) /\ UNCHANGED <<members, shares, grants, missed>>
        /\ UNCHANGED <<accounts, nodes, groups, bridged>>

\* The access of one user is read ...
EnforceRead(c) ==
    /\ at(c, "enforce")
    /\ \E u \in calls[c].users :
         goes(c, [calls[c] EXCEPT !.next = "enforceCut", !.user = u,
                                  !.due = {p \in Pairs : p[1] = u /\ p[2] \in calls[c].nodes} \ access])
    /\ UNCHANGED <<tables, bridged, missed>>

\* ... and the user is cut off from what it did not include.
EnforceCut(c) ==
    LET rest == calls[c].users \ {calls[c].user}
    IN  /\ at(c, "enforceCut")
        /\ bridged' = bridged \ calls[c].due
        /\ IF rest = {} THEN returns(c)
           ELSE goes(c, [calls[c] EXCEPT !.next = "enforce", !.users = rest])
        /\ UNCHANGED <<tables, missed>>

-----------------------------------------------------------------------------
(* Sharing a node with a group, which takes the place of direct grants.     *)

GroupNodeAdd(c) ==
    \E by \in accounts, g \in Groups, n \in Nodes :
        /\ isNodeOwner(by, n) /\ isGroupManager(by, g)
        /\ starts(c, [Idle EXCEPT !.next = "share", !.group = g, !.node = n])

GrantGroupNodeAccess(c) ==
    LET g == calls[c].group
        n == calls[c].node
    IN  /\ at(c, "share")
        /\ IF liveGroup(g) /\ liveNode(n)
           THEN shares' = [shares EXCEPT ![g] = @ \cup {n}] /\ goesOn(c, "collapse")
           ELSE returns(c) /\ UNCHANGED shares
        /\ UNCHANGED <<accounts, nodes, groups, grants, members, bridged, missed>>

\* Mutant: the owner's grant counts as redundant too.
redundantAny(g, n) == {u \in membersOf(g) : grants[u][n] # "none"}

redundant(g, n) == {u \in membersOf(g) : u # nodes[n].by /\ grants[u][n] = "admin"}

CollapseRead(c) ==
    LET g == calls[c].group
        n == calls[c].node
    IN  /\ at(c, "collapse")
        /\ IF liveGroup(g) /\ liveNode(n) /\ redundant(g, n) # {}
           THEN goes(c, [calls[c] EXCEPT !.next = "removeUsers", !.users = redundant(g, n)])
           ELSE returns(c)
        /\ UNCHANGED <<tables, bridged, missed>>

RemoveUsers(c) ==
    /\ at(c, "removeUsers")
    /\ grants' = [u \in Users |-> IF u \in calls[c].users
                                  THEN [grants[u] EXCEPT ![calls[c].node] = "none"] ELSE grants[u]]
    /\ UNCHANGED <<members, shares>>
    /\ missed' = missed \cup lost
    /\ returns(c)
    /\ UNCHANGED <<accounts, nodes, groups, bridged>>

-----------------------------------------------------------------------------
(* Deleting a node, deleting an account.                                    *)

NodeDelete(c) ==
    \E by \in accounts, n \in Nodes :
        /\ isNodeOwner(by, n)
        /\ starts(c, [Idle EXCEPT !.next = "clearUsers", !.node = n, !.nodes = {n}])

withoutGrants(N) == [u \in Users |-> [n \in Nodes |-> IF n \in N THEN "none" ELSE grants[u][n]]]
withoutShares(N) == [g \in Groups |-> shares[g] \ N]

\* deleteNode: three statements without a transaction.
ClearUsers(c) ==
    /\ at(c, "clearUsers")
    /\ IF liveNode(calls[c].node)
       THEN grants' = withoutGrants(calls[c].nodes) /\ goesOn(c, "clearGroups")
       ELSE returns(c) /\ UNCHANGED grants
    /\ UNCHANGED <<members, shares>>
    /\ missed' = missed \cup lost
    /\ UNCHANGED <<accounts, nodes, groups, bridged>>

ClearGroups(c) ==
    /\ at(c, "clearGroups")
    /\ shares' = withoutShares(calls[c].nodes)
    /\ UNCHANGED <<grants, members>>
    /\ missed' = missed \cup lost
    /\ goesOn(c, "destroyNode")
    /\ UNCHANGED <<accounts, nodes, groups, bridged>>

DestroyNode(c) ==
    /\ at(c, "destroyNode")
    /\ nodes' = [nodes EXCEPT ![calls[c].node] = GoneRow]
    /\ grants' = withoutGrants(calls[c].nodes)
    /\ shares' = withoutShares(calls[c].nodes)
    /\ UNCHANGED members
    /\ missed' = missed \cup lost
    /\ goesOn(c, "disconnect")
    /\ UNCHANGED <<accounts, groups, bridged>>

\* The socket on file is closed, if the node is connected by it (modules/node/index.js:92-94):
\* bridges end with it, and WebRTC sessions that are being negotiated; a data channel that is
\* established stays, for the grace time or longer (utils/webrtc_signal.js:465-476).
endsSome(n, sessions) ==
    \E ended \in SUBSET {p \in sessions : p[2] = n} : bridged' = sessions \ ended

DisconnectNode(c) ==
    /\ at(c, "disconnect")
    /\ endsSome(calls[c].node, bridged)
    /\ returns(c)
    /\ UNCHANGED <<tables, missed>>

listNodesOwnedBy(u) == {n \in Nodes : isNodeOwner(u, n)}
createdGroups(u) == {g \in Groups : liveGroup(g) /\ groups[g].by = u}

\* The cascade of a deleted account.
grantsWithout(u) ==
    [withoutGrants(listNodesOwnedBy(u)) EXCEPT ![u] = [n \in Nodes |-> "none"]]
membersWithout(u) ==
    [g \in Groups |-> IF g \in createdGroups(u) THEN [v \in Users |-> "none"]
                      ELSE [members[g] EXCEPT ![u] = "none"]]
sharesWithout(u) ==
    [g \in Groups |-> IF g \in createdGroups(u) THEN {} ELSE shares[g] \ listNodesOwnedBy(u)]

\* Mutant: the groups the user created are forgotten.
reachedByMembers(u) == {v \in Users : \E n \in listNodesOwnedBy(u) : <<v, n>> \in access}

\* Who reaches a node of the user, or is in a group the user created.
reachedBy(u) ==
    {v \in Users : \E n \in listNodesOwnedBy(u) : <<v, n>> \in access}
        \cup UNION {membersOf(g) : g \in createdGroups(u)}

listNodeOwnersForMember(u) == {nodes[n].by : n \in {n \in Nodes : grants[u][n] # "none"}}
listUsersAffectedByUserDeletion(u) == (reachedBy(u) \cup listNodeOwnersForMember(u)) \ {u}

\* The nodes of the user are listed, their names released (Domains), and then ...
UserDelete(c) ==
    \E u \in accounts :
        starts(c, [Idle EXCEPT !.next = "deleteAccount", !.user = u,
                               !.nodes = listNodesOwnedBy(u)])

\* ... the row goes, by the cascade its nodes and the groups it created, and all rows of those.
DeleteUser(c) ==
    LET u == calls[c].user
    IN  /\ at(c, "deleteAccount")
        /\ IF u \notin accounts
           THEN returns(c) /\ UNCHANGED <<tables, missed>>
           ELSE /\ accounts' = accounts \ {u}
                /\ nodes' = [n \in Nodes |-> IF isNodeOwner(u, n) THEN GoneRow ELSE nodes[n]]
                /\ groups' = [g \in Groups |-> IF g \in createdGroups(u) THEN GoneRow
                                               ELSE groups[g]]
                /\ grants' = grantsWithout(u)
                /\ members' = membersWithout(u)
                /\ shares' = sharesWithout(u)
                /\ missed' = missed \cup {p \in lost : p[1] # u}
                /\ goesOn(c, "unregister")
        /\ UNCHANGED bridged

\* The sessions of the user were revoked with its rows; its nodes are
\* disconnected one by one.
ownSessionsEnd(c) == {p \in bridged : p[1] # calls[c].user}
UnregisterNodes(c) ==
    /\ at(c, "unregister")
    /\ \/ calls[c].nodes = {} /\ returns(c) /\ bridged' = ownSessionsEnd(c)
       \/ \E n \in calls[c].nodes :
            endsSome(n, ownSessionsEnd(c)) /\ goes(c, [calls[c] EXCEPT !.nodes = @ \ {n}])
    /\ UNCHANGED <<tables, missed>>

-----------------------------------------------------------------------------
(* Live sessions.                                                           *)

Connect(p) ==
    /\ p \in access \ bridged
    /\ bridged' = bridged \cup {p}
    /\ UNCHANGED <<tables, missed, calls>>

Leave(p) ==
    /\ p \in bridged
    /\ bridged' = bridged \ {p}
    /\ UNCHANGED <<tables, missed, calls>>

Next ==
    \/ \E c \in Calls :
        \/ Register(c) \/ Invite(c) \/ GrantNodeAccess(c)
        \/ Revoke(c) \/ RevokeNodeAccess(c) \/ DisconnectNodeUser(c)
        \/ CreateGroup(c) \/ GroupUserAdd(c) \/ AddUserToGroup(c)
        \/ GroupUserRemove(c) \/ GroupDelete(c) \/ GroupNodeRemove(c)
        \/ ListGroupMembers(c) \/ ListGroupNodes(c)
        \/ RemoveUserFromGroup(c) \/ DeleteGroup(c) \/ RevokeGroupNodeAccess(c)
        \/ EnforceRead(c) \/ EnforceCut(c)
        \/ GroupNodeAdd(c) \/ GrantGroupNodeAccess(c) \/ CollapseRead(c) \/ RemoveUsers(c)
        \/ NodeDelete(c) \/ ClearUsers(c) \/ ClearGroups(c) \/ DestroyNode(c) \/ DisconnectNode(c)
        \/ UserDelete(c) \/ DeleteUser(c) \/ UnregisterNodes(c)
    \/ \E p \in Pairs : Connect(p) \/ Leave(p)

Spec == Init /\ [][Next]_vars

-----------------------------------------------------------------------------
(* Properties.                                                              *)

\* Every table has its type, refers to rows that exist, and so does every handler in flight.
TypeOK ==
    /\ accounts \subseteq Users
    /\ nodes \in [Nodes -> Row] /\ groups \in [Groups -> Row]
    /\ grants \in [Users -> [Nodes -> {"none", "admin", "owner"}]]
    /\ members \in [Groups -> [Users -> {"none", "member", "manager"}]]
    /\ shares \in [Groups -> SUBSET Nodes]
    /\ bridged \subseteq Pairs /\ missed \subseteq Pairs
    /\ calls \in [Calls -> Call]
    /\ \A u \in Users, n \in Nodes : grants[u][n] # "none" => u \in accounts /\ liveNode(n)
    /\ \A g \in Groups, u \in Users : members[g][u] # "none" => u \in accounts /\ liveGroup(g)
    /\ \A g \in Groups : \A n \in shares[g] : liveNode(n) /\ liveGroup(g)

\* The owner of a node is an account and has the grant by which the node is listed, from the end
\* of its registration to the beginning of its deletion: data_service.js:985-1012, 952-963.
OwnerKeepsGrant ==
    \A n \in Nodes : nodes[n].state = "live" =>
        /\ nodes[n].by \in accounts
        /\ grants[nodes[n].by][n] = "owner" \/ \E c \in Calls : calls[c].node = n /\
               (at(c, "grant") \/ at(c, "clearGroups") \/ at(c, "destroyNode"))

\* The handler in flight has still to examine the pair, or is about to cut it off.
willCut(c, p) ==
    \/ at(c, "cutUser") /\ p = <<calls[c].user, calls[c].node>>
    \/ at(c, "enforce") /\ p[1] \in calls[c].users /\ p[2] \in calls[c].nodes
    \/ at(c, "enforceCut") /\ p[2] \in calls[c].nodes
          /\ (p \in calls[c].due \/ p[1] \in calls[c].users \ {calls[c].user})
    \/ at(c, "unregister") /\ p[1] = calls[c].user

\* A live session belongs to a user who may reach the node, or a handler in flight is going to
\* end it - whatever direct grants and groups the user had and in whatever order they went.  What
\* no handler examines is excepted: a change it could not know of when it was called, a collapsed
\* grant, a group that goes with its creator, and a node that is deleted, whose established data
\* channels stay: node_proxy.js:171-192, group/members.js:50-60, data_service.js:952-963.
LostAccessCutOff ==
    \A p \in bridged \ missed : p \in access \/ \E c \in Calls : willCut(c, p)

\* Before an account is deleted the users whose inventory its deletion changes are found: who
\* loses a node, and whose node loses an admin (data_service.js:1288-1374).
inventory(v, gr, me, sh) ==
    [reaches |-> {n \in Nodes : <<v, n>> \in accessBy(gr, me, sh)},
     admins |-> {p \in Pairs : nodes[p[2]].by = v /\ gr[p[1]][p[2]] = "admin"}]
AffectedRefreshed ==
    \A u \in accounts, v \in accounts :
        /\ u # v
        /\ inventory(v, grants, members, shares)
             # inventory(v, grantsWithout(u), membersWithout(u), sharesWithout(u))
        => v \in listUsersAffectedByUserDeletion(u)
=============================================================================
