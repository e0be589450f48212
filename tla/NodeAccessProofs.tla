------------------------- MODULE NodeAccessProofs -------------------------
(***************************************************************************)
(* Proofs about NodeAccess, for any users, nodes, groups and handlers.     *)
(***************************************************************************)
EXTENDS NodeAccess, TLAPS

-----------------------------------------------------------------------------
(* What holds of a handler between any two of its steps.                    *)

\* It holds what its next steps are about.
Shaped(c) ==
    /\ calls[c].next \in {"grant", "revoke", "cutUser", "share", "collapse", "unshare",
                          "removeUsers", "clearUsers", "clearGroups", "destroyNode", "disconnect"}
         => calls[c].node \in Nodes
    /\ calls[c].next \in {"grant", "revoke", "cutUser", "addUser", "removeUser",
                          "deleteAccount", "unregister"}
         => calls[c].user \in Users
    /\ calls[c].next \in {"addUser", "listMembers", "listNodes", "removeUser", "deleteGroup",
                          "unshare", "share", "collapse"}
         => calls[c].group \in Groups
    /\ at(c, "grant") => calls[c].role \in {"admin", "owner"}
    /\ at(c, "addUser") => calls[c].role \in {"member", "manager"}
    /\ at(c, "listMembers") => \/ calls[c].then = "deleteGroup"
                               \/ calls[c].then = "unshare" /\ calls[c].node \in Nodes
    /\ at(c, "listNodes") => \/ calls[c].then = "deleteGroup"
                             \/ calls[c].then = "removeUser" /\ calls[c].user \in Users
    /\ calls[c].next \in {"clearUsers", "clearGroups", "destroyNode", "disconnect"}
         => calls[c].nodes = {calls[c].node}

\* It examines every pair that it has to see to.
DueCovered(c) ==
    /\ calls[c].next \in {"listNodes", "removeUser", "deleteGroup", "unshare"}
         => \A p \in calls[c].due : p[1] \in calls[c].users
    /\ (\/ calls[c].next \in {"removeUser", "deleteGroup", "unshare"}
        \/ at(c, "listMembers") /\ calls[c].then = "unshare")
         => \A p \in calls[c].due : p[2] \in calls[c].nodes

\* What it is about to change is not the grant of an owner.
registered(n) == nodes[n].state # "new"
OwnerSpared(c) ==
    /\ at(c, "grant") /\ calls[c].role = "admin" =>
         /\ registered(calls[c].node)
         /\ liveNode(calls[c].node) => calls[c].user # nodes[calls[c].node].by
    /\ at(c, "removeUsers") =>
         /\ registered(calls[c].node)
         /\ liveNode(calls[c].node) => nodes[calls[c].node].by \notin calls[c].users

Sound(c) == Shaped(c) /\ DueCovered(c) /\ OwnerSpared(c)

\* An owner without the grant has a handler under way that gives it, or takes the node.
covers(c, n) ==
    /\ calls[c].node = n
    /\ \/ at(c, "grant") /\ calls[c].role = "owner" /\ calls[c].user = nodes[n].by
       \/ at(c, "clearGroups") \/ at(c, "destroyNode")
Owned(n) ==
    nodes[n].state = "live" =>
        /\ nodes[n].by \in accounts
        /\ grants[nodes[n].by][n] = "owner" \/ \E c \in Calls : covers(c, n)

Granting ==
    /\ TypeOK /\ LostAccessCutOff
    /\ \A n \in Nodes : Owned(n)
    /\ \A c \in Calls : Sound(c)

-----------------------------------------------------------------------------
(* What steps have in common.                                               *)

\* A row of a node is written once, and then only taken.
NodesKeep ==
    \A n \in Nodes : registered(n) => /\ nodes'[n].state # "new"
                                      /\ nodes'[n].state = "live" => nodes'[n] = nodes[n]

LEMMA CallType ==
    ASSUME TypeOK, NEW c \in Calls
    PROVE  /\ calls[c] \in Call
           /\ calls[c].user \in Users \cup {None} /\ calls[c].node \in Nodes \cup {None}
           /\ calls[c].group \in Groups \cup {None}
           /\ calls[c].users \in SUBSET Users /\ calls[c].nodes \in SUBSET Nodes
           /\ calls[c].due \in SUBSET Pairs
  BY DEF TypeOK, Call

LEMMA IdleType == Idle \in Call
  BY DEF Idle, Call, Steps

\* One field of a handler at a time: the provers do not find it for several at once.
LEMMA FieldTypes ==
    ASSUME NEW call \in Call
    PROVE  /\ \A s \in Steps : [call EXCEPT !.next = s] \in Call
           /\ \A s \in Steps : [call EXCEPT !.then = s] \in Call
           /\ \A u \in Users \cup {None} : [call EXCEPT !.user = u] \in Call
           /\ \A n \in Nodes \cup {None} : [call EXCEPT !.node = n] \in Call
           /\ \A g \in Groups \cup {None} : [call EXCEPT !.group = g] \in Call
           /\ \A r \in {"none", "admin", "owner", "member", "manager"} :
                 [call EXCEPT !.role = r] \in Call
           /\ \A us \in SUBSET Users : [call EXCEPT !.users = us] \in Call
           /\ \A ns \in SUBSET Nodes : [call EXCEPT !.nodes = ns] \in Call
           /\ \A ps \in SUBSET Pairs : [call EXCEPT !.due = ps] \in Call
<1>1. \A s \in Steps : [call EXCEPT !.next = s] \in Call
  BY DEF Call
<1>2. \A s \in Steps : [call EXCEPT !.then = s] \in Call
  BY DEF Call
<1>3. \A u \in Users \cup {None} : [call EXCEPT !.user = u] \in Call
  BY DEF Call
<1>4. \A n \in Nodes \cup {None} : [call EXCEPT !.node = n] \in Call
  BY DEF Call
<1>5. \A g \in Groups \cup {None} : [call EXCEPT !.group = g] \in Call
  BY DEF Call
<1>6. \A r \in {"none", "admin", "owner", "member", "manager"} : [call EXCEPT !.role = r] \in Call
  BY DEF Call
<1>7. \A us \in SUBSET Users : [call EXCEPT !.users = us] \in Call
  BY DEF Call
<1>8. \A ns \in SUBSET Nodes : [call EXCEPT !.nodes = ns] \in Call
  BY DEF Call
<1>9. \A ps \in SUBSET Pairs : [call EXCEPT !.due = ps] \in Call
  BY DEF Call
<1>. QED
  BY <1>1, <1>2, <1>3, <1>4, <1>5, <1>6, <1>7, <1>8, <1>9

LEMMA NextType ==
    ASSUME TypeOK, NEW c \in Calls, NEW s \in Steps
    PROVE  [calls[c] EXCEPT !.next = s] \in Call
  BY CallType, FieldTypes

LEMMA OthersSound ==
    ASSUME TypeOK, NodesKeep, NEW d \in Calls, Sound(d), calls'[d] = calls[d]
    PROVE  Sound(d)'
<1>1. Shaped(d)' /\ DueCovered(d)'
  BY DEF Sound, Shaped, DueCovered, at
<1>2. ASSUME at(d, "grant") \/ at(d, "removeUsers")
      PROVE  calls[d].node \in Nodes
  BY <1>2 DEF Sound, Shaped, at
<1>3. OwnerSpared(d)'
  BY <1>2 DEF Sound, OwnerSpared, NodesKeep, registered, liveNode, at
<1>. QED
  BY <1>1, <1>3 DEF Sound

LEMMA IdleSound ==
    ASSUME NEW d \in Calls, calls'[d].next = "idle"
    PROVE  Sound(d)'
  BY DEF Sound, Shaped, DueCovered, OwnerSpared, at

\* A handler goes on: the other handlers keep what holds of them.
LEMMA OthersKept ==
    ASSUME Granting, NEW c \in Calls, NEW call \in Call, goes(c, call), NodesKeep
    PROVE  /\ calls' \in [Calls -> Call] /\ calls'[c] = call
           /\ \A d \in Calls : d # c => calls'[d] = calls[d] /\ Sound(d)'
<1>1. TypeOK /\ calls \in [Calls -> Call] /\ \A d \in Calls : Sound(d)
  BY DEF Granting, TypeOK
<1>2. calls' \in [Calls -> Call] /\ calls'[c] = call
      /\ \A d \in Calls : d # c => calls'[d] = calls[d]
  BY <1>1 DEF goes
<1>. QED
  BY <1>1, <1>2, OthersSound

\* The owner of a node that is live after the step is covered by the handler that took it, has
\* the grant, or had it before.
LEMMA OwnedKept ==
    ASSUME NEW c \in Calls, \A d \in Calls : d # c => calls'[d] = calls[d],
           \A n \in Nodes : Owned(n),
           \A n \in Nodes : nodes'[n].state = "live" =>
              /\ nodes'[n].by \in accounts'
              /\ \/ covers(c, n)'
                 \/ grants'[nodes'[n].by][n] = "owner"
                 \/ /\ nodes'[n] = nodes[n] /\ ~covers(c, n)
                    /\ grants'[nodes[n].by][n] = grants[nodes[n].by][n]
    PROVE  \A n \in Nodes : Owned(n)'
<1>. SUFFICES ASSUME NEW n \in Nodes, nodes'[n].state = "live",
                     nodes'[n] = nodes[n], ~covers(c, n),
                     grants'[nodes[n].by][n] = grants[nodes[n].by][n],
                     grants[nodes[n].by][n] # "owner"
              PROVE  \E d \in Calls : covers(d, n)'
  BY DEF Owned
<1>1. PICK d \in Calls : covers(d, n)
  BY DEF Owned
<1>2. covers(d, n)'
  BY <1>1 DEF covers, at
<1>. QED
  BY <1>2

\* What loses access in the step is seen to by the handler that took it, and what that handler
\* was to see to is done, or still to be done.
LEMMA CutKept ==
    ASSUME LostAccessCutOff, NEW c \in Calls, \A d \in Calls : d # c => calls'[d] = calls[d],
           bridged' \subseteq bridged, missed \subseteq missed',
           \A p \in bridged' \ missed' :
              (p \in access \/ willCut(c, p)) => (p \in access' \/ willCut(c, p)')
    PROVE  LostAccessCutOff'
<1>. SUFFICES ASSUME NEW p \in bridged' \ missed', p \notin access'
              PROVE  \E d \in Calls : willCut(d, p)'
  BY DEF LostAccessCutOff
<1>1. CASE p \in access \/ willCut(c, p)
  BY <1>1
<1>2. CASE ~(p \in access \/ willCut(c, p))
  <2>1. PICK d \in Calls : willCut(d, p)
    BY <1>2 DEF LostAccessCutOff
  <2>2. d # c /\ willCut(d, p)'
    BY <1>2, <2>1 DEF willCut, at
  <2>. QED
    BY <2>2
<1>. QED
  BY <1>1, <1>2

\* A step that changes no row: the handler was neither giving the owner the grant nor taking the
\* node, and whoever it was to cut off is cut off, or still to be.
LEMMA QuietStep ==
    ASSUME Granting, NEW c \in Calls, NEW call \in Call, goes(c, call),
           UNCHANGED <<tables, missed>>, bridged' \subseteq bridged, Sound(c)',
           calls[c].next \notin {"grant", "clearGroups", "destroyNode"},
           \A p \in bridged' : willCut(c, p) => p \in access \/ willCut(c, p)'
    PROVE  Granting'
<1>1. NodesKeep
  BY DEF NodesKeep, registered, tables
<1>2. /\ calls' \in [Calls -> Call]
      /\ \A d \in Calls : d # c => calls'[d] = calls[d] /\ Sound(d)'
  BY <1>1, OthersKept
<1>3. TypeOK'
  BY <1>2 DEF Granting, TypeOK, tables, liveNode, liveGroup
<1>4. access' = access
  BY DEF access, accessBy, tables
<1>5. LostAccessCutOff'
  BY <1>2, <1>4, CutKept DEF Granting
<1>6. \A n \in Nodes : Owned(n)'
  <2>1. \A n \in Nodes : ~covers(c, n)
    BY DEF covers, at
  <2>2. \A n \in Nodes : Owned(n)
    BY DEF Granting
  <2>. QED
    BY <1>2, <2>1, <2>2, OwnedKept DEF tables, Owned
<1>. QED
  BY <1>2, <1>3, <1>5, <1>6 DEF Granting

LEMMA IdleStep ==
    ASSUME Granting, NEW c \in Calls, returns(c), UNCHANGED <<tables, missed>>,
           bridged' \subseteq bridged,
           calls[c].next \notin {"grant", "clearGroups", "destroyNode"},
           \A p \in bridged' : willCut(c, p) => p \in access
    PROVE  Granting'
<1>1. calls'[c].next = "idle"
  BY DEF returns, goes, Granting, TypeOK, Idle
<1>. QED
  BY <1>1, IdleType, IdleSound, QuietStep DEF returns

LEMMA StartStep ==
    ASSUME Granting, NEW c \in Calls, NEW call \in Call, starts(c, call), Sound(c)'
    PROVE  Granting'
<1>1. /\ at(c, "idle") /\ goes(c, call) /\ UNCHANGED <<tables, missed>> /\ bridged' \subseteq bridged
      /\ \A p : ~willCut(c, p)
  BY DEF starts, willCut, at
<1>. QED
  BY <1>1, QuietStep DEF at

-----------------------------------------------------------------------------
(* A handler starts.                                                        *)

LEMMA InviteStep ==
    ASSUME Granting, NEW c \in Calls, Invite(c)
    PROVE  Granting'
<1>. PICK by \in accounts, u \in accounts, n \in Nodes :
        /\ isNodeOwner(by, n) /\ ~isNodeOwner(u, n)
        /\ starts(c, [Idle EXCEPT !.next = "grant", !.user = u, !.node = n, !.role = "admin"])
  BY DEF Invite
<1>. DEFINE c1 == [Idle EXCEPT !.next = "grant"]
            c2 == [c1 EXCEPT !.user = u]
            c3 == [c2 EXCEPT !.node = n]
            call == [c3 EXCEPT !.role = "admin"]
<1>1. u \in Users /\ nodes[n].state = "live" /\ nodes[n].by # u
  BY DEF Granting, TypeOK, isNodeOwner, liveNode
<1>2. starts(c, call)
  BY DEF Idle
<1>3. c1 \in Call
  BY IdleType, FieldTypes DEF Steps
<1>4. c2 \in Call
  BY <1>1, <1>3, IdleType, FieldTypes DEF Steps, Idle
<1>5. c3 \in Call
  BY <1>1, <1>4, IdleType, FieldTypes DEF Steps, Idle
<1>6. call \in Call
  BY <1>1, <1>5, IdleType, FieldTypes DEF Steps, Idle
<1>7. calls'[c].next = "grant" /\ calls'[c].user = u /\ calls'[c].node = n
      /\ calls'[c].role = "admin" /\ nodes'[n] = nodes[n]
  BY <1>2 DEF starts, goes, Granting, TypeOK, Idle, tables
<1>8. Sound(c)'
  BY <1>1, <1>2, <1>7 DEF Sound, Shaped, DueCovered, OwnerSpared, at, registered, liveNode
<1>. QED
  BY <1>2, <1>6, <1>8, StartStep

LEMMA RevokeStep ==
    ASSUME Granting, NEW c \in Calls, Revoke(c)
    PROVE  Granting'
<1>. PICK u \in accounts, n \in Nodes :
        starts(c, [Idle EXCEPT !.next = "revoke", !.user = u, !.node = n, !.due = {<<u, n>>}])
  BY DEF Revoke
<1>. DEFINE c1 == [Idle EXCEPT !.next = "revoke"]
            c2 == [c1 EXCEPT !.user = u]
            c3 == [c2 EXCEPT !.node = n]
            call == [c3 EXCEPT !.due = {<<u, n>>}]
<1>1. u \in Users /\ {<<u, n>>} \in SUBSET Pairs
  BY DEF Granting, TypeOK, Pairs
<1>2. starts(c, call)
  BY DEF Idle
<1>3. c1 \in Call
  BY IdleType, FieldTypes DEF Steps
<1>4. c2 \in Call
  BY <1>1, <1>3, IdleType, FieldTypes DEF Steps, Idle
<1>5. c3 \in Call
  BY <1>1, <1>4, IdleType, FieldTypes DEF Steps, Idle
<1>6. call \in Call
  BY <1>1, <1>5, IdleType, FieldTypes DEF Steps, Idle
<1>7. calls'[c].next = "revoke" /\ calls'[c].user = u /\ calls'[c].node = n
  BY <1>2 DEF starts, goes, Granting, TypeOK, Idle
<1>8. Sound(c)'
  BY <1>1, <1>2, <1>7 DEF Sound, Shaped, DueCovered, OwnerSpared, at
<1>. QED
  BY <1>2, <1>6, <1>8, StartStep

LEMMA GroupUserAddStep ==
    ASSUME Granting, NEW c \in Calls, GroupUserAdd(c)
    PROVE  Granting'
<1>. PICK u \in accounts, g \in Groups, role \in {"member", "manager"} :
        starts(c, [Idle EXCEPT !.next = "addUser", !.user = u, !.group = g, !.role = role])
  BY DEF GroupUserAdd
<1>. DEFINE c1 == [Idle EXCEPT !.next = "addUser"]
            c2 == [c1 EXCEPT !.user = u]
            c3 == [c2 EXCEPT !.group = g]
            call == [c3 EXCEPT !.role = role]
<1>1. u \in Users
  BY DEF Granting, TypeOK
<1>2. starts(c, call)
  BY DEF Idle
<1>3. c1 \in Call
  BY IdleType, FieldTypes DEF Steps
<1>4. c2 \in Call
  BY <1>1, <1>3, IdleType, FieldTypes DEF Steps, Idle
<1>5. c3 \in Call
  BY <1>1, <1>4, IdleType, FieldTypes DEF Steps, Idle
<1>6. call \in Call
  BY <1>1, <1>5, IdleType, FieldTypes DEF Steps, Idle
<1>7. calls'[c].next = "addUser" /\ calls'[c].user = u /\ calls'[c].group = g
      /\ calls'[c].role = role
  BY <1>2 DEF starts, goes, Granting, TypeOK, Idle
<1>8. Sound(c)'
  BY <1>1, <1>2, <1>7 DEF Sound, Shaped, DueCovered, OwnerSpared, at
<1>. QED
  BY <1>2, <1>6, <1>8, StartStep

LEMMA GroupUserRemoveStep ==
    ASSUME Granting, NEW c \in Calls, GroupUserRemove(c)
    PROVE  Granting'
<1>. PICK u \in accounts, g \in Groups :
        starts(c, [Idle EXCEPT !.next = "listNodes", !.then = "removeUser", !.user = u,
                               !.users = {u}, !.group = g, !.due = dueOf(g, u, None)])
  BY DEF GroupUserRemove
<1>. DEFINE c1 == [Idle EXCEPT !.next = "listNodes"]
            c2 == [c1 EXCEPT !.then = "removeUser"]
            c3 == [c2 EXCEPT !.user = u]
            c4 == [c3 EXCEPT !.users = {u}]
            c5 == [c4 EXCEPT !.group = g]
            call == [c5 EXCEPT !.due = dueOf(g, u, None)]
<1>1. u \in Users /\ {u} \in SUBSET Users /\ dueOf(g, u, None) \in SUBSET Pairs
      /\ \A p \in dueOf(g, u, None) : p[1] = u
  BY AccessAssumption DEF Granting, TypeOK, dueOf, through, membersOf, Pairs
<1>2. starts(c, call)
  BY DEF Idle
<1>3. c1 \in Call
  BY IdleType, FieldTypes DEF Steps
<1>4. c2 \in Call
  BY <1>1, <1>3, IdleType, FieldTypes DEF Steps, Idle
<1>5. c3 \in Call
  BY <1>1, <1>4, IdleType, FieldTypes DEF Steps, Idle
<1>6. c4 \in Call
  BY <1>1, <1>5, IdleType, FieldTypes DEF Steps, Idle
<1>7. c5 \in Call
  BY <1>1, <1>6, IdleType, FieldTypes DEF Steps, Idle
<1>8. call \in Call
  BY <1>1, <1>7, IdleType, FieldTypes DEF Steps, Idle
<1>9. calls'[c].next = "listNodes" /\ calls'[c].then = "removeUser" /\ calls'[c].user = u
      /\ calls'[c].group = g /\ calls'[c].users = {u} /\ calls'[c].due = dueOf(g, u, None)
  BY <1>2 DEF starts, goes, Granting, TypeOK, Idle
<1>10. Sound(c)'
  BY <1>1, <1>2, <1>9 DEF Sound, Shaped, DueCovered, OwnerSpared, at
<1>. QED
  BY <1>2, <1>8, <1>10, StartStep

LEMMA GroupDeleteStep ==
    ASSUME Granting, NEW c \in Calls, GroupDelete(c)
    PROVE  Granting'
<1>. PICK g \in Groups :
        starts(c, [Idle EXCEPT !.next = "listMembers", !.then = "deleteGroup", !.group = g,
                               !.due = through(g)])
  BY DEF GroupDelete
<1>. DEFINE c1 == [Idle EXCEPT !.next = "listMembers"]
            c2 == [c1 EXCEPT !.then = "deleteGroup"]
            c3 == [c2 EXCEPT !.group = g]
            call == [c3 EXCEPT !.due = through(g)]
<1>1. through(g) \in SUBSET Pairs
  BY DEF Granting, TypeOK, through, membersOf, Pairs
<1>2. starts(c, call)
  BY DEF Idle
<1>3. c1 \in Call
  BY IdleType, FieldTypes DEF Steps
<1>4. c2 \in Call
  BY <1>1, <1>3, IdleType, FieldTypes DEF Steps, Idle
<1>5. c3 \in Call
  BY <1>1, <1>4, IdleType, FieldTypes DEF Steps, Idle
<1>6. call \in Call
  BY <1>1, <1>5, IdleType, FieldTypes DEF Steps, Idle
<1>7. calls'[c].next = "listMembers" /\ calls'[c].then = "deleteGroup" /\ calls'[c].group = g
  BY <1>2 DEF starts, goes, Granting, TypeOK, Idle
<1>8. Sound(c)'
  BY <1>1, <1>2, <1>7 DEF Sound, Shaped, DueCovered, OwnerSpared, at
<1>. QED
  BY <1>2, <1>6, <1>8, StartStep

LEMMA GroupNodeRemoveStep ==
    ASSUME Granting, NEW c \in Calls, GroupNodeRemove(c)
    PROVE  Granting'
<1>. PICK g \in Groups, n \in Nodes :
        starts(c, [Idle EXCEPT !.next = "listMembers", !.then = "unshare", !.group = g,
                               !.node = n, !.nodes = {n}, !.due = dueOf(g, None, n)])
  BY DEF GroupNodeRemove
<1>. DEFINE c1 == [Idle EXCEPT !.next = "listMembers"]
            c2 == [c1 EXCEPT !.then = "unshare"]
            c3 == [c2 EXCEPT !.group = g]
            c4 == [c3 EXCEPT !.node = n]
            c5 == [c4 EXCEPT !.nodes = {n}]
            call == [c5 EXCEPT !.due = dueOf(g, None, n)]
<1>1. /\ {n} \in SUBSET Nodes /\ dueOf(g, None, n) \in SUBSET Pairs
      /\ \A p \in dueOf(g, None, n) : p[2] = n
  BY AccessAssumption DEF Granting, TypeOK, dueOf, through, membersOf, Pairs
<1>2. starts(c, call)
  BY DEF Idle
<1>3. c1 \in Call
  BY IdleType, FieldTypes DEF Steps
<1>4. c2 \in Call
  BY <1>1, <1>3, IdleType, FieldTypes DEF Steps, Idle
<1>5. c3 \in Call
  BY <1>1, <1>4, IdleType, FieldTypes DEF Steps, Idle
<1>6. c4 \in Call
  BY <1>1, <1>5, IdleType, FieldTypes DEF Steps, Idle
<1>7. c5 \in Call
  BY <1>1, <1>6, IdleType, FieldTypes DEF Steps, Idle
<1>8. call \in Call
  BY <1>1, <1>7, IdleType, FieldTypes DEF Steps, Idle
<1>9. calls'[c].next = "listMembers" /\ calls'[c].then = "unshare" /\ calls'[c].group = g
      /\ calls'[c].node = n /\ calls'[c].nodes = {n} /\ calls'[c].due = dueOf(g, None, n)
  BY <1>2 DEF starts, goes, Granting, TypeOK, Idle
<1>10. Sound(c)'
  BY <1>1, <1>2, <1>9 DEF Sound, Shaped, DueCovered, OwnerSpared, at
<1>. QED
  BY <1>2, <1>8, <1>10, StartStep

LEMMA GroupNodeAddStep ==
    ASSUME Granting, NEW c \in Calls, GroupNodeAdd(c)
    PROVE  Granting'
<1>. PICK g \in Groups, n \in Nodes :
        starts(c, [Idle EXCEPT !.next = "share", !.group = g, !.node = n])
  BY DEF GroupNodeAdd
<1>. DEFINE c1 == [Idle EXCEPT !.next = "share"]
            c2 == [c1 EXCEPT !.group = g]
            call == [c2 EXCEPT !.node = n]
<1>1. TypeOK
  BY DEF Granting
<1>2. starts(c, call)
  BY DEF Idle
<1>3. c1 \in Call
  BY IdleType, FieldTypes DEF Steps
<1>4. c2 \in Call
  BY <1>1, <1>3, IdleType, FieldTypes DEF Steps, Idle
<1>5. call \in Call
  BY <1>1, <1>4, IdleType, FieldTypes DEF Steps, Idle
<1>6. calls'[c].next = "share" /\ calls'[c].group = g /\ calls'[c].node = n
  BY <1>2 DEF starts, goes, Granting, TypeOK, Idle
<1>7. Sound(c)'
  BY <1>1, <1>2, <1>6 DEF Sound, Shaped, DueCovered, OwnerSpared, at
<1>. QED
  BY <1>2, <1>5, <1>7, StartStep

LEMMA NodeDeleteStep ==
    ASSUME Granting, NEW c \in Calls, NodeDelete(c)
    PROVE  Granting'
<1>. PICK n \in Nodes :
        starts(c, [Idle EXCEPT !.next = "clearUsers", !.node = n, !.nodes = {n}])
  BY DEF NodeDelete
<1>. DEFINE c1 == [Idle EXCEPT !.next = "clearUsers"]
            c2 == [c1 EXCEPT !.node = n]
            call == [c2 EXCEPT !.nodes = {n}]
<1>1. {n} \in SUBSET Nodes
  OBVIOUS
<1>2. starts(c, call)
  BY DEF Idle
<1>3. c1 \in Call
  BY IdleType, FieldTypes DEF Steps
<1>4. c2 \in Call
  BY <1>1, <1>3, IdleType, FieldTypes DEF Steps, Idle
<1>5. call \in Call
  BY <1>1, <1>4, IdleType, FieldTypes DEF Steps, Idle
<1>6. calls'[c].next = "clearUsers" /\ calls'[c].node = n /\ calls'[c].nodes = {n}
  BY <1>2 DEF starts, goes, Granting, TypeOK, Idle
<1>7. Sound(c)'
  BY <1>1, <1>2, <1>6 DEF Sound, Shaped, DueCovered, OwnerSpared, at
<1>. QED
  BY <1>2, <1>5, <1>7, StartStep

LEMMA UserDeleteStep ==
    ASSUME Granting, NEW c \in Calls, UserDelete(c)
    PROVE  Granting'
<1>. PICK u \in accounts :
        starts(c, [Idle EXCEPT !.next = "deleteAccount", !.user = u,
                               !.nodes = listNodesOwnedBy(u)])
  BY DEF UserDelete
<1>. DEFINE c1 == [Idle EXCEPT !.next = "deleteAccount"]
            c2 == [c1 EXCEPT !.user = u]
            call == [c2 EXCEPT !.nodes = listNodesOwnedBy(u)]
<1>1. u \in Users /\ listNodesOwnedBy(u) \in SUBSET Nodes
  BY DEF Granting, TypeOK, listNodesOwnedBy
<1>2. starts(c, call)
  BY DEF Idle
<1>3. c1 \in Call
  BY IdleType, FieldTypes DEF Steps
<1>4. c2 \in Call
  BY <1>1, <1>3, IdleType, FieldTypes DEF Steps, Idle
<1>5. call \in Call
  BY <1>1, <1>4, IdleType, FieldTypes DEF Steps, Idle
<1>6. calls'[c].next = "deleteAccount" /\ calls'[c].user = u
  BY <1>2 DEF starts, goes, Granting, TypeOK, Idle
<1>7. Sound(c)'
  BY <1>1, <1>2, <1>6 DEF Sound, Shaped, DueCovered, OwnerSpared, at
<1>. QED
  BY <1>2, <1>5, <1>7, StartStep

-----------------------------------------------------------------------------
(* A handler reads, or cuts off.                                            *)

LEMMA ListMembersStep ==
    ASSUME Granting, NEW c \in Calls, ListGroupMembers(c)
    PROVE  Granting'
<1>. DEFINE g == calls[c].group
            next == IF calls[c].then = "unshare" THEN "unshare" ELSE "listNodes"
            c1 == [calls[c] EXCEPT !.users = membersOf(g)]
            c2 == [c1 EXCEPT !.due = calls[c].due \cap through(g)]
            call == [c2 EXCEPT !.next = next]
<1>1. at(c, "listMembers") /\ TypeOK /\ Sound(c) /\ UNCHANGED <<tables, bridged, missed>>
  BY DEF ListGroupMembers, Granting
<1>2. c1 \in Call
  BY <1>1, CallType, FieldTypes DEF membersOf
<1>3. c2 \in Call
  BY <1>1, <1>2, CallType, FieldTypes
<1>4. call \in Call
  BY <1>3, FieldTypes DEF Steps
<1>5. goes(c, call)
  BY <1>1, CallType DEF ListGroupMembers, goes, Call
<1>6. /\ calls'[c].next = next /\ calls'[c].then = calls[c].then /\ calls'[c].group = g
      /\ calls'[c].node = calls[c].node /\ calls'[c].nodes = calls[c].nodes
      /\ calls'[c].users = membersOf(g) /\ calls'[c].due = calls[c].due \cap through(g)
  BY <1>1, <1>5, CallType DEF goes, TypeOK, Call
<1>7. \A p \in through(g) : p[1] \in membersOf(g)
  BY DEF through
<1>8. Sound(c)'
  BY <1>1, <1>6, <1>7 DEF Sound, Shaped, DueCovered, OwnerSpared, at
<1>. QED
  BY <1>1, <1>4, <1>5, <1>8, QuietStep DEF at, willCut

LEMMA ListNodesStep ==
    ASSUME Granting, NEW c \in Calls, ListGroupNodes(c)
    PROVE  Granting'
<1>. DEFINE g == calls[c].group
            c1 == [calls[c] EXCEPT !.nodes = shares[g]]
            c2 == [c1 EXCEPT !.due = calls[c].due \cap through(g)]
            call == [c2 EXCEPT !.next = calls[c].then]
<1>1. at(c, "listNodes") /\ TypeOK /\ Sound(c) /\ UNCHANGED <<tables, bridged, missed>>
  BY DEF ListGroupNodes, Granting
<1>2. g \in Groups /\ calls[c].then \in {"deleteGroup", "removeUser"}
  BY <1>1 DEF Sound, Shaped, at
<1>3. c1 \in Call
  BY <1>1, <1>2, CallType, FieldTypes DEF TypeOK
<1>4. c2 \in Call
  BY <1>1, <1>3, CallType, FieldTypes
<1>5. call \in Call
  BY <1>2, <1>4, FieldTypes DEF Steps
<1>6. goes(c, call)
  BY <1>1, CallType DEF ListGroupNodes, goes, Call
<1>7. /\ calls'[c].next = calls[c].then /\ calls'[c].group = g
      /\ calls'[c].user = calls[c].user /\ calls'[c].users = calls[c].users
      /\ calls'[c].nodes = shares[g] /\ calls'[c].due = calls[c].due \cap through(g)
  BY <1>1, <1>6, CallType DEF goes, TypeOK, Call
<1>8. \A p \in through(g) : p[2] \in shares[g]
  BY DEF through
<1>9. Sound(c)'
  BY <1>1, <1>2, <1>7, <1>8 DEF Sound, Shaped, DueCovered, OwnerSpared, at
<1>. QED
  BY <1>1, <1>5, <1>6, <1>9, QuietStep DEF at, willCut

LEMMA CutUserStep ==
    ASSUME Granting, NEW c \in Calls, DisconnectNodeUser(c)
    PROVE  Granting'
<1>1. \A p \in bridged' : ~willCut(c, p)
  BY DEF DisconnectNodeUser, willCut, at
<1>. QED
  BY <1>1, IdleStep DEF DisconnectNodeUser, at

\* Whoever has no access when it is read is cut off next.
LEMMA EnforceReadStep ==
    ASSUME Granting, NEW c \in Calls, EnforceRead(c)
    PROVE  Granting'
<1>. PICK u \in calls[c].users :
        goes(c, [calls[c] EXCEPT !.next = "enforceCut", !.user = u,
                    !.due = {p \in Pairs : p[1] = u /\ p[2] \in calls[c].nodes} \ access])
  BY DEF EnforceRead
<1>. DEFINE due == {p \in Pairs : p[1] = u /\ p[2] \in calls[c].nodes} \ access
            c1 == [calls[c] EXCEPT !.next = "enforceCut"]
            c2 == [c1 EXCEPT !.user = u]
            call == [c2 EXCEPT !.due = due]
<1>1. at(c, "enforce") /\ TypeOK /\ Sound(c) /\ UNCHANGED <<tables, bridged, missed>>
  BY DEF EnforceRead, Granting
<1>2. u \in Users
  BY <1>1, CallType
<1>3. c1 \in Call
  BY <1>1, NextType DEF Steps
<1>4. c2 \in Call
  BY <1>2, <1>3, FieldTypes
<1>5. call \in Call
  BY <1>4, FieldTypes
<1>6. goes(c, call)
  BY <1>1, CallType DEF goes, Call
<1>7. /\ calls'[c].next = "enforceCut" /\ calls'[c].user = u /\ calls'[c].due = due
      /\ calls'[c].users = calls[c].users /\ calls'[c].nodes = calls[c].nodes
  BY <1>1, <1>6, CallType DEF goes, TypeOK, Call
<1>8. Sound(c)'
  BY <1>7 DEF Sound, Shaped, DueCovered, OwnerSpared, at
<1>9. \A p \in bridged' : willCut(c, p) => p \in access \/ willCut(c, p)'
  BY <1>1, <1>7 DEF willCut, at, TypeOK
<1>. QED
  BY <1>1, <1>5, <1>6, <1>8, <1>9, QuietStep DEF at

LEMMA EnforceCutStep ==
    ASSUME Granting, NEW c \in Calls, EnforceCut(c)
    PROVE  Granting'
<1>. DEFINE rest == calls[c].users \ {calls[c].user}
            c1 == [calls[c] EXCEPT !.next = "enforce"]
            call == [c1 EXCEPT !.users = rest]
<1>1. at(c, "enforceCut") /\ TypeOK /\ bridged' = bridged \ calls[c].due
      /\ UNCHANGED <<tables, missed>>
  BY DEF EnforceCut, Granting
<1>2. CASE rest = {} /\ returns(c)
  <2>1. \A p \in bridged' : ~willCut(c, p)
    BY <1>1, <1>2 DEF willCut, at
  <2>. QED
    BY <1>1, <1>2, <2>1, IdleStep DEF at
<1>3. CASE rest # {} /\ goes(c, [calls[c] EXCEPT !.next = "enforce", !.users = rest])
  <2>1. c1 \in Call
    BY <1>1, NextType DEF Steps
  <2>2. call \in Call
    BY <1>1, <2>1, CallType, FieldTypes
  <2>3. goes(c, call)
    BY <1>1, <1>3, CallType DEF goes, Call
  <2>4. calls'[c].next = "enforce" /\ calls'[c].users = rest /\ calls'[c].nodes = calls[c].nodes
    BY <1>1, <2>3, CallType DEF goes, TypeOK, Call
  <2>5. Sound(c)'
    BY <2>4 DEF Sound, Shaped, DueCovered, OwnerSpared, at
  <2>6. \A p \in bridged' : willCut(c, p) => p \in access \/ willCut(c, p)'
    BY <1>1, <2>4 DEF willCut, at
  <2>. QED
    BY <1>1, <2>2, <2>3, <2>5, <2>6, QuietStep DEF at
<1>. QED
  BY <1>2, <1>3 DEF EnforceCut

LEMMA CollapseStep ==
    ASSUME Granting, NEW c \in Calls, CollapseRead(c)
    PROVE  Granting'
<1>. DEFINE g == calls[c].group
            n == calls[c].node
            c1 == [calls[c] EXCEPT !.next = "removeUsers"]
            call == [c1 EXCEPT !.users = redundant(g, n)]
<1>1. at(c, "collapse") /\ TypeOK /\ Sound(c) /\ UNCHANGED <<tables, bridged, missed>>
      /\ \A p : ~willCut(c, p)
  BY DEF CollapseRead, Granting, willCut, at
<1>2. CASE returns(c)
  BY <1>1, <1>2, IdleStep DEF at
<1>3. CASE liveNode(n) /\ goes(c, [calls[c] EXCEPT !.next = "removeUsers",
                                                   !.users = redundant(g, n)])
  <2>1. n \in Nodes /\ redundant(g, n) \subseteq Users /\ nodes[n].by \notin redundant(g, n)
    BY <1>1 DEF Sound, Shaped, at, redundant, membersOf
  <2>2. c1 \in Call
    BY <1>1, NextType DEF Steps
  <2>3. call \in Call
    BY <2>1, <2>2, FieldTypes
  <2>4. goes(c, call)
    BY <1>1, <1>3, CallType DEF goes, Call
  <2>5. calls'[c].next = "removeUsers" /\ calls'[c].users = redundant(g, n) /\ calls'[c].node = n
    BY <1>1, <2>4, CallType DEF goes, TypeOK, Call
  <2>6. nodes' = nodes /\ nodes[n].state = "live"
    BY <1>1, <1>3 DEF tables, liveNode
  <2>7. Sound(c)'
    BY <2>1, <2>5, <2>6
    DEF Sound, Shaped, DueCovered, OwnerSpared, registered, liveNode, at
  <2>. QED
    BY <1>1, <2>3, <2>4, <2>7, QuietStep DEF at
<1>. QED
  BY <1>2, <1>3 DEF CollapseRead

LEMMA DisconnectStep ==
    ASSUME Granting, NEW c \in Calls, DisconnectNode(c)
    PROVE  Granting'
<1>1. \A p \in bridged' : ~willCut(c, p)
  BY DEF DisconnectNode, willCut, at
<1>2. bridged' \subseteq bridged
  BY DEF DisconnectNode, endsSome
<1>. QED
  BY <1>1, <1>2, IdleStep DEF DisconnectNode, at

LEMMA UnregisterStep ==
    ASSUME Granting, NEW c \in Calls, UnregisterNodes(c)
    PROVE  Granting'
<1>1. at(c, "unregister") /\ TypeOK /\ Sound(c) /\ UNCHANGED <<tables, missed>>
  BY DEF UnregisterNodes, Granting
<1>2. CASE calls[c].nodes = {} /\ returns(c) /\ bridged' = ownSessionsEnd(c)
  <2>1. \A p \in bridged' : ~willCut(c, p)
    BY <1>1, <1>2 DEF willCut, at, ownSessionsEnd
  <2>2. bridged' \subseteq bridged
    BY <1>2 DEF ownSessionsEnd
  <2>. QED
    BY <1>1, <1>2, <2>1, <2>2, IdleStep DEF at
<1>3. ASSUME NEW n \in calls[c].nodes,
             endsSome(n, ownSessionsEnd(c)),
             goes(c, [calls[c] EXCEPT !.nodes = @ \ {n}])
      PROVE  Granting'
  <2>. DEFINE call == [calls[c] EXCEPT !.nodes = calls[c].nodes \ {n}]
  <2>1. call \in Call
    BY <1>1, CallType, FieldTypes
  <2>2. goes(c, call)
    BY <1>1, <1>3, CallType
  <2>3. /\ calls'[c].next = "unregister" /\ calls'[c].user = calls[c].user
        /\ calls'[c].nodes = calls[c].nodes \ {n}
    BY <1>1, <2>2, CallType DEF goes, TypeOK, Call, at
  <2>4. Sound(c)'
    BY <1>1, <2>3 DEF Sound, Shaped, DueCovered, OwnerSpared, at
  <2>5. \A p \in bridged' : ~willCut(c, p)
    BY <1>1, <1>3 DEF willCut, at, endsSome, ownSessionsEnd
  <2>6. bridged' \subseteq bridged
    BY <1>3 DEF endsSome, ownSessionsEnd
  <2>. QED
    BY <1>1, <2>1, <2>2, <2>4, <2>5, <2>6, QuietStep DEF at
<1>. QED
  BY <1>2, <1>3 DEF UnregisterNodes

\* A session begins or ends by itself.
LEMMA SessionStep ==
    ASSUME Granting, UNCHANGED <<tables, missed, calls>>,
           bridged' \subseteq bridged \cup access
    PROVE  Granting'
<1>1. access' = access /\ \A c \in Calls : \A p : willCut(c, p)' <=> willCut(c, p)
  BY DEF access, accessBy, tables, willCut, at
<1>2. LostAccessCutOff'
  BY <1>1 DEF Granting, LostAccessCutOff
<1>3. access \subseteq Pairs
  BY DEF access, accessBy
<1>4. TypeOK'
  BY <1>3 DEF Granting, TypeOK, tables, liveNode, liveGroup
<1>5. NodesKeep
  BY DEF NodesKeep, registered, tables
<1>6. \A c \in Calls : Sound(c)'
  BY <1>5, OthersSound DEF Granting
<1>7. \A n \in Nodes : Owned(n)'
  BY DEF Granting, Owned, covers, at, tables
<1>. QED
  BY <1>2, <1>4, <1>6, <1>7 DEF Granting

-----------------------------------------------------------------------------
(* A handler changes rows.                                                  *)

\* TypeOK, but for the handlers.
TablesOK ==
    /\ accounts \subseteq Users
    /\ nodes \in [Nodes -> Row] /\ groups \in [Groups -> Row]
    /\ grants \in [Users -> [Nodes -> {"none", "admin", "owner"}]]
    /\ members \in [Groups -> [Users -> {"none", "member", "manager"}]]
    /\ shares \in [Groups -> SUBSET Nodes]
    /\ bridged \subseteq Pairs /\ missed \subseteq Pairs
    /\ \A u \in Users, n \in Nodes : grants[u][n] # "none" => u \in accounts /\ liveNode(n)
    /\ \A g \in Groups, u \in Users : members[g][u] # "none" => u \in accounts /\ liveGroup(g)
    /\ \A g \in Groups : \A n \in shares[g] : liveNode(n) /\ liveGroup(g)

\* Nobody is forgotten in the step of c.
CutStep(c) ==
    \A p \in bridged' \ missed' :
        (p \in access \/ willCut(c, p)) => (p \in access' \/ willCut(c, p)')

\* No owner is deprived in the step of c.
OwnerStep(c) ==
    \A n \in Nodes : nodes'[n].state = "live" =>
        /\ nodes'[n].by \in accounts'
        /\ \/ covers(c, n)'
           \/ grants'[nodes'[n].by][n] = "owner"
           \/ /\ nodes'[n] = nodes[n] /\ ~covers(c, n)
              /\ grants'[nodes[n].by][n] = grants[nodes[n].by][n]

LEMMA RowStep ==
    ASSUME Granting, NEW c \in Calls, NEW call \in Call, goes(c, call), NodesKeep, Sound(c)',
           TablesOK', OwnerStep(c), CutStep(c), bridged' \subseteq bridged, missed \subseteq missed'
    PROVE  Granting'
<1>1. /\ calls' \in [Calls -> Call]
      /\ \A d \in Calls : d # c => calls'[d] = calls[d] /\ Sound(d)'
  BY OthersKept
<1>2. TypeOK'
  BY <1>1 DEF TablesOK, TypeOK
<1>3. LostAccessCutOff'
  BY <1>1, CutKept DEF Granting, CutStep
<1>4. \A n \in Nodes : Owned(n)'
  BY <1>1, OwnedKept DEF Granting, OwnerStep
<1>. QED
  BY <1>1, <1>2, <1>3, <1>4 DEF Granting

\* A step that changes no account, no node and no direct grant.
LEMMA GroupStep ==
    ASSUME Granting, NEW c \in Calls, NEW call \in Call, goes(c, call), Sound(c)', TablesOK',
           UNCHANGED <<accounts, nodes, grants, bridged>>, missed \subseteq missed', CutStep(c),
           calls[c].next \notin {"grant", "clearGroups", "destroyNode"}
    PROVE  Granting'
<1>1. NodesKeep
  BY DEF NodesKeep, registered
<1>2. OwnerStep(c)
  BY DEF OwnerStep, covers, at, Granting, Owned
<1>. QED
  BY <1>1, <1>2, RowStep

\* What is lost and recorded as missed is nobody's to cut off.
LEMMA LostIsMissed ==
    ASSUME Granting, NEW c \in Calls, \A p : ~willCut(c, p), UNCHANGED bridged,
           missed' = missed \cup lost
    PROVE  CutStep(c) /\ missed' \subseteq Pairs /\ missed \subseteq missed'
<1>1. CutStep(c)
  BY DEF CutStep, lost, access
<1>. QED
  BY <1>1 DEF lost, access, accessBy, Granting, TypeOK

LEMMA Tables == TypeOK => TablesOK
  BY DEF TypeOK, TablesOK

\* upsertNode: what was registered before stays as it was.
LEMMA RegisterStep ==
    ASSUME Granting, NEW c \in Calls, Register(c)
    PROVE  Granting'
<1>. PICK u \in accounts, n \in Nodes :
        /\ nodes[n].state = "new" \/ isNodeOwner(u, n)
        /\ nodes' = [nodes EXCEPT ![n] = [state |-> "live", by |-> u]]
        /\ goes(c, [Idle EXCEPT !.next = "grant", !.user = u, !.node = n, !.role = "owner"])
  BY DEF Register
<1>. DEFINE c1 == [Idle EXCEPT !.next = "grant"]
            c2 == [c1 EXCEPT !.user = u]
            c3 == [c2 EXCEPT !.node = n]
            call == [c3 EXCEPT !.role = "owner"]
<1>1. at(c, "idle") /\ TypeOK /\ u \in Users
      /\ UNCHANGED <<accounts, groups, grants, members, shares, bridged, missed>>
  BY DEF Register, Granting, TypeOK
<1>2. c1 \in Call
  BY IdleType, FieldTypes DEF Steps
<1>3. c2 \in Call
  BY <1>1, <1>2, FieldTypes
<1>4. c3 \in Call
  BY <1>3, FieldTypes
<1>5. call \in Call
  BY <1>4, FieldTypes
<1>6. goes(c, call)
  BY DEF Idle
<1>7. calls'[c].next = "grant" /\ calls'[c].user = u /\ calls'[c].node = n
      /\ calls'[c].role = "owner"
  BY <1>1, <1>6 DEF goes, TypeOK, Idle
<1>8. Sound(c)'
  BY <1>1, <1>7 DEF Sound, Shaped, DueCovered, OwnerSpared, at
<1>9. nodes' \in [Nodes -> Row] /\ nodes'[n] = [state |-> "live", by |-> u]
      /\ \A m \in Nodes : m # n => nodes'[m] = nodes[m]
  BY <1>1 DEF TypeOK, Row
<1>10. registered(n) => nodes'[n] = nodes[n]
  <2>. SUFFICES ASSUME registered(n) PROVE nodes'[n] = nodes[n]
    OBVIOUS
  <2>1. nodes[n].state = "live" /\ nodes[n].by = u
    BY DEF registered, isNodeOwner, liveNode
  <2>2. nodes[n] \in Row
    BY <1>1 DEF TypeOK
  <2>. QED
    BY <1>9, <2>1, <2>2 DEF Row
<1>11. NodesKeep
  BY <1>9, <1>10 DEF NodesKeep, registered
<1>12. \A m \in Nodes : liveNode(m) => liveNode(m)'
  BY <1>9, <1>10 DEF liveNode, registered
<1>13. TablesOK'
  BY <1>1, <1>9, <1>12, Tables DEF TablesOK, liveGroup
<1>14. OwnerStep(c)
  BY <1>1, <1>7, <1>9 DEF OwnerStep, covers, at, Granting, Owned
<1>15. CutStep(c)
  BY <1>1 DEF CutStep, access, accessBy, willCut, at
<1>. QED
  BY <1>1, <1>5, <1>6, <1>8, <1>11, <1>13, <1>14, <1>15, RowStep

\* The owner's grant is written by whoever gives it, and no other grant takes its place.
LEMMA GrantStep ==
    ASSUME Granting, NEW c \in Calls, GrantNodeAccess(c)
    PROVE  Granting'
<1>. DEFINE u == calls[c].user
            n == calls[c].node
            role == calls[c].role
<1>1. at(c, "grant") /\ TypeOK /\ Sound(c) /\ goes(c, Idle)
      /\ UNCHANGED <<accounts, nodes, groups, members, shares, bridged, missed>>
  BY DEF GrantNodeAccess, Granting, returns
<1>2. u \in Users /\ n \in Nodes /\ role \in {"admin", "owner"}
  BY <1>1 DEF Sound, Shaped, at
<1>3. NodesKeep
  BY <1>1 DEF NodesKeep, registered
<1>4. calls'[c].next = "idle"
  BY <1>1 DEF goes, TypeOK, Idle
<1>5. Sound(c)'
  BY <1>4, IdleSound
<1>6. CASE ~canGrant(u, n)
  <2>1. grants' = grants
    BY <1>6 DEF GrantNodeAccess
  <2>2. TablesOK'
    BY <1>1, <2>1, Tables DEF TablesOK, liveGroup, liveNode
  <2>3. OwnerStep(c)
    <3>1. \A m \in Nodes : nodes[m].state = "live" => ~covers(c, m)
      BY <1>1, <1>2, <1>6, AccessAssumption DEF covers, at, canGrant, liveNode, Granting, Owned
    <3>. QED
      BY <1>1, <2>1, <3>1 DEF OwnerStep, Granting, Owned
  <2>4. CutStep(c)
    BY <1>1, <2>1 DEF CutStep, access, accessBy, willCut, at
  <2>. QED
    BY <1>1, <1>3, <1>5, <2>2, <2>3, <2>4, IdleType, RowStep
<1>7. CASE canGrant(u, n)
  <2>1. grants' = [grants EXCEPT ![u][n] = role]
    BY <1>7 DEF GrantNodeAccess
  <2>2. grants' \in [Users -> [Nodes -> {"none", "admin", "owner"}]]
        /\ \A v \in Users, m \in Nodes :
              grants'[v][m] = IF v = u /\ m = n THEN role ELSE grants[v][m]
    BY <1>1, <1>2, <2>1 DEF TypeOK
  <2>3. TablesOK'
    BY <1>1, <1>7, <2>2, Tables DEF TablesOK, liveGroup, liveNode, canGrant
  <2>4. OwnerStep(c)
    <3>1. \A m \in Nodes : nodes[m].state = "live" => nodes[m].by \in accounts
      BY DEF Granting, Owned
    <3>2. \A m \in Nodes : nodes[m].state = "live" => nodes[m].by \in Users
      BY <1>1, <3>1 DEF TypeOK
    <3>3. role = "admin" => u # nodes[n].by
      BY <1>1, <1>7 DEF Sound, OwnerSpared, canGrant
    <3>. QED
      BY <1>1, <1>2, <2>2, <3>1, <3>2, <3>3 DEF OwnerStep, covers, at
  <2>5. CutStep(c)
    BY <1>1, <1>2, <2>2 DEF CutStep, access, accessBy, willCut, at, Pairs
  <2>. QED
    BY <1>1, <1>3, <1>5, <2>3, <2>4, <2>5, IdleType, RowStep
<1>. QED
  BY <1>6, <1>7

\* The pair that loses its grant is the one that is cut off next.
LEMMA RevokeAccessStep ==
    ASSUME Granting, NEW c \in Calls, RevokeNodeAccess(c)
    PROVE  Granting'
<1>. DEFINE u == calls[c].user
            n == calls[c].node
            call == [calls[c] EXCEPT !.next = "cutUser"]
<1>1. at(c, "revoke") /\ TypeOK /\ Sound(c)
      /\ UNCHANGED <<accounts, nodes, groups, members, shares, bridged, missed>>
  BY DEF RevokeNodeAccess, Granting
<1>2. u \in Users /\ n \in Nodes
  BY <1>1 DEF Sound, Shaped, at
<1>3. CASE UNCHANGED grants /\ returns(c)
  BY <1>1, <1>3, IdleStep DEF at, tables, willCut
<1>4. CASE mayRevoke(u, n) /\ grants' = [grants EXCEPT ![u][n] = "none"] /\ goesOn(c, "cutUser")
  <2>1. call \in Call /\ goes(c, call)
    BY <1>1, <1>4, NextType DEF Steps, goesOn
  <2>2. calls'[c].next = "cutUser" /\ calls'[c].user = u /\ calls'[c].node = n
    BY <1>1, <2>1, CallType DEF goes, TypeOK, Call
  <2>3. Sound(c)'
    BY <1>2, <2>2 DEF Sound, Shaped, DueCovered, OwnerSpared, at
  <2>4. NodesKeep
    BY <1>1 DEF NodesKeep, registered
  <2>5. grants' \in [Users -> [Nodes -> {"none", "admin", "owner"}]]
        /\ \A v \in Users, m \in Nodes :
              grants'[v][m] = IF v = u /\ m = n THEN "none" ELSE grants[v][m]
    BY <1>1, <1>2, <1>4 DEF TypeOK
  <2>6. TablesOK'
    BY <1>1, <2>5, Tables DEF TablesOK, liveGroup, liveNode
  <2>7. OwnerStep(c)
    <3>1. \A m \in Nodes : nodes[m].state = "live" =>
              nodes[m].by \in accounts /\ nodes[m].by \in Users
      BY <1>1 DEF Granting, Owned, TypeOK
    <3>2. nodes[n].by # u
      BY <1>4 DEF mayRevoke
    <3>. QED
      BY <1>1, <1>2, <2>5, <3>1, <3>2 DEF OwnerStep, covers, at
  <2>8. CutStep(c)
    <3>1. ASSUME NEW p \in bridged' \ missed', p \in access \/ willCut(c, p), p # <<u, n>>
          PROVE  p \in access'
      <4>1. p \in access
        BY <1>1, <3>1 DEF willCut, at
      <4>2. p \in Pairs /\ ~(p[1] = u /\ p[2] = n)
        BY <1>1, <3>1 DEF TypeOK, Pairs
      <4>. QED
        BY <1>1, <2>5, <4>1, <4>2 DEF access, accessBy, Pairs
    <3>2. ASSUME NEW p \in bridged', p = <<u, n>>
          PROVE  willCut(c, p)'
      BY <2>2, <3>2 DEF willCut, at
    <3>. QED
      BY <3>1, <3>2 DEF CutStep
  <2>. QED
    BY <1>1, <2>1, <2>3, <2>4, <2>6, <2>7, <2>8, RowStep
<1>. QED
  BY <1>3, <1>4 DEF RevokeNodeAccess

LEMMA CreateGroupStep ==
    ASSUME Granting, NEW c \in Calls, CreateGroup(c)
    PROVE  Granting'
<1>. PICK u \in accounts, g \in Groups :
        /\ groups[g].state = "new"
        /\ groups' = [groups EXCEPT ![g] = [state |-> "live", by |-> u]]
        /\ goes(c, [Idle EXCEPT !.next = "addUser", !.user = u, !.group = g, !.role = "manager"])
  BY DEF CreateGroup
<1>. DEFINE c1 == [Idle EXCEPT !.next = "addUser"]
            c2 == [c1 EXCEPT !.user = u]
            c3 == [c2 EXCEPT !.group = g]
            call == [c3 EXCEPT !.role = "manager"]
<1>1. at(c, "idle") /\ TypeOK /\ u \in Users
      /\ UNCHANGED <<accounts, nodes, grants, members, shares, bridged, missed>>
  BY DEF CreateGroup, Granting, TypeOK
<1>2. c1 \in Call
  BY IdleType, FieldTypes DEF Steps
<1>3. c2 \in Call
  BY <1>1, <1>2, FieldTypes
<1>4. c3 \in Call
  BY <1>3, FieldTypes
<1>5. call \in Call
  BY <1>4, FieldTypes
<1>6. goes(c, call)
  BY DEF Idle
<1>7. calls'[c].next = "addUser" /\ calls'[c].user = u /\ calls'[c].group = g
      /\ calls'[c].role = "manager"
  BY <1>1, <1>6 DEF goes, TypeOK, Idle
<1>8. Sound(c)'
  BY <1>1, <1>7 DEF Sound, Shaped, DueCovered, OwnerSpared, at
<1>9. groups' \in [Groups -> Row] /\ \A h \in Groups : liveGroup(h) => liveGroup(h)'
  BY <1>1 DEF TypeOK, Row, liveGroup
<1>10. TablesOK'
  BY <1>1, <1>9, Tables DEF TablesOK, liveNode
<1>11. CutStep(c)
  BY <1>1 DEF CutStep, access, accessBy, willCut, at
<1>. QED
  BY <1>1, <1>5, <1>6, <1>8, <1>10, <1>11, GroupStep DEF at

LEMMA AddUserStep ==
    ASSUME Granting, NEW c \in Calls, AddUserToGroup(c)
    PROVE  Granting'
<1>. DEFINE u == calls[c].user
            g == calls[c].group
<1>1. at(c, "addUser") /\ TypeOK /\ Sound(c) /\ returns(c)
      /\ UNCHANGED <<accounts, nodes, groups, grants, shares, bridged, missed>>
      /\ \A p : ~willCut(c, p)
  BY DEF AddUserToGroup, Granting, willCut, at
<1>2. u \in Users /\ g \in Groups /\ calls[c].role \in {"member", "manager"}
  BY <1>1 DEF Sound, Shaped, at
<1>3. CASE members' = members
  BY <1>1, <1>3, IdleStep DEF tables, at
<1>4. CASE u \in accounts /\ liveGroup(g) /\ members' = [members EXCEPT ![g][u] = calls[c].role]
  <2>1. members' \in [Groups -> [Users -> {"none", "member", "manager"}]]
        /\ \A h \in Groups, v \in Users :
              members'[h][v] = IF h = g /\ v = u THEN calls[c].role ELSE members[h][v]
    BY <1>1, <1>2, <1>4 DEF TypeOK
  <2>2. TablesOK'
    BY <1>1, <1>4, <2>1, Tables DEF TablesOK, liveGroup, liveNode
  <2>3. CutStep(c)
    BY <1>1, <1>2, <2>1 DEF CutStep, access, accessBy, Pairs
  <2>4. calls'[c].next = "idle"
    BY <1>1 DEF returns, goes, TypeOK, Idle
  <2>. QED
    BY <1>1, <2>2, <2>3, <2>4, IdleType, IdleSound, GroupStep DEF returns, at
<1>. QED
  BY <1>3, <1>4 DEF AddUserToGroup

LEMMA ShareStep ==
    ASSUME Granting, NEW c \in Calls, GrantGroupNodeAccess(c)
    PROVE  Granting'
<1>. DEFINE g == calls[c].group
            n == calls[c].node
            call == [calls[c] EXCEPT !.next = "collapse"]
<1>1. at(c, "share") /\ TypeOK /\ Sound(c) /\ \A p : ~willCut(c, p)
      /\ UNCHANGED <<accounts, nodes, groups, grants, members, bridged, missed>>
  BY DEF GrantGroupNodeAccess, Granting, willCut, at
<1>2. g \in Groups /\ n \in Nodes
  BY <1>1 DEF Sound, Shaped, at
<1>3. CASE returns(c) /\ UNCHANGED shares
  BY <1>1, <1>3, IdleStep DEF tables, at
<1>4. CASE liveGroup(g) /\ liveNode(n) /\ shares' = [shares EXCEPT ![g] = @ \cup {n}]
           /\ goesOn(c, "collapse")
  <2>1. call \in Call /\ goes(c, call)
    BY <1>1, <1>4, NextType DEF Steps, goesOn
  <2>2. calls'[c].next = "collapse" /\ calls'[c].group = g /\ calls'[c].node = n
    BY <1>1, <2>1, CallType DEF goes, TypeOK, Call
  <2>3. Sound(c)'
    BY <1>2, <2>2 DEF Sound, Shaped, DueCovered, OwnerSpared, at
  <2>4. shares' \in [Groups -> SUBSET Nodes]
        /\ \A h \in Groups : shares'[h] = IF h = g THEN shares[g] \cup {n} ELSE shares[h]
    BY <1>1, <1>2, <1>4 DEF TypeOK
  <2>5. TablesOK'
    BY <1>1, <1>4, <2>4, Tables DEF TablesOK, liveGroup, liveNode
  <2>6. CutStep(c)
    BY <1>1, <1>2, <2>4 DEF CutStep, access, accessBy
  <2>. QED
    BY <1>1, <2>1, <2>3, <2>5, <2>6, GroupStep DEF at
<1>. QED
  BY <1>3, <1>4 DEF GrantGroupNodeAccess

\* After a change of a group, whoever lost a node by it is examined, unless the handler could not
\* know of it when it was called.
LEMMA EnforcesStep ==
    ASSUME Granting, NEW c \in Calls, enforces(c), TablesOK', UNCHANGED <<accounts, nodes, bridged>>,
           grants' = grants, calls[c].next \in {"removeUser", "deleteGroup", "unshare"}
    PROVE  Granting'
<1>1. TypeOK /\ Sound(c) /\ \A p : ~willCut(c, p)
  BY DEF Granting, willCut, at
<1>2. missed' = missed \cup (lost \ calls[c].due)
  BY DEF enforces
<1>3. \A p \in calls[c].due : p[1] \in calls[c].users /\ p[2] \in calls[c].nodes
  BY <1>1 DEF Sound, DueCovered
<1>4. \A p \in bridged' \ missed' : p \in access => p \in access' \/ p \in calls[c].due
  BY <1>2 DEF lost, access
<1>5. CASE examined(c) /\ goesOn(c, "enforce")
  <2>. DEFINE call == [calls[c] EXCEPT !.next = "enforce"]
  <2>1. call \in Call /\ goes(c, call)
    BY <1>1, <1>5, NextType DEF Steps, goesOn
  <2>2. calls'[c].next = "enforce" /\ calls'[c].users = calls[c].users
        /\ calls'[c].nodes = calls[c].nodes
    BY <1>1, <2>1, CallType DEF goes, TypeOK, Call
  <2>3. Sound(c)'
    BY <2>2 DEF Sound, Shaped, DueCovered, OwnerSpared, at
  <2>4. CutStep(c)
    BY <1>1, <1>3, <1>4, <2>2 DEF CutStep, willCut, at
  <2>. QED
    BY <1>2, <2>1, <2>3, <2>4, GroupStep
<1>6. CASE ~examined(c) /\ returns(c)
  <2>1. calls[c].due = {}
    BY <1>3, <1>6 DEF examined
  <2>2. CutStep(c)
    BY <1>1, <1>4, <2>1 DEF CutStep
  <2>3. calls'[c].next = "idle"
    BY <1>1, <1>6 DEF returns, goes, TypeOK, Idle
  <2>. QED
    BY <1>2, <1>6, <2>2, <2>3, IdleType, IdleSound, GroupStep DEF returns
<1>. QED
  BY <1>5, <1>6 DEF enforces

LEMMA RemoveUserStep ==
    ASSUME Granting, NEW c \in Calls, RemoveUserFromGroup(c)
    PROVE  Granting'
<1>. DEFINE u == calls[c].user
            g == calls[c].group
<1>1. at(c, "removeUser") /\ TypeOK /\ Sound(c) /\ UNCHANGED <<accounts, nodes, groups, bridged>>
  BY DEF RemoveUserFromGroup, Granting
<1>2. u \in Users /\ g \in Groups
  BY <1>1 DEF Sound, Shaped, at
<1>3. CASE returns(c) /\ UNCHANGED <<members, shares, grants, missed>>
  BY <1>1, <1>3, IdleStep DEF tables, at, willCut
<1>4. CASE members' = [members EXCEPT ![g][u] = "none"] /\ UNCHANGED shares
           /\ grants' = grants /\ enforces(c)
  <2>1. members' \in [Groups -> [Users -> {"none", "member", "manager"}]]
        /\ \A h \in Groups, v \in Users :
              members'[h][v] = IF h = g /\ v = u THEN "none" ELSE members[h][v]
    BY <1>1, <1>2, <1>4 DEF TypeOK
  <2>2. missed' \subseteq Pairs
    BY <1>1, <1>4 DEF enforces, lost, access, accessBy, TypeOK
  <2>3. TablesOK'
    BY <1>1, <1>4, <2>1, <2>2, Tables DEF TablesOK, liveGroup, liveNode
  <2>. QED
    BY <1>1, <1>4, <2>3, EnforcesStep DEF at
<1>. QED
  BY <1>3, <1>4 DEF RemoveUserFromGroup

LEMMA DeleteGroupStep ==
    ASSUME Granting, NEW c \in Calls, DeleteGroup(c)
    PROVE  Granting'
<1>. DEFINE g == calls[c].group
<1>1. at(c, "deleteGroup") /\ TypeOK /\ Sound(c) /\ UNCHANGED <<accounts, nodes, bridged>>
  BY DEF DeleteGroup, Granting
<1>2. g \in Groups
  BY <1>1 DEF Sound, Shaped, at
<1>3. CASE returns(c) /\ UNCHANGED <<groups, members, shares, grants, missed>>
  BY <1>1, <1>3, IdleStep DEF tables, at, willCut
<1>4. CASE /\ groups' = [groups EXCEPT ![g] = GoneRow]
           /\ members' = [members EXCEPT ![g] = [u \in Users |-> "none"]]
           /\ shares' = [shares EXCEPT ![g] = {}]
           /\ grants' = grants /\ enforces(c)
  <2>1. groups' \in [Groups -> Row] /\ \A h \in Groups : h # g => groups'[h] = groups[h]
    BY <1>1, <1>2, <1>4 DEF TypeOK, Row, GoneRow
  <2>2. members' \in [Groups -> [Users -> {"none", "member", "manager"}]]
        /\ \A h \in Groups, v \in Users :
              members'[h][v] = IF h = g THEN "none" ELSE members[h][v]
    BY <1>1, <1>2, <1>4 DEF TypeOK
  <2>3. shares' \in [Groups -> SUBSET Nodes]
        /\ \A h \in Groups : shares'[h] = IF h = g THEN {} ELSE shares[h]
    BY <1>1, <1>2, <1>4 DEF TypeOK
  <2>4. missed' \subseteq Pairs
    BY <1>1, <1>4 DEF enforces, lost, access, accessBy, TypeOK
  <2>5. TablesOK'
    BY <1>1, <1>4, <2>1, <2>2, <2>3, <2>4, Tables DEF TablesOK, liveGroup, liveNode
  <2>. QED
    BY <1>1, <1>4, <2>5, EnforcesStep DEF at
<1>. QED
  BY <1>3, <1>4 DEF DeleteGroup

LEMMA UnshareStep ==
    ASSUME Granting, NEW c \in Calls, RevokeGroupNodeAccess(c)
    PROVE  Granting'
<1>. DEFINE g == calls[c].group
            n == calls[c].node
<1>1. at(c, "unshare") /\ TypeOK /\ Sound(c) /\ UNCHANGED <<accounts, nodes, groups, bridged>>
  BY DEF RevokeGroupNodeAccess, Granting
<1>2. g \in Groups
  BY <1>1 DEF Sound, Shaped, at
<1>3. CASE returns(c) /\ UNCHANGED <<members, shares, grants, missed>>
  BY <1>1, <1>3, IdleStep DEF tables, at, willCut
<1>4. CASE shares' = [shares EXCEPT ![g] = @ \ {n}] /\ UNCHANGED members
           /\ grants' = grants /\ enforces(c)
  <2>1. shares' \in [Groups -> SUBSET Nodes]
        /\ \A h \in Groups : shares'[h] = IF h = g THEN shares[g] \ {n} ELSE shares[h]
    BY <1>1, <1>2, <1>4 DEF TypeOK
  <2>2. missed' \subseteq Pairs
    BY <1>1, <1>4 DEF enforces, lost, access, accessBy, TypeOK
  <2>3. TablesOK'
    BY <1>1, <1>4, <2>1, <2>2, Tables DEF TablesOK, liveGroup, liveNode
  <2>. QED
    BY <1>1, <1>4, <2>3, EnforcesStep DEF at
<1>. QED
  BY <1>3, <1>4 DEF RevokeGroupNodeAccess

\* The grants that went with a collapse are those of users the handler was not called about.
LEMMA RemoveUsersStep ==
    ASSUME Granting, NEW c \in Calls, RemoveUsers(c)
    PROVE  Granting'
<1>. DEFINE n == calls[c].node
<1>1. at(c, "removeUsers") /\ TypeOK /\ Sound(c) /\ goes(c, Idle) /\ \A p : ~willCut(c, p)
      /\ missed' = missed \cup lost
      /\ UNCHANGED <<accounts, nodes, groups, members, shares, bridged>>
  BY DEF RemoveUsers, Granting, returns, willCut, at
<1>2. n \in Nodes
  BY <1>1 DEF Sound, Shaped, at
<1>3. grants' \in [Users -> [Nodes -> {"none", "admin", "owner"}]]
      /\ \A v \in Users, m \in Nodes :
            grants'[v][m] = IF v \in calls[c].users /\ m = n THEN "none" ELSE grants[v][m]
  BY <1>1, <1>2 DEF RemoveUsers, TypeOK
<1>4. missed' \subseteq Pairs
  BY <1>1 DEF lost, access, accessBy, TypeOK
<1>5. TablesOK'
  BY <1>1, <1>3, <1>4, Tables DEF TablesOK, liveGroup, liveNode
<1>6. OwnerStep(c)
  <2>1. \A m \in Nodes : nodes[m].state = "live" =>
            nodes[m].by \in accounts /\ nodes[m].by \in Users
    BY <1>1 DEF Granting, Owned, TypeOK
  <2>2. nodes[n].state = "live" => nodes[n].by \notin calls[c].users
    BY <1>1, <1>2, AccessAssumption DEF Sound, OwnerSpared, liveNode
  <2>. QED
    BY <1>1, <1>2, <1>3, <2>1, <2>2 DEF OwnerStep, covers, at
<1>7. CutStep(c)
  BY <1>1 DEF CutStep, lost, access
<1>8. Sound(c)' /\ NodesKeep
  <2>1. calls'[c].next = "idle"
    BY <1>1 DEF goes, TypeOK, Idle
  <2>. QED
    BY <1>1, <2>1, IdleSound DEF NodesKeep, registered
<1>. QED
  BY <1>1, <1>5, <1>6, <1>7, <1>8, IdleType, RowStep

\* The three statements of deleteNode: the handler has the node in hand from the first on.
LEMMA ClearUsersStep ==
    ASSUME Granting, NEW c \in Calls, ClearUsers(c)
    PROVE  Granting'
<1>. DEFINE n == calls[c].node
            call == [calls[c] EXCEPT !.next = "clearGroups"]
<1>1. at(c, "clearUsers") /\ TypeOK /\ Sound(c) /\ \A p : ~willCut(c, p)
      /\ UNCHANGED <<accounts, nodes, groups, members, shares, bridged>>
      /\ missed' = missed \cup lost
  BY DEF ClearUsers, Granting, willCut, at
<1>2. n \in Nodes /\ calls[c].nodes = {n}
  BY <1>1 DEF Sound, Shaped, at
<1>3. CASE returns(c) /\ UNCHANGED grants
  <2>1. missed' = missed
    BY <1>1, <1>3 DEF lost, access, accessBy
  <2>. QED
    BY <1>1, <1>3, <2>1, IdleStep DEF tables, at
<1>4. CASE grants' = withoutGrants(calls[c].nodes) /\ goesOn(c, "clearGroups")
  <2>1. call \in Call /\ goes(c, call)
    BY <1>1, <1>4, NextType DEF Steps, goesOn
  <2>2. calls'[c].next = "clearGroups" /\ calls'[c].node = n /\ calls'[c].nodes = {n}
    BY <1>1, <1>2, <2>1, CallType DEF goes, TypeOK, Call
  <2>3. Sound(c)' /\ NodesKeep
    BY <1>1, <1>2, <2>2
    DEF Sound, Shaped, DueCovered, OwnerSpared, at, NodesKeep, registered
  <2>4. grants' \in [Users -> [Nodes -> {"none", "admin", "owner"}]]
        /\ \A v \in Users, m \in Nodes :
              grants'[v][m] = IF m = n THEN "none" ELSE grants[v][m]
    BY <1>1, <1>2, <1>4 DEF TypeOK, withoutGrants
  <2>7. CutStep(c) /\ missed' \subseteq Pairs /\ missed \subseteq missed'
    BY <1>1, LostIsMissed
  <2>5. TablesOK'
    BY <1>1, <2>4, <2>7, Tables DEF TablesOK, liveGroup, liveNode
  <2>6. OwnerStep(c)
    <3>1. \A m \in Nodes : nodes[m].state = "live" =>
              nodes[m].by \in accounts /\ nodes[m].by \in Users
      BY <1>1 DEF Granting, Owned, TypeOK
    <3>. QED
      BY <1>1, <2>2, <2>4, <3>1 DEF OwnerStep, covers, at
  <2>. QED
    BY <1>1, <2>1, <2>3, <2>5, <2>6, <2>7, RowStep
<1>. QED
  BY <1>3, <1>4 DEF ClearUsers

LEMMA ClearGroupsStep ==
    ASSUME Granting, NEW c \in Calls, ClearGroups(c)
    PROVE  Granting'
<1>. DEFINE n == calls[c].node
            call == [calls[c] EXCEPT !.next = "destroyNode"]
<1>1. at(c, "clearGroups") /\ TypeOK /\ Sound(c) /\ goesOn(c, "destroyNode")
      /\ shares' = withoutShares(calls[c].nodes)
      /\ UNCHANGED <<accounts, nodes, groups, grants, members, bridged>>
      /\ missed' = missed \cup lost /\ \A p : ~willCut(c, p)
  BY DEF ClearGroups, Granting, willCut, at
<1>2. n \in Nodes /\ calls[c].nodes = {n}
  BY <1>1 DEF Sound, Shaped, at
<1>3. call \in Call /\ goes(c, call)
  BY <1>1, NextType DEF Steps, goesOn
<1>4. calls'[c].next = "destroyNode" /\ calls'[c].node = n /\ calls'[c].nodes = {n}
  BY <1>1, <1>2, <1>3, CallType DEF goes, TypeOK, Call
<1>5. Sound(c)' /\ NodesKeep
  BY <1>1, <1>2, <1>4
  DEF Sound, Shaped, DueCovered, OwnerSpared, at, NodesKeep, registered
<1>6. shares' \in [Groups -> SUBSET Nodes] /\ \A g \in Groups : shares'[g] = shares[g] \ {n}
  BY <1>1, <1>2 DEF TypeOK, withoutShares
<1>9. CutStep(c) /\ missed' \subseteq Pairs /\ missed \subseteq missed'
  BY <1>1, LostIsMissed
<1>7. TablesOK'
  BY <1>1, <1>6, <1>9, Tables DEF TablesOK, liveGroup, liveNode
<1>8. OwnerStep(c)
  <2>1. \A m \in Nodes : nodes[m].state = "live" => nodes[m].by \in accounts
    BY DEF Granting, Owned
  <2>. QED
    BY <1>1, <1>4, <2>1 DEF OwnerStep, covers, at
<1>. QED
  BY <1>1, <1>3, <1>5, <1>7, <1>8, <1>9, RowStep

LEMMA DestroyStep ==
    ASSUME Granting, NEW c \in Calls, DestroyNode(c)
    PROVE  Granting'
<1>. DEFINE n == calls[c].node
            call == [calls[c] EXCEPT !.next = "disconnect"]
<1>1. at(c, "destroyNode") /\ TypeOK /\ Sound(c) /\ goes(c, call)
      /\ nodes' = [nodes EXCEPT ![n] = GoneRow]
      /\ grants' = withoutGrants(calls[c].nodes) /\ shares' = withoutShares(calls[c].nodes)
      /\ UNCHANGED <<accounts, groups, members, bridged>>
      /\ missed' = missed \cup lost /\ \A p : ~willCut(c, p)
  BY DEF DestroyNode, Granting, goesOn, willCut, at
<1>2. n \in Nodes /\ calls[c].nodes = {n}
  BY <1>1 DEF Sound, Shaped, at
<1>3. call \in Call
  BY <1>1, NextType DEF Steps
<1>4. calls'[c].next = "disconnect" /\ calls'[c].node = n /\ calls'[c].nodes = {n}
  BY <1>1, <1>2, CallType DEF goes, TypeOK, Call
<1>5. nodes' \in [Nodes -> Row] /\ nodes'[n] = GoneRow
      /\ \A m \in Nodes : m # n => nodes'[m] = nodes[m]
  BY <1>1, <1>2 DEF TypeOK, Row, GoneRow
<1>6. NodesKeep
  BY <1>5 DEF NodesKeep, registered, GoneRow
<1>7. Sound(c)'
  BY <1>2, <1>4 DEF Sound, Shaped, DueCovered, OwnerSpared, at
<1>8. shares' \in [Groups -> SUBSET Nodes] /\ \A g \in Groups : shares'[g] = shares[g] \ {n}
  BY <1>1, <1>2 DEF TypeOK, withoutShares
<1>9. grants' \in [Users -> [Nodes -> {"none", "admin", "owner"}]]
      /\ \A v \in Users, m \in Nodes : grants'[v][m] = IF m = n THEN "none" ELSE grants[v][m]
  BY <1>1, <1>2 DEF TypeOK, withoutGrants
<1>12. CutStep(c) /\ missed' \subseteq Pairs /\ missed \subseteq missed'
  BY <1>1, LostIsMissed
<1>10. TablesOK'
  BY <1>1, <1>5, <1>8, <1>9, <1>12, Tables DEF TablesOK, liveGroup, liveNode
<1>11. OwnerStep(c)
  <2>1. \A m \in Nodes : nodes[m].state = "live" =>
            nodes[m].by \in accounts /\ nodes[m].by \in Users
    BY <1>1 DEF Granting, Owned, TypeOK
  <2>2. nodes'[n].state # "live"
    BY <1>5 DEF GoneRow
  <2>. QED
    BY <1>1, <1>5, <1>9, <2>1, <2>2 DEF OwnerStep, covers, at
<1>. QED
  BY <1>1, <1>3, <1>6, <1>7, <1>10, <1>11, <1>12, RowStep

\* The cascade of an account leaves no row behind that refers to what it took.
LEMMA DeleteUserStep ==
    ASSUME Granting, NEW c \in Calls, DeleteUser(c)
    PROVE  Granting'
<1>. DEFINE u == calls[c].user
            gone == listNodesOwnedBy(u)
            call == [calls[c] EXCEPT !.next = "unregister"]
<1>1. at(c, "deleteAccount") /\ TypeOK /\ Sound(c) /\ UNCHANGED bridged /\ \A p : ~willCut(c, p)
  BY DEF DeleteUser, Granting, willCut, at
<1>2. u \in Users
  BY <1>1 DEF Sound, Shaped, at
<1>3. CASE returns(c) /\ UNCHANGED <<tables, missed>>
  BY <1>1, <1>3, IdleStep DEF at
<1>4. CASE /\ u \in accounts /\ accounts' = accounts \ {u}
           /\ nodes' = [n \in Nodes |-> IF isNodeOwner(u, n) THEN GoneRow ELSE nodes[n]]
           /\ groups' = [g \in Groups |-> IF g \in createdGroups(u) THEN GoneRow
                                          ELSE groups[g]]
           /\ grants' = grantsWithout(u)
           /\ members' = membersWithout(u)
           /\ shares' = sharesWithout(u)
           /\ missed' = missed \cup {p \in lost : p[1] # u}
           /\ goesOn(c, "unregister")
  <2>1. call \in Call /\ goes(c, call)
    BY <1>1, <1>4, NextType DEF Steps, goesOn
  <2>2. calls'[c].next = "unregister" /\ calls'[c].user = u /\ calls'[c].nodes = calls[c].nodes
    BY <1>1, <2>1, CallType DEF goes, TypeOK, Call
  <2>3. Sound(c)'
    BY <1>2, <2>2 DEF Sound, Shaped, DueCovered, OwnerSpared, at
  <2>4. nodes' \in [Nodes -> Row]
        /\ \A n \in Nodes : nodes'[n] = IF n \in gone THEN GoneRow ELSE nodes[n]
    BY <1>1, <1>4 DEF TypeOK, Row, GoneRow, listNodesOwnedBy
  <2>5. groups' \in [Groups -> Row]
        /\ \A g \in Groups : g \notin createdGroups(u) => groups'[g] = groups[g]
    BY <1>1, <1>4 DEF TypeOK, Row, GoneRow
  <2>6. grants' \in [Users -> [Nodes -> {"none", "admin", "owner"}]]
        /\ \A v \in Users, n \in Nodes :
              grants'[v][n] = IF v = u \/ n \in gone THEN "none" ELSE grants[v][n]
    BY <1>1, <1>2, <1>4 DEF TypeOK, grantsWithout, withoutGrants
  <2>7. members' \in [Groups -> [Users -> {"none", "member", "manager"}]]
        /\ \A g \in Groups, v \in Users :
              members'[g][v] = IF g \in createdGroups(u) \/ v = u THEN "none" ELSE members[g][v]
    BY <1>1, <1>2, <1>4 DEF TypeOK, membersWithout
  <2>8. shares' \in [Groups -> SUBSET Nodes]
        /\ \A g \in Groups :
              shares'[g] = IF g \in createdGroups(u) THEN {} ELSE shares[g] \ gone
    BY <1>1, <1>4 DEF TypeOK, sharesWithout
  <2>9. missed' \subseteq Pairs /\ missed \subseteq missed'
    BY <1>1, <1>4 DEF lost, access, accessBy, TypeOK
  <2>10. NodesKeep
    BY <2>4 DEF NodesKeep, registered, GoneRow
  <2>11. TablesOK'
    <3>1. \A n \in Nodes : n \notin gone /\ liveNode(n) => liveNode(n)'
      BY <2>4 DEF liveNode
    <3>2. \A g \in Groups : g \notin createdGroups(u) /\ liveGroup(g) => liveGroup(g)'
      BY <2>5 DEF liveGroup
    <3>3. TablesOK
      BY <1>1, Tables
    <3>4. \A v \in Users, n \in Nodes : grants'[v][n] # "none" => v \in accounts' /\ liveNode(n)'
      BY <1>4, <2>6, <3>1, <3>3 DEF TablesOK
    <3>5. \A g \in Groups, v \in Users :
              members'[g][v] # "none" => v \in accounts' /\ liveGroup(g)'
      BY <1>4, <2>7, <3>2, <3>3 DEF TablesOK
    <3>6. \A g \in Groups : \A n \in shares'[g] : liveNode(n)' /\ liveGroup(g)'
      BY <2>8, <3>1, <3>2, <3>3 DEF TablesOK
    <3>7. accounts' \subseteq Users /\ bridged' \subseteq Pairs
      BY <1>1, <1>4, <3>3 DEF TablesOK
    <3>. QED
      BY <2>4, <2>5, <2>6, <2>7, <2>8, <2>9, <3>4, <3>5, <3>6, <3>7 DEF TablesOK
  <2>12. OwnerStep(c)
    <3>1. ASSUME NEW n \in Nodes, nodes'[n].state = "live"
          PROVE  /\ nodes'[n] = nodes[n] /\ nodes[n].by \in accounts'
                 /\ grants'[nodes[n].by][n] = grants[nodes[n].by][n]
      <4>1. n \notin gone /\ nodes'[n] = nodes[n]
        BY <2>4, <3>1 DEF GoneRow
      <4>2. nodes[n].by \in accounts /\ nodes[n].by \in Users
        BY <1>1, <3>1, <4>1 DEF Granting, Owned, TypeOK
      <4>3. nodes[n].by # u
        BY <1>4, <3>1, <4>1, AccessAssumption DEF listNodesOwnedBy, isNodeOwner, liveNode
      <4>. QED
        BY <1>4, <2>6, <4>1, <4>2, <4>3
    <3>. QED
      BY <1>1, <3>1 DEF OwnerStep, covers, at
  <2>13. CutStep(c)
    <3>1. ASSUME NEW p \in bridged' \ missed', p \in access, p \notin access'
          PROVE  p[1] = u
      BY <1>1, <1>4, <3>1 DEF lost, access
    <3>2. ASSUME NEW p \in bridged', p[1] = u
          PROVE  willCut(c, p)'
      BY <2>2, <3>2 DEF willCut, at
    <3>. QED
      BY <1>1, <3>1, <3>2 DEF CutStep
  <2>. QED
    BY <1>1, <2>1, <2>3, <2>9, <2>10, <2>11, <2>12, <2>13, RowStep
<1>. QED
  BY <1>3, <1>4 DEF DeleteUser

LEMMA InitGranting == Init => Granting
<1>. SUFFICES ASSUME Init PROVE Granting
  OBVIOUS
<1>1. TypeOK
  BY IdleType DEF Init, TypeOK, Row, NewRow
<1>2. LostAccessCutOff
  BY DEF Init, LostAccessCutOff
<1>3. \A n \in Nodes : Owned(n)
  BY DEF Init, Owned, NewRow
<1>4. \A c \in Calls : calls[c].next = "idle"
  BY DEF Init, Idle
<1>5. \A c \in Calls : Sound(c)
  BY <1>4 DEF Sound, Shaped, DueCovered, OwnerSpared, at
<1>. QED
  BY <1>1, <1>2, <1>3, <1>5 DEF Granting

LEMMA NextGranting == Granting /\ [Next]_vars => Granting'
<1>. SUFFICES ASSUME Granting, [Next]_vars PROVE Granting'
  OBVIOUS
<1>1. CASE UNCHANGED vars
  BY <1>1, SessionStep DEF vars
<1>2. ASSUME NEW c \in Calls,
             \/ Register(c) \/ Invite(c) \/ GrantNodeAccess(c)
             \/ Revoke(c) \/ RevokeNodeAccess(c) \/ DisconnectNodeUser(c)
      PROVE  Granting'
  BY <1>2, RegisterStep, InviteStep, GrantStep, RevokeStep, RevokeAccessStep, CutUserStep
<1>3. ASSUME NEW c \in Calls,
             \/ CreateGroup(c) \/ GroupUserAdd(c) \/ AddUserToGroup(c)
             \/ GroupUserRemove(c) \/ GroupDelete(c) \/ GroupNodeRemove(c)
             \/ ListGroupMembers(c) \/ ListGroupNodes(c)
             \/ RemoveUserFromGroup(c) \/ DeleteGroup(c) \/ RevokeGroupNodeAccess(c)
             \/ EnforceRead(c) \/ EnforceCut(c)
      PROVE  Granting'
  BY <1>3, CreateGroupStep, GroupUserAddStep, AddUserStep, GroupUserRemoveStep, GroupDeleteStep,
     GroupNodeRemoveStep, ListMembersStep, ListNodesStep, RemoveUserStep, DeleteGroupStep,
     UnshareStep, EnforceReadStep, EnforceCutStep
<1>4. ASSUME NEW c \in Calls,
             \/ GroupNodeAdd(c) \/ GrantGroupNodeAccess(c) \/ CollapseRead(c) \/ RemoveUsers(c)
             \/ NodeDelete(c) \/ ClearUsers(c) \/ ClearGroups(c) \/ DestroyNode(c)
             \/ DisconnectNode(c) \/ UserDelete(c) \/ DeleteUser(c) \/ UnregisterNodes(c)
      PROVE  Granting'
  BY <1>4, GroupNodeAddStep, ShareStep, CollapseStep, RemoveUsersStep, NodeDeleteStep,
     ClearUsersStep, ClearGroupsStep, DestroyStep, DisconnectStep, UserDeleteStep,
     DeleteUserStep, UnregisterStep
<1>5. ASSUME NEW p \in Pairs, Connect(p) \/ Leave(p)
      PROVE  Granting'
  BY <1>5, SessionStep DEF Connect, Leave
<1>. QED
  BY <1>1, <1>2, <1>3, <1>4, <1>5 DEF Next

-----------------------------------------------------------------------------
(* Theorems.                                                                *)

\* The tables have their types and refer to rows that exist, however the handlers of grants, groups
\* and deletions are interleaved.
THEOREM AccessTypeCorrect == Spec => []TypeOK
<1>1. Granting => TypeOK
  BY DEF Granting
<1>. QED
  BY <1>1, InitGranting, NextGranting, PTL DEF Spec

\* No invitation, revoke, collapse or deletion takes the grant of the owner of a node, once its
\* registration has given it (data_service.js:985-1012).
THEOREM OwnersKeepGrants == Spec => []OwnerKeepsGrant
<1>1. Granting => OwnerKeepsGrant
  BY DEF Granting, Owned, covers, OwnerKeepsGrant
<1>. QED
  BY <1>1, InitGranting, NextGranting, PTL DEF Spec

\* Whoever has lost the access to a node by a change of a grant or a group, or with the account, is
\* cut off from it by a handler in flight, but for what no handler examines, among it whatever goes
\* with the node (node_proxy.js:171-192).
THEOREM LostAccessIsCutOff == Spec => []LostAccessCutOff
<1>1. Granting => LostAccessCutOff
  BY DEF Granting
<1>. QED
  BY <1>1, InitGranting, NextGranting, PTL DEF Spec

\* Who is neither in a group of the user, nor reaches a node of it, nor owns one that it is
\* granted, has after its deletion what it had before.
LEMMA UnaffectedKeeps ==
    ASSUME TypeOK, NEW u \in accounts, NEW v \in accounts, u # v,
           v \notin listUsersAffectedByUserDeletion(u)
    PROVE  inventory(v, grants, members, shares)
             = inventory(v, grantsWithout(u), membersWithout(u), sharesWithout(u))
<1>. DEFINE gone == listNodesOwnedBy(u)
            gr == grantsWithout(u)
            me == membersWithout(u)
            sh == sharesWithout(u)
<1>1. u \in Users /\ v \in Users
  BY DEF TypeOK
<1>2. \A w \in Users, n \in Nodes :
          gr[w][n] = IF w = u \/ n \in gone THEN "none" ELSE grants[w][n]
  BY <1>1 DEF TypeOK, grantsWithout, withoutGrants
<1>3. \A g \in Groups, w \in Users :
          me[g][w] = IF g \in createdGroups(u) \/ w = u THEN "none" ELSE members[g][w]
  BY <1>1 DEF TypeOK, membersWithout
<1>4. \A g \in Groups : sh[g] = IF g \in createdGroups(u) THEN {} ELSE shares[g] \ gone
  BY DEF sharesWithout
<1>5. /\ \A n \in gone : <<v, n>> \notin access
      /\ \A g \in createdGroups(u) : v \notin membersOf(g)
      /\ \A n \in Nodes : grants[u][n] # "none" => nodes[n].by # v
  BY <1>1 DEF listUsersAffectedByUserDeletion, reachedBy, listNodeOwnersForMember
<1>6. createdGroups(u) \subseteq Groups
  BY DEF createdGroups
<1>. HIDE DEF gone, gr, me, sh
<1>7. \A n \in Nodes : <<v, n>> \in accessBy(gr, me, sh) <=> <<v, n>> \in access
  <2>. SUFFICES ASSUME NEW n \in Nodes
                PROVE  <<v, n>> \in accessBy(gr, me, sh) <=> <<v, n>> \in access
    OBVIOUS
  <2>1. <<v, n>> \in access <=>
            grants[v][n] # "none" \/ \E g \in Groups : members[g][v] # "none" /\ n \in shares[g]
    BY <1>1 DEF access, accessBy, Pairs
  <2>2. <<v, n>> \in accessBy(gr, me, sh) <=>
            gr[v][n] # "none" \/ \E g \in Groups : me[g][v] # "none" /\ n \in sh[g]
    BY <1>1 DEF accessBy, Pairs
  <2>3. n \in gone => <<v, n>> \notin access
    BY <1>5
  <2>4. \A g \in Groups : members[g][v] # "none" => g \notin createdGroups(u)
    BY <1>1, <1>5 DEF membersOf
  <2>5. CASE n \in gone
    BY <1>1, <1>2, <1>4, <2>1, <2>2, <2>3, <2>5
  <2>6. CASE n \notin gone
    BY <1>1, <1>2, <1>3, <1>4, <2>1, <2>2, <2>4, <2>6
  <2>. QED
    BY <2>5, <2>6
<1>8. \A p \in Pairs : nodes[p[2]].by = v =>
          (gr[p[1]][p[2]] = "admin" <=> grants[p[1]][p[2]] = "admin")
  <2>1. \A n \in gone : nodes[n].by # v
    BY DEF gone, listNodesOwnedBy, isNodeOwner
  <2>. QED
    BY <1>2, <1>5, <2>1 DEF Pairs
<1>9. {n \in Nodes : <<v, n>> \in accessBy(gr, me, sh)} = {n \in Nodes : <<v, n>> \in access}
  BY <1>7
<1>10. {p \in Pairs : nodes[p[2]].by = v /\ gr[p[1]][p[2]] = "admin"}
         = {p \in Pairs : nodes[p[2]].by = v /\ grants[p[1]][p[2]] = "admin"}
  BY <1>8
<1>11. inventory(v, gr, me, sh) = inventory(v, grants, members, shares)
  BY <1>9, <1>10 DEF inventory, access
<1>. QED
  BY <1>11 DEF gr, me, sh

\* Everybody whose inventory the deletion of an account changes is found beforehand
\* (data_service.js:1288-1374).
THEOREM AffectedAreFound == Spec => []AffectedRefreshed
<1>1. TypeOK => AffectedRefreshed
  BY UnaffectedKeeps DEF AffectedRefreshed
<1>. QED
  BY <1>1, AccessTypeCorrect, PTL
=============================================================================
