--------------------------- MODULE DomainsProofs ---------------------------
(***************************************************************************)
(* Proofs about Domains, for any accounts, nodes, names and handlers.      *)
(***************************************************************************)
EXTENDS Domains, TLAPS

-----------------------------------------------------------------------------
(* What holds of a handler between any two of its steps.                    *)

leaving(c) == calls[c].next \in {"leave", "count", "destroy"}
claims(c) == calls[c].next \in ClaimSteps \/ calls[c].then = "probe"
looked(c) == calls[c].next \in {"available", "probe"} \/ calls[c].then = "probe"
chosen(c) == calls[c].next \in {"probe", "join"} \/ calls[c].then = "probe"

\* It holds what its next steps are about.
Shaped(c) ==
    /\ claims(c) => calls[c].node \in Nodes /\ calls[c].user = None
    /\ looked(c) \/ at(c, "find") => calls[c].name \in Names
    /\ at(c, "join") => calls[c].into \in Clusters
    /\ calls[c].then = "probe" => leaving(c)
    /\ leaving(c) => calls[c].then \in {"probe", "release"} /\ calls[c].node \in Nodes
    /\ at(c, "release") => calls[c].node \in Nodes \/ calls[c].user \in Users
    /\ at(c, "deleteNode") => calls[c].node \in Nodes
    /\ calls[c].next \in {"sync", "saveSync", "saveReprobe"} => calls[c].node \in Nodes
    /\ calls[c].next \in {"owned", "deleteUser"} => calls[c].user \in Users

\* A cluster it has found, it has found with a target and by its name.
SeenKnown(c) == looked(c) /\ calls[c].into # None => calls[c].seen \in {"lan", "public"}
IntoNamed(c) == looked(c) /\ live(calls[c].into) => clusters[calls[c].into].fqdn = calls[c].name

\* The cluster a claim is about to join is of the owner of the node, unless the node has no row,
\* or was registered under the claim.
IntoOwned(c) ==
    chosen(c) /\ ~calls[c].joined /\ live(calls[c].into)
      /\ calls[c].node \notin moved /\ nodes[calls[c].node] # None
        => clusters[calls[c].into].owner = nodes[calls[c].node]

Sound(c) == Shaped(c) /\ SeenKnown(c) /\ IntoNamed(c) /\ IntoOwned(c)

Claiming == TypeOK /\ ClusterOfOwner /\ \A c \in Calls : Sound(c)

-----------------------------------------------------------------------------
(* What steps have in common.                                               *)

\* The rows a handler knows of stay as they are, go, or the node is known to be registered anew.
TablesKeep ==
    /\ \A d \in Calls : calls[d].into # None /\ clusters'[calls[d].into] # None =>
          /\ clusters[calls[d].into] # None
          /\ clusters'[calls[d].into].fqdn = clusters[calls[d].into].fqdn
          /\ clusters'[calls[d].into].owner = clusters[calls[d].into].owner
    /\ \A d \in Calls : claims(d) /\ calls[d].node \notin moved' /\ nodes'[calls[d].node] # None =>
          calls[d].node \notin moved /\ nodes'[calls[d].node] = nodes[calls[d].node]

keeps(d) == calls'[d] = calls[d] \/ calls'[d] = [calls[d] EXCEPT !.held = FALSE]

LEMMA CallType ==
    ASSUME TypeOK, NEW c \in Calls
    PROVE  /\ calls[c] \in Call
           /\ calls[c].node \in Nodes \cup {None} /\ calls[c].user \in Users \cup {None}
           /\ calls[c].name \in Names \cup {None}
           /\ calls[c].old \in Clusters \cup {None} /\ calls[c].into \in Clusters \cup {None}
           /\ calls[c].joined \in BOOLEAN /\ calls[c].todo \in SUBSET Nodes
           /\ calls[c].seen \in {"none", "lan", "public"}
  BY DEF TypeOK, Call

Steps ==
    ClaimSteps \cup {"idle", "leave", "count", "destroy", "sync", "saveSync", "saveReprobe",
                     "release", "deleteNode", "owned", "deleteUser"}

\* One field of a handler at a time: the provers do not find it for several at once.
LEMMA FieldTypes ==
    ASSUME NEW call \in Call
    PROVE  /\ \A s \in Steps : [call EXCEPT !.next = s] \in Call
           /\ \A s \in {"idle", "probe", "release"} : [call EXCEPT !.then = s] \in Call
           /\ \A n \in Nodes \cup {None} : [call EXCEPT !.node = n] \in Call
           /\ \A u \in Users \cup {None} : [call EXCEPT !.user = u] \in Call
           /\ \A f \in Names \cup {None} : [call EXCEPT !.name = f] \in Call
           /\ \A k \in Clusters \cup {None} : [call EXCEPT !.old = k] \in Call
           /\ \A k \in Clusters \cup {None} : [call EXCEPT !.into = k] \in Call
           /\ \A b \in BOOLEAN : [call EXCEPT !.held = b] \in Call
           /\ \A b \in BOOLEAN : [call EXCEPT !.joined = b] \in Call
           /\ \A t \in {"none", "lan", "public"} : [call EXCEPT !.seen = t] \in Call
           /\ \A ns \in SUBSET Nodes : [call EXCEPT !.todo = ns] \in Call
<1>1. \A s \in Steps : [call EXCEPT !.next = s] \in Call
  BY DEF Call, Steps
<1>2. \A s \in {"idle", "probe", "release"} : [call EXCEPT !.then = s] \in Call
  BY DEF Call
<1>3. \A n \in Nodes \cup {None} : [call EXCEPT !.node = n] \in Call
  BY DEF Call
<1>4. \A u \in Users \cup {None} : [call EXCEPT !.user = u] \in Call
  BY DEF Call
<1>5. \A f \in Names \cup {None} : [call EXCEPT !.name = f] \in Call
  BY DEF Call
<1>6. \A k \in Clusters \cup {None} : [call EXCEPT !.old = k] \in Call
  BY DEF Call
<1>7. \A k \in Clusters \cup {None} : [call EXCEPT !.into = k] \in Call
  BY DEF Call
<1>8. \A b \in BOOLEAN : [call EXCEPT !.held = b] \in Call
  BY DEF Call
<1>9. \A b \in BOOLEAN : [call EXCEPT !.joined = b] \in Call
  BY DEF Call
<1>10. \A t \in {"none", "lan", "public"} : [call EXCEPT !.seen = t] \in Call
  BY DEF Call
<1>11. \A ns \in SUBSET Nodes : [call EXCEPT !.todo = ns] \in Call
  BY DEF Call
<1>. QED
  BY <1>1, <1>2, <1>3, <1>4, <1>5, <1>6, <1>7, <1>8, <1>9, <1>10, <1>11

LEMMA OthersSound ==
    ASSUME TypeOK, TablesKeep, NEW d \in Calls, Sound(d), keeps(d)
    PROVE  Sound(d)'
<1>1. /\ calls'[d].next = calls[d].next /\ calls'[d].then = calls[d].then
      /\ calls'[d].node = calls[d].node /\ calls'[d].user = calls[d].user
      /\ calls'[d].name = calls[d].name /\ calls'[d].into = calls[d].into
      /\ calls'[d].seen = calls[d].seen /\ calls'[d].joined = calls[d].joined
  BY CallType DEF keeps, Call
<1>2. Shaped(d)'
  BY <1>1 DEF Sound, Shaped, claims, looked, leaving, at
<1>3. SeenKnown(d)'
  BY <1>1 DEF Sound, SeenKnown, looked
<1>4. IntoNamed(d)'
  BY <1>1, CallType DEF Sound, IntoNamed, looked, live, TablesKeep
<1>6. IntoOwned(d)'
  BY <1>1, CallType DEF Sound, IntoOwned, chosen, claims, live, TablesKeep, ClaimSteps
<1>. QED
  BY <1>2, <1>3, <1>4, <1>6 DEF Sound

LEMMA IdleSound ==
    ASSUME NEW d \in Calls, calls'[d].next = "idle", calls'[d].then = "idle"
    PROVE  Sound(d)'
  BY DEF Sound, Shaped, SeenKnown, IntoNamed, IntoOwned, claims, looked, chosen,
      leaving, at, ClaimSteps

LEMMA IdleType == Idle \in Call
  BY DEF Idle, Call, ClaimSteps

\* A step of one handler that changes no row.
LEMMA QuietStep ==
    ASSUME Claiming, NEW c \in Calls, NEW call \in Call, goes(c, call),
           UNCHANGED <<tables, moved>>, Sound(c)'
    PROVE  Claiming'
<1>1. TypeOK'
  BY DEF Claiming, TypeOK, goes, tables, live
<1>2. ClusterOfOwner'
  BY DEF Claiming, ClusterOfOwner, tables
<1>3. TablesKeep
  BY DEF TablesKeep, tables
<1>4. ASSUME NEW d \in Calls PROVE Sound(d)'
  <2>1. CASE d = c
    BY <2>1
  <2>2. CASE d # c
    BY <2>2, <1>3, OthersSound DEF goes, keeps, Claiming, TypeOK
  <2>. QED
    BY <2>1, <2>2
<1>. QED
  BY <1>1, <1>2, <1>4 DEF Claiming

-----------------------------------------------------------------------------
(* The steps that change no row.                                            *)

LEMMA ClaimStep ==
    ASSUME Claiming, NEW c \in Calls, NodeDomainClaim(c)
    PROVE  Claiming'
<1>. PICK n \in Nodes, f \in Names :
        LET k == members[n]
        IN  starts(c, [Idle EXCEPT !.next = "find", !.node = n, !.name = f, !.old = k,
                       !.held = k # None, !.joined = k # None /\ clusters[k].fqdn = f])
  BY DEF NodeDomainClaim
<1>. DEFINE k == members[n]
            call == [Idle EXCEPT !.next = "find", !.node = n, !.name = f, !.old = k,
                           !.held = k # None, !.joined = k # None /\ clusters[k].fqdn = f]
<1>1. call \in Call
  BY DEF Claiming, TypeOK, Idle, Call, ClaimSteps
<1>2. goes(c, call) /\ UNCHANGED <<tables, moved>>
  BY DEF starts
<1>3. calls'[c].next = "find" /\ calls'[c].then = "idle" /\ calls'[c].node = n
      /\ calls'[c].user = None /\ calls'[c].name = f
  BY <1>2 DEF goes, Claiming, TypeOK, Idle
<1>4. Sound(c)'
  BY <1>2, <1>3, DomainsAssumption
  DEF Sound, Shaped, SeenKnown, IntoNamed, IntoOwned, claims, looked, chosen, leaving,
      at, ClaimSteps, tables
<1>. QED
  BY <1>1, <1>2, <1>4, QuietStep

LEMMA NamedCluster ==
    ASSUME TypeOK, NEW f \in Names
    PROVE  LET k == clusterNamed(f)
           IN  /\ k \in Clusters \cup {None}
               /\ k # None => k \in Clusters /\ live(k) /\ clusters[k].fqdn = f
               /\ targetOf(k) \in {"none", "lan", "public"}
               /\ k # None => targetOf(k) \in {"lan", "public"}
               /\ \A j \in Clusters : live(j) /\ clusters[j].fqdn = f => j = k
<1>. DEFINE k == clusterNamed(f)
<1>1. CASE named(f) = {}
  BY <1>1 DEF clusterNamed, named, targetOf, live
<1>2. CASE named(f) # {}
  <2>1. k \in named(f)
    BY <1>2 DEF clusterNamed
  <2>2. k \in Clusters /\ live(k) /\ clusters[k].fqdn = f
    BY <2>1, DomainsAssumption DEF named, live
  <2>3. targetOf(k) \in {"lan", "public"}
    BY <2>2 DEF targetOf, live, TypeOK, Cluster
  <2>. QED
    BY <2>2, <2>3 DEF TypeOK
<1>. QED
  BY <1>1, <1>2

LEMMA FindStep ==
    ASSUME Claiming, NEW c \in Calls, FindCluster(c)
    PROVE  Claiming'
<1>. DEFINE k == clusterNamed(calls[c].name)
            call == [calls[c] EXCEPT !.next = IF calls[c].joined THEN "probe" ELSE "available",
                                     !.into = k, !.seen = targetOf(k)]
<1>1. at(c, "find") /\ goes(c, call) /\ UNCHANGED <<tables, moved>>
  BY DEF FindCluster
<1>2. calls[c].name \in Names /\ calls[c].node \in Nodes /\ calls[c].user = None
      /\ calls[c].then # "probe"
  BY <1>1 DEF Claiming, Sound, Shaped, looked, claims, leaving, at, ClaimSteps
<1>3. /\ k \in Clusters \cup {None}
      /\ targetOf(k) \in {"none", "lan", "public"}
      /\ k # None => k \in Clusters /\ clusters[k].fqdn = calls[c].name
      /\ k # None => targetOf(k) \in {"lan", "public"}
  BY <1>2, NamedCluster DEF Claiming
<1>4. call \in Call
  <2>. DEFINE next == IF calls[c].joined THEN "probe" ELSE "available"
  <2>1. next \in Steps
    BY DEF Steps, ClaimSteps
  <2>2. [calls[c] EXCEPT !.next = next] \in Call
    BY <2>1, CallType, FieldTypes DEF Claiming
  <2>3. [[calls[c] EXCEPT !.next = next] EXCEPT !.into = k] \in Call
    BY <2>2, <1>3, FieldTypes
  <2>. QED
    BY <2>3, <1>3, FieldTypes
<1>5. /\ calls'[c].next = IF calls[c].joined THEN "probe" ELSE "available"
      /\ calls'[c].then = calls[c].then /\ calls'[c].node = calls[c].node
      /\ calls'[c].user = None /\ calls'[c].name = calls[c].name
      /\ calls'[c].into = k /\ calls'[c].seen = targetOf(k)
      /\ calls'[c].joined = calls[c].joined
  BY <1>1, <1>2, CallType DEF goes, Claiming, TypeOK, Call
<1>6. Shaped(c)
  BY DEF Claiming, Sound
<1>7. Sound(c)'
  BY <1>1, <1>2, <1>3, <1>5, <1>6
  DEF Sound, Shaped, SeenKnown, IntoNamed, IntoOwned, claims, looked, chosen, leaving,
      at, live, ClaimSteps, tables
<1>. QED
  BY <1>1, <1>4, <1>7, QuietStep

\* The cluster found earlier is still the one of the name, or is gone.
LEMMA AvailableStep ==
    ASSUME Claiming, NEW c \in Calls, Available(c)
    PROVE  Claiming'
<1>. DEFINE call == [calls[c] EXCEPT !.next = IF calls[c].old = None THEN "probe" ELSE "leave",
                                     !.then = IF calls[c].old = None THEN "idle" ELSE "probe"]
            k == clusterNamed(calls[c].name)
<1>1. at(c, "available") /\ UNCHANGED <<tables, moved>>
  BY DEF Available
<1>2. calls[c].name \in Names /\ calls[c].node \in Nodes /\ calls[c].user = None
  BY <1>1 DEF Claiming, Sound, Shaped, looked, claims, at, ClaimSteps
<1>3. CASE returns(c)
  <2>1. calls'[c].next = "idle" /\ calls'[c].then = "idle"
    BY <1>3 DEF returns, goes, Claiming, TypeOK, Idle
  <2>. QED
    BY <2>1, <1>1, <1>3, QuietStep, IdleSound, IdleType DEF returns
<1>4. CASE goes(c, call) /\ isAvailable(k, calls[c].node)
  <2>1. call \in Call
    <3>. DEFINE next == IF calls[c].old = None THEN "probe" ELSE "leave"
    <3>1. next \in Steps
      BY DEF Steps, ClaimSteps
    <3>2. [calls[c] EXCEPT !.next = next] \in Call
      BY <3>1, CallType, FieldTypes DEF Claiming
    <3>. QED
      BY <3>2, FieldTypes
  <2>2. /\ calls'[c].next = IF calls[c].old = None THEN "probe" ELSE "leave"
        /\ calls'[c].then = IF calls[c].old = None THEN "idle" ELSE "probe"
        /\ calls'[c].node = calls[c].node
        /\ calls'[c].user = calls[c].user /\ calls'[c].name = calls[c].name
        /\ calls'[c].into = calls[c].into /\ calls'[c].seen = calls[c].seen
        /\ calls'[c].joined = calls[c].joined
    BY <1>4, CallType DEF goes, Claiming, TypeOK, Call
  <2>3. live(calls[c].into) =>
            /\ clusters[calls[c].into].fqdn = calls[c].name
            /\ clusters[calls[c].into].owner = nodes[calls[c].node]
    <3>. SUFFICES ASSUME live(calls[c].into)
                  PROVE  /\ clusters[calls[c].into].fqdn = calls[c].name
                         /\ clusters[calls[c].into].owner = nodes[calls[c].node]
      OBVIOUS
    <3>1. calls[c].into \in Clusters
      BY CallType DEF Claiming, live
    <3>2. clusters[calls[c].into].fqdn = calls[c].name
      BY <1>1 DEF Claiming, Sound, IntoNamed, looked, at
    <3>3. calls[c].into = k
      BY <1>2, <3>1, <3>2, NamedCluster DEF Claiming
    <3>4. k # None
      BY <3>3 DEF live
    <3>. QED
      BY <1>4, <3>2, <3>3, <3>4 DEF isAvailable
  <2>4. SeenKnown(c)
    BY DEF Claiming, Sound
  <2>5. Sound(c)'
    BY <1>1, <1>2, <2>2, <2>3, <2>4
    DEF Sound, Shaped, SeenKnown, IntoNamed, IntoOwned, claims, looked, chosen,
        leaving, at, live, ClaimSteps, tables
  <2>. QED
    BY <1>1, <1>4, <2>1, <2>5, QuietStep
<1>. QED
  BY <1>3, <1>4 DEF Available

\* A handler that has left its cluster goes on with what it knew, and nothing else.
LEMMA LeftType ==
    ASSUME TypeOK, NEW c \in Calls, Sound(c), leaving(c)
    PROVE  left(c) \in Call
<1>. DEFINE node == IF calls[c].user = None THEN calls[c].node ELSE None
<1>1. calls[c].then \in Steps
  BY DEF Sound, Shaped, Steps, ClaimSteps
<1>2. node \in Nodes \cup {None}
  BY CallType
<1>3. [calls[c] EXCEPT !.next = calls[c].then] \in Call
  BY <1>1, CallType, FieldTypes
<1>4. [[calls[c] EXCEPT !.next = calls[c].then] EXCEPT !.then = "idle"] \in Call
  BY <1>3, FieldTypes
<1>5. [[[calls[c] EXCEPT !.next = calls[c].then] EXCEPT !.then = "idle"] EXCEPT !.old = None]
         \in Call
  BY <1>4, FieldTypes
<1>6. [[[[calls[c] EXCEPT !.next = calls[c].then] EXCEPT !.then = "idle"] EXCEPT !.old = None]
         EXCEPT !.held = FALSE] \in Call
  BY <1>5, FieldTypes
<1>7. [[[[[calls[c] EXCEPT !.next = calls[c].then] EXCEPT !.then = "idle"] EXCEPT !.old = None]
         EXCEPT !.held = FALSE] EXCEPT !.node = node] \in Call
  BY <1>2, <1>6, FieldTypes
<1>. QED
  BY <1>7, CallType DEF left, Call

LEMMA LeftSound ==
    ASSUME TypeOK, TablesKeep, NEW c \in Calls, Sound(c), leaving(c),
           calls'[c] = left(c) \/ calls'[c] = [left(c) EXCEPT !.held = FALSE]
    PROVE  Sound(c)'
<1>1. /\ calls'[c].next = calls[c].then /\ calls'[c].then = "idle"
      /\ calls'[c].node = (IF calls[c].user = None THEN calls[c].node ELSE None)
      /\ calls'[c].user = calls[c].user
      /\ calls'[c].name = calls[c].name /\ calls'[c].into = calls[c].into
      /\ calls'[c].seen = calls[c].seen /\ calls'[c].joined = calls[c].joined
  <2>. DEFINE l == left(c)
  <2>1. /\ l.next = calls[c].then /\ l.then = "idle"
        /\ l.node = (IF calls[c].user = None THEN calls[c].node ELSE None)
        /\ l.user = calls[c].user /\ l.name = calls[c].name /\ l.into = calls[c].into
        /\ l.seen = calls[c].seen /\ l.joined = calls[c].joined
    BY CallType DEF left, Call
  <2>2. l \in Call
    BY LeftType
  <2>. HIDE DEF l
  <2>3. calls'[c] = l \/ calls'[c] = [l EXCEPT !.held = FALSE]
    BY DEF l
  <2>. QED
    BY <2>1, <2>2, <2>3 DEF Call
<1>2. calls[c].then \in {"probe", "release"} /\ calls[c].node \in Nodes
  BY DEF Sound, Shaped
<1>3. CASE calls[c].then = "release"
  <2>1. Shaped(c)'
    BY <1>1, <1>2, <1>3, CallType
    DEF Shaped, claims, looked, leaving, at, ClaimSteps
  <2>. QED
    BY <1>1, <1>3, <2>1
    DEF Sound, SeenKnown, IntoNamed, IntoOwned, claims, looked, chosen, ClaimSteps
<1>4. CASE calls[c].then = "probe"
  <2>1. claims(c) /\ looked(c) /\ chosen(c)
    BY <1>4 DEF claims, looked, chosen
  <2>2. calls[c].user = None /\ calls[c].name \in Names
    BY <2>1 DEF Sound, Shaped
  <2>3. Shaped(c)'
    BY <1>1, <1>2, <1>4, <2>2 DEF Shaped, claims, looked, leaving, at
  <2>4. SeenKnown(c)'
    BY <1>1, <2>1 DEF Sound, SeenKnown
  <2>5. IntoNamed(c)'
    BY <1>1, <2>1, CallType DEF Sound, IntoNamed, live, TablesKeep
  <2>7. IntoOwned(c)'
    BY <1>1, <2>1, <2>2, CallType DEF Sound, IntoOwned, live, TablesKeep
  <2>. QED
    BY <2>3, <2>4, <2>5, <2>7 DEF Sound
<1>. QED
  BY <1>2, <1>3, <1>4

LEMMA CountStep ==
    ASSUME Claiming, NEW c \in Calls, LeaveCount(c)
    PROVE  Claiming'
<1>. DEFINE call == [calls[c] EXCEPT !.next = "destroy"]
<1>1. at(c, "count") /\ UNCHANGED <<tables, moved>> /\ leaving(c) /\ Sound(c) /\ TypeOK
  BY DEF LeaveCount, leaving, at, Claiming
<1>2. CASE goes(c, left(c))
  <2>1. TablesKeep
    BY <1>1 DEF TablesKeep, tables
  <2>2. calls'[c] = left(c)
    BY <1>2 DEF goes, Claiming, TypeOK
  <2>. QED
    BY <1>1, <1>2, <2>1, <2>2, LeftType, LeftSound, QuietStep
<1>3. CASE goes(c, call)
  <2>1. call \in Call
    BY <1>1, CallType, FieldTypes DEF Steps
  <2>2. /\ calls'[c].next = "destroy" /\ calls'[c].then = calls[c].then
        /\ calls'[c].node = calls[c].node /\ calls'[c].user = calls[c].user
        /\ calls'[c].name = calls[c].name /\ calls'[c].into = calls[c].into
        /\ calls'[c].seen = calls[c].seen /\ calls'[c].joined = calls[c].joined
    BY <1>1, <1>3, CallType DEF goes, TypeOK, Call
  <2>3. Sound(c)'
    BY <1>1, <2>2
    DEF Sound, Shaped, SeenKnown, IntoNamed, IntoOwned, claims, looked, chosen,
        leaving, at, live, ClaimSteps, tables
  <2>. QED
    BY <1>1, <1>3, <2>1, <2>3, QuietStep
<1>. QED
  BY <1>2, <1>3 DEF LeaveCount

LEMMA ReleaseStep ==
    ASSUME Claiming, NEW c \in Calls, Release(c)
    PROVE  Claiming'
<1>1. at(c, "release") /\ UNCHANGED <<tables, moved>> /\ Sound(c) /\ TypeOK
      /\ calls[c].then # "probe" /\ (calls[c].node \in Nodes \/ calls[c].user \in Users)
  BY DEF Release, leaving, at, Claiming, Sound, Shaped
<1>2. ASSUME NEW n \in calls[c].todo, members[n] = None,
             goes(c, [calls[c] EXCEPT !.todo = @ \ {n}])
      PROVE  Claiming'
  <2>. DEFINE call == [calls[c] EXCEPT !.todo = @ \ {n}]
  <2>1. call \in Call
    BY <1>1, CallType, FieldTypes
  <2>2. /\ calls'[c].next = "release" /\ calls'[c].then = calls[c].then
        /\ calls'[c].node = calls[c].node /\ calls'[c].user = calls[c].user
    BY <1>1, <1>2, CallType DEF goes, TypeOK, Call, at
  <2>3. Sound(c)'
    BY <1>1, <2>2
    DEF Sound, Shaped, SeenKnown, IntoNamed, IntoOwned, claims, looked, chosen,
        leaving, at, ClaimSteps
  <2>. QED
    BY <1>1, <1>2, <2>1, <2>3, QuietStep
<1>3. ASSUME NEW n \in calls[c].todo, members[n] # None,
             goes(c, [calls[c] EXCEPT !.next = "leave", !.then = "release", !.node = n,
                                      !.old = members[n], !.held = TRUE, !.todo = @ \ {n}])
      PROVE  Claiming'
  <2>. DEFINE c1 == [calls[c] EXCEPT !.next = "leave"]
              c2 == [c1 EXCEPT !.then = "release"]
              c3 == [c2 EXCEPT !.node = n]
              c4 == [c3 EXCEPT !.old = members[n]]
              c5 == [c4 EXCEPT !.held = TRUE]
              call == [c5 EXCEPT !.todo = calls[c].todo \ {n}]
  <2>1. n \in Nodes /\ members[n] \in Clusters \cup {None}
    BY <1>1, CallType DEF TypeOK
  <2>2. c1 \in Call
    BY <1>1, CallType, FieldTypes DEF Steps
  <2>3. c2 \in Call
    BY <2>2, FieldTypes
  <2>4. c3 \in Call
    BY <2>1, <2>3, FieldTypes
  <2>5. c4 \in Call
    BY <2>1, <2>4, FieldTypes
  <2>6. c5 \in Call
    BY <2>5, FieldTypes
  <2>7. call \in Call
    BY <1>1, <2>6, CallType, FieldTypes
  <2>8. goes(c, call)
    BY <1>1, <1>3, CallType DEF goes, Call
  <2>9. calls'[c].next = "leave" /\ calls'[c].then = "release" /\ calls'[c].node = n
    BY <1>1, <2>8, CallType DEF goes, TypeOK, Call
  <2>10. Sound(c)'
    BY <1>1, <2>1, <2>9
    DEF Sound, Shaped, SeenKnown, IntoNamed, IntoOwned, claims, looked, chosen,
        leaving, at, ClaimSteps
  <2>. QED
    BY <1>1, <2>7, <2>8, <2>10, QuietStep
<1>4. CASE goesOn(c, IF calls[c].user = None THEN "deleteNode" ELSE "owned")
  <2>. DEFINE next == IF calls[c].user = None THEN "deleteNode" ELSE "owned"
              call == [calls[c] EXCEPT !.next = next]
  <2>1. next \in Steps
    BY DEF Steps
  <2>2. call \in Call
    BY <1>1, <2>1, CallType, FieldTypes
  <2>3. /\ calls'[c].next = next /\ calls'[c].then = calls[c].then
        /\ calls'[c].node = calls[c].node /\ calls'[c].user = calls[c].user
    BY <1>1, <1>4, CallType DEF goesOn, goes, TypeOK, Call
  <2>4. calls[c].user = None => calls[c].node \in Nodes
    BY <1>1, DomainsAssumption
  <2>5. calls[c].user # None => calls[c].user \in Users
    BY <1>1, CallType
  <2>6. Sound(c)'
    BY <1>1, <2>3, <2>4, <2>5
    DEF Sound, Shaped, SeenKnown, IntoNamed, IntoOwned, claims, looked, chosen,
        leaving, at, ClaimSteps
  <2>. QED
    BY <1>1, <1>4, <2>2, <2>6, QuietStep DEF goesOn
<1>. QED
  BY <1>2, <1>3, <1>4 DEF Release

LEMMA IdleStep ==
    ASSUME Claiming, NEW c \in Calls, returns(c), UNCHANGED <<tables, moved>>
    PROVE  Claiming'
<1>1. calls'[c].next = "idle" /\ calls'[c].then = "idle"
  BY DEF returns, goes, Claiming, TypeOK, Idle
<1>. QED
  BY <1>1, QuietStep, IdleSound, IdleType DEF returns

LEMMA TargetType ==
    ASSUME TypeOK, NEW k \in Clusters \cup {None}
    PROVE  targetOf(k) \in {"none", "lan", "public"}
  BY DEF TypeOK, targetOf, live, Cluster

LEMMA SyncReadStep ==
    ASSUME Claiming, NEW c \in Calls, SyncRead(c)
    PROVE  Claiming'
<1>. DEFINE k == members[calls[c].node]
            c1 == [calls[c] EXCEPT !.next = "saveSync"]
            c2 == [c1 EXCEPT !.into = k]
            call == [c2 EXCEPT !.seen = targetOf(k)]
<1>1. at(c, "sync") /\ UNCHANGED <<tables, moved>> /\ Sound(c) /\ TypeOK
  BY DEF SyncRead, Claiming
<1>2. calls[c].node \in Nodes /\ calls[c].then # "probe"
  BY <1>1 DEF Sound, Shaped, leaving, at
<1>3. CASE returns(c)
  BY <1>1, <1>3, IdleStep
<1>4. CASE goes(c, [calls[c] EXCEPT !.next = "saveSync", !.into = k, !.seen = targetOf(k)])
  <2>1. k \in Clusters \cup {None}
    BY <1>1, <1>2 DEF TypeOK
  <2>2. c1 \in Call
    BY <1>1, CallType, FieldTypes DEF Steps
  <2>3. c2 \in Call
    BY <2>1, <2>2, FieldTypes
  <2>4. call \in Call
    BY <1>1, <2>1, <2>3, FieldTypes, TargetType
  <2>5. goes(c, call)
    BY <1>1, <1>4, CallType DEF goes, Call
  <2>6. calls'[c].next = "saveSync" /\ calls'[c].then = calls[c].then
        /\ calls'[c].node = calls[c].node
    BY <1>1, <2>5, CallType DEF goes, TypeOK, Call
  <2>7. Sound(c)'
    BY <1>1, <1>2, <2>6
    DEF Sound, Shaped, SeenKnown, IntoNamed, IntoOwned, claims, looked, chosen,
        leaving, at, ClaimSteps
  <2>. QED
    BY <1>1, <2>4, <2>5, <2>7, QuietStep
<1>. QED
  BY <1>3, <1>4 DEF SyncRead

\* What was read is written only where it differs from what was read.
LEMMA SyncRecordsStep ==
    ASSUME Claiming, NEW c \in Calls, SyncRecords(c)
    PROVE  Claiming'
<1>1. UNCHANGED clusters
  BY DEF SyncRecords, saves
<1>. QED
  BY <1>1, IdleStep DEF SyncRecords, tables

LEMMA TimerStep ==
    ASSUME Claiming, NEW c \in Calls, ScheduledReprobe(c)
    PROVE  Claiming'
<1>. PICK n \in Nodes :
        LET k == members[n]
        IN  starts(c, [Idle EXCEPT !.next = "saveReprobe", !.node = n,
                                   !.into = k, !.seen = targetOf(k)])
  BY DEF ScheduledReprobe
<1>. DEFINE k == members[n]
            c1 == [Idle EXCEPT !.next = "saveReprobe"]
            c2 == [c1 EXCEPT !.node = n]
            c3 == [c2 EXCEPT !.into = k]
            call == [c3 EXCEPT !.seen = targetOf(k)]
<1>1. TypeOK /\ k \in Clusters \cup {None}
  BY DEF Claiming, TypeOK
<1>2. c1 \in Call
  BY IdleType, FieldTypes DEF Steps
<1>3. c2 \in Call
  BY <1>2, FieldTypes
<1>4. c3 \in Call
  BY <1>1, <1>3, FieldTypes
<1>5. call \in Call
  BY <1>1, <1>4, FieldTypes, TargetType
<1>6. goes(c, call) /\ UNCHANGED <<tables, moved>>
  BY DEF starts, Idle
<1>7. calls'[c].next = "saveReprobe" /\ calls'[c].then = "idle" /\ calls'[c].node = n
  BY <1>1, <1>6 DEF goes, TypeOK, Idle
<1>8. Sound(c)'
  BY <1>7
  DEF Sound, Shaped, SeenKnown, IntoNamed, IntoOwned, claims, looked, chosen, leaving,
      at, ClaimSteps
<1>. QED
  BY <1>5, <1>6, <1>8, QuietStep

\* A removal begins: of a node, or of an account with its nodes.
LEMMA RemovalStep ==
    ASSUME Claiming, NEW c \in Calls, NEW call \in Call, starts(c, call),
           call.next = "release", call.then = "idle",
           call.node \in Nodes \/ call.user \in Users
    PROVE  Claiming'
<1>1. goes(c, call) /\ UNCHANGED <<tables, moved>> /\ calls'[c] = call
  BY DEF starts, goes, Claiming, TypeOK
<1>2. Sound(c)'
  BY <1>1
  DEF Sound, Shaped, SeenKnown, IntoNamed, IntoOwned, claims, looked, chosen, leaving,
      at, ClaimSteps
<1>. QED
  BY <1>1, <1>2, QuietStep

LEMMA TeardownStep ==
    ASSUME Claiming, NEW c \in Calls, TeardownNode(c)
    PROVE  Claiming'
<1>. PICK n \in Nodes : starts(c, [Idle EXCEPT !.next = "release", !.node = n, !.todo = {n}])
  BY DEF TeardownNode
<1>. DEFINE c1 == [Idle EXCEPT !.next = "release"]
            c2 == [c1 EXCEPT !.node = n]
            call == [c2 EXCEPT !.todo = {n}]
<1>1. c1 \in Call
  BY IdleType, FieldTypes DEF Steps
<1>2. c2 \in Call
  BY <1>1, FieldTypes
<1>3. call \in Call
  BY <1>2, FieldTypes
<1>4. starts(c, call) /\ call.next = "release" /\ call.then = "idle" /\ call.node = n
  BY DEF Idle
<1>. QED
  BY <1>3, <1>4, RemovalStep

LEMMA UserDeleteStep ==
    ASSUME Claiming, NEW c \in Calls, UserDelete(c)
    PROVE  Claiming'
<1>. PICK u \in users : starts(c, [Idle EXCEPT !.next = "release", !.user = u,
                                               !.todo = {n \in Nodes : nodes[n] = u}])
  BY DEF UserDelete
<1>. DEFINE c1 == [Idle EXCEPT !.next = "release"]
            c2 == [c1 EXCEPT !.user = u]
            call == [c2 EXCEPT !.todo = {n \in Nodes : nodes[n] = u}]
<1>1. u \in Users
  BY DEF Claiming, TypeOK
<1>2. c1 \in Call
  BY IdleType, FieldTypes DEF Steps
<1>3. c2 \in Call
  BY <1>1, <1>2, FieldTypes
<1>4. call \in Call
  BY <1>3, FieldTypes
<1>5. starts(c, call) /\ call.next = "release" /\ call.then = "idle" /\ call.user = u
  BY DEF Idle
<1>. QED
  BY <1>1, <1>4, <1>5, RemovalStep

-----------------------------------------------------------------------------
(* The steps by which rows go.                                              *)

LEMMA OwnersKept ==
    ASSUME TypeOK, ClusterOfOwner,
           \A n \in Nodes : members'[n] # None /\ n \notin moved' =>
              /\ members'[n] = members[n] /\ n \notin moved /\ nodes'[n] = nodes[n]
              /\ clusters'[members[n]].owner = clusters[members[n]].owner
    PROVE  ClusterOfOwner'
  BY DEF ClusterOfOwner

LEMMA LeaveCalls ==
    ASSUME TypeOK, NEW ns, NEW c \in Calls, NEW call \in Call, membersLeave(ns, c, call)
    PROVE  /\ calls' \in [Calls -> Call]
           /\ \A d \in Calls : d # c => keeps(d)
           /\ calls'[c] = call \/ calls'[c] = [call EXCEPT !.held = FALSE]
           /\ members' \in [Nodes -> Clusters \cup {None}]
           /\ \A n \in Nodes : members'[n] = IF n \in ns THEN None ELSE members[n]
<1>. DEFINE after(d) == IF d = c THEN call ELSE calls[d]
<1>1. \A d \in Calls : after(d) \in Call /\ [after(d) EXCEPT !.held = FALSE] \in Call
  BY CallType, FieldTypes
<1>2. \A d \in Calls : calls'[d] = IF after(d).node \in ns
                                   THEN [after(d) EXCEPT !.held = FALSE] ELSE after(d)
  BY DEF membersLeave
<1>3. calls' = [d \in Calls |-> IF after(d).node \in ns
                                THEN [after(d) EXCEPT !.held = FALSE] ELSE after(d)]
  BY DEF membersLeave
<1>4. calls' \in [Calls -> Call]
  <2>. HIDE DEF after
  <2>. QED
    BY <1>1, <1>3
<1>5. /\ members' \in [Nodes -> Clusters \cup {None}]
      /\ \A n \in Nodes : members'[n] = IF n \in ns THEN None ELSE members[n]
  BY DEF membersLeave, TypeOK
<1>. QED
  BY <1>2, <1>4, <1>5 DEF keeps

\* Clusters ks, memberships of ns and the rows of the nodes gone go in one step: nothing is left
\* that refers to what is gone, and a claim of a node that is gone knows it.
LEMMA RowsGo ==
    ASSUME Claiming, NEW c \in Calls, NEW call \in Call, NEW ks, NEW ns, NEW gone,
           clustersGo(ks), membersLeave(ns, c, call), nodesGo(gone), users' \subseteq users,
           gone \subseteq ns, gone \subseteq Nodes, membersOf(ks) \subseteq ns,
           \A n \in Nodes : nodes[n] # None /\ nodes[n] \notin users' => n \in gone,
           \A k \in Clusters : live(k) /\ clusters[k].owner # None
                                  /\ clusters[k].owner \notin users' => k \in ks
    PROVE  /\ TypeOK' /\ ClusterOfOwner' /\ TablesKeep
           /\ \A d \in Calls : d # c => Sound(d)'
<1>1. TypeOK /\ ClusterOfOwner /\ \A d \in Calls : Sound(d)
  BY DEF Claiming
<1>2. /\ calls' \in [Calls -> Call]
      /\ \A d \in Calls : d # c => keeps(d)
      /\ members' \in [Nodes -> Clusters \cup {None}]
      /\ \A n \in Nodes : members'[n] = IF n \in ns THEN None ELSE members[n]
  BY <1>1, LeaveCalls
<1>3. \A k \in Clusters : clusters'[k] = IF k \in ks THEN None ELSE clusters[k]
  BY DEF clustersGo
<1>4. \A n \in Nodes : nodes'[n] = IF n \in gone THEN None ELSE nodes[n]
  BY DEF nodesGo
<1>5. TypeOK'
  <2>1. users' \subseteq Users
    BY <1>1 DEF TypeOK
  <2>2. nodes' \in [Nodes -> users' \cup {None}]
    BY <1>1, <1>4 DEF TypeOK, nodesGo
  <2>3. clusters' \in [Clusters -> Cluster \cup {None}]
    BY <1>1 DEF TypeOK, clustersGo
  <2>4. moved' \subseteq Nodes
    BY <1>1 DEF TypeOK, nodesGo
  <2>5. \A n \in Nodes : members'[n] # None => nodes'[n] # None /\ live(members[n])
                                               /\ members'[n] = members[n] /\ members[n] \notin ks
    BY <1>1, <1>2, <1>4 DEF TypeOK, membersOf
  <2>6. \A n \in Nodes : members'[n] # None => nodes'[n] # None /\ live(members[n])'
    BY <2>5, <1>1, <1>2, <1>3 DEF TypeOK, live
  <2>7. \A k, l \in Clusters : live(k)' /\ live(l)' /\ clusters'[k].fqdn = clusters'[l].fqdn
                                 => k = l
    BY <1>1, <1>3 DEF TypeOK, live
  <2>8. \A k \in Clusters : live(k)' => clusters'[k].owner \in users' \cup {None}
    BY <1>1, <1>3 DEF TypeOK, live
  <2>9. \A n \in Nodes : members'[n] # None => nodes'[n] # None
                            /\ (members'[n] # None /\ clusters'[members'[n]] # None)
    BY <2>5, <2>6 DEF live
  <2>. QED
    BY <1>2, <2>1, <2>2, <2>3, <2>4, <2>7, <2>8, <2>9 DEF TypeOK, live
<1>6. ClusterOfOwner'
  <2>1. ASSUME NEW n \in Nodes, members'[n] # None, n \notin moved'
        PROVE  /\ members'[n] = members[n] /\ n \notin moved /\ nodes'[n] = nodes[n]
               /\ clusters'[members[n]].owner = clusters[members[n]].owner
    <3>1. members'[n] = members[n] /\ n \notin ns /\ n \notin gone
      BY <1>2, <2>1
    <3>2. n \notin moved /\ nodes'[n] = nodes[n]
      BY <1>4, <2>1, <3>1 DEF nodesGo
    <3>3. members[n] \in Clusters /\ members[n] \notin ks
      BY <1>1, <2>1, <3>1 DEF TypeOK, membersOf
    <3>. QED
      BY <1>3, <3>1, <3>2, <3>3
  <2>. QED
    BY <1>1, <2>1, OwnersKept
<1>7. TablesKeep
  <2>1. ASSUME NEW d \in Calls, claims(d), calls[d].node \notin moved',
               nodes'[calls[d].node] # None
        PROVE  calls[d].node \notin moved /\ nodes'[calls[d].node] = nodes[calls[d].node]
    <3>1. calls[d].node \in Nodes
      BY <1>1, <2>1 DEF Sound, Shaped
    <3>2. calls[d].node \notin gone
      BY <1>4, <2>1, <3>1 DEF nodesGo
    <3>. QED
      BY <1>4, <2>1, <3>1, <3>2 DEF nodesGo
  <2>2. \A d \in Calls : calls[d].into \in Clusters \cup {None}
    BY <1>1, CallType
  <2>. QED
    BY <1>3, <2>1, <2>2 DEF TablesKeep
<1>. QED
  BY <1>1, <1>2, <1>5, <1>6, <1>7, OthersSound

LEMMA NothingGoes ==
    ASSUME TypeOK
    PROVE  /\ UNCHANGED clusters => clustersGo({})
           /\ UNCHANGED <<nodes, moved>> => nodesGo({})
           /\ membersOf({}) = {}
           /\ \A n \in Nodes : nodes[n] # None => nodes[n] \in users
           /\ \A k \in Clusters : live(k) /\ clusters[k].owner # None
                                    => clusters[k].owner \in users
  BY DEF TypeOK, clustersGo, nodesGo, membersOf

LEMMA LeaveStep ==
    ASSUME Claiming, NEW c \in Calls, LeaveMembership(c)
    PROVE  Claiming'
<1>. DEFINE call == [calls[c] EXCEPT !.next = "count"]
            ns == IF calls[c].held THEN {calls[c].node} ELSE {}
<1>1. at(c, "leave") /\ membersLeave(ns, c, call) /\ UNCHANGED <<users, nodes, clusters, moved>>
      /\ Sound(c) /\ TypeOK
  BY DEF LeaveMembership, Claiming
<1>2. call \in Call
  BY <1>1, CallType, FieldTypes DEF Steps
<1>3. clustersGo({}) /\ nodesGo({}) /\ membersOf({}) = {}
  BY <1>1, NothingGoes
<1>4. /\ TypeOK' /\ ClusterOfOwner' /\ TablesKeep
      /\ \A d \in Calls : d # c => Sound(d)'
  <2>. HIDE DEF ns, call
  <2>. QED
    BY <1>1, <1>2, <1>3, RowsGo, NothingGoes
<1>5. calls'[c] = call \/ calls'[c] = [call EXCEPT !.held = FALSE]
  <2>. HIDE DEF ns, call
  <2>. QED
    BY <1>1, <1>2, LeaveCalls
<1>6. /\ calls'[c].next = "count" /\ calls'[c].then = calls[c].then
      /\ calls'[c].node = calls[c].node /\ calls'[c].user = calls[c].user
      /\ calls'[c].name = calls[c].name /\ calls'[c].into = calls[c].into
      /\ calls'[c].seen = calls[c].seen /\ calls'[c].joined = calls[c].joined
  <2>1. calls[c] \in Call
    BY <1>1, CallType
  <2>. QED
    BY <1>5, <2>1 DEF Call
<1>7. Sound(c)'
  BY <1>1, <1>6
  DEF Sound, Shaped, SeenKnown, IntoNamed, IntoOwned, claims, looked, chosen, leaving,
      at, live, ClaimSteps
<1>. QED
  BY <1>4, <1>7 DEF Claiming

LEMMA DestroyStep ==
    ASSUME Claiming, NEW c \in Calls, LeaveDestroy(c)
    PROVE  Claiming'
<1>. DEFINE ks == {calls[c].old}
            call == left(c)
<1>1. clustersGo(ks) /\ membersLeave(membersOf(ks), c, call)
      /\ UNCHANGED <<users, nodes, moved>> /\ Sound(c) /\ TypeOK /\ leaving(c)
  BY DEF LeaveDestroy, Claiming, leaving, at
<1>2. call \in Call
  BY <1>1, LeftType
<1>3. nodesGo({})
  BY <1>1, NothingGoes
<1>4. /\ TypeOK' /\ ClusterOfOwner' /\ TablesKeep
      /\ \A d \in Calls : d # c => Sound(d)'
  <2>. HIDE DEF ks, call
  <2>. QED
    BY <1>1, <1>2, <1>3, RowsGo, NothingGoes
<1>5. calls'[c] = call \/ calls'[c] = [call EXCEPT !.held = FALSE]
  <2>. HIDE DEF ks, call
  <2>. QED
    BY <1>1, <1>2, LeaveCalls
<1>6. Sound(c)'
  BY <1>1, <1>4, <1>5, LeftSound
<1>. QED
  BY <1>4, <1>6 DEF Claiming

LEMMA DeleteNodeStep ==
    ASSUME Claiming, NEW c \in Calls, DeleteNode(c)
    PROVE  Claiming'
<1>. DEFINE ns == {calls[c].node}
<1>1. nodesGo(ns) /\ membersLeave(ns, c, Idle) /\ UNCHANGED <<users, clusters>>
      /\ Sound(c) /\ TypeOK /\ ns \subseteq Nodes
  BY DEF DeleteNode, Claiming, Sound, Shaped
<1>2. clustersGo({}) /\ membersOf({}) = {}
  BY <1>1, NothingGoes
<1>3. /\ TypeOK' /\ ClusterOfOwner' /\ TablesKeep
      /\ \A d \in Calls : d # c => Sound(d)'
  <2>. HIDE DEF ns
  <2>. QED
    BY <1>1, <1>2, IdleType, RowsGo, NothingGoes
<1>4. calls'[c] = Idle \/ calls'[c] = [Idle EXCEPT !.held = FALSE]
  <2>. HIDE DEF ns
  <2>. QED
    BY <1>1, IdleType, LeaveCalls
<1>5. calls'[c].next = "idle" /\ calls'[c].then = "idle"
  BY <1>4 DEF Idle
<1>. QED
  BY <1>3, <1>5, IdleSound DEF Claiming

LEMMA ReleaseOwnedStep ==
    ASSUME Claiming, NEW c \in Calls, ReleaseOwned(c)
    PROVE  Claiming'
<1>. DEFINE call == [calls[c] EXCEPT !.next = "deleteUser"]
            ks == ownedBy(calls[c].user)
<1>1. at(c, "owned") /\ clustersGo(ks) /\ membersLeave(membersOf(ks), c, call)
      /\ UNCHANGED <<users, nodes, moved>> /\ Sound(c) /\ TypeOK
  BY DEF ReleaseOwned, Claiming
<1>2. call \in Call
  BY <1>1, CallType, FieldTypes DEF Steps
<1>3. nodesGo({})
  BY <1>1, NothingGoes
<1>4. /\ TypeOK' /\ ClusterOfOwner' /\ TablesKeep
      /\ \A d \in Calls : d # c => Sound(d)'
  <2>. HIDE DEF ks, call
  <2>. QED
    BY <1>1, <1>2, <1>3, RowsGo, NothingGoes
<1>5. calls'[c] = call \/ calls'[c] = [call EXCEPT !.held = FALSE]
  <2>. HIDE DEF ks, call
  <2>. QED
    BY <1>1, <1>2, LeaveCalls
<1>6. calls'[c].next = "deleteUser" /\ calls'[c].then = calls[c].then
      /\ calls'[c].user = calls[c].user
  <2>1. calls[c] \in Call
    BY <1>1, CallType
  <2>. QED
    BY <1>5, <2>1 DEF Call
<1>7. Sound(c)'
  BY <1>1, <1>6
  DEF Sound, Shaped, SeenKnown, IntoNamed, IntoOwned, claims, looked, chosen, leaving,
      at, ClaimSteps
<1>. QED
  BY <1>4, <1>7 DEF Claiming

LEMMA DeleteUserStep ==
    ASSUME Claiming, NEW c \in Calls, DeleteUser(c)
    PROVE  Claiming'
<1>. DEFINE u == calls[c].user
            gone == {n \in Nodes : nodes[n] = u}
            ks == ownedBy(u)
            ns == gone \cup membersOf(ks)
<1>1. users' = users \ {u} /\ nodesGo(gone) /\ clustersGo(ks) /\ membersLeave(ns, c, Idle)
      /\ TypeOK
  BY DEF DeleteUser, Claiming
<1>2. \A n \in Nodes : nodes[n] # None /\ nodes[n] \notin users' => n \in gone
  BY <1>1, NothingGoes
<1>3. \A k \in Clusters : live(k) /\ clusters[k].owner # None
                             /\ clusters[k].owner \notin users' => k \in ks
  BY <1>1, NothingGoes DEF ownedBy, live
<1>4. gone \subseteq ns /\ gone \subseteq Nodes /\ membersOf(ks) \subseteq ns
      /\ users' \subseteq users
  BY <1>1
<1>5. /\ TypeOK' /\ ClusterOfOwner' /\ TablesKeep
      /\ \A d \in Calls : d # c => Sound(d)'
  <2>. HIDE DEF gone, ks, ns, u
  <2>. QED
    BY <1>1, <1>2, <1>3, <1>4, IdleType, RowsGo
<1>6. calls'[c] = Idle \/ calls'[c] = [Idle EXCEPT !.held = FALSE]
  <2>. HIDE DEF ns
  <2>. QED
    BY <1>1, IdleType, LeaveCalls
<1>7. calls'[c].next = "idle" /\ calls'[c].then = "idle"
  BY <1>6 DEF Idle
<1>. QED
  BY <1>5, <1>7, IdleSound DEF Claiming

-----------------------------------------------------------------------------
(* The steps that write rows.                                               *)

LEMMA SaveKeeps ==
    ASSUME Claiming, NEW c \in Calls, NEW call \in Call, goes(c, call),
           NEW k \in Clusters \cup {None}, NEW seen, NEW target \in {"lan", "public"},
           saves(k, seen, target), UNCHANGED <<users, nodes, members, moved>>
    PROVE  TypeOK' /\ ClusterOfOwner' /\ TablesKeep
<1>1. TypeOK /\ ClusterOfOwner
  BY DEF Claiming
<1>2. clusters' \in [Clusters -> Cluster \cup {None}]
  BY <1>1, DomainsAssumption DEF saves, TypeOK, live, Cluster
<1>3. \A j \in Clusters : /\ clusters'[j] # None <=> clusters[j] # None
                          /\ clusters[j] # None => /\ clusters'[j].fqdn = clusters[j].fqdn
                                                   /\ clusters'[j].owner = clusters[j].owner
  <2>. SUFFICES ASSUME NEW j \in Clusters
                PROVE  /\ clusters'[j] # None <=> clusters[j] # None
                       /\ clusters[j] # None => /\ clusters'[j].fqdn = clusters[j].fqdn
                                                /\ clusters'[j].owner = clusters[j].owner
    OBVIOUS
  <2>1. CASE clusters' = clusters
    BY <2>1
  <2>2. CASE live(k) /\ clusters' = [clusters EXCEPT ![k].target = target]
    <3>1. CASE j = k
      <4>1. clusters[k] \in Cluster
        BY <1>1, <2>2, <3>1 DEF TypeOK, live
      <4>2. clusters'[k] = [clusters[k] EXCEPT !.target = target]
        BY <1>1, <2>2, <3>1 DEF TypeOK
      <4>3. clusters'[k] \in Cluster
        BY <4>1, <4>2 DEF Cluster
      <4>4. ~ (None \in Cluster)
        BY DomainsAssumption
      <4>. QED
        BY <3>1, <4>1, <4>2, <4>3, <4>4 DEF Cluster
    <3>2. CASE j # k
      BY <1>1, <2>2, <3>2 DEF TypeOK
    <3>. QED
      BY <3>1, <3>2
  <2>. QED
    BY <2>1, <2>2 DEF saves
<1>4. TypeOK'
  <2>1. \A j, l \in Clusters : live(j)' /\ live(l)' /\ clusters'[j].fqdn = clusters'[l].fqdn
                                 => j = l
    BY <1>1, <1>3 DEF TypeOK, live
  <2>2. \A j \in Clusters : live(j)' => clusters'[j].owner \in users \cup {None}
    BY <1>1, <1>3 DEF TypeOK, live
  <2>3. \A n \in Nodes : members[n] # None => nodes[n] # None /\ live(members[n])'
    BY <1>1, <1>3 DEF TypeOK, live
  <2>4. calls' \in [Calls -> Call]
    BY <1>1 DEF TypeOK, goes
  <2>. QED
    BY <1>1, <1>2, <2>1, <2>2, <2>3, <2>4 DEF TypeOK, live
<1>5. ClusterOfOwner'
  <2>1. \A n \in Nodes : members'[n] # None =>
            clusters'[members[n]].owner = clusters[members[n]].owner
    BY <1>1, <1>3 DEF TypeOK, live
  <2>. QED
    BY <1>1, <2>1, OwnersKept
<1>6. TablesKeep
  BY <1>1, <1>3, CallType DEF TablesKeep
<1>. QED
  BY <1>4, <1>5, <1>6

LEMMA OthersKept ==
    ASSUME Claiming, NEW c \in Calls, NEW call, goes(c, call), TablesKeep
    PROVE  \A d \in Calls : d # c => Sound(d)'
<1>. SUFFICES ASSUME NEW d \in Calls, d # c PROVE Sound(d)'
  OBVIOUS
<1>1. keeps(d)
  BY DEF goes, keeps, Claiming, TypeOK
<1>. QED
  BY <1>1, OthersSound DEF Claiming

LEMMA ReprobeStep ==
    ASSUME Claiming, NEW c \in Calls, Reprobe(c)
    PROVE  Claiming'
<1>. DEFINE c1 == [Idle EXCEPT !.next = "sync"]
            call == [c1 EXCEPT !.node = calls[c].node]
<1>1. at(c, "saveReprobe") /\ UNCHANGED <<users, nodes, members, moved>> /\ TypeOK /\ Sound(c)
  BY DEF Reprobe, Claiming
<1>2. CASE UNCHANGED clusters /\ returns(c)
  BY <1>1, <1>2, IdleStep DEF tables
<1>3. CASE saves(calls[c].into, calls[c].seen, "public")
           /\ goes(c, [Idle EXCEPT !.next = "sync", !.node = calls[c].node])
  <2>1. c1 \in Call
    BY IdleType, FieldTypes DEF Steps
  <2>2. call \in Call
    BY <1>1, <2>1, CallType, FieldTypes
  <2>3. goes(c, call)
    BY <1>3 DEF Idle
  <2>4. calls[c].into \in Clusters \cup {None}
    BY <1>1, CallType
  <2>5. TypeOK' /\ ClusterOfOwner' /\ TablesKeep
    <3>. HIDE DEF call
    <3>. QED
      BY <1>1, <1>3, <2>2, <2>3, <2>4, SaveKeeps
  <2>6. calls'[c].next = "sync" /\ calls'[c].then = "idle" /\ calls'[c].node = calls[c].node
    BY <1>1, <2>3 DEF goes, TypeOK, Idle
  <2>7. Sound(c)'
    BY <1>1, <2>6
    DEF Sound, Shaped, SeenKnown, IntoNamed, IntoOwned, claims, looked, chosen,
        leaving, at, ClaimSteps
  <2>. QED
    <3>. HIDE DEF call
    <3>. QED
      BY <2>3, <2>5, <2>7, OthersKept DEF Claiming
<1>. QED
  BY <1>2, <1>3 DEF Reprobe

\* A claim that goes on to join: the cluster is of the owner of its node, or it knows better.
LEMMA JoiningSound ==
    ASSUME Claiming, NEW c \in Calls, at(c, "probe"), NEW k \in Clusters,
           goes(c, joining(c, k)), UNCHANGED <<nodes, moved>>,
           live(k)' /\ ~calls[c].joined
             /\ calls[c].node \notin moved /\ nodes[calls[c].node] # None
               => clusters'[k].owner = nodes[calls[c].node]
    PROVE  joining(c, k) \in Call /\ Sound(c)'
<1>1. claims(c) /\ Sound(c) /\ TypeOK
  BY DEF Claiming, claims, ClaimSteps, at
<1>2. calls[c].node \in Nodes /\ calls[c].joined \in BOOLEAN
  BY <1>1, CallType DEF Sound, Shaped
<1>3. joining(c, k) \in Call
  <2>. DEFINE c1 == [Idle EXCEPT !.next = "join"]
              c2 == [c1 EXCEPT !.node = calls[c].node]
              c3 == [c2 EXCEPT !.joined = calls[c].joined]
              call == [c3 EXCEPT !.into = k]
  <2>1. c1 \in Call
    BY IdleType, FieldTypes DEF Steps, ClaimSteps
  <2>2. c2 \in Call
    BY <1>2, <2>1, FieldTypes
  <2>3. c3 \in Call
    BY <1>2, <2>2, FieldTypes
  <2>4. call \in Call
    BY <2>3, FieldTypes
  <2>5. call = joining(c, k)
    BY DEF joining, Idle
  <2>. QED
    BY <2>4, <2>5
<1>5. /\ calls'[c].next = "join" /\ calls'[c].then = "idle" /\ calls'[c].node = calls[c].node
      /\ calls'[c].user = None /\ calls'[c].into = k /\ calls'[c].joined = calls[c].joined
  BY <1>1 DEF goes, TypeOK, joining, Idle
<1>6. Sound(c)'
  BY <1>1, <1>2, <1>5
  DEF Sound, Shaped, SeenKnown, IntoNamed, IntoOwned, claims, looked, chosen, leaving,
      at, live, ClaimSteps
<1>. QED
  BY <1>3, <1>6

LEMMA ProbeStep ==
    ASSUME Claiming, NEW c \in Calls, ProbeAndSave(c)
    PROVE  Claiming'
<1>1. at(c, "probe") /\ UNCHANGED <<users, nodes, members, moved>> /\ Sound(c) /\ TypeOK
      /\ ClusterOfOwner
  BY DEF ProbeAndSave, Claiming
<1>2. looked(c) /\ chosen(c) /\ claims(c)
  BY <1>1 DEF looked, chosen, claims, at, ClaimSteps
<1>3. calls[c].node \in Nodes /\ calls[c].name \in Names
  BY <1>1, <1>2 DEF Sound, Shaped
<1>4. ASSUME NEW probed \in {"lan", "public"}, calls[c].into # None,
             saves(calls[c].into, calls[c].seen,
                   IF calls[c].seen = "public" THEN "public" ELSE probed),
             goes(c, joining(c, calls[c].into))
      PROVE  Claiming'
  <2>. PICK k \in Clusters : k = calls[c].into
    BY <1>1, <1>4, CallType
  <2>2. clusters'[k] # None =>
            clusters[k] # None /\ clusters'[k].owner = clusters[k].owner
    BY <1>1, <1>4, DomainsAssumption DEF saves, live, TypeOK, Cluster
  <2>3. live(k)' /\ ~calls[c].joined
          /\ calls[c].node \notin moved /\ nodes[calls[c].node] # None
            => clusters'[k].owner = nodes[calls[c].node]
    BY <1>1, <1>2, <2>2 DEF Sound, IntoOwned, live
  <2>4. joining(c, k) \in Call /\ Sound(c)'
    BY <1>1, <1>4, <2>3, JoiningSound
  <2>5. TypeOK' /\ ClusterOfOwner' /\ TablesKeep
    BY <1>1, <1>4, <2>4, SaveKeeps
  <2>. QED
    BY <1>4, <2>4, <2>5, OthersKept DEF Claiming
<1>5. CASE UNCHANGED clusters /\ returns(c)
  BY <1>1, <1>5, IdleStep DEF tables
<1>6. ASSUME NEW probed \in {"lan", "public"}, NEW k \in Clusters, unusedCluster(k),
             clusterNamed(calls[c].name) = None,
             clusters' = [clusters EXCEPT ![k] =
                 [fqdn |-> calls[c].name, owner |-> nodes[calls[c].node], target |-> probed]],
             goes(c, joining(c, k))
      PROVE  Claiming'
  <2>. DEFINE row == [fqdn |-> calls[c].name, owner |-> nodes[calls[c].node],
                      target |-> probed]
  <2>1. row \in Cluster /\ row # None /\ row.owner \in users \cup {None}
    BY <1>1, <1>3, DomainsAssumption DEF TypeOK, Cluster
  <2>2. clusters' \in [Clusters -> Cluster \cup {None}]
        /\ \A j \in Clusters : clusters'[j] = IF j = k THEN row ELSE clusters[j]
    BY <1>1, <1>6, <2>1 DEF TypeOK
  <2>3. joining(c, k) \in Call /\ Sound(c)'
    <3>1. clusters'[k].owner = nodes[calls[c].node]
      BY <2>2
    <3>. QED
      BY <1>1, <1>6, <3>1, JoiningSound
  <2>4. \A j \in Clusters : live(j) /\ clusters[j].fqdn = calls[c].name => FALSE
    BY <1>1, <1>3, <1>6, NamedCluster DEF live
  <2>5. clusters[k] = None /\ \A d \in Calls : calls[d].into # k
    BY <1>6 DEF unusedCluster
  <2>6. TablesKeep
    BY <1>1, <2>2, <2>5, CallType DEF TablesKeep
  <2>7. TypeOK'
    <3>1. \A j, l \in Clusters : live(j)' /\ live(l)' /\ clusters'[j].fqdn = clusters'[l].fqdn
                                   => j = l
      BY <1>1, <2>2, <2>4 DEF TypeOK, live
    <3>2. \A j \in Clusters : live(j)' => clusters'[j].owner \in users \cup {None}
      BY <1>1, <2>1, <2>2 DEF TypeOK, live
    <3>3. \A n \in Nodes : members[n] # None => nodes[n] # None /\ live(members[n])'
      BY <1>1, <2>2, <2>5 DEF TypeOK, live
    <3>4. calls' \in [Calls -> Call]
      BY <1>1, <1>6, <2>3 DEF TypeOK, goes
    <3>. QED
      BY <1>1, <2>2, <3>1, <3>2, <3>3, <3>4 DEF TypeOK, live
  <2>8. ClusterOfOwner'
    <3>1. \A n \in Nodes : members'[n] # None =>
              clusters'[members[n]].owner = clusters[members[n]].owner
      BY <1>1, <2>2, <2>5 DEF TypeOK, live
    <3>. QED
      BY <1>1, <3>1, OwnersKept
  <2>. QED
    BY <1>6, <2>3, <2>6, <2>7, <2>8, OthersKept DEF Claiming
<1>. QED
  BY <1>4, <1>5, <1>6 DEF ProbeAndSave

LEMMA JoinStep ==
    ASSUME Claiming, NEW c \in Calls, Join(c)
    PROVE  Claiming'
<1>. DEFINE joins == ~calls[c].joined /\ canJoin(calls[c].node, calls[c].into)
            c1 == [Idle EXCEPT !.next = "sync"]
            call == [c1 EXCEPT !.node = calls[c].node]
<1>1. at(c, "join") /\ UNCHANGED <<users, nodes, clusters, moved>> /\ Sound(c) /\ TypeOK
      /\ ClusterOfOwner
  BY DEF Join, Claiming
<1>2. claims(c) /\ chosen(c)
  BY <1>1 DEF claims, chosen, at, ClaimSteps
<1>3. calls[c].node \in Nodes /\ calls[c].into \in Clusters
  BY <1>1, <1>2 DEF Sound, Shaped
<1>4. call \in Call
  <2>1. c1 \in Call
    BY IdleType, FieldTypes DEF Steps
  <2>. QED
    BY <1>3, <2>1, FieldTypes
<1>5. TablesKeep
  BY <1>1 DEF TablesKeep
<1>6. (goes(c, call) \/ goes(c, Idle)) /\ (~joins => UNCHANGED members)
      /\ (joins => members' = [members EXCEPT ![calls[c].node] = calls[c].into])
  BY DEF Join, returns, Idle
<1>7. Sound(c)' /\ calls' \in [Calls -> Call] /\ \A d \in Calls : d # c => Sound(d)'
  <2>1. CASE goes(c, call)
    <3>1. calls'[c].next = "sync" /\ calls'[c].then = "idle" /\ calls'[c].node = calls[c].node
      BY <1>1, <2>1 DEF goes, TypeOK, Idle
    <3>2. Sound(c)'
      BY <1>3, <3>1
      DEF Sound, Shaped, SeenKnown, IntoNamed, IntoOwned, claims, looked, chosen,
          leaving, at, ClaimSteps
    <3>. HIDE DEF call
    <3>. QED
      BY <1>1, <1>4, <1>5, <2>1, <3>2, OthersKept DEF goes, TypeOK
  <2>2. CASE goes(c, Idle)
    <3>1. calls'[c].next = "idle" /\ calls'[c].then = "idle"
      BY <1>1, <2>2 DEF goes, TypeOK, Idle
    <3>. QED
      BY <1>1, <1>5, <2>2, <3>1, IdleSound, IdleType, OthersKept DEF goes, TypeOK
  <2>. QED
    BY <1>6, <2>1, <2>2
<1>8. CASE ~joins
  BY <1>1, <1>6, <1>7, <1>8 DEF Claiming, TypeOK, live, ClusterOfOwner
<1>9. CASE joins
  <2>1. \A n \in Nodes : members'[n] = IF n = calls[c].node THEN calls[c].into ELSE members[n]
    BY <1>1, <1>6, <1>9 DEF TypeOK
  <2>2. nodes[calls[c].node] # None /\ live(calls[c].into) /\ ~calls[c].joined
    BY <1>9 DEF canJoin
  <2>3. calls[c].node \notin moved => clusters[calls[c].into].owner = nodes[calls[c].node]
    BY <1>1, <1>2, <2>2 DEF Sound, IntoOwned
  <2>4. ClusterOfOwner'
    BY <1>1, <2>1, <2>3 DEF ClusterOfOwner
  <2>5. members' \in [Nodes -> Clusters \cup {None}]
    BY <1>1, <1>3, <1>6, <1>9 DEF TypeOK
  <2>6. \A n \in Nodes : members'[n] # None => nodes[n] # None /\ live(members'[n])
    BY <1>1, <2>1, <2>2 DEF TypeOK
  <2>7. TypeOK'
    BY <1>1, <1>7, <2>5, <2>6 DEF TypeOK, live
  <2>. QED
    BY <1>7, <2>4, <2>7 DEF Claiming
<1>. QED
  BY <1>8, <1>9

\* A node that has no row is in no cluster, and no claim of it counts on its owner.
LEMMA RegisterStep ==
    ASSUME Claiming, Register
    PROVE  Claiming'
<1>. PICK u \in users, n \in Nodes :
        /\ nodes[n] = None /\ nodes' = [nodes EXCEPT ![n] = u]
        /\ moved' = moved \cup {m \in {n} : \E c \in Calls : claiming(c, m)}
        /\ UNCHANGED <<users, clusters, members, calls>>
  BY DEF Register
<1>1. TypeOK /\ ClusterOfOwner /\ \A d \in Calls : Sound(d)
  BY DEF Claiming
<1>2. u # None
  BY <1>1, DomainsAssumption DEF TypeOK
<1>3. TypeOK'
  BY <1>1, <1>2 DEF TypeOK, live
<1>4. ClusterOfOwner'
  <2>1. members[n] = None
    BY <1>1 DEF TypeOK
  <2>. QED
    BY <1>1, <2>1 DEF ClusterOfOwner, TypeOK
<1>5. TablesKeep
  <2>1. ASSUME NEW d \in Calls, claims(d), calls[d].node \notin moved'
        PROVE  calls[d].node \notin moved /\ nodes'[calls[d].node] = nodes[calls[d].node]
    <3>1. calls[d].node \in Nodes /\ calls[d].node # n
      BY <1>1, <2>1 DEF Sound, Shaped, claims, claiming
    <3>. QED
      BY <1>1, <2>1, <3>1 DEF TypeOK
  <2>. QED
    BY <2>1 DEF TablesKeep
<1>6. \A d \in Calls : Sound(d)'
  BY <1>1, <1>5, OthersSound DEF keeps
<1>. QED
  BY <1>3, <1>4, <1>6 DEF Claiming

LEMMA RestartStep ==
    ASSUME Claiming, Restart
    PROVE  Claiming'
<1>1. TypeOK' /\ ClusterOfOwner'
  BY IdleType DEF Restart, Claiming, TypeOK, ClusterOfOwner, live, tables
<1>2. \A d \in Calls : calls'[d].next = "idle" /\ calls'[d].then = "idle"
  BY DEF Restart, Idle
<1>. QED
  BY <1>1, <1>2, IdleSound DEF Claiming

LEMMA InitClaiming == Init => Claiming
<1>. SUFFICES ASSUME Init PROVE Claiming
  OBVIOUS
<1>1. TypeOK /\ ClusterOfOwner
  BY IdleType DEF Init, TypeOK, ClusterOfOwner, live
<1>2. \A d \in Calls : calls[d].next = "idle" /\ calls[d].then = "idle"
  BY DEF Init, Idle
<1>3. \A d \in Calls : Sound(d)
  BY <1>2
  DEF Sound, Shaped, SeenKnown, IntoNamed, IntoOwned, claims, looked, chosen, leaving,
      at, ClaimSteps
<1>. QED
  BY <1>1, <1>3 DEF Claiming

LEMMA NextClaiming == Claiming /\ [Next]_vars => Claiming'
<1>. SUFFICES ASSUME Claiming, [Next]_vars PROVE Claiming'
  OBVIOUS
<1>1. CASE UNCHANGED vars
  <2>1. TypeOK' /\ ClusterOfOwner' /\ TablesKeep
    BY <1>1 DEF Claiming, TypeOK, ClusterOfOwner, TablesKeep, live, vars, tables
  <2>2. \A d \in Calls : Sound(d)'
    BY <1>1, <2>1, OthersSound DEF Claiming, keeps, vars
  <2>. QED
    BY <2>1, <2>2 DEF Claiming
<1>2. ASSUME NEW c \in Calls, Handler(c) PROVE Claiming'
  BY <1>2, ClaimStep, FindStep, AvailableStep, LeaveStep, CountStep, DestroyStep, ProbeStep,
     JoinStep, SyncReadStep, SyncRecordsStep, TimerStep, ReprobeStep, TeardownStep,
     UserDeleteStep, ReleaseStep, DeleteNodeStep, ReleaseOwnedStep, DeleteUserStep
  DEF Handler
<1>. QED
  BY <1>1, <1>2, RegisterStep, RestartStep DEF Next

-----------------------------------------------------------------------------
(* Theorems.                                                                *)

\* The tables keep their keys and references, and every handler in flight its type.
THEOREM DomainsTypeCorrect == Spec => []TypeOK
<1>1. Claiming => TypeOK
  BY DEF Claiming
<1>. QED
  BY <1>1, InitClaiming, NextClaiming, PTL DEF Spec

\* No claim brings a node into a cluster of another owner, however it is interleaved with leaves,
\* removals of nodes and accounts, other claims and restarts (domain_service.js:146-202).
THEOREM ClustersStayOwned == Spec => []ClusterOfOwner
<1>1. Claiming => ClusterOfOwner
  BY DEF Claiming
<1>. QED
  BY <1>1, InitClaiming, NextClaiming, PTL DEF Spec

PublicStep ==
    \A k \in Clusters : live(k) /\ clusters[k].target = "public" /\ clusters'[k] # None
        => clusters'[k].target = "public"

\* A save keeps a cluster public, whatever was read: what is written then is "public" as well, or
\* differs from what was read, which was not "public".
LEMMA SavePublic ==
    ASSUME TypeOK, NEW j \in Clusters \cup {None}, NEW seen, NEW target \in {"lan", "public"},
           saves(j, seen, target),
           target = "public" \/ target = seen
    PROVE  PublicStep
<1>1. CASE clusters' = clusters
  BY <1>1 DEF PublicStep
<1>2. CASE live(j) /\ target # seen /\ clusters' = [clusters EXCEPT ![j].target = "public"]
  <2>1. j \in Clusters /\ clusters[j] \in Cluster
    BY <1>2 DEF TypeOK, live
  <2>2. \A k \in Clusters : clusters'[k] = IF k = j THEN [clusters[j] EXCEPT !.target = "public"]
                                           ELSE clusters[k]
    BY <1>2, <2>1 DEF TypeOK
  <2>3. clusters'[j].target = "public"
    BY <2>1, <2>2 DEF Cluster
  <2>. QED
    BY <2>2, <2>3 DEF PublicStep
<1>. QED
  BY <1>1, <1>2 DEF saves

LEMMA NextPublic == Claiming /\ [Next]_vars => PublicStep
<1>. SUFFICES ASSUME Claiming, [Next]_vars PROVE PublicStep
  OBVIOUS
<1>1. TypeOK
  BY DEF Claiming
<1>2. CASE UNCHANGED clusters
  BY <1>2 DEF PublicStep
<1>3. ASSUME NEW ks, clustersGo(ks) PROVE PublicStep
  BY <1>3 DEF clustersGo, PublicStep
<1>4. ASSUME NEW c \in Calls, ProbeAndSave(c) PROVE PublicStep
  <2>1. looked(c)
    BY <1>4 DEF ProbeAndSave, looked, at
  <2>2. ASSUME NEW probed \in {"lan", "public"}, calls[c].into # None,
               saves(calls[c].into, calls[c].seen,
                     IF calls[c].seen = "public" THEN "public" ELSE probed)
        PROVE  PublicStep
    <3>. DEFINE target == IF calls[c].seen = "public" THEN "public" ELSE probed
    <3>1. calls[c].seen \in {"lan", "public"}
      BY <2>1, <2>2 DEF Claiming, Sound, SeenKnown
    <3>2. target \in {"lan", "public"} /\ (target = "public" \/ target = calls[c].seen)
      BY <3>1
    <3>3. calls[c].into \in Clusters \cup {None}
      BY <1>1, CallType
    <3>. HIDE DEF target
    <3>4. saves(calls[c].into, calls[c].seen, target)
      BY <2>2 DEF target
    <3>. QED
      BY <1>1, <3>2, <3>3, <3>4, SavePublic
  <2>3. ASSUME NEW k \in Clusters, NEW row, unusedCluster(k),
               clusters' = [clusters EXCEPT ![k] = row]
        PROVE  PublicStep
    BY <1>1, <2>3 DEF PublicStep, unusedCluster, live, TypeOK
  <2>. QED
    BY <1>2, <1>4, <2>2, <2>3 DEF ProbeAndSave
<1>5. ASSUME NEW c \in Calls, SyncRecords(c) PROVE PublicStep
  BY <1>2, <1>5 DEF SyncRecords, saves
<1>6. ASSUME NEW c \in Calls, Reprobe(c) PROVE PublicStep
  BY <1>1, <1>2, <1>6, CallType, SavePublic DEF Reprobe
<1>7. ASSUME NEW c \in Calls, Handler(c) PROVE PublicStep
  BY <1>2, <1>3, <1>4, <1>5, <1>6, <1>7
  DEF Handler, NodeDomainClaim, FindCluster, Available, LeaveMembership, LeaveCount, LeaveDestroy,
      Join, SyncRead, ScheduledReprobe, TeardownNode, UserDelete, Release, DeleteNode,
      ReleaseOwned, DeleteUser, starts, tables
<1>. QED
  BY <1>2, <1>7 DEF Next, Register, Restart, vars, tables

\* No save of a handler that read the cluster earlier takes back that it is reached from outside.
THEOREM PublicIsKept == Spec => PublicStays
<1>1. Claiming /\ [Next]_vars => [PublicStep]_vars
  BY NextPublic
<1>. QED
  BY <1>1, InitClaiming, NextClaiming, PTL DEF Spec, PublicStays, PublicStep
=============================================================================
