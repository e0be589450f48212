---------------------------- MODULE NodePeering ----------------------------
(***************************************************************************)
(* Which nodes see each other on their own network.  A node reports its    *)
(* machine id and those of its peers (node:peers in modules/node/index.js);*)
(* the maps in memory follow at once, the rows of services/data_service.js *)
(* in transactions that overlap, a restart restores the former from the    *)
(* latter, and the removal of a node forgets it.  The inventory of a user  *)
(* groups the nodes that are linked (buildClusters in proxy.js).           *)
(***************************************************************************)
EXTENDS Naturals, FiniteSets, FiniteSetsExt

CONSTANTS
    PeerNodes, Machines,
    NoId,           \* no machine id, or no node
    MaxReports,     \* bound: reports and removals of a behaviour
    MaxPeers        \* bound: peers of a report

\* A fleet has finitely many nodes.
ASSUME PeeringAssumption == NoId \notin PeerNodes \cup Machines /\ IsFiniteSet(PeerNodes)

VARIABLES
    machineIdByNodeId, nodeIdByMachineId, peersByNodeId,
    machineIds, peerLists,          \* columns machineId and peers of the rows of Node
    peerRows,                       \* nodes that have a row
    peerSockets,                    \* nodes with a connected socket
    peerUpdates,                    \* handlers in flight, by what they do next
    peerReports                     \* how many there have been

peerMaps == <<machineIdByNodeId, nodeIdByMachineId, peersByNodeId>>
peerTables == <<machineIds, peerLists, peerRows>>
peeringVars == <<peerMaps, peerTables, peerSockets, peerUpdates, peerReports>>

\* What a handler holds: for setNodePeering the rows it clears, for removeNodePeer the lists it read.
PeerUpdate ==
    [step : {"clear", "set", "forget", "read", "write", "disconnect"}, id : Nat,
     node : PeerNodes, machine : Machines \cup {NoId}, peers : SUBSET Machines,
     rows : SUBSET PeerNodes, lists : [PeerNodes -> SUBSET Machines]]

PeeringInit ==
    /\ machineIdByNodeId = [n \in PeerNodes |-> NoId]
    /\ nodeIdByMachineId = [m \in Machines |-> NoId]
    /\ peersByNodeId = [n \in PeerNodes |-> {}]
    /\ machineIds = machineIdByNodeId /\ peerLists = peersByNodeId
    /\ peerRows = PeerNodes /\ peerSockets = PeerNodes
    /\ peerUpdates = {} /\ peerReports = 0

peerUpdate(n, step, m, ps) ==
    [step |-> step, id |-> peerReports, node |-> n, machine |-> m, peers |-> ps,
     rows |-> {}, lists |-> [x \in PeerNodes |-> {}]]

starting(u) ==
    /\ peerReports < MaxReports
    /\ peerReports' = peerReports + 1
    /\ peerUpdates' = peerUpdates \cup {u}

\* u has taken a step, and is v now.
goesOnAs(u, v) == peerUpdates' = (peerUpdates \ {u}) \cup v /\ UNCHANGED peerReports

\* Mutant: the previous machine id of the node still leads to it.
withPrevious(n, m) == nodeIdByMachineId

\* The map without the previous machine id of n, if it is another than m.
withoutPrevious(n, m) ==
    [x \in Machines |->
        IF x = machineIdByNodeId[n] /\ x # m THEN NoId ELSE nodeIdByMachineId[x]]

\* A report: m takes the place of the previous machine id of n, n that of the previous node of m.
NodePeers(n, m, ps) ==
    LET previous == withoutPrevious(n, m)
    IN  /\ n \in peerSockets
        /\ IF m = NoId THEN UNCHANGED <<machineIdByNodeId, nodeIdByMachineId>>
           ELSE /\ machineIdByNodeId' = [x \in PeerNodes |->
                       IF x = n THEN m
                       ELSE IF x = previous[m] THEN NoId ELSE machineIdByNodeId[x]]
                /\ nodeIdByMachineId' = [previous EXCEPT ![m] = n]
        /\ peersByNodeId' = [peersByNodeId EXCEPT ![n] = ps]
        /\ starting(peerUpdate(n, "clear", m, ps))
        /\ UNCHANGED <<peerTables, peerSockets>>

\* The transaction of setNodePeering: it locks the rows of other nodes that have the machine id ...
SetPeeringClear(u) ==
    /\ u.step = "clear"
    /\ goesOnAs(u, {[u EXCEPT !.step = "set",
                              !.rows = {n \in PeerNodes \ {u.node} :
                                            u.machine # NoId /\ machineIds[n] = u.machine}]})
    /\ UNCHANGED <<peerMaps, peerTables, peerSockets>>

\* ... and commits, with its own row, if that still exists.
SetNodePeering(u) ==
    /\ u.step = "set"
    /\ machineIds' = [n \in PeerNodes |->
           IF n \in u.rows /\ machineIds[n] = u.machine THEN NoId
           ELSE IF n = u.node /\ n \in peerRows /\ u.machine # NoId THEN u.machine
           ELSE machineIds[n]]
    /\ peerLists' = [peerLists EXCEPT ![u.node] = IF u.node \in peerRows THEN u.peers ELSE {}]
    /\ goesOnAs(u, {})
    /\ UNCHANGED <<peerMaps, peerRows, peerSockets>>

\* The row of a node goes first, with its columns.
DeletePeerRow(n) ==
    /\ n \in peerRows
    /\ peerRows' = peerRows \ {n}
    /\ machineIds' = [machineIds EXCEPT ![n] = NoId]
    /\ peerLists' = [peerLists EXCEPT ![n] = {}]
    /\ starting(peerUpdate(n, "forget", NoId, {}))
    /\ UNCHANGED <<peerMaps, peerSockets>>

\* forgetNodePeering, up to its await.
ForgetNodePeering(u) ==
    LET n == u.node
        m == machineIdByNodeId[n]
    IN  /\ u.step = "forget"
        /\ machineIdByNodeId' = [machineIdByNodeId EXCEPT ![n] = NoId]
        /\ nodeIdByMachineId' = [x \in Machines |->
               IF x = m /\ nodeIdByMachineId[x] = n THEN NoId ELSE nodeIdByMachineId[x]]
        /\ peersByNodeId' = [x \in PeerNodes |-> IF x = n THEN {} ELSE peersByNodeId[x] \ {m}]
        /\ goesOnAs(u, {[u EXCEPT !.step = IF m = NoId THEN "disconnect" ELSE "read", !.machine = m]})
        /\ UNCHANGED <<peerTables, peerSockets>>

\* The transaction of removeNodePeer: the lists are read ...
RemovePeerRead(u) ==
    /\ u.step = "read"
    /\ goesOnAs(u, {[u EXCEPT !.step = "write", !.lists = peerLists,
                              !.rows = {n \in peerRows : u.machine \in peerLists[n]}]})
    /\ UNCHANGED <<peerMaps, peerTables, peerSockets>>

\* ... and written back without the machine id, whatever they are by now.
RemoveNodePeer(u) ==
    /\ u.step = "write"
    /\ peerLists' = [n \in PeerNodes |->
           IF n \in u.rows \cap peerRows THEN u.lists[n] \ {u.machine} ELSE peerLists[n]]
    /\ goesOnAs(u, {peerUpdate(u.node, "disconnect", NoId, {})})
    /\ UNCHANGED <<peerMaps, machineIds, peerRows, peerSockets>>

DisconnectPeer(u) ==
    /\ u.step = "disconnect"
    /\ peerSockets' = peerSockets \ {u.node}
    /\ goesOnAs(u, {})
    /\ UNCHANGED <<peerMaps, peerTables>>

\* A restart loses the handlers; the maps are restored from the rows in whatever order they
\* come, before any node connects.
RestorePeering ==
    /\ machineIdByNodeId' = machineIds
    /\ \E by \in [Machines -> PeerNodes \cup {NoId}] :
        /\ \A m \in Machines : IF \E n \in PeerNodes : machineIds[n] = m
                               THEN by[m] # NoId /\ machineIds[by[m]] = m ELSE by[m] = NoId
        /\ nodeIdByMachineId' = by
    /\ peersByNodeId' = peerLists
    /\ peerUpdates' = {} /\ peerSockets' = peerRows
    /\ UNCHANGED <<peerTables, peerReports>>

PeeringNext ==
    \/ \E n \in PeerNodes, m \in Machines \cup {NoId}, ps \in SUBSET Machines :
        Cardinality(ps) <= MaxPeers /\ NodePeers(n, m, ps)
    \/ \E n \in PeerNodes : DeletePeerRow(n)
    \/ \E u \in peerUpdates :
        \/ SetPeeringClear(u) \/ SetNodePeering(u) \/ ForgetNodePeering(u)
        \/ RemovePeerRead(u) \/ RemoveNodePeer(u) \/ DisconnectPeer(u)
    \/ RestorePeering

PeeringSpec == PeeringInit /\ [][PeeringNext]_peeringVars

-----------------------------------------------------------------------------
(* What the inventory makes of it.                                          *)

\* Links among the nodes of an inventory, as buildClusters follows them.
linksOf(ids) ==
    {l \in ids \X ids : \E m \in peersByNodeId[l[1]] : nodeIdByMachineId[m] = l[2]}

\* buildClusters: a forest of parents, in which each link unites the trees of its ends.
rootsOf(parent) ==
    LET find[n \in DOMAIN parent] == IF parent[n] = n THEN n ELSE find[parent[n]]
    IN  find

union(link, parent) ==
    LET find == rootsOf(parent)
    IN  [parent EXCEPT ![find[link[1]]] = find[link[2]]]

buildClusters(ids) ==
    LET roots == rootsOf(FoldSet(union, [n \in ids |-> n], linksOf(ids)))
    IN  [n \in ids |-> {x \in ids : roots[x] = roots[n]}]

\* Whoever starts at a and follows links in either direction gets to b.
connected(links, ids, a, b) ==
    \A S \in SUBSET ids :
        (a \in S /\ \A l \in links : (l[1] \in S) = (l[2] \in S)) => b \in S

\* Links by what the nodes report of themselves.
reportedLinks(ids) ==
    {l \in ids \X ids : machineIdByNodeId[l[2]] \in peersByNodeId[l[1]]}

\* A machine id leads to a node only while that is the machine id the node has, however machine
\* ids move between nodes, nodes are forgotten and maps restored: modules/node/index.js:304-325.
MachinesKnown ==
    \A m \in Machines : nodeIdByMachineId[m] # NoId => machineIdByNodeId[nodeIdByMachineId[m]] = m

\* The nodes shown as one cluster, in any inventory, are linked by what they report now, and
\* nodes linked by the maps are never shown apart: modules/node/proxy.js:97-137.
ClustersCorrect ==
    \A ids \in SUBSET PeerNodes :
        LET clusters == buildClusters(ids)
            links == linksOf(ids)
            reported == reportedLinks(ids)
        IN  \A a, b \in ids :
            /\ b \in clusters[a] => connected(reported, ids, a, b)
            /\ connected(links, ids, a, b) => b \in clusters[a]
=============================================================================
