-------------------------- MODULE NodeReportsProofs --------------------------
(***************************************************************************)
(* Proofs about what nodes report: NodePeering, NodeNotices, Connectivity  *)
(* and Certificates, for any nodes, machine ids, subscriptions, windows    *)
(* and limits.                                                             *)
(***************************************************************************)
EXTENDS NodePeering, NodeNotices, Connectivity, Certificates, FiniteSetTheorems, TLAPS

-----------------------------------------------------------------------------
(* Peering: the maps.                                                       *)

PeeringTypeOK ==
    /\ machineIdByNodeId \in [PeerNodes -> Machines \cup {NoId}]
    /\ nodeIdByMachineId \in [Machines -> PeerNodes \cup {NoId}]
    /\ peersByNodeId \in [PeerNodes -> SUBSET Machines]
    /\ machineIds \in [PeerNodes -> Machines \cup {NoId}]
    /\ peerLists \in [PeerNodes -> SUBSET Machines]
    /\ peerRows \subseteq PeerNodes /\ peerSockets \subseteq PeerNodes
    /\ peerUpdates \subseteq PeerUpdate
    /\ peerReports \in Nat

Known == PeeringTypeOK /\ MachinesKnown

LEMMA InitKnown == PeeringInit => Known
<1> SUFFICES ASSUME PeeringInit PROVE Known
  OBVIOUS
<1>1. PeeringTypeOK
  BY DEF PeeringInit, PeeringTypeOK
<1>2. MachinesKnown
  BY DEF PeeringInit, MachinesKnown
<1>. QED
  BY <1>1, <1>2 DEF Known

\* A new handler has its type, and one that goes on keeps it.
LEMMA StartingType ==
    ASSUME PeeringTypeOK, NEW n \in PeerNodes, NEW step \in {"clear", "forget"},
           NEW m \in Machines \cup {NoId}, NEW ps \in SUBSET Machines,
           starting(peerUpdate(n, step, m, ps))
    PROVE  peerUpdates' \subseteq PeerUpdate /\ peerReports' \in Nat
<1>1. peerUpdate(n, step, m, ps) \in PeerUpdate
  BY DEF peerUpdate, PeerUpdate, PeeringTypeOK
<1>. QED
  BY <1>1 DEF starting, PeeringTypeOK

LEMMA GoesOnType ==
    ASSUME PeeringTypeOK, NEW u, NEW v \in SUBSET PeerUpdate, goesOnAs(u, v)
    PROVE  peerUpdates' \subseteq PeerUpdate /\ peerReports' \in Nat
  BY DEF goesOnAs, PeeringTypeOK

-----------------------------------------------------------------------------
(* The steps that change the maps.                                          *)

\* The machine id a node takes leads to it, its previous one to nobody, and the node it is taken
\* from has none.
LEMMA ReportKnown ==
    ASSUME Known, NEW n \in PeerNodes, NEW m \in Machines \cup {NoId}, NEW ps \in SUBSET Machines,
           NodePeers(n, m, ps)
    PROVE  Known'
<1>1. peersByNodeId' \in [PeerNodes -> SUBSET Machines]
  BY DEF NodePeers, Known, PeeringTypeOK
<1>2. peerUpdates' \subseteq PeerUpdate /\ peerReports' \in Nat
  BY StartingType DEF NodePeers, Known
<1>3. CASE m = NoId
  BY <1>1, <1>2, <1>3 DEF NodePeers, Known, PeeringTypeOK, MachinesKnown, peerTables
<1>4. CASE m # NoId
  <2> DEFINE previous == withoutPrevious(n, m)
  <2>1. m \in Machines
    BY <1>4
  <2>2. previous \in [Machines -> PeerNodes \cup {NoId}]
    BY DEF withoutPrevious, Known, PeeringTypeOK
  <2>3. /\ machineIdByNodeId' = [x \in PeerNodes |->
               IF x = n THEN m ELSE IF x = previous[m] THEN NoId ELSE machineIdByNodeId[x]]
        /\ nodeIdByMachineId' = [previous EXCEPT ![m] = n]
    BY <1>4 DEF NodePeers
  <2> HIDE DEF previous
  <2>4. machineIdByNodeId' \in [PeerNodes -> Machines \cup {NoId}]
    BY <2>1, <2>3 DEF Known, PeeringTypeOK
  <2>5. nodeIdByMachineId' \in [Machines -> PeerNodes \cup {NoId}]
    BY <2>2, <2>3
  <2>6. MachinesKnown'
    <3> SUFFICES ASSUME NEW x \in Machines, nodeIdByMachineId'[x] # NoId
                 PROVE  machineIdByNodeId'[nodeIdByMachineId'[x]] = x
      BY DEF MachinesKnown
    <3>1. CASE x = m
      BY <2>1, <2>2, <2>3, <3>1
    <3>2. CASE x # m
      <4>1. nodeIdByMachineId'[x] = previous[x] /\ previous[x] # NoId
        BY <2>2, <2>3, <3>2
      <4>2. previous[x] = nodeIdByMachineId[x] /\ x # machineIdByNodeId[n]
        BY <4>1, <3>2 DEF withoutPrevious, previous
      <4>3. previous[x] \in PeerNodes /\ machineIdByNodeId[previous[x]] = x
        BY <4>1, <4>2 DEF Known, MachinesKnown, PeeringTypeOK
      <4>4. previous[x] # n
        BY <4>2, <4>3
      <4>5. previous[x] # previous[m]
        <5>1. previous[m] = nodeIdByMachineId[m]
          BY <2>1 DEF previous, withoutPrevious
        <5>. QED
          BY <2>1, <5>1, <4>1, <4>3, <3>2 DEF Known, MachinesKnown
      <4>. QED
        BY <2>3, <4>1, <4>3, <4>4, <4>5
    <3>. QED
      BY <3>1, <3>2
  <2>. QED
    BY <1>1, <1>2, <2>4, <2>5, <2>6 DEF NodePeers, Known, PeeringTypeOK, peerTables
<1>. QED
  BY <1>3, <1>4

LEMMA ForgetKnown ==
    ASSUME Known, NEW u \in peerUpdates, ForgetNodePeering(u)
    PROVE  Known'
<1> DEFINE n == u.node
           m == machineIdByNodeId[n]
           v == [u EXCEPT !.step = IF m = NoId THEN "disconnect" ELSE "read", !.machine = m]
<1>1. u \in PeerUpdate /\ n \in PeerNodes /\ m \in Machines \cup {NoId}
  BY DEF Known, PeeringTypeOK, PeerUpdate
<1>2. v \in PeerUpdate
  BY <1>1 DEF PeerUpdate
<1>3. goesOnAs(u, {v})
  BY DEF ForgetNodePeering
<1>4. peerUpdates' \subseteq PeerUpdate /\ peerReports' \in Nat
  BY <1>2, <1>3, GoesOnType DEF Known
<1> HIDE DEF v
<1>5. /\ machineIdByNodeId' = [machineIdByNodeId EXCEPT ![n] = NoId]
      /\ nodeIdByMachineId' = [x \in Machines |->
             IF x = m /\ nodeIdByMachineId[x] = n THEN NoId ELSE nodeIdByMachineId[x]]
      /\ peersByNodeId' = [x \in PeerNodes |-> IF x = n THEN {} ELSE peersByNodeId[x] \ {m}]
      /\ UNCHANGED <<peerTables, peerSockets>>
  BY DEF ForgetNodePeering
<1>6. PeeringTypeOK'
  BY <1>4, <1>5 DEF Known, PeeringTypeOK, peerTables
<1>7. MachinesKnown'
  <2> SUFFICES ASSUME NEW x \in Machines, nodeIdByMachineId'[x] # NoId
               PROVE  machineIdByNodeId'[nodeIdByMachineId'[x]] = x
    BY DEF MachinesKnown
  <2>1. nodeIdByMachineId'[x] = nodeIdByMachineId[x] /\ (x # m \/ nodeIdByMachineId[x] # n)
    BY <1>5
  <2>2. nodeIdByMachineId[x] \in PeerNodes /\ machineIdByNodeId[nodeIdByMachineId[x]] = x
    BY <2>1 DEF Known, MachinesKnown, PeeringTypeOK
  <2>. QED
    BY <1>5, <2>1, <2>2 DEF Known, PeeringTypeOK
<1>. QED
  BY <1>6, <1>7 DEF Known

\* Whichever of the rows with a machine id comes last, it has that machine id.
LEMMA RestoreKnown == ASSUME Known, RestorePeering PROVE Known'
<1>1. PICK by \in [Machines -> PeerNodes \cup {NoId}] :
          /\ \A m \in Machines : IF \E n \in PeerNodes : machineIds[n] = m
                                 THEN by[m] # NoId /\ machineIds[by[m]] = m ELSE by[m] = NoId
          /\ nodeIdByMachineId' = by
  BY DEF RestorePeering
<1>2. PeeringTypeOK'
  BY <1>1 DEF RestorePeering, Known, PeeringTypeOK, peerTables
<1>3. MachinesKnown'
  BY <1>1 DEF RestorePeering, MachinesKnown
<1>. QED
  BY <1>2, <1>3 DEF Known

-----------------------------------------------------------------------------
(* The steps that change rows or handlers only.                             *)

LEMMA RowsKnown ==
    ASSUME Known, UNCHANGED peerMaps,
           machineIds' \in [PeerNodes -> Machines \cup {NoId}],
           peerLists' \in [PeerNodes -> SUBSET Machines],
           peerRows' \subseteq PeerNodes, peerSockets' \subseteq PeerNodes,
           peerUpdates' \subseteq PeerUpdate, peerReports' \in Nat
    PROVE  Known'
  BY DEF Known, PeeringTypeOK, MachinesKnown, peerMaps

LEMMA DeleteKnown == ASSUME Known, NEW n \in PeerNodes, DeletePeerRow(n) PROVE Known'
<1>1. peerUpdates' \subseteq PeerUpdate /\ peerReports' \in Nat
  BY StartingType DEF DeletePeerRow, Known
<1>. QED
  BY <1>1, RowsKnown DEF DeletePeerRow, Known, PeeringTypeOK

LEMMA UpdateKnown ==
    ASSUME Known, NEW u \in peerUpdates,
           \/ SetPeeringClear(u) \/ SetNodePeering(u)
           \/ RemovePeerRead(u) \/ RemoveNodePeer(u) \/ DisconnectPeer(u)
    PROVE  Known'
<1>1. u \in PeerUpdate /\ u.node \in PeerNodes /\ u.machine \in Machines \cup {NoId}
      /\ u.peers \subseteq Machines /\ u.lists \in [PeerNodes -> SUBSET Machines]
  BY DEF Known, PeeringTypeOK, PeerUpdate
<1>2. CASE SetPeeringClear(u)
  <2> DEFINE rows == {n \in PeerNodes \ {u.node} : u.machine # NoId /\ machineIds[n] = u.machine}
             v == [u EXCEPT !.step = "set", !.rows = rows]
  <2>1. rows \in SUBSET PeerNodes
    OBVIOUS
  <2> HIDE DEF rows
  <2>2. v \in PeerUpdate
    BY <1>1, <2>1 DEF PeerUpdate
  <2>3. goesOnAs(u, {v})
    BY <1>2 DEF SetPeeringClear, rows
  <2>4. peerUpdates' \subseteq PeerUpdate /\ peerReports' \in Nat
    BY <2>2, <2>3, GoesOnType DEF Known
  <2>. QED
    BY <1>2, <2>4, RowsKnown DEF SetPeeringClear, peerTables, Known, PeeringTypeOK
<1>3. CASE SetNodePeering(u)
  <2>1. peerUpdates' \subseteq PeerUpdate /\ peerReports' \in Nat
    BY <1>3, GoesOnType DEF SetNodePeering, Known
  <2>2. machineIds' \in [PeerNodes -> Machines \cup {NoId}]
    BY <1>1, <1>3 DEF SetNodePeering, Known, PeeringTypeOK
  <2>3. peerLists' \in [PeerNodes -> SUBSET Machines]
    BY <1>1, <1>3 DEF SetNodePeering, Known, PeeringTypeOK
  <2>. QED
    BY <1>3, <2>1, <2>2, <2>3, RowsKnown DEF SetNodePeering, Known, PeeringTypeOK
<1>4. CASE RemovePeerRead(u)
  <2> DEFINE rows == {n \in peerRows : u.machine \in peerLists[n]}
             v == [u EXCEPT !.step = "write", !.lists = peerLists, !.rows = rows]
  <2>1. rows \in SUBSET PeerNodes
    BY DEF Known, PeeringTypeOK
  <2> HIDE DEF rows
  <2>2. v \in PeerUpdate
    BY <1>1, <2>1 DEF PeerUpdate, Known, PeeringTypeOK
  <2>3. goesOnAs(u, {v})
    BY <1>4 DEF RemovePeerRead, rows
  <2>4. peerUpdates' \subseteq PeerUpdate /\ peerReports' \in Nat
    BY <2>2, <2>3, GoesOnType DEF Known
  <2>. QED
    BY <1>4, <2>4, RowsKnown DEF RemovePeerRead, peerTables, Known, PeeringTypeOK
<1>5. CASE RemoveNodePeer(u)
  <2> DEFINE v == peerUpdate(u.node, "disconnect", NoId, {})
  <2>1. v \in PeerUpdate
    BY <1>1 DEF peerUpdate, PeerUpdate, Known, PeeringTypeOK
  <2>2. goesOnAs(u, {v})
    BY <1>5 DEF RemoveNodePeer
  <2>3. peerUpdates' \subseteq PeerUpdate /\ peerReports' \in Nat
    BY <2>1, <2>2, GoesOnType DEF Known
  <2>4. peerLists' \in [PeerNodes -> SUBSET Machines]
    BY <1>1, <1>5 DEF RemoveNodePeer, Known, PeeringTypeOK
  <2>. QED
    BY <1>5, <2>3, <2>4, RowsKnown DEF RemoveNodePeer, Known, PeeringTypeOK
<1>6. CASE DisconnectPeer(u)
  <2>1. peerUpdates' \subseteq PeerUpdate /\ peerReports' \in Nat
    BY <1>6, GoesOnType DEF DisconnectPeer, Known
  <2>. QED
    BY <1>6, <2>1, RowsKnown DEF DisconnectPeer, peerTables, Known, PeeringTypeOK
<1>. QED
  BY <1>2, <1>3, <1>4, <1>5, <1>6

LEMMA NextKnown == Known /\ [PeeringNext]_peeringVars => Known'
<1> SUFFICES ASSUME Known, [PeeringNext]_peeringVars PROVE Known'
  OBVIOUS
<1>1. CASE UNCHANGED peeringVars
  BY <1>1, RowsKnown DEF peeringVars, peerTables, peerMaps, Known, PeeringTypeOK
<1>2. ASSUME NEW n \in PeerNodes, NEW m \in Machines \cup {NoId}, NEW ps \in SUBSET Machines,
             NodePeers(n, m, ps)
      PROVE  Known'
  BY <1>2, ReportKnown
<1>3. ASSUME NEW n \in PeerNodes, DeletePeerRow(n) PROVE Known'
  BY <1>3, DeleteKnown
<1>4. ASSUME NEW u \in peerUpdates, ForgetNodePeering(u) PROVE Known'
  BY <1>4, ForgetKnown
<1>. QED
  BY <1>1, <1>2, <1>3, <1>4, UpdateKnown, RestoreKnown DEF PeeringNext

-----------------------------------------------------------------------------
\* Every variable keeps its type, whatever overlaps.
THEOREM PeeringTypeCorrect == PeeringSpec => []PeeringTypeOK
<1>1. Known => PeeringTypeOK
  BY DEF Known
<1>. QED
  BY <1>1, InitKnown, NextKnown, PTL DEF PeeringSpec

\* A machine id leads to a node only while it is the machine id of that node: node:peers and
\* forgetNodePeering never leave a stale entry, and a restart restores none.
THEOREM MachinesAreKnown == PeeringSpec => []MachinesKnown
<1>1. Known => MachinesKnown
  BY DEF Known
<1>. QED
  BY <1>1, InitKnown, NextKnown, PTL DEF PeeringSpec

\* So the links that buildClusters follows in any inventory are those the nodes report.
LEMMA LinksKnown == Known => \A ids \in SUBSET PeerNodes : linksOf(ids) \subseteq reportedLinks(ids)
<1> SUFFICES ASSUME Known, NEW ids \in SUBSET PeerNodes, NEW l \in linksOf(ids)
             PROVE  l \in reportedLinks(ids)
  OBVIOUS
<1>1. l \in ids \X ids
  BY DEF linksOf
<1>2. PICK m \in peersByNodeId[l[1]] : nodeIdByMachineId[m] = l[2]
  BY DEF linksOf
<1>3. l[1] \in PeerNodes /\ l[2] \in PeerNodes
  BY <1>1
<1>4. m \in Machines /\ l[2] # NoId
  BY <1>3, PeeringAssumption DEF Known, PeeringTypeOK
<1>5. machineIdByNodeId[l[2]] = m
  BY <1>2, <1>4 DEF Known, MachinesKnown
<1>. QED
  BY <1>1, <1>2, <1>5 DEF reportedLinks

\* An inventory links two nodes only if one of them lists the machine id the other has reported.
THEOREM LinksAreReported ==
    PeeringSpec => [](\A ids \in SUBSET PeerNodes : linksOf(ids) \subseteq reportedLinks(ids))
  BY LinksKnown, InitKnown, NextKnown, PTL DEF PeeringSpec

-----------------------------------------------------------------------------
(* Least counterexamples stand for induction.                               *)

\* A nonempty set of numbers has a least one.
LEMMA LeastNumber ==
    ASSUME NEW S \in SUBSET Nat, S # {}
    PROVE  \E m \in S : \A k \in S : m <= k
<1>1. PICK m \in S : \A y \in S : ~ (<<y, m>> \in OpToRel(<, Nat))
  BY NatLessThanWellFounded, WFMin
<1>2. \A k \in S : ~ (k < m)
  BY <1>1 DEF OpToRel
<1>. QED
  BY <1>2

-----------------------------------------------------------------------------
(* Folds.  One that takes an element at a time from a finite set computes   *)
(* what its equation says, whichever element it picks: links in any order,  *)
(* events from the newest, segments from the last.                          *)

picked(kind, s) ==
    CASE kind = "links"    -> CHOOSE x \in s : TRUE
      [] kind = "events"   -> newest(s)
      [] kind = "segments" -> Max(s)

\* What comes of v by x, an index of seq for segments.
folded(kind, seq, x, v) ==
    CASE kind = "links"    -> union(x, v)
      [] kind = "events"   -> closesAt(x, v)
      [] kind = "segments" -> collapsed(v, seq[x])

\* iter has the value of the fold for each member of Sets, which has with a set the rest of it.
folds(kind, seq, base, Sets, iter) ==
    iter = [s \in Sets |->
        IF s = {} THEN base
        ELSE folded(kind, seq, picked(kind, s), iter[s \ {picked(kind, s)}])]

picks(kind, S) == \A s \in SUBSET S : s # {} => picked(kind, s) \in s

upToSize(S, n) == {t \in SUBSET S : Cardinality(t) <= n}

\* One that does for sets of up to n elements gives one for sets of n + 1.
LEMMA FoldsFurther ==
    ASSUME NEW kind, NEW seq, NEW base, NEW S, IsFiniteSet(S), picks(kind, S),
           NEW n \in Nat, NEW g, folds(kind, seq, base, upToSize(S, n), g)
    PROVE  \E h : folds(kind, seq, base, upToSize(S, n + 1), h)
<1> DEFINE small == upToSize(S, n)
           large == upToSize(S, n + 1)
           one(s) == picked(kind, s)
           h == [s \in large |->
                    IF s = {} THEN base ELSE folded(kind, seq, one(s), g[s \ {one(s)}])]
<1>1. \A s \in small : h[s] = g[s]
  <2>1. ASSUME NEW s \in small PROVE s \in large
    BY FS_Subset, FS_CardinalityType DEF upToSize
  <2>. QED
    BY <2>1 DEF folds
<1>2. ASSUME NEW s \in large, s # {} PROVE s \ {one(s)} \in small
  <2>1. one(s) \in s /\ s \subseteq S /\ IsFiniteSet(s)
    BY <1>2, FS_Subset DEF upToSize, picks
  <2>2. Cardinality(s \ {one(s)}) = Cardinality(s) - 1 /\ Cardinality(s) \in Nat
    BY <2>1, FS_RemoveElement, FS_CardinalityType
  <2>. QED
    BY <2>1, <2>2 DEF upToSize
<1>3. h = [s \in large |-> IF s = {} THEN base ELSE folded(kind, seq, one(s), h[s \ {one(s)}])]
  <2>1. \A s \in large : s # {} => h[s \ {one(s)}] = g[s \ {one(s)}]
    BY <1>1, <1>2
  <2>2. h = [s \in large |->
                IF s = {} THEN base ELSE folded(kind, seq, one(s), g[s \ {one(s)}])]
    OBVIOUS
  <2> HIDE DEF h, large, one
  <2>. QED
    BY <2>1, <2>2
<1>. QED
  BY <1>3 DEF folds

LEMMA FoldExists ==
    ASSUME NEW kind, NEW seq, NEW base, NEW S, IsFiniteSet(S), picks(kind, S)
    PROVE  \E iter : folds(kind, seq, base, SUBSET S, iter)
<1> DEFINE Bad == {n \in Nat : ~ \E g : folds(kind, seq, base, upToSize(S, n), g)}
<1>1. 0 \notin Bad
  <2> DEFINE g == [s \in upToSize(S, 0) |-> base]
  <2>1. ASSUME NEW t \in upToSize(S, 0) PROVE t = {}
    BY FS_Subset, FS_EmptySet, FS_CardinalityType DEF upToSize
  <2>2. folds(kind, seq, base, upToSize(S, 0), g)
    BY <2>1 DEF folds
  <2>. QED
    BY <2>2
<1>2. Bad = {}
  <2> SUFFICES ASSUME Bad # {} PROVE FALSE
    OBVIOUS
  <2>1. PICK m \in Bad : \A k \in Bad : m <= k
    BY LeastNumber
  <2>2. m - 1 \in Nat /\ m - 1 \notin Bad
    BY <1>1, <2>1
  <2>3. PICK g : folds(kind, seq, base, upToSize(S, m - 1), g)
    BY <2>2
  <2>4. \E h : folds(kind, seq, base, upToSize(S, (m - 1) + 1), h)
    BY <2>2, <2>3, FoldsFurther
  <2>5. (m - 1) + 1 = m
    BY <2>1
  <2>. QED
    BY <2>1, <2>4, <2>5
<1>3. Cardinality(S) \in Nat
  BY FS_CardinalityType
<1>4. PICK g : folds(kind, seq, base, upToSize(S, Cardinality(S)), g)
  BY <1>2, <1>3
<1>5. upToSize(S, Cardinality(S)) = SUBSET S
  BY FS_Subset DEF upToSize
<1>. QED
  BY <1>4, <1>5

\* The folds of the two models.
LEMMA FoldOfLinks ==
    ASSUME NEW base, NEW S, IsFiniteSet(S)
    PROVE  \E iter : folds("links", <<>>, base, SUBSET S, iter) /\ FoldSet(union, base, S) = iter[S]
<1>1. picks("links", S)
  BY DEF picks, picked
<1>2. \E iter : folds("links", <<>>, base, SUBSET S, iter)
  BY <1>1, FoldExists
<1> DEFINE h == CHOOSE iter : folds("links", <<>>, base, SUBSET S, iter)
<1>3. folds("links", <<>>, base, SUBSET S, h)
  BY <1>2
<1>4. FoldSet(union, base, S) = h[S]
  BY DEF FoldSet, MapThenFoldSet, folds, folded, picked
<1>. QED
  BY <1>3, <1>4

LEMMA FoldOfEvents ==
    ASSUME NEW base, NEW S, IsFiniteSet(S), picks("events", S)
    PROVE  \E iter : /\ folds("events", <<>>, base, SUBSET S, iter)
                     /\ MapThenFoldSet(closesAt, base, LAMBDA e : e, newest, S) = iter[S]
<1>1. \E iter : folds("events", <<>>, base, SUBSET S, iter)
  BY FoldExists
<1> DEFINE h == CHOOSE iter : folds("events", <<>>, base, SUBSET S, iter)
<1>2. folds("events", <<>>, base, SUBSET S, h)
  BY <1>1
<1>3. MapThenFoldSet(closesAt, base, LAMBDA e : e, newest, S) = h[S]
  BY DEF MapThenFoldSet, folds, folded, picked
<1>. QED
  BY <1>2, <1>3

LEMMA FoldOfSegments ==
    ASSUME NEW base, NEW seq, IsFiniteSet(DOMAIN seq), picks("segments", DOMAIN seq)
    PROVE  \E iter : /\ folds("segments", seq, base, SUBSET DOMAIN seq, iter)
                     /\ FoldLeft(collapsed, base, seq) = iter[DOMAIN seq]
<1>1. \E iter : folds("segments", seq, base, SUBSET DOMAIN seq, iter)
  BY FoldExists
<1> DEFINE h == CHOOSE iter : folds("segments", seq, base, SUBSET DOMAIN seq, iter)
<1>2. folds("segments", seq, base, SUBSET DOMAIN seq, h)
  BY <1>1
<1>3. FoldLeft(collapsed, base, seq) = h[DOMAIN seq]
  BY DEF FoldLeft, MapThenFoldSet, folds, folded, picked
<1>. QED
  BY <1>2, <1>3

-----------------------------------------------------------------------------
(* Peering: what buildClusters computes.                                    *)

isRooted(parent, find) ==
    find = [n \in DOMAIN parent |-> IF parent[n] = n THEN n ELSE find[parent[n]]]

LEMMA RootsOfChoose ==
    ASSUME NEW parent, NEW f, isRooted(parent, f)
    PROVE  isRooted(parent, rootsOf(parent))
  BY DEF isRooted, rootsOf

\* find leads each node of the forest to a root, over parents of lesser and lesser rank.
leadsToRoots(parent, find, rank, ids) ==
    /\ parent \in [ids -> ids] /\ find \in [ids -> ids] /\ rank \in [ids -> Nat]
    /\ \A n \in ids :
        /\ parent[find[n]] = find[n]
        /\ parent[n] = n => find[n] = n
        /\ parent[n] # n => find[n] = find[parent[n]] /\ rank[parent[n]] < rank[n]

LEMMA RootsOfForest ==
    ASSUME NEW ids, NEW parent, NEW find, NEW rank, leadsToRoots(parent, find, rank, ids)
    PROVE  rootsOf(parent) = find
<1> DEFINE g == rootsOf(parent)
<1>1. DOMAIN parent = ids /\ find = [n \in ids |-> find[n]]
  BY DEF leadsToRoots
<1>2. find = [n \in ids |-> IF parent[n] = n THEN n ELSE find[parent[n]]]
  BY DEF leadsToRoots
<1>3. isRooted(parent, g)
  BY <1>1, <1>2, RootsOfChoose DEF isRooted
<1>4. g = [n \in ids |-> IF parent[n] = n THEN n ELSE g[parent[n]]]
  BY <1>1, <1>3 DEF isRooted
<1> HIDE DEF g
<1>5. \A n \in ids : g[n] = find[n]
  <2> DEFINE Bad == {n \in ids : g[n] # find[n]}
  <2> SUFFICES ASSUME Bad # {} PROVE FALSE
    OBVIOUS
  <2>1. {rank[n] : n \in Bad} \in SUBSET Nat /\ {rank[n] : n \in Bad} # {}
    BY DEF leadsToRoots
  <2>2. PICK least \in {rank[n] : n \in Bad} : \A k \in {rank[n] : n \in Bad} : least <= k
    BY <2>1, LeastNumber
  <2>3. PICK n \in Bad : \A x \in Bad : rank[n] <= rank[x]
    BY <2>2
  <2>4. parent[n] # n /\ parent[n] \in ids
    BY <1>4 DEF leadsToRoots
  <2>5. rank[parent[n]] < rank[n] /\ rank[parent[n]] \in Nat /\ rank[n] \in Nat
    BY <2>4 DEF leadsToRoots
  <2>6. parent[n] \notin Bad
    BY <2>3, <2>5
  <2>. QED
    BY <1>4, <2>4, <2>6 DEF leadsToRoots
<1>. QED
  BY <1>1, <1>4, <1>5 DEF g

\* What union makes of it, when a and b are the roots of the ends of the link.
joinedAt(find, a, b, ids) == [n \in ids |-> IF find[n] = a THEN b ELSE find[n]]
rankedAt(rank, find, a, b, ids) ==
    [n \in ids |-> IF find[n] = a THEN rank[n] + rank[b] + 1 ELSE rank[n]]

LEMMA UnionForest ==
    ASSUME NEW ids, NEW parent, NEW find, NEW rank, leadsToRoots(parent, find, rank, ids),
           NEW link \in ids \X ids
    PROVE  LET a == find[link[1]]
               b == find[link[2]]
           IN  leadsToRoots(union(link, parent), joinedAt(find, a, b, ids),
                            rankedAt(rank, find, a, b, ids), ids)
<1> DEFINE a == find[link[1]]
           b == find[link[2]]
           p == [parent EXCEPT ![a] = b]
           f == joinedAt(find, a, b, ids)
           k == rankedAt(rank, find, a, b, ids)
<1>1. rootsOf(parent) = find
  BY RootsOfForest
<1>2. union(link, parent) = p
  BY <1>1 DEF union
<1>3. a \in ids /\ b \in ids /\ parent[a] = a /\ parent[b] = b /\ find[a] = a /\ find[b] = b
  BY DEF leadsToRoots
<1> HIDE DEF a, b
<1>4. p \in [ids -> ids] /\ f \in [ids -> ids] /\ k \in [ids -> Nat]
  BY <1>3 DEF leadsToRoots, joinedAt, rankedAt
<1>5. ASSUME NEW n \in ids
      PROVE  /\ p[f[n]] = f[n]
             /\ p[n] = n => f[n] = n
             /\ p[n] # n => f[n] = f[p[n]] /\ k[p[n]] < k[n]
  <2>1. p[n] = IF n = a THEN b ELSE parent[n]
    BY <1>3 DEF leadsToRoots
  <2>2. \A x \in ids : f[x] = IF find[x] = a THEN b ELSE find[x]
    BY DEF joinedAt
  <2>3. \A x \in ids : k[x] = IF find[x] = a THEN rank[x] + rank[b] + 1 ELSE rank[x]
    BY DEF rankedAt
  <2>4. \A x \in ids : p[x] = IF x = a THEN b ELSE parent[x]
    BY <1>3 DEF leadsToRoots
  <2>5. \A x \in ids : find[x] \in ids /\ parent[x] \in ids /\ rank[x] \in Nat
    BY DEF leadsToRoots
  <2> HIDE DEF p, f, k
  <2>6. p[f[n]] = f[n]
    BY <1>3, <2>2, <2>4, <2>5 DEF leadsToRoots
  <2>7. p[n] = n => f[n] = n
    BY <1>3, <2>1, <2>2, <2>5 DEF leadsToRoots
  <2>8. ASSUME p[n] # n PROVE f[n] = f[p[n]]
    BY <1>3, <2>1, <2>2, <2>5, <2>8 DEF leadsToRoots
  <2>9. ASSUME p[n] # n PROVE k[p[n]] < k[n]
    <3>1. CASE n = a
      BY <1>3, <2>1, <2>3, <2>5, <2>9, <3>1
    <3>2. CASE n # a
      <4>1. p[n] = parent[n] /\ parent[n] # n
        BY <2>1, <2>9, <3>2
      <4>2. find[n] = find[parent[n]] /\ rank[parent[n]] < rank[n]
        BY <4>1 DEF leadsToRoots
      <4>. QED
        BY <1>3, <2>3, <2>5, <4>1, <4>2
    <3>. QED
      BY <3>1, <3>2
  <2>. QED
    BY <2>6, <2>7, <2>8, <2>9
<1>6. leadsToRoots(p, f, k, ids)
  BY <1>4, <1>5 DEF leadsToRoots
<1>. QED
  BY <1>2, <1>6 DEF a, b

\* Two nodes have the same root if and only if links lead from one to the other.
separates(find, links, ids) ==
    \A x, y \in ids : find[x] = find[y] <=> connected(links, ids, x, y)

LEMMA UnionSeparates ==
    ASSUME NEW ids, NEW links \in SUBSET (ids \X ids), NEW link \in ids \X ids,
           NEW find \in [ids -> ids], separates(find, links, ids)
    PROVE  separates(joinedAt(find, find[link[1]], find[link[2]], ids), links \cup {link}, ids)
<1> DEFINE a == find[link[1]]
           b == find[link[2]]
           f == joinedAt(find, a, b, ids)
<1>1. \A x \in ids : f[x] = IF find[x] = a THEN b ELSE find[x]
  BY DEF joinedAt
<1>2. a \in ids /\ b \in ids /\ link[1] \in ids /\ link[2] \in ids
  OBVIOUS
<1>3. ASSUME NEW x \in ids, NEW y \in ids, connected(links \cup {link}, ids, x, y)
      PROVE  f[x] = f[y]
  <2> DEFINE S == {n \in ids : f[n] = f[x]}
  <2>1. ASSUME NEW l \in links PROVE f[l[1]] = f[l[2]]
    <3>1. l[1] \in ids /\ l[2] \in ids
      OBVIOUS
    <3>2. connected(links, ids, l[1], l[2])
      BY <3>1 DEF connected
    <3>3. find[l[1]] = find[l[2]]
      BY <3>1, <3>2 DEF separates
    <3>. QED
      BY <1>1, <3>1, <3>3
  <2>2. f[link[1]] = b /\ f[link[2]] = b
    BY <1>1, <1>2
  <2> HIDE DEF f, a, b
  <2>3. \A l \in links \cup {link} : (l[1] \in S) = (l[2] \in S)
    BY <1>2, <2>1, <2>2
  <2>4. S \in SUBSET ids /\ x \in S
    OBVIOUS
  <2>5. y \in S
    BY <1>3, <2>3, <2>4 DEF connected
  <2>. QED
    BY <2>5
<1>4. ASSUME NEW x \in ids, NEW y \in ids, f[x] = f[y],
             NEW S \in SUBSET ids, x \in S, \A l \in links \cup {link} : (l[1] \in S) = (l[2] \in S)
      PROVE  y \in S
  <2>1. ASSUME NEW u \in ids, NEW v \in ids, find[u] = find[v], u \in S
        PROVE  v \in S
    <3>1. connected(links, ids, u, v)
      BY <2>1 DEF separates
    <3>. QED
      BY <1>4, <2>1, <3>1 DEF connected
  <2>2. (link[1] \in S) = (link[2] \in S)
    BY <1>4
  <2>3. CASE find[x] = find[y]
    BY <1>4, <2>1, <2>3
  <2>4. CASE find[x] = a /\ find[y] = b
    BY <1>2, <1>4, <2>1, <2>2, <2>4
  <2>5. CASE find[x] = b /\ find[y] = a
    BY <1>2, <1>4, <2>1, <2>2, <2>5
  <2>6. find[x] = find[y] \/ (find[x] = a /\ find[y] = b) \/ (find[x] = b /\ find[y] = a)
    BY <1>1, <1>4
  <2>. QED
    BY <2>3, <2>4, <2>5, <2>6
<1>. QED
  BY <1>3, <1>4 DEF separates, connected

IsForestOf(parent, links, ids) ==
    \E find, rank : leadsToRoots(parent, find, rank, ids) /\ separates(find, links, ids)

\* The fold unites the links one by one, in whatever order: by what is left to unite.
LEMMA FoldedForest ==
    ASSUME NEW ids, NEW links \in SUBSET (ids \X ids), IsFiniteSet(links),
           NEW iter, folds("links", <<>>, [n \in ids |-> n], SUBSET links, iter)
    PROVE  IsForestOf(iter[links], links, ids)
<1> DEFINE start == [n \in ids |-> n]
           Bad == {s \in SUBSET links : ~ IsForestOf(iter[s], s, ids)}
<1>1. Bad \in SUBSET FiniteSubsetsOf(links)
  BY FS_FiniteSubsetsOfFinite
<1>2. ASSUME NEW s \in Bad, \A t \in Bad : ~ (<<t, s>> \in StrictSubsetOrdering(links))
      PROVE  FALSE
  <2>1. CASE s = {}
    <3>1. iter[s] = start
      BY <2>1 DEF folds
    <3>2. leadsToRoots(start, start, [n \in ids |-> 0], ids)
      BY DEF leadsToRoots
    <3>3. separates(start, s, ids)
      <4> SUFFICES ASSUME NEW x \in ids, NEW y \in ids
                   PROVE  start[x] = start[y] <=> connected(s, ids, x, y)
        BY DEF separates
      <4>1. ASSUME connected(s, ids, x, y) PROVE x = y
        <5>1. {x} \in SUBSET ids
          OBVIOUS
        <5>. QED
          BY <2>1, <4>1, <5>1 DEF connected
      <4>2. connected(s, ids, x, x)
        BY DEF connected
      <4>. QED
        BY <4>1, <4>2
    <3>. QED
      BY <3>1, <3>2, <3>3 DEF IsForestOf
  <2>2. CASE s # {}
    <3> DEFINE link == CHOOSE x \in s : TRUE
               rest == s \ {link}
    <3>1. link \in s /\ s \in SUBSET links /\ link \in ids \X ids
      BY <2>2
    <3>2. iter[s] = union(link, iter[rest])
      BY <2>2, <3>1 DEF folds, folded, picked
    <3> HIDE DEF link
    <3>3. rest \in SUBSET links /\ <<rest, s>> \in StrictSubsetOrdering(links)
      BY <3>1 DEF StrictSubsetOrdering
    <3>4. IsForestOf(iter[rest], rest, ids)
      BY <1>2, <3>3
    <3>5. PICK find, rank : leadsToRoots(iter[rest], find, rank, ids) /\ separates(find, rest, ids)
      BY <3>4 DEF IsForestOf
    <3>6. find \in [ids -> ids] /\ rest \in SUBSET (ids \X ids)
      BY <3>3, <3>5 DEF leadsToRoots
    <3> DEFINE a == find[link[1]]
               b == find[link[2]]
    <3>7. leadsToRoots(union(link, iter[rest]), joinedAt(find, a, b, ids),
                       rankedAt(rank, find, a, b, ids), ids)
      BY <3>1, <3>5, UnionForest
    <3>8. separates(joinedAt(find, a, b, ids), rest \cup {link}, ids)
      BY <3>1, <3>5, <3>6, UnionSeparates
    <3>9. rest \cup {link} = s
      BY <3>1
    <3> HIDE DEF rest, a, b
    <3>. QED
      BY <1>2, <3>2, <3>7, <3>8, <3>9 DEF IsForestOf
  <2>. QED
    BY <2>1, <2>2
<1>3. Bad = {}
  <2> SUFFICES ASSUME Bad # {} PROVE FALSE
    OBVIOUS
  <2>1. IsWellFoundedOn(StrictSubsetOrdering(links), FiniteSubsetsOf(links))
    BY FS_StrictSubsetOrderingWellFounded
  <2> HIDE DEF Bad
  <2>2. PICK s \in Bad : \A t \in Bad : ~ (<<t, s>> \in StrictSubsetOrdering(links))
    BY <1>1, <2>1, WFMin
  <2>. QED
    BY <1>2, <2>2
<1>. QED
  BY <1>3

\* Two nodes are in one cluster if and only if links lead from one to the other.
LEMMA ClustersAreComponents ==
    ASSUME NEW ids, IsFiniteSet(ids), linksOf(ids) \in SUBSET (ids \X ids),
           NEW a \in ids, NEW b \in ids
    PROVE  b \in buildClusters(ids)[a] <=> connected(linksOf(ids), ids, a, b)
<1> DEFINE start == [n \in ids |-> n]
           links == linksOf(ids)
           parent == FoldSet(union, start, links)
<1>1. IsFiniteSet(links)
  BY FS_Product, FS_Subset
<1>2. PICK iter : folds("links", <<>>, start, SUBSET links, iter) /\ parent = iter[links]
  BY <1>1, FoldOfLinks
<1>3. IsForestOf(parent, links, ids)
  BY <1>1, <1>2, FoldedForest
<1>4. PICK find, rank : leadsToRoots(parent, find, rank, ids) /\ separates(find, links, ids)
  BY <1>3 DEF IsForestOf
<1>5. rootsOf(parent) = find
  BY <1>4, RootsOfForest
<1>6. buildClusters(ids) = [n \in ids |-> {x \in ids : find[x] = find[n]}]
  BY <1>5 DEF buildClusters
<1>7. b \in buildClusters(ids)[a] <=> find[a] = find[b]
  BY <1>6
<1>. QED
  BY <1>4, <1>7 DEF separates

\* Whoever is connected by some links is so by more.
LEMMA MoreConnected ==
    ASSUME NEW ids, NEW links, NEW more, links \subseteq more, NEW a, NEW b,
           connected(links, ids, a, b)
    PROVE  connected(more, ids, a, b)
  BY DEF connected

-----------------------------------------------------------------------------
\* The nodes an inventory shows as one cluster are linked by what they report, and nodes linked
\* by the maps are shown as one cluster, whatever reports, removals and restarts came before and
\* in whatever order buildClusters meets the links.
THEOREM ClustersAreCorrect == PeeringSpec => []ClustersCorrect
<1>1. Known => ClustersCorrect
  <2> SUFFICES ASSUME Known, NEW ids \in SUBSET PeerNodes, NEW a \in ids, NEW b \in ids
               PROVE  /\ b \in buildClusters(ids)[a] => connected(reportedLinks(ids), ids, a, b)
                      /\ connected(linksOf(ids), ids, a, b) => b \in buildClusters(ids)[a]
    BY DEF ClustersCorrect
  <2>1. IsFiniteSet(ids)
    BY PeeringAssumption, FS_Subset
  <2>2. linksOf(ids) \in SUBSET (ids \X ids)
    BY DEF linksOf
  <2>3. b \in buildClusters(ids)[a] <=> connected(linksOf(ids), ids, a, b)
    BY <2>1, <2>2, ClustersAreComponents
  <2>4. linksOf(ids) \subseteq reportedLinks(ids)
    BY LinksKnown
  <2>. QED
    BY <2>3, <2>4, MoreConnected
<1>. QED
  BY <1>1, InitKnown, NextKnown, PTL DEF PeeringSpec

-----------------------------------------------------------------------------
(* Notices.                                                                 *)

NoticesTypeOK ==
    /\ signatures \in [Kinds -> SUBSET News]
    /\ watching \subseteq Watchers
    /\ subscriptions \in [Endpoints -> Watchers \cup {Nobody}]
    /\ notices \in [NoticeCalls -> NoticeCall]
    /\ told \subseteq News

LEMMA NoNoticeType == NoNotice \in NoticeCall
  BY DEF NoNotice, NoticeCall, Kinds

LEMMA InitNoticesType == NoticesInit => NoticesTypeOK
  BY NoNoticeType DEF NoticesInit, NoticesTypeOK

LEMMA BecomesType ==
    ASSUME NoticesTypeOK, NEW c \in NoticeCalls, NEW call \in NoticeCall, becomes(c, call)
    PROVE  notices' \in [NoticeCalls -> NoticeCall]
  BY DEF NoticesTypeOK, becomes

LEMMA EndsType ==
    ASSUME NoticesTypeOK, NEW c \in NoticeCalls, ends(c)
    PROVE  notices' \in [NoticeCalls -> NoticeCall]
  BY NoNoticeType, BecomesType DEF ends

\* What a report is made of are items of news.
LEMMA ReportType ==
    ASSUME NoticesTypeOK, NEW c \in NoticeCalls, NodeUpdates(c) \/ NodeStorage(c)
    PROVE  NoticesTypeOK'
<1>1. CASE NodeUpdates(c)
  <2>1. PICK system \in (SUBSET SystemUpdates) \cup {Nobody},
             apps \in (SUBSET AppUpdates) \cup {Nobody},
             previous \in {signatures["updates"], {}} :
                becomes(c, [NoNotice EXCEPT !.next = "store", !.previous = previous,
                                !.current = updateKeys(system, apps, previous)])
    BY <1>1 DEF NodeUpdates
  <2>2. previous \in SUBSET News
    BY DEF NoticesTypeOK, Kinds
  <2>3. updateKeys(system, apps, previous) \in SUBSET News
    <3> DEFINE systemKeys == IF system = Nobody THEN previous \cap SystemUpdates ELSE system
               appKeys == IF apps = Nobody THEN previous \cap AppUpdates ELSE apps
    <3>1. systemKeys \subseteq SystemUpdates /\ appKeys \subseteq AppUpdates
      OBVIOUS
    <3> HIDE DEF systemKeys, appKeys
    <3>2. systemKeys \cup appKeys \subseteq News
      BY <3>1 DEF News, Updates
    <3>. QED
      BY <3>2 DEF updateKeys, systemKeys, appKeys
  <2> DEFINE call == [NoNotice EXCEPT !.next = "store", !.previous = previous,
                          !.current = updateKeys(system, apps, previous)]
  <2>4. call \in NoticeCall
    BY <2>2, <2>3, NoNoticeType DEF NoticeCall
  <2> HIDE DEF call
  <2>5. notices' \in [NoticeCalls -> NoticeCall]
    BY <2>1, <2>4, BecomesType DEF call
  <2>. QED
    BY <1>1, <2>5 DEF NodeUpdates, NoticesTypeOK
<1>2. CASE NodeStorage(c)
  <2>1. PICK pools \in SUBSET Pools : \E state \in [pools -> PoolStates] :
                becomes(c, [NoNotice EXCEPT !.next = "store", !.kind = "storage",
                                !.previous = signatures["storage"],
                                !.current = {<<p, state[p]>> : p \in pools}])
    BY <1>2 DEF NodeStorage
  <2>6. PICK state \in [pools -> PoolStates] :
                becomes(c, [NoNotice EXCEPT !.next = "store", !.kind = "storage",
                                !.previous = signatures["storage"],
                                !.current = {<<p, state[p]>> : p \in pools}])
    BY <2>1
  <2>2. {<<p, state[p]>> : p \in pools} \in SUBSET News
    BY DEF News
  <2>3. signatures["storage"] \in SUBSET News
    BY DEF NoticesTypeOK, Kinds
  <2> DEFINE call == [NoNotice EXCEPT !.next = "store", !.kind = "storage",
                          !.previous = signatures["storage"],
                          !.current = {<<p, state[p]>> : p \in pools}]
  <2>4. call \in NoticeCall
    BY <2>2, <2>3, NoNoticeType DEF NoticeCall, Kinds
  <2> HIDE DEF call
  <2>5. notices' \in [NoticeCalls -> NoticeCall]
    BY <2>6, <2>4, BecomesType DEF call
  <2>. QED
    BY <1>2, <2>5 DEF NodeStorage, NoticesTypeOK
<1>. QED
  BY <1>1, <1>2

LEMMA StoreType ==
    ASSUME NoticesTypeOK, NEW c \in NoticeCalls, StoreSignature(c)
    PROVE  NoticesTypeOK'
<1> DEFINE call == [notices[c] EXCEPT !.next = "members", !.previous = {}]
<1>1. notices[c] \in NoticeCall
  BY DEF NoticesTypeOK
<1>2. call \in NoticeCall
  BY <1>1 DEF NoticeCall
<1>3. becomes(c, call) \/ ends(c)
  BY DEF StoreSignature
<1> HIDE DEF call
<1>4. notices' \in [NoticeCalls -> NoticeCall]
  BY <1>2, <1>3, BecomesType, EndsType
<1>5. signatures' \in [Kinds -> SUBSET News]
  BY <1>1 DEF StoreSignature, NoticesTypeOK, NoticeCall
<1>. QED
  BY <1>4, <1>5 DEF StoreSignature, NoticesTypeOK

LEMMA RecipientsType ==
    ASSUME NoticesTypeOK, NEW c \in NoticeCalls, FindRecipients(c) \/ ListSubscriptions(c)
    PROVE  NoticesTypeOK'
<1>1. notices[c] \in NoticeCall /\ notices[c].current \subseteq News
  BY DEF NoticesTypeOK, NoticeCall
<1>2. CASE FindRecipients(c)
  <2> DEFINE users == IF notices[c].kind = "updates" THEN Watchers \ watching ELSE Watchers
             call == [notices[c] EXCEPT !.next = "list", !.users = users]
  <2>1. call \in NoticeCall
    BY <1>1 DEF NoticeCall
  <2>2. \/ ends(c) /\ told' = told \cup notices[c].current
        \/ becomes(c, call) /\ UNCHANGED told
    BY <1>2 DEF FindRecipients
  <2> HIDE DEF call
  <2>3. notices' \in [NoticeCalls -> NoticeCall] /\ told' \subseteq News
    BY <1>1, <2>1, <2>2, BecomesType, EndsType DEF NoticesTypeOK
  <2>. QED
    BY <1>2, <2>3 DEF FindRecipients, NoticesTypeOK
<1>3. CASE ListSubscriptions(c)
  <2> DEFINE call == [notices[c] EXCEPT !.next = "send", !.users = {},
                          !.endpoints = {e \in Endpoints : subscriptions[e] \in notices[c].users}]
  <2>1. call \in NoticeCall
    BY <1>1 DEF NoticeCall
  <2>2. becomes(c, call)
    BY <1>3 DEF ListSubscriptions
  <2> HIDE DEF call
  <2>3. notices' \in [NoticeCalls -> NoticeCall]
    BY <2>1, <2>2, BecomesType
  <2>. QED
    BY <1>3, <2>3 DEF ListSubscriptions, NoticesTypeOK
<1>. QED
  BY <1>2, <1>3

LEMMA SendType ==
    ASSUME NoticesTypeOK, NEW c \in NoticeCalls,
           SendNotifications(c) \/ DeletePushSubscription(c) \/ NoticeFails(c)
    PROVE  NoticesTypeOK'
<1>1. notices[c] \in NoticeCall /\ notices[c].current \subseteq News
      /\ notices[c].endpoints \subseteq Endpoints
  BY DEF NoticesTypeOK, NoticeCall
<1>2. CASE SendNotifications(c)
  <2>1. PICK gone \in SUBSET notices[c].endpoints :
            becomes(c, [NoNotice EXCEPT !.next = IF gone = {} THEN "idle" ELSE "prune",
                                        !.endpoints = gone])
    BY <1>2 DEF SendNotifications
  <2> DEFINE call == [NoNotice EXCEPT !.next = IF gone = {} THEN "idle" ELSE "prune",
                                      !.endpoints = gone]
  <2>2. call \in NoticeCall
    BY <1>1, NoNoticeType DEF NoticeCall
  <2> HIDE DEF call
  <2>3. notices' \in [NoticeCalls -> NoticeCall]
    BY <2>1, <2>2, BecomesType DEF call
  <2>. QED
    BY <1>1, <1>2, <2>3 DEF SendNotifications, NoticesTypeOK
<1>3. CASE DeletePushSubscription(c)
  <2>1. PICK e \in notices[c].endpoints :
            /\ subscriptions' = [subscriptions EXCEPT ![e] = Nobody]
            /\ \/ ends(c)
               \/ becomes(c, [notices[c] EXCEPT !.endpoints = notices[c].endpoints \ {e}])
    BY <1>3 DEF DeletePushSubscription
  <2> DEFINE call == [notices[c] EXCEPT !.endpoints = notices[c].endpoints \ {e}]
  <2>2. call \in NoticeCall
    BY <1>1 DEF NoticeCall
  <2> HIDE DEF call
  <2>3. notices' \in [NoticeCalls -> NoticeCall]
    BY <2>1, <2>2, BecomesType, EndsType DEF call
  <2>. QED
    BY <1>1, <1>3, <2>1, <2>3 DEF DeletePushSubscription, NoticesTypeOK
<1>4. CASE NoticeFails(c)
  BY <1>1, <1>4, EndsType DEF NoticeFails, NoticesTypeOK, unsent
<1>. QED
  BY <1>2, <1>3, <1>4

LEMMA NextNoticesType == NoticesTypeOK /\ [NoticesNext]_noticeVars => NoticesTypeOK'
<1> SUFFICES ASSUME NoticesTypeOK, [NoticesNext]_noticeVars PROVE NoticesTypeOK'
  OBVIOUS
<1>1. CASE UNCHANGED noticeVars
  BY <1>1 DEF noticeVars, NoticesTypeOK
<1>2. CASE OpenOrClose \/ EnablePush \/ DisablePush
  BY <1>2 DEF OpenOrClose, EnablePush, DisablePush, NoticesTypeOK
<1>3. CASE NoticesRestart
  <2>1. \A c \in NoticeCalls : unsent(notices[c]) \subseteq News
    BY DEF unsent, NoticesTypeOK, NoticeCall
  <2>. QED
    BY <1>3, <2>1, NoNoticeType DEF NoticesRestart, NoticesTypeOK
<1>. QED
  BY <1>1, <1>2, <1>3, ReportType, StoreType, RecipientsType, SendType DEF NoticesNext

\* What members were told or are about to be.
heard == told \cup UNION {unsent(notices[c]) : c \in NoticeCalls}

\* What of a signature members must have been told.
due(kind, news) == IF kind = "updates" THEN news ELSE {s \in news : s[2] # "online"}

\* Besides the row, the signature a handler compares with has been told of: an overlapping handler
\* may have replaced it in the row meanwhile.
Heard ==
    /\ \A k \in Kinds : due(k, signatures[k]) \subseteq heard
    /\ \A c \in NoticeCalls :
        noticeAt(c, "store") => due(notices[c].kind, notices[c].previous) \subseteq heard

LEMMA InitHeard == NoticesInit => Heard
  BY DEF NoticesInit, Heard, due, noticeAt, NoNotice

\* A handler that goes on takes nothing back.
LEMMA HeardGrows ==
    ASSUME NoticesTypeOK, NEW c \in NoticeCalls, NEW call, becomes(c, call),
           told \subseteq told', unsent(notices[c]) \subseteq told' \cup unsent(call)
    PROVE  heard \subseteq heard' /\ unsent(call) \subseteq heard'
<1>1. notices'[c] = call /\ \A d \in NoticeCalls : d # c => notices'[d] = notices[d]
  BY DEF NoticesTypeOK, becomes
<1>2. unsent(notices[c])' = unsent(call)
      /\ \A d \in NoticeCalls : d # c => unsent(notices[d])' = unsent(notices[d])
  BY <1>1 DEF unsent
<1>3. heard' = told' \cup UNION {unsent(notices[d])' : d \in NoticeCalls}
  BY DEF heard
<1>. QED
  BY <1>2, <1>3 DEF heard

\* A step that writes no row keeps what is heard of, if what a handler starts with is.
LEMMA HeardKept ==
    ASSUME Heard, heard \subseteq heard', UNCHANGED signatures,
           \A d \in NoticeCalls : notices'[d].next = "store" =>
               \/ notices'[d] = notices[d]
               \/ due(notices'[d].kind, notices'[d].previous) \subseteq heard
    PROVE  Heard'
  BY DEF Heard, due, noticeAt

\* The same for one handler.
LEMMA HandlerHeard ==
    ASSUME NoticesTypeOK, Heard, NEW c \in NoticeCalls, NEW call, becomes(c, call),
           told \subseteq told', unsent(notices[c]) \subseteq told' \cup unsent(call),
           UNCHANGED signatures,
           call.next = "store" => due(call.kind, call.previous) \subseteq heard
    PROVE  Heard'
<1>1. notices'[c] = call /\ \A d \in NoticeCalls : d # c => notices'[d] = notices[d]
  BY DEF NoticesTypeOK, becomes
<1>2. heard \subseteq heard'
  BY HeardGrows
<1>. QED
  BY <1>1, <1>2, HeardKept

LEMMA ReportHeard ==
    ASSUME NoticesTypeOK, Heard, NEW c \in NoticeCalls, NodeUpdates(c) \/ NodeStorage(c)
    PROVE  Heard'
<1>1. unsent(notices[c]) = {}
  BY DEF NodeUpdates, NodeStorage, noticeAt, unsent
<1>2. CASE NodeUpdates(c)
  <2>1. PICK system \in (SUBSET SystemUpdates) \cup {Nobody},
             apps \in (SUBSET AppUpdates) \cup {Nobody},
             previous \in {signatures["updates"], {}} :
                becomes(c, [NoNotice EXCEPT !.next = "store", !.previous = previous,
                                !.current = updateKeys(system, apps, previous)])
    BY <1>2 DEF NodeUpdates
  <2> DEFINE call == [NoNotice EXCEPT !.next = "store", !.previous = previous,
                          !.current = updateKeys(system, apps, previous)]
  <2>2. call.kind = "updates" /\ call.previous = previous
    BY DEF NoNotice
  <2>3. due("updates", previous) \subseteq heard
    BY DEF Heard, due, Kinds
  <2> HIDE DEF call
  <2>. QED
    BY <1>1, <1>2, <2>1, <2>2, <2>3, HandlerHeard DEF NodeUpdates, call
<1>3. CASE NodeStorage(c)
  <2>1. PICK pools \in SUBSET Pools : \E state \in [pools -> PoolStates] :
                becomes(c, [NoNotice EXCEPT !.next = "store", !.kind = "storage",
                                !.previous = signatures["storage"],
                                !.current = {<<p, state[p]>> : p \in pools}])
    BY <1>3 DEF NodeStorage
  <2>2. PICK state \in [pools -> PoolStates] :
                becomes(c, [NoNotice EXCEPT !.next = "store", !.kind = "storage",
                                !.previous = signatures["storage"],
                                !.current = {<<p, state[p]>> : p \in pools}])
    BY <2>1
  <2> DEFINE call == [NoNotice EXCEPT !.next = "store", !.kind = "storage",
                          !.previous = signatures["storage"],
                          !.current = {<<p, state[p]>> : p \in pools}]
  <2>3. call.kind = "storage" /\ call.previous = signatures["storage"]
    BY DEF NoNotice
  <2>4. due("storage", signatures["storage"]) \subseteq heard
    BY DEF Heard, Kinds
  <2> HIDE DEF call
  <2>. QED
    BY <1>1, <1>3, <2>2, <2>3, <2>4, HandlerHeard DEF NodeStorage, call
<1>. QED
  BY <1>2, <1>3

\* The row is written: what is news in it will be sent, and what is not was told of before.
LEMMA StoreHeard ==
    ASSUME NoticesTypeOK, Heard, NEW c \in NoticeCalls, StoreSignature(c)
    PROVE  Heard'
<1> DEFINE call == notices[c]
           next == [call EXCEPT !.next = "members", !.previous = {}]
           news == IF call.kind = "updates" THEN isNews(call.current, call.previous)
                   ELSE hasChanges(call.current, call.previous)
<1>1. call \in NoticeCall /\ call.next = "store"
  BY DEF StoreSignature, noticeAt, NoticesTypeOK
<1>2. unsent(call) = {}
  BY <1>1 DEF unsent
<1>3. due(call.kind, call.previous) \subseteq heard
  BY <1>1 DEF Heard, noticeAt
<1>4. PICK after \in {next, NoNotice} : becomes(c, after) /\ after = IF news THEN next ELSE NoNotice
  BY DEF StoreSignature, ends
<1>5. after.next # "store"
  BY <1>1, <1>4 DEF NoticeCall, NoNotice
<1>6. unsent(next) = call.current
  BY <1>1 DEF unsent, NoticeCall
<1>7. ~news => due(call.kind, call.current) \subseteq due(call.kind, call.previous)
  BY DEF due, isNews, hasChanges
<1>8. told' = told /\ signatures' = [signatures EXCEPT ![call.kind] = call.current]
  BY DEF StoreSignature
<1> HIDE DEF next, news
<1>9. heard \subseteq heard' /\ unsent(after) \subseteq heard'
  BY <1>2, <1>4, <1>8, HeardGrows
<1>10. due(call.kind, call.current) \subseteq heard'
  <2>1. CASE news
    <3>1. call.current \subseteq heard'
      BY <1>4, <1>6, <1>9, <2>1
    <3>. QED
      BY <3>1 DEF due
  <2>2. CASE ~news
    BY <1>3, <1>7, <1>9, <2>2
  <2>. QED
    BY <2>1, <2>2
<1>11. notices'[c] = after /\ \A d \in NoticeCalls : d # c => notices'[d] = notices[d]
  BY <1>4 DEF NoticesTypeOK, becomes
<1>12. \A k \in Kinds : due(k, signatures'[k]) \subseteq heard'
  <2> SUFFICES ASSUME NEW k \in Kinds PROVE due(k, signatures'[k]) \subseteq heard'
    OBVIOUS
  <2>1. CASE k = call.kind
    BY <1>8, <1>10, <2>1 DEF NoticesTypeOK
  <2>2. CASE k # call.kind
    BY <1>8, <1>9, <2>2 DEF NoticesTypeOK, Heard
  <2>. QED
    BY <2>1, <2>2
<1>13. \A d \in NoticeCalls : notices'[d].next = "store" =>
           due(notices'[d].kind, notices'[d].previous) \subseteq heard'
  BY <1>5, <1>9, <1>11 DEF Heard, noticeAt
<1>. QED
  BY <1>12, <1>13 DEF Heard, due, noticeAt

LEMMA RecipientsHeard ==
    ASSUME NoticesTypeOK, Heard, NEW c \in NoticeCalls, FindRecipients(c) \/ ListSubscriptions(c)
    PROVE  Heard'
<1>1. notices[c] \in NoticeCall
  BY DEF NoticesTypeOK
<1>2. CASE FindRecipients(c)
  <2> DEFINE users == IF notices[c].kind = "updates" THEN Watchers \ watching ELSE Watchers
             call == [notices[c] EXCEPT !.next = "list", !.users = users]
  <2>1. \/ becomes(c, NoNotice) /\ told' = told \cup notices[c].current
        \/ becomes(c, call) /\ UNCHANGED told
    BY <1>2 DEF FindRecipients, ends
  <2>2. unsent(notices[c]) = notices[c].current
    BY <1>2 DEF FindRecipients, noticeAt, unsent
  <2>3. unsent(call) = notices[c].current /\ call.next # "store" /\ NoNotice.next # "store"
    BY <1>1 DEF unsent, NoticeCall, NoNotice
  <2> HIDE DEF call
  <2>. QED
    BY <1>2, <2>1, <2>2, <2>3, HandlerHeard DEF FindRecipients
<1>3. CASE ListSubscriptions(c)
  <2> DEFINE call == [notices[c] EXCEPT !.next = "send", !.users = {},
                          !.endpoints = {e \in Endpoints : subscriptions[e] \in notices[c].users}]
  <2>1. becomes(c, call)
    BY <1>3 DEF ListSubscriptions
  <2>2. unsent(notices[c]) = notices[c].current
    BY <1>3 DEF ListSubscriptions, noticeAt, unsent
  <2>3. unsent(call) = notices[c].current /\ call.next # "store"
    BY <1>1 DEF unsent, NoticeCall
  <2> HIDE DEF call
  <2>. QED
    BY <1>3, <2>1, <2>2, <2>3, HandlerHeard DEF ListSubscriptions
<1>. QED
  BY <1>2, <1>3

LEMMA SendHeard ==
    ASSUME NoticesTypeOK, Heard, NEW c \in NoticeCalls,
           SendNotifications(c) \/ DeletePushSubscription(c) \/ NoticeFails(c)
    PROVE  Heard'
<1>1. notices[c] \in NoticeCall
  BY DEF NoticesTypeOK
<1>2. NoNotice.next # "store"
  BY DEF NoNotice
<1>3. CASE SendNotifications(c)
  <2>1. PICK gone \in SUBSET notices[c].endpoints :
            becomes(c, [NoNotice EXCEPT !.next = IF gone = {} THEN "idle" ELSE "prune",
                                        !.endpoints = gone])
    BY <1>3 DEF SendNotifications
  <2> DEFINE call == [NoNotice EXCEPT !.next = IF gone = {} THEN "idle" ELSE "prune",
                                      !.endpoints = gone]
  <2>2. call.next # "store" /\ unsent(call) = {}
    BY DEF NoNotice, unsent
  <2>3. told' = told \cup notices[c].current
    BY <1>3 DEF SendNotifications
  <2>4. unsent(notices[c]) \subseteq notices[c].current
    BY DEF unsent
  <2>5. becomes(c, call)
    BY <2>1
  <2>6. UNCHANGED signatures
    BY <1>3 DEF SendNotifications
  <2> HIDE DEF call
  <2>. QED
    BY <2>2, <2>3, <2>4, <2>5, <2>6, HandlerHeard
<1>4. CASE DeletePushSubscription(c)
  <2>1. PICK e \in notices[c].endpoints :
            \/ becomes(c, NoNotice)
            \/ becomes(c, [notices[c] EXCEPT !.endpoints = notices[c].endpoints \ {e}])
    BY <1>4 DEF DeletePushSubscription, ends
  <2> DEFINE call == [notices[c] EXCEPT !.endpoints = notices[c].endpoints \ {e}]
  <2>2. call.next # "store" /\ unsent(notices[c]) = {}
    BY <1>1, <1>4 DEF DeletePushSubscription, noticeAt, unsent, NoticeCall
  <2> HIDE DEF call
  <2>. QED
    BY <1>2, <1>4, <2>1, <2>2, HandlerHeard DEF DeletePushSubscription, call
<1>5. CASE NoticeFails(c)
  BY <1>2, <1>5, HandlerHeard DEF NoticeFails, ends
<1>. QED
  BY <1>3, <1>4, <1>5

LEMMA NextHeard == NoticesTypeOK /\ Heard /\ [NoticesNext]_noticeVars => Heard'
<1> SUFFICES ASSUME NoticesTypeOK, Heard, [NoticesNext]_noticeVars PROVE Heard'
  OBVIOUS
<1>1. CASE UNCHANGED <<signatures, notices, told>>
  <2>1. heard' = heard
    BY <1>1 DEF heard, unsent
  <2>. QED
    BY <1>1, <2>1, HeardKept
<1>2. CASE NoticesRestart
  <2>1. heard \subseteq heard'
    BY <1>2 DEF NoticesRestart, heard
  <2>2. \A d \in NoticeCalls : notices'[d].next # "store"
    BY <1>2 DEF NoticesRestart, NoNotice
  <2>. QED
    BY <1>2, <2>1, <2>2, HeardKept DEF NoticesRestart
<1>3. CASE UNCHANGED noticeVars \/ OpenOrClose \/ EnablePush \/ DisablePush
  BY <1>1, <1>3 DEF noticeVars, OpenOrClose, EnablePush, DisablePush
<1>. QED
  BY <1>2, <1>3, ReportHeard, StoreHeard, RecipientsHeard, SendHeard DEF NoticesNext

\* Every variable of NodeNotices keeps its type.
THEOREM NoticesTypeCorrect == NoticesSpec => []NoticesTypeOK
  BY InitNoticesType, NextNoticesType, PTL DEF NoticesSpec

\* Members were told, or are about to be, of every update and every pool that is not online that
\* the row says they were told about, however many reports of the node overlap and whatever
\* subscriptions come and go.
THEOREM NewsIsTold == NoticesSpec => []NewsTold
<1>1. Heard => NewsTold
  BY DEF Heard, NewsTold, heard, due, Kinds
<1>. QED
  BY <1>1, InitNoticesType, NextNoticesType, InitHeard, NextHeard, PTL DEF NoticesSpec

-----------------------------------------------------------------------------
(* Certificates.                                                            *)

CertificatesTypeOK ==
    /\ nodeRow \in BOOLEAN
    /\ heldName \in Domain \cup {NoName}
    /\ acmeChallenges \in [ChallengeRows -> Domain \cup {NoName}]
    /\ recent \subseteq ChallengeRows
    /\ pendingReprobe \in BOOLEAN
    /\ acmeCalls \in [AcmeCalls -> AcmeCall]

\* A handler that counts or creates has a name to create a challenge for.
Named ==
    \A c \in AcmeCalls : acmeCalls[c].next \in {"count", "create"} => acmeCalls[c].name \in Domain

RecentExist == \A r \in recent : acmeChallenges[r] # NoName

\* Handlers that have counted and not created yet.
creating == {c \in AcmeCalls : acmeCalls[c].next = "create"}

\* Each of them found room for one more.
Bounded ==
    /\ CertificatesTypeOK /\ Named /\ RecentExist
    /\ IsFiniteSet(recent)
    /\ Cardinality(recent) + Cardinality(creating) <= IssuanceLimit - 1 + Cardinality(AcmeCalls)

LEMMA NoCallType == NoCall \in AcmeCall
  BY DEF NoCall, AcmeCall

LEMMA CreatingFinite ==
    /\ IsFiniteSet(creating) /\ Cardinality(creating) \in Nat
    /\ Cardinality(AcmeCalls) \in Nat /\ Cardinality(creating) <= Cardinality(AcmeCalls)
<1>1. creating \in SUBSET AcmeCalls
  BY DEF creating
<1>. QED
  BY <1>1, CertificatesAssumption, FS_Subset, FS_CardinalityType

LEMMA InitBounded == CertificatesInit => Bounded
<1> SUFFICES ASSUME CertificatesInit PROVE Bounded
  OBVIOUS
<1>1. CertificatesTypeOK
  BY NoCallType DEF CertificatesInit, CertificatesTypeOK
<1>2. Named /\ RecentExist
  BY DEF CertificatesInit, Named, RecentExist, NoCall
<1>3. creating = {} /\ recent = {}
  BY DEF CertificatesInit, creating, NoCall
<1>4. IsFiniteSet(recent) /\ Cardinality(recent) = 0 /\ Cardinality(creating) = 0
  BY <1>3, FS_EmptySet
<1>5. 0 <= IssuanceLimit - 1 + Cardinality(AcmeCalls)
  BY CreatingFinite, CertificatesAssumption
<1>. QED
  BY <1>1, <1>2, <1>4, <1>5 DEF Bounded

\* A handler that goes on, anywhere but to the creation.
LEMMA GoesElsewhere ==
    ASSUME Bounded, NEW c \in AcmeCalls, NEW call \in AcmeCall, acmeGoes(c, call),
           call.next # "create", call.next = "count" => call.name \in Domain
    PROVE  /\ acmeCalls' \in [AcmeCalls -> AcmeCall] /\ Named'
           /\ creating' = creating \ {c}
<1>1. acmeCalls' = [acmeCalls EXCEPT ![c] = call] /\ acmeCalls \in [AcmeCalls -> AcmeCall]
  BY DEF acmeGoes, Bounded, CertificatesTypeOK
<1>2. acmeCalls'[c] = call /\ \A d \in AcmeCalls : d # c => acmeCalls'[d] = acmeCalls[d]
  BY <1>1
<1>3. Named'
  BY <1>2 DEF Named, Bounded
<1>4. creating' = creating \ {c}
  BY <1>2 DEF creating
<1>. QED
  BY <1>1, <1>3, <1>4

\* As long as no challenge is created and none of those created is forgotten while it counts.
LEMMA FewerBounded ==
    ASSUME Bounded, recent' \subseteq recent, RecentExist',
           nodeRow' \in BOOLEAN, heldName' \in Domain \cup {NoName}, pendingReprobe' \in BOOLEAN,
           acmeChallenges' \in [ChallengeRows -> Domain \cup {NoName}],
           acmeCalls' \in [AcmeCalls -> AcmeCall], Named', creating' \subseteq creating
    PROVE  Bounded'
<1>1. CertificatesTypeOK'
  BY DEF CertificatesTypeOK, Bounded
<1>2. IsFiniteSet(recent') /\ Cardinality(recent') <= Cardinality(recent)
      /\ Cardinality(recent') \in Nat /\ Cardinality(recent) \in Nat
  BY FS_Subset, FS_CardinalityType DEF Bounded
<1>3. Cardinality(creating') <= Cardinality(creating)
      /\ Cardinality(creating') \in Nat /\ Cardinality(creating) \in Nat
  BY CreatingFinite, FS_Subset, FS_CardinalityType
<1>4. Cardinality(recent') + Cardinality(creating')
          <= IssuanceLimit - 1 + Cardinality(AcmeCalls)
  BY <1>2, <1>3, CreatingFinite, CertificatesAssumption DEF Bounded
<1>. QED
  BY <1>1, <1>2, <1>4 DEF Bounded

LEMMA AuthorizeBounded ==
    ASSUME Bounded, NEW c \in AcmeCalls, AcmePresent(c) \/ AcmeCleanup(c)
    PROVE  Bounded'
<1>1. PICK step \in {"count", "find"} : Authorize(c, step)
  BY DEF AcmePresent, AcmeCleanup
<1>2. PICK f \in Domain : acmeGoes(c, [NoCall EXCEPT !.next = step, !.name = f])
  BY <1>1 DEF Authorize
<1> DEFINE call == [NoCall EXCEPT !.next = step, !.name = f]
<1>3. call \in AcmeCall /\ call.next = step /\ call.name = f
  BY NoCallType DEF AcmeCall
<1> HIDE DEF call
<1>4. acmeCalls' \in [AcmeCalls -> AcmeCall] /\ Named' /\ creating' = creating \ {c}
  BY <1>2, <1>3, GoesElsewhere DEF call
<1>5. UNCHANGED <<certificateTables, pendingReprobe>>
  BY <1>1 DEF Authorize
<1>. QED
  BY <1>4, <1>5, FewerBounded DEF certificateTables, Bounded, CertificatesTypeOK, RecentExist

\* A handler that may create adds itself to those that will, but only while there is room.
LEMMA CountBounded == ASSUME Bounded, NEW c \in AcmeCalls, CountRecent(c) PROVE Bounded'
<1>1. acmeAt(c, "count") /\ UNCHANGED <<certificateTables, pendingReprobe>>
  BY DEF CountRecent
<1>2. CASE tooMany
  <2>1. acmeGoes(c, NoCall)
    BY <1>2 DEF CountRecent
  <2>2. acmeCalls' \in [AcmeCalls -> AcmeCall] /\ Named' /\ creating' = creating \ {c}
    BY <2>1, NoCallType, GoesElsewhere DEF NoCall
  <2>. QED
    BY <1>1, <2>2, FewerBounded DEF certificateTables, Bounded, CertificatesTypeOK, RecentExist
<1>3. CASE ~tooMany
  <2> DEFINE call == [acmeCalls[c] EXCEPT !.next = "create"]
  <2>1. acmeCalls' = [acmeCalls EXCEPT ![c] = call] /\ acmeCalls \in [AcmeCalls -> AcmeCall]
    BY <1>3 DEF CountRecent, acmeGoes, Bounded, CertificatesTypeOK
  <2>2. acmeCalls[c] \in AcmeCall /\ acmeCalls[c].next = "count" /\ acmeCalls[c].name \in Domain
    BY <1>1, <2>1 DEF acmeAt, Bounded, Named
  <2>3. call \in AcmeCall /\ call.next = "create" /\ call.name \in Domain
    BY <2>2 DEF AcmeCall
  <2> HIDE DEF call
  <2>4. acmeCalls'[c] = call /\ \A d \in AcmeCalls : d # c => acmeCalls'[d] = acmeCalls[d]
    BY <2>1
  <2>5. acmeCalls' \in [AcmeCalls -> AcmeCall]
    BY <2>1, <2>3
  <2>6. Named'
    BY <2>3, <2>4 DEF Named, Bounded
  <2>7. creating' \in SUBSET AcmeCalls
    BY DEF creating
  <2>8. Cardinality(creating') <= Cardinality(AcmeCalls) /\ Cardinality(creating') \in Nat
        /\ Cardinality(AcmeCalls) \in Nat
    BY <2>7, CertificatesAssumption, FS_Subset, FS_CardinalityType
  <2>9. recent' = recent /\ Cardinality(recent) < IssuanceLimit /\ Cardinality(recent) \in Nat
    BY <1>1, <1>3, CertificatesAssumption, FS_CardinalityType DEF tooMany, certificateTables, Bounded
  <2>10. Cardinality(recent') + Cardinality(creating')
            <= IssuanceLimit - 1 + Cardinality(AcmeCalls)
    BY <2>8, <2>9, CertificatesAssumption
  <2>. QED
    BY <1>1, <2>5, <2>6, <2>9, <2>10 DEF certificateTables, Bounded, CertificatesTypeOK, RecentExist
<1>. QED
  BY <1>2, <1>3

\* One challenge more, one handler less that will create one.
LEMMA PresentBounded == ASSUME Bounded, NEW c \in AcmeCalls, Present(c) PROVE Bounded'
<1>1. acmeAt(c, "create") /\ acmeGoes(c, NoCall) /\ UNCHANGED <<nodeRow, heldName, pendingReprobe>>
  BY DEF Present
<1>2. acmeCalls' \in [AcmeCalls -> AcmeCall] /\ Named' /\ creating' = creating \ {c}
  BY <1>1, NoCallType, GoesElsewhere DEF NoCall
<1>3. CASE ~nodeRow
  <2>1. UNCHANGED <<acmeChallenges, recent>>
    BY <1>3 DEF Present
  <2>. QED
    BY <1>1, <1>2, <2>1, FewerBounded DEF Bounded, CertificatesTypeOK, RecentExist
<1>4. CASE nodeRow
  <2>1. PICK r \in ChallengeRows :
            /\ acmeChallenges' = [acmeChallenges EXCEPT ![r] = acmeCalls[c].name]
            /\ recent' = recent \cup {r}
    BY <1>4 DEF Present
  <2>2. acmeCalls[c].name \in Domain /\ acmeCalls[c].name # NoName /\ c \in creating
    BY <1>1, CertificatesAssumption DEF acmeAt, Bounded, Named, creating
  <2>3. CertificatesTypeOK'
    BY <1>1, <1>2, <2>1, <2>2 DEF Bounded, CertificatesTypeOK
  <2>4. RecentExist'
    BY <2>1, <2>2 DEF RecentExist, Bounded, CertificatesTypeOK
  <2>5. IsFiniteSet(recent') /\ Cardinality(recent') <= Cardinality(recent) + 1
        /\ Cardinality(recent') \in Nat /\ Cardinality(recent) \in Nat
    <3>1. IsFiniteSet(recent) /\ Cardinality(recent) \in Nat
      BY FS_CardinalityType DEF Bounded
    <3>2. IsFiniteSet(recent \cup {r}) /\ Cardinality(recent \cup {r}) \in Nat
      BY <3>1, FS_AddElement, FS_CardinalityType
    <3>3. Cardinality(recent \cup {r})
              = IF r \in recent THEN Cardinality(recent) ELSE Cardinality(recent) + 1
      BY <3>1, FS_AddElement
    <3>. QED
      BY <2>1, <3>1, <3>2, <3>3
  <2>6. Cardinality(creating') = Cardinality(creating) - 1 /\ Cardinality(creating) \in Nat
    BY <1>2, <2>2, CreatingFinite, FS_RemoveElement
  <2>7. Cardinality(recent') + Cardinality(creating')
            <= IssuanceLimit - 1 + Cardinality(AcmeCalls)
    BY <2>5, <2>6, CreatingFinite, CertificatesAssumption DEF Bounded
  <2>. QED
    BY <1>2, <2>3, <2>4, <2>5, <2>7 DEF Bounded
<1>. QED
  BY <1>3, <1>4

LEMMA FindBounded ==
    ASSUME Bounded, NEW c \in AcmeCalls, FindChallenges(c) \/ FindAll(c)
    PROVE  Bounded'
<1>1. UNCHANGED <<certificateTables, pendingReprobe>>
  BY DEF FindChallenges, FindAll
<1>2. PICK found \in SUBSET ChallengeRows :
          acmeGoes(c, [acmeCalls[c] EXCEPT !.next = "destroy", !.rows = found])
  <2>1. CASE FindChallenges(c)
    BY <2>1 DEF FindChallenges, challengesOf
  <2>2. CASE FindAll(c)
    BY <2>2 DEF FindAll
  <2>. QED
    BY <2>1, <2>2
<1> DEFINE call == [acmeCalls[c] EXCEPT !.next = "destroy", !.rows = found]
<1>3. call \in AcmeCall /\ call.next = "destroy"
  BY DEF Bounded, CertificatesTypeOK, AcmeCall
<1> HIDE DEF call
<1>4. acmeCalls' \in [AcmeCalls -> AcmeCall] /\ Named' /\ creating' = creating \ {c}
  BY <1>2, <1>3, GoesElsewhere DEF call
<1>. QED
  BY <1>1, <1>4, FewerBounded DEF certificateTables, Bounded, CertificatesTypeOK, RecentExist

LEMMA RemoveBounded == ASSUME Bounded, NEW c \in AcmeCalls, RemoveChallenge(c) PROVE Bounded'
<1>1. PICK r \in acmeCalls[c].rows :
          /\ acmeChallenges' = [acmeChallenges EXCEPT ![r] = NoName]
          /\ recent' = recent \ {r}
          /\ acmeGoes(c, [acmeCalls[c] EXCEPT !.rows = @ \ {r}])
  BY DEF RemoveChallenge
<1>2. acmeCalls[c] \in AcmeCall /\ acmeCalls[c].next = "destroy"
      /\ UNCHANGED <<nodeRow, heldName, pendingReprobe>>
  BY DEF RemoveChallenge, acmeAt, Bounded, CertificatesTypeOK
<1> DEFINE call == [acmeCalls[c] EXCEPT !.rows = @ \ {r}]
<1>3. call \in AcmeCall /\ call.next = "destroy"
  BY <1>2 DEF AcmeCall
<1> HIDE DEF call
<1>4. acmeCalls' \in [AcmeCalls -> AcmeCall] /\ Named' /\ creating' = creating \ {c}
  BY <1>1, <1>3, GoesElsewhere DEF call
<1>5. RecentExist' /\ acmeChallenges' \in [ChallengeRows -> Domain \cup {NoName}]
  BY <1>1 DEF RecentExist, Bounded, CertificatesTypeOK
<1>. QED
  BY <1>1, <1>2, <1>4, <1>5, FewerBounded DEF Bounded, CertificatesTypeOK

LEMMA CleanedUpBounded == ASSUME Bounded, NEW c \in AcmeCalls, CleanedUp(c) PROVE Bounded'
<1>1. acmeCalls[c] \in AcmeCall /\ acmeCalls[c].then \in {"idle", "deleteRow"}
  BY DEF Bounded, CertificatesTypeOK, AcmeCall
<1>2. PICK call \in {NoCall, [NoCall EXCEPT !.next = acmeCalls[c].then]} : acmeGoes(c, call)
  BY DEF CleanedUp
<1>3. call \in AcmeCall /\ call.next \in {"idle", "deleteRow"}
  BY <1>1, NoCallType DEF NoCall, AcmeCall
<1>4. acmeCalls' \in [AcmeCalls -> AcmeCall] /\ Named' /\ creating' = creating \ {c}
  BY <1>2, <1>3, GoesElsewhere
<1>5. pendingReprobe' \in BOOLEAN /\ UNCHANGED certificateTables
  BY DEF CleanedUp, Bounded, CertificatesTypeOK
<1>. QED
  BY <1>4, <1>5, FewerBounded DEF certificateTables, Bounded, CertificatesTypeOK, RecentExist

LEMMA ReleaseBounded ==
    ASSUME Bounded, NEW c \in AcmeCalls, ReleaseName(c) \/ DeleteNodeRow(c)
    PROVE  Bounded'
<1>1. CASE ReleaseName(c)
  <2> DEFINE call == [NoCall EXCEPT !.next = "findAll", !.then = "deleteRow"]
  <2>1. call \in AcmeCall /\ call.next = "findAll"
    BY NoCallType DEF AcmeCall
  <2>2. acmeGoes(c, call)
    BY <1>1 DEF ReleaseName
  <2> HIDE DEF call
  <2>3. acmeCalls' \in [AcmeCalls -> AcmeCall] /\ Named' /\ creating' = creating \ {c}
    BY <2>1, <2>2, GoesElsewhere
  <2>. QED
    BY <1>1, <2>3, FewerBounded DEF ReleaseName, Bounded, CertificatesTypeOK, RecentExist
<1>2. CASE DeleteNodeRow(c)
  <2>1. acmeCalls' \in [AcmeCalls -> AcmeCall] /\ Named' /\ creating' = creating \ {c}
    BY <1>2, NoCallType, GoesElsewhere DEF DeleteNodeRow, NoCall
  <2>2. acmeChallenges' \in [ChallengeRows -> Domain \cup {NoName}] /\ recent' = {}
        /\ nodeRow' = FALSE /\ heldName' = NoName /\ UNCHANGED pendingReprobe
    BY <1>2 DEF DeleteNodeRow
  <2>3. RecentExist' /\ recent' \subseteq recent
    BY <2>2 DEF RecentExist
  <2>. QED
    BY <2>1, <2>2, <2>3, FewerBounded DEF Bounded, CertificatesTypeOK
<1>. QED
  BY <1>1, <1>2

LEMMA NextBounded == Bounded /\ [CertificatesNext]_certificateVars => Bounded'
<1> SUFFICES ASSUME Bounded, [CertificatesNext]_certificateVars PROVE Bounded'
  OBVIOUS
<1>1. CASE UNCHANGED acmeCalls /\ (UNCHANGED certificateVars \/ Claimed \/ ReprobeFires \/ WeekPasses)
  <2>1. Named' /\ creating' = creating /\ acmeCalls' \in [AcmeCalls -> AcmeCall]
    BY <1>1 DEF Named, creating, Bounded, CertificatesTypeOK
  <2>2. recent' \subseteq recent /\ UNCHANGED acmeChallenges /\ nodeRow' \in BOOLEAN
        /\ heldName' \in Domain \cup {NoName} /\ pendingReprobe' \in BOOLEAN
    BY <1>1 DEF certificateVars, certificateTables, Claimed, ReprobeFires, WeekPasses, Bounded,
                CertificatesTypeOK
  <2>3. RecentExist' /\ acmeChallenges' \in [ChallengeRows -> Domain \cup {NoName}]
    BY <2>2 DEF RecentExist, Bounded, CertificatesTypeOK
  <2>. QED
    BY <2>1, <2>2, <2>3, FewerBounded
<1>2. CASE CertificatesRestart
  <2>1. Named' /\ creating' = {} /\ acmeCalls' \in [AcmeCalls -> AcmeCall]
    BY <1>2, NoCallType DEF CertificatesRestart, Named, creating, NoCall
  <2>. QED
    BY <1>2, <2>1, FewerBounded DEF CertificatesRestart, certificateTables, Bounded,
                                    CertificatesTypeOK, RecentExist
<1>3. CASE UNCHANGED certificateVars \/ Claimed \/ ReprobeFires \/ WeekPasses
  BY <1>1, <1>3 DEF certificateVars, Claimed, ReprobeFires, WeekPasses
<1>. QED
  BY <1>2, <1>3, AuthorizeBounded, CountBounded, PresentBounded, FindBounded, RemoveBounded,
     CleanedUpBounded, ReleaseBounded DEF CertificatesNext

\* Every variable of Certificates keeps its type.
THEOREM CertificatesTypeCorrect == CertificatesSpec => []CertificatesTypeOK
<1>1. Bounded => CertificatesTypeOK
  BY DEF Bounded
<1>. QED
  BY <1>1, InitBounded, NextBounded, PTL DEF CertificatesSpec

\* However many presents overlap between the count and the creation, a week never has as many
\* challenges of a node as the limit and the handlers in flight together, and those that count
\* exist.
THEOREM IssuanceIsBounded == CertificatesSpec => []IssuanceBounded
<1>1. Bounded => IssuanceBounded
  <2> SUFFICES ASSUME Bounded PROVE IssuanceBounded
    OBVIOUS
  <2>1. Cardinality(recent) \in Nat
    BY FS_CardinalityType DEF Bounded
  <2>2. Cardinality(recent) < IssuanceLimit + Cardinality(AcmeCalls)
    BY <2>1, CreatingFinite, CertificatesAssumption DEF Bounded
  <2>. QED
    BY <2>2 DEF IssuanceBounded, Bounded, RecentExist
<1>. QED
  BY <1>1, InitBounded, NextBounded, PTL DEF CertificatesSpec

-----------------------------------------------------------------------------
(* Connectivity: the rows.                                                  *)

Row == [online : BOOLEAN, at : Nat, id : Nat]

ConnectivityTypeOK ==
    /\ clock \in Nat /\ Window <= clock
    /\ isOnline \in BOOLEAN
    /\ written \in SUBSET Row /\ IsFiniteSet(written) /\ events \subseteq written
    /\ eventIds \in Nat
    /\ recordings \in [Recordings -> [step : {"idle", "find", "create"}, online : BOOLEAN]]

\* Rows have been given different ids, and a later one has a later id.
Ordered ==
    /\ \A e \in written : e.id <= eventIds /\ e.at <= clock
    /\ \A e, f \in written : e.id = f.id => e = f
    /\ \A e, f \in written : e.id < f.id => e.at <= f.at

\* The row that tells the state at t: no other at or before t has a greater id.
isLast(e, rows) == e \in rows /\ \A f \in rows : f.id <= e.id

\* The row that tells the state at any instant of the retention has been kept.
Kept == \A t \in Int : clock - Retention <= t => \A e : isLast(e, upTo(t, written)) => e \in events

\* The seed that a sweep keeps tells the state at its cutoff.
Seeded ==
    pruning # NoPruning =>
        /\ pruning.cutoff \in Int /\ pruning.cutoff <= clock - Retention
        /\ \E e : isLast(e, upTo(pruning.cutoff, written)) /\ e.id = pruning.keeps

Recorded == ConnectivityTypeOK /\ Ordered /\ Kept /\ Seeded

LEMMA InitRecorded == ConnectivityInit => Recorded
<1> SUFFICES ASSUME ConnectivityInit PROVE Recorded
  OBVIOUS
<1>1. ConnectivityTypeOK
  <2>1. IsFiniteSet(written)
    BY FS_EmptySet DEF ConnectivityInit
  <2>2. clock \in Nat /\ Window <= clock
    BY ConnectivityAssumption DEF ConnectivityInit
  <2>. QED
    BY <2>1, <2>2 DEF ConnectivityInit, ConnectivityTypeOK, NoRecording
<1>2. Ordered
  BY DEF ConnectivityInit, Ordered
<1>3. Kept
  BY DEF ConnectivityInit, Kept, isLast, upTo
<1>4. Seeded
  BY DEF ConnectivityInit, Seeded
<1>. QED
  BY <1>1, <1>2, <1>3, <1>4 DEF Recorded

\* Of some rows one is last.
LEMMA LastExists ==
    ASSUME ConnectivityTypeOK, Ordered, NEW rows \in SUBSET written, rows # {}
    PROVE  \E e \in rows : isLast(e, rows)
<1> DEFINE Behind == {eventIds - e.id : e \in rows}
<1>1. \A e \in rows : e.id \in Nat /\ e.id <= eventIds
  BY DEF ConnectivityTypeOK, Ordered, Row
<1>2. Behind \in SUBSET Nat /\ Behind # {}
  BY <1>1 DEF ConnectivityTypeOK
<1>3. PICK m \in Behind : \A k \in Behind : m <= k
  BY <1>2, LeastNumber
<1>4. PICK e \in rows : m = eventIds - e.id
  BY <1>3
<1>5. \A f \in rows : eventIds - e.id <= eventIds - f.id
  BY <1>3, <1>4
<1>6. \A f \in rows : f.id <= e.id
  BY <1>1, <1>4, <1>5 DEF ConnectivityTypeOK
<1>. QED
  BY <1>4, <1>6 DEF isLast

\* The seed found is the row that tells the state at the cutoff.
LEMMA SeedRecorded == ASSUME Recorded, FindSeed PROVE Recorded'
<1> DEFINE cutoff == clock - Retention
           old == {e \in events : e.at <= cutoff}
<1>1. cutoff \in Int
  BY ConnectivityAssumption DEF Recorded, ConnectivityTypeOK
<1>2. old # {} /\ pruning' = [cutoff |-> cutoff, keeps |-> Max({e.id : e \in old})]
  BY DEF FindSeed
<1>3. upTo(cutoff, written) # {} /\ upTo(cutoff, written) \in SUBSET written
  BY <1>2 DEF Recorded, ConnectivityTypeOK, upTo
<1>4. PICK e : isLast(e, upTo(cutoff, written))
  BY <1>3, LastExists DEF Recorded
<1>5. e \in old /\ \A f \in old : f.id <= e.id
  BY <1>1, <1>4 DEF Recorded, Kept, ConnectivityTypeOK, isLast, upTo
<1>6. \A f \in old : f.id \in Nat
  BY DEF Recorded, ConnectivityTypeOK, Row
<1> HIDE DEF old
<1>7. Max({f.id : f \in old}) = e.id
  BY <1>5, <1>6 DEF Max
<1>8. UNCHANGED <<clock, isOnline, events, eventIds, written, recordings>>
  BY DEF FindSeed
<1>9. Seeded'
  <2> HIDE DEF cutoff
  <2>1. pruning'.cutoff = cutoff /\ pruning'.keeps = e.id
    BY <1>2, <1>7
  <2>2. isLast(e, upTo(pruning'.cutoff, written'))
    BY <1>4, <1>8, <2>1
  <2>3. cutoff <= clock' - Retention
    BY <1>1, <1>8 DEF cutoff
  <2>. QED
    BY <1>1, <2>1, <2>2, <2>3 DEF Seeded
<1>10. ConnectivityTypeOK' /\ Ordered' /\ Kept'
  BY <1>8 DEF Recorded, ConnectivityTypeOK, Ordered, Kept, isLast, upTo
<1>. QED
  BY <1>9, <1>10 DEF Recorded

\* What a sweep removes tells the state at no instant of the retention.
LEMMA PruneRecorded == ASSUME Recorded, PruneConnectivityEvents PROVE Recorded'
<1>1. PICK seed : /\ isLast(seed, upTo(pruning.cutoff, written)) /\ seed.id = pruning.keeps
                  /\ pruning.cutoff \in Int /\ pruning.cutoff <= clock - Retention
  BY DEF Recorded, Seeded, PruneConnectivityEvents
<1>2. /\ events' = {e \in events : survives(e)} /\ pruning' = NoPruning
      /\ UNCHANGED <<clock, isOnline, eventIds, written, recordings>>
  BY DEF PruneConnectivityEvents
<1>3. ASSUME NEW t \in Int, clock - Retention <= t, NEW e, isLast(e, upTo(t, written))
      PROVE  e \in events'
  <2>1. e \in events
    BY <1>3 DEF Recorded, Kept
  <2>2. CASE e.at > pruning.cutoff
    BY <1>2, <2>1, <2>2 DEF survives
  <2>3. CASE ~ (e.at > pruning.cutoff)
    <3>1. e \in written /\ seed \in written /\ e.at \in Nat /\ seed.at \in Nat
          /\ e.id \in Nat /\ seed.id \in Nat
      BY <1>1, <1>3 DEF Recorded, ConnectivityTypeOK, Row, isLast, upTo
    <3>2. e.id <= seed.id
      BY <1>1, <2>3, <3>1 DEF isLast, upTo
    <3>3. seed.at <= t
      BY <1>1, <1>3, <3>1, ConnectivityAssumption
            DEF isLast, upTo, Recorded, ConnectivityTypeOK
    <3>4. seed.id <= e.id
      BY <1>3, <3>1, <3>3 DEF isLast, upTo
    <3>5. e.id = pruning.keeps
      BY <1>1, <3>1, <3>2, <3>4
    <3>. QED
      BY <1>2, <2>1, <3>5 DEF survives
  <2>. QED
    BY <2>2, <2>3
<1>4. Kept'
  BY <1>2, <1>3 DEF Kept, isLast, upTo
<1>5. ConnectivityTypeOK' /\ Ordered' /\ Seeded'
  BY <1>2 DEF Recorded, ConnectivityTypeOK, Ordered, Seeded
<1>. QED
  BY <1>4, <1>5 DEF Recorded

\* A new row has the greatest id and the latest instant, which no cutoff has reached.
LEMMA RecordRecorded ==
    ASSUME Recorded, NEW r \in Recordings, RecordConnectivityEvent(r)
    PROVE  Recorded'
<1> DEFINE new == [online |-> recordings[r].online, at |-> clock, id |-> eventIds + 1]
<1>1. /\ events' = events \cup {new} /\ written' = written \cup {new}
      /\ eventIds' = eventIds + 1 /\ recordings' = [recordings EXCEPT ![r] = NoRecording]
      /\ UNCHANGED <<clock, isOnline, pruning>>
  BY DEF RecordConnectivityEvent
<1>2. new \in Row /\ new.at = clock /\ new.id = eventIds + 1
  BY DEF Recorded, ConnectivityTypeOK, Row
<1> HIDE DEF new
<1>3. \A e \in written : e.id \in Nat /\ e.at \in Nat /\ e.id <= eventIds /\ e.at <= clock
  BY DEF Recorded, ConnectivityTypeOK, Ordered, Row
<1>4. clock \in Nat /\ eventIds \in Nat /\ Retention \in Nat /\ 0 < Retention
  BY ConnectivityAssumption DEF Recorded, ConnectivityTypeOK
<1>5. ConnectivityTypeOK'
  <2>1. IsFiniteSet(written')
    BY <1>1, FS_AddElement DEF Recorded, ConnectivityTypeOK
  <2>. QED
    BY <1>1, <1>2, <2>1 DEF Recorded, ConnectivityTypeOK, NoRecording
<1>6. Ordered'
  BY <1>1, <1>2, <1>3, <1>4 DEF Recorded, Ordered
<1>7. ASSUME NEW t \in Int, clock - Retention <= t, NEW e, isLast(e, upTo(t, written'))
      PROVE  e \in events'
  <2>1. CASE e = new
    BY <1>1, <2>1
  <2>2. CASE e # new
    <3>1. isLast(e, upTo(t, written))
      BY <1>1, <1>7, <2>2 DEF isLast, upTo
    <3>. QED
      BY <1>1, <1>7, <3>1 DEF Recorded, Kept
  <2>. QED
    BY <2>1, <2>2
<1>8. Kept'
  BY <1>1, <1>7 DEF Kept
<1>9. Seeded'
  <2> SUFFICES ASSUME pruning # NoPruning
               PROVE  /\ pruning.cutoff \in Int /\ pruning.cutoff <= clock - Retention
                      /\ \E e : isLast(e, upTo(pruning.cutoff, written')) /\ e.id = pruning.keeps
    BY <1>1 DEF Seeded
  <2>1. pruning.cutoff \in Int /\ pruning.cutoff <= clock - Retention
    BY DEF Recorded, Seeded
  <2>2. upTo(pruning.cutoff, written') = upTo(pruning.cutoff, written)
    BY <1>1, <1>2, <1>4, <2>1 DEF upTo
  <2>. QED
    BY <2>1, <2>2 DEF Recorded, Seeded
<1>. QED
  BY <1>5, <1>6, <1>8, <1>9 DEF Recorded

\* With time the retention only moves on.
LEMMA TickRecorded == ASSUME Recorded, Tick PROVE Recorded'
<1>1. clock' = clock + 1 /\ UNCHANGED <<isOnline, events, eventIds, written, recordings, pruning>>
  BY DEF Tick
<1>2. clock \in Nat /\ Retention \in Nat /\ Window \in Nat
  BY ConnectivityAssumption DEF Recorded, ConnectivityTypeOK
<1>3. \A e \in written : e.at \in Nat
  BY DEF Recorded, ConnectivityTypeOK, Row
<1>4. ConnectivityTypeOK'
  BY <1>1, <1>2 DEF Recorded, ConnectivityTypeOK
<1>5. Ordered'
  BY <1>1, <1>2, <1>3 DEF Recorded, Ordered
<1>6. Kept'
  <2> SUFFICES ASSUME NEW t \in Int, clock' - Retention <= t, NEW e, isLast(e, upTo(t, written))
               PROVE  e \in events
    BY <1>1 DEF Kept
  <2>1. clock - Retention <= t
    BY <1>1, <1>2
  <2>. QED
    BY <2>1 DEF Recorded, Kept
<1>7. Seeded'
  BY <1>1, <1>2 DEF Recorded, Seeded
<1>. QED
  BY <1>4, <1>5, <1>6, <1>7 DEF Recorded

LEMMA NextRecorded == Recorded /\ [ConnectivityNext]_connectivityVars => Recorded'
<1> SUFFICES ASSUME Recorded, [ConnectivityNext]_connectivityVars PROVE Recorded'
  OBVIOUS
<1>1. ASSUME UNCHANGED <<clock, events, eventIds, written, pruning>>,
             isOnline' \in BOOLEAN,
             recordings' \in [Recordings -> [step : {"idle", "find", "create"}, online : BOOLEAN]]
      PROVE  Recorded'
  BY <1>1 DEF Recorded, ConnectivityTypeOK, Ordered, Kept, Seeded, upTo, isLast
<1>2. CASE FindSeed
  BY <1>2, SeedRecorded
<1>3. CASE PruneConnectivityEvents
  BY <1>3, PruneRecorded
<1>4. CASE Tick
  BY <1>4, TickRecorded
<1>5. CASE ConnectivityRestart
  BY <1>5 DEF ConnectivityRestart, Recorded, ConnectivityTypeOK, Ordered, Kept, Seeded,
              upTo, isLast, NoRecording
<1>6. ASSUME NEW r \in Recordings, NodePresence(r) PROVE Recorded'
  BY <1>1, <1>6 DEF NodePresence, Recorded, ConnectivityTypeOK
<1>7. ASSUME NEW r \in Recordings, FindLastEvent(r) PROVE Recorded'
  BY <1>1, <1>7 DEF FindLastEvent, Recorded, ConnectivityTypeOK, NoRecording
<1>8. ASSUME NEW r \in Recordings, RecordConnectivityEvent(r) PROVE Recorded'
  BY <1>8, RecordRecorded
<1>9. CASE UNCHANGED connectivityVars
  BY <1>1, <1>9 DEF connectivityVars, Recorded, ConnectivityTypeOK
<1>. QED
  BY <1>2, <1>3, <1>4, <1>5, <1>6, <1>7, <1>8, <1>9 DEF ConnectivityNext

\* A sweep, overlapping with other recordings and restarts, loses no row that the state of an
\* instant of the retention is read from: pruneConnectivityEvents of data_service.js.
THEOREM RowsAreKept == ConnectivitySpec => []Recorded
  BY InitRecorded, NextRecorded, PTL DEF ConnectivitySpec

-----------------------------------------------------------------------------
(* Connectivity: what is read from the rows.                                *)

\* The newest of some rows is the last.
LEMMA NewestIsLast ==
    ASSUME ConnectivityTypeOK, Ordered, NEW rows \in SUBSET written, NEW e, isLast(e, rows)
    PROVE  newest(rows) = e
<1>1. \A x, y \in rows : /\ x.at \in Nat /\ y.at \in Nat /\ x.id \in Nat /\ y.id \in Nat
                         /\ x.id = y.id => x = y
                         /\ x.id < y.id => x.at <= y.at
  BY DEF ConnectivityTypeOK, Ordered, Row
<1>2. e \in rows /\ \A f \in rows : f.id <= e.id
  BY DEF isLast
<1>3. \A f \in rows \ {e} : isAfter(e, f)
  <2> SUFFICES ASSUME NEW f \in rows \ {e} PROVE isAfter(e, f)
    OBVIOUS
  <2>1. f.id < e.id /\ f.at <= e.at
    BY <1>1, <1>2
  <2>. QED
    BY <1>1, <1>2, <2>1 DEF isAfter
<1>4. ASSUME NEW x \in rows, \A f \in rows \ {x} : isAfter(x, f) PROVE x = e
  <2> SUFFICES ASSUME x # e PROVE FALSE
    OBVIOUS
  <2>1. isAfter(x, e) /\ isAfter(e, x)
    BY <1>2, <1>3, <1>4
  <2>. QED
    BY <1>1, <1>2, <2>1 DEF isAfter
<1>. QED
  BY <1>2, <1>3, <1>4 DEF newest

LEMMA NewestOfRows ==
    ASSUME ConnectivityTypeOK, Ordered, NEW rows \in SUBSET written, rows # {}
    PROVE  newest(rows) \in rows /\ isLast(newest(rows), rows)
<1>1. PICK e \in rows : isLast(e, rows)
  BY LastExists
<1>. QED
  BY <1>1, NewestIsLast

\* In the window the rows that are left tell what all of them would.
LEMMA SameState ==
    ASSUME Recorded, NEW t \in windowStart .. clock
    PROVE  stateAfter(upTo(t, written)) = stateAfter(upTo(t, events))
<1>1. clock \in Nat /\ Window \in Nat /\ Retention \in Nat /\ Window <= Retention /\ t \in Int
  BY ConnectivityAssumption DEF Recorded, ConnectivityTypeOK, windowStart
<1>2. clock - Retention <= t
  BY <1>1 DEF windowStart
<1>3. upTo(t, events) \in SUBSET written /\ upTo(t, written) \in SUBSET written
      /\ upTo(t, events) \subseteq upTo(t, written)
  BY DEF Recorded, ConnectivityTypeOK, upTo
<1>4. CASE upTo(t, written) = {}
  BY <1>3, <1>4
<1>5. CASE upTo(t, written) # {}
  <2>1. PICK e : isLast(e, upTo(t, written))
    BY <1>3, <1>5, LastExists DEF Recorded
  <2>2. e \in events
    BY <1>1, <1>2, <2>1 DEF Recorded, Kept
  <2>3. isLast(e, upTo(t, events))
    BY <1>3, <2>1, <2>2 DEF isLast, upTo
  <2>4. newest(upTo(t, written)) = e /\ newest(upTo(t, events)) = e
    BY <1>3, <2>1, <2>3, NewestIsLast DEF Recorded
  <2>5. upTo(t, events) # {}
    BY <2>3 DEF isLast
  <2>. QED
    BY <1>5, <2>4, <2>5 DEF stateAfter
<1>. QED
  BY <1>4, <1>5

LEMMA SameEmpty ==
    ASSUME Recorded
    PROVE  /\ (events = {}) = (written = {})
           /\ (inWindow(events) = {}) = (inWindow(written) = {})
<1>1. clock \in Nat /\ Window \in Nat /\ Retention \in Nat /\ windowStart \in Int
  BY ConnectivityAssumption DEF Recorded, ConnectivityTypeOK, windowStart
<1>2. events \subseteq written /\ \A e \in written : e.at \in Nat /\ e.at <= clock /\ e.id \in Nat
  BY DEF Recorded, ConnectivityTypeOK, Ordered, Row
<1>3. upTo(clock, written) = written
  BY <1>2 DEF upTo
<1>4. ASSUME written # {} PROVE \E e \in events : isLast(e, written)
  <2>1. PICK e \in written : isLast(e, written)
    BY <1>4, LastExists DEF Recorded
  <2>. QED
    BY <1>1, <1>3, <2>1 DEF Recorded, Kept
<1>5. ASSUME NEW f \in inWindow(written) PROVE inWindow(events) # {}
  <2>1. f \in written /\ f.at > windowStart
    BY <1>5 DEF inWindow
  <2>2. PICK e \in events : isLast(e, written)
    BY <1>4, <2>1
  <2>3. f.at <= e.at
    BY <1>2, <2>1, <2>2 DEF isLast, Recorded, Ordered
  <2>4. e \in inWindow(events)
    BY <1>1, <1>2, <2>1, <2>2, <2>3 DEF inWindow
  <2>. QED
    BY <2>4
<1>6. inWindow(events) \subseteq inWindow(written)
  BY <1>2 DEF inWindow
<1>. QED
  BY <1>2, <1>4, <1>5, <1>6

\* Between a row of the window and the next the state is what that row says; before the first it
\* is the state at the start of the window.
LEMMA StateBetween ==
    ASSUME Recorded, NEW e \in inWindow(events), NEW t \in Int, e.at <= t,
           \A f \in events : f.at <= t => f.id <= e.id
    PROVE  stateAfter(upTo(t, events)) = stateOf(e.online)
<1>1. upTo(t, events) \in SUBSET written
  BY DEF Recorded, ConnectivityTypeOK, upTo
<1>2. isLast(e, upTo(t, events))
  BY DEF isLast, upTo, inWindow
<1>3. newest(upTo(t, events)) = e /\ upTo(t, events) # {}
  BY <1>1, <1>2, NewestIsLast DEF Recorded, isLast
<1>. QED
  BY <1>3 DEF stateAfter

LEMMA StateBefore ==
    ASSUME Recorded, NEW t \in Int, windowStart <= t,
           \A f \in events : f.at <= t => f.at <= windowStart
    PROVE  stateAfter(upTo(t, events)) = stateAfter(upTo(windowStart, events))
<1>1. \A f \in events : f.at \in Nat
  BY DEF Recorded, ConnectivityTypeOK, Row
<1>2. windowStart \in Int
  BY ConnectivityAssumption DEF Recorded, ConnectivityTypeOK, windowStart
<1>3. upTo(t, events) = upTo(windowStart, events)
  BY <1>1, <1>2 DEF upTo
<1>. QED
  BY <1>3

-----------------------------------------------------------------------------
(* Connectivity: segments that follow one another.                          *)

Segment == [online : States, startMs : Int, endMs : Int]

\* Segments from one instant to another, each with the state that st has at its instants.
shows(segments, from, to, st) ==
    /\ segments \in Seq(Segment) /\ from \in Int /\ to \in Int
    /\ segments = <<>> => from = to
    /\ segments # <<>> => segments[1].startMs = from /\ segments[Len(segments)].endMs = to
    /\ \A i \in 1..(Len(segments) - 1) : segments[i].endMs = segments[i + 1].startMs
    /\ \A i \in 1..Len(segments) :
        /\ segments[i].startMs < segments[i].endMs
        /\ \A t \in Int : segments[i].startMs <= t /\ t < segments[i].endMs
                            => st[t] = segments[i].online

differs(segments) == \A i \in 1..(Len(segments) - 1) : segments[i].online # segments[i + 1].online

\* One more segment, of the state that follows.
LEMMA ShowsMore ==
    ASSUME NEW segments, NEW from, NEW to, NEW st, shows(segments, from, to, st),
           NEW end \in Int, NEW state \in States, to < end,
           \A t \in Int : to <= t /\ t < end => st[t] = state
    PROVE  shows(Append(segments, segment(state, to, end)), from, end, st)
<1> DEFINE s == segment(state, to, end)
           more == Append(segments, s)
           n == Len(segments)
<1>1. s \in Segment /\ s.online = state /\ s.startMs = to /\ s.endMs = end
  BY DEF shows, segment, Segment
<1> HIDE DEF s
<1>2. segments \in Seq(Segment) /\ n \in Nat
  BY DEF shows
<1>3. more \in Seq(Segment) /\ Len(more) = n + 1 /\ more[n + 1] = s
      /\ \A i \in 1..n : more[i] = segments[i]
  BY <1>1, <1>2
<1>4. \A i \in 1..n : more[i].startMs < more[i].endMs
      /\ \A t \in Int : more[i].startMs <= t /\ t < more[i].endMs => st[t] = more[i].online
  BY <1>3 DEF shows
<1>5. more[n + 1].startMs < more[n + 1].endMs
      /\ \A t \in Int : more[n + 1].startMs <= t /\ t < more[n + 1].endMs
                            => st[t] = more[n + 1].online
  BY <1>1, <1>3
<1>6. ASSUME NEW i \in 1..n PROVE more[i].endMs = more[i + 1].startMs
  <2>1. CASE i = n
    BY <1>1, <1>2, <1>3, <2>1 DEF shows
  <2>2. CASE i # n
    BY <1>2, <1>3, <2>2 DEF shows
  <2>. QED
    BY <2>1, <2>2
<1>7. more[1].startMs = from /\ more[Len(more)].endMs = end
  BY <1>1, <1>2, <1>3 DEF shows
<1>8. more # <<>>
  BY <1>2, <1>3
<1>9. Len(more) - 1 = n /\ \A i \in 1..Len(more) : i \in 1..n \/ i = n + 1
  BY <1>2, <1>3
<1>10. from \in Int
  BY DEF shows
<1> HIDE DEF more, n
<1>11. \A i \in 1..Len(more) : more[i].startMs < more[i].endMs
      /\ \A t \in Int : more[i].startMs <= t /\ t < more[i].endMs => st[t] = more[i].online
  BY <1>4, <1>5, <1>9
<1>12. \A i \in 1..(Len(more) - 1) : more[i].endMs = more[i + 1].startMs
  BY <1>6, <1>9
<1>13. shows(more, from, end, st)
  BY <1>3, <1>7, <1>8, <1>10, <1>11, <1>12 DEF shows
<1>. QED
  BY <1>13 DEF more, s

\* A segment whose state goes on is lengthened.
LEMMA ShowsLonger ==
    ASSUME NEW segments, NEW from, NEW to, NEW st, shows(segments, from, to, st), segments # <<>>,
           NEW end \in Int, to < end,
           \A t \in Int : to <= t /\ t < end => st[t] = segments[Len(segments)].online
    PROVE  shows([segments EXCEPT ![Len(segments)].endMs = end], from, end, st)
<1> DEFINE n == Len(segments)
           longer == [segments EXCEPT ![n].endMs = end]
<1>1. segments \in Seq(Segment) /\ n \in Nat /\ n >= 1
  BY DEF shows
<1>2. segments[n] \in Segment
  BY <1>1
<1>3. /\ longer \in Seq(Segment) /\ Len(longer) = n
      /\ \A i \in 1..n : i # n => longer[i] = segments[i]
      /\ longer[n] = [segments[n] EXCEPT !.endMs = end]
  <2> DEFINE last == [segments[n] EXCEPT !.endMs = end]
  <2>1. last \in Segment
    BY <1>2 DEF Segment
  <2>2. longer = [segments EXCEPT ![n] = last]
    OBVIOUS
  <2> HIDE DEF last, longer
  <2>3. longer \in Seq(Segment) /\ Len(longer) = n /\ longer[n] = last
        /\ \A i \in 1..n : i # n => longer[i] = segments[i]
    BY <1>1, <2>1, <2>2
  <2>. QED
    BY <2>3 DEF last
<1>4. longer[n].online = segments[n].online /\ longer[n].startMs = segments[n].startMs
      /\ longer[n].endMs = end
  BY <1>3, <1>2 DEF Segment
<1>5. segments[n].endMs = to /\ segments[n].startMs < to /\ to \in Int /\ from \in Int
      /\ segments[n].startMs \in Int
  BY <1>1, <1>2 DEF shows, Segment
<1>6. longer[n].startMs < longer[n].endMs
      /\ \A t \in Int : longer[n].startMs <= t /\ t < longer[n].endMs => st[t] = longer[n].online
  <2>1. \A t \in Int : segments[n].startMs <= t /\ t < to => st[t] = segments[n].online
    BY <1>1, <1>5 DEF shows
  <2> HIDE DEF longer, n
  <2>2. segments[n].startMs < end
    BY <1>5
  <2>3. ASSUME NEW t \in Int, segments[n].startMs <= t, t < end PROVE st[t] = segments[n].online
    BY <1>5, <2>1, <2>3 DEF n
  <2>. QED
    BY <1>4, <2>2, <2>3
<1>7. \A i \in 1..n : longer[i].startMs = segments[i].startMs
  BY <1>3, <1>4
<1>8. \A i \in 1..(n - 1) : longer[i].endMs = longer[i + 1].startMs
  BY <1>1, <1>3, <1>7 DEF shows
<1>9. \A i \in 1..n : longer[i].startMs < longer[i].endMs
      /\ \A t \in Int : longer[i].startMs <= t /\ t < longer[i].endMs => st[t] = longer[i].online
  BY <1>1, <1>3, <1>6 DEF shows
<1>10. longer # <<>> /\ longer[1].startMs = from
  BY <1>1, <1>3, <1>7 DEF shows
<1> HIDE DEF longer, n
<1>. QED
  BY <1>3, <1>4, <1>5, <1>8, <1>9, <1>10 DEF shows, n

-----------------------------------------------------------------------------
(* Connectivity: the walk over the events and the merging of segments.      *)

\* The state at each instant, by the events that are left.
statesLeft == [t \in Int |-> stateAfter(upTo(t, events))]

\* Events of the window that have with one all earlier ones.
isPrefix(s) == s \subseteq inWindow(events)
               /\ \A e \in s, f \in inWindow(events) : f.id < e.id => f \in s

\* After those events the walk has drawn the segments up to the last of them.
walkedTo(s, acc) ==
    /\ acc.cursor = IF s = {} THEN windowStart ELSE newest(s).at
    /\ acc.state = IF s = {} THEN stateAfter(upTo(windowStart, events))
                             ELSE stateOf(newest(s).online)
    /\ shows(acc.segments, windowStart, acc.cursor, statesLeft)

\* Until the next event the state is the one the walk holds.
LEMMA StateHeld ==
    ASSUME Recorded, NEW s, isPrefix(s), NEW acc, walkedTo(s, acc),
           NEW t \in Int, acc.cursor <= t,
           \A f \in inWindow(events) \ s : t < f.at
    PROVE  statesLeft[t] = acc.state
<1>1. \A f \in events : f \in written /\ f.at \in Nat /\ f.id \in Nat /\ f.at <= clock
  BY DEF Recorded, ConnectivityTypeOK, Ordered, Row
<1>2. windowStart \in Int
  BY ConnectivityAssumption DEF Recorded, ConnectivityTypeOK, windowStart
<1>3. s \in SUBSET written /\ s \subseteq inWindow(events) /\ inWindow(events) \subseteq events
  BY <1>1 DEF isPrefix, inWindow
<1>4. CASE s = {}
  <2>1. \A f \in events : f.at <= t => f.at <= windowStart
    BY <1>1, <1>2, <1>4 DEF inWindow
  <2>2. windowStart <= t
    BY <1>4 DEF walkedTo
  <2>. QED
    BY <1>4, <2>1, <2>2, StateBefore DEF walkedTo, statesLeft
<1>5. CASE s # {}
  <2> DEFINE e == newest(s)
  <2>1. e \in s /\ \A f \in s : f.id <= e.id
    BY <1>3, <1>5, NewestOfRows DEF Recorded, isLast
  <2>2. acc.cursor = e.at /\ acc.state = stateOf(e.online)
    BY <1>5 DEF walkedTo
  <2> HIDE DEF e
  <2>3. ASSUME NEW f \in events, f.at <= t PROVE f.id <= e.id
    <3>1. CASE f \in inWindow(events)
      BY <1>1, <1>3, <2>1, <2>3, <3>1
    <3>2. CASE f \notin inWindow(events)
      <4>1. f.at <= windowStart /\ windowStart < e.at /\ e \in events
        BY <1>1, <1>2, <1>3, <2>1, <3>2 DEF inWindow
      <4>2. ~ (e.id < f.id)
        BY <1>1, <1>2, <4>1 DEF Recorded, Ordered
      <4>. QED
        BY <1>1, <4>1, <4>2
    <3>. QED
      BY <3>1, <3>2
  <2>4. stateAfter(upTo(t, events)) = stateOf(e.online)
    BY <1>3, <2>1, <2>2, <2>3, StateBetween
  <2>. QED
    BY <2>2, <2>4 DEF statesLeft
<1>. QED
  BY <1>4, <1>5

LEMMA StateTyped == ASSUME Recorded, NEW s, isPrefix(s), NEW acc, walkedTo(s, acc)
                    PROVE  acc.state \in States /\ acc.cursor \in Int
<1>1. acc.cursor \in Int
  BY DEF walkedTo, shows
<1>2. acc.state \in States
  BY DEF walkedTo, stateAfter, stateOf, States
<1>. QED
  BY <1>1, <1>2

\* One more event.
LEMMA WalkFurther ==
    ASSUME Recorded, NEW s, isPrefix(s), s # {},
           NEW acc, isPrefix(s \ {newest(s)}) => walkedTo(s \ {newest(s)}, acc)
    PROVE  walkedTo(s, closesAt(newest(s), acc))
<1> DEFINE e == newest(s)
           rest == s \ {e}
           next == closesAt(e, acc)
<1>1. \A f \in events : f \in written /\ f.at \in Nat /\ f.id \in Nat /\ f.at <= clock
  BY DEF Recorded, ConnectivityTypeOK, Ordered, Row
<1>2. s \in SUBSET written /\ s \subseteq inWindow(events) /\ inWindow(events) \subseteq events
  BY <1>1 DEF isPrefix, inWindow
<1>3. e \in s /\ \A f \in s : f.id <= e.id
  BY <1>2, NewestOfRows DEF Recorded, isLast
<1>4. windowStart \in Int /\ windowStart < e.at /\ e.at \in Nat
  BY <1>1, <1>2, <1>3, ConnectivityAssumption
        DEF Recorded, ConnectivityTypeOK, windowStart, inWindow
<1>5. next.cursor = e.at /\ next.state = stateOf(e.online)
      /\ next.segments = IF e.at > acc.cursor
                         THEN Append(acc.segments, segment(acc.state, acc.cursor, e.at))
                         ELSE acc.segments
  BY DEF closesAt
<1> HIDE DEF e, next
<1>6. isPrefix(rest)
  BY <1>1, <1>2, <1>3 DEF isPrefix
<1>7. walkedTo(rest, acc)
  BY <1>6 DEF e
<1>8. acc.state \in States /\ acc.cursor \in Int
  BY <1>6, <1>7, StateTyped
<1>9. ASSUME NEW f \in inWindow(events) \ rest PROVE e.at <= f.at
  <2>1. f = e \/ f \notin s
    BY <1>9
  <2>2. f \in events /\ e \in events
    BY <1>2, <1>3
  <2>3. f = e \/ e.id < f.id
    <3>1. CASE f \notin s
      <4>1. ~ (f.id < e.id)
        BY <1>3, <1>9, <3>1 DEF isPrefix
      <4>2. f.id # e.id
        BY <1>1, <1>3, <2>2, <3>1 DEF Recorded, Ordered
      <4>. QED
        BY <1>1, <2>2, <4>1, <4>2
    <3>. QED
      BY <2>1, <3>1
  <2>. QED
    BY <1>1, <1>4, <2>2, <2>3 DEF Recorded, Ordered
<1>10. ASSUME NEW t \in Int, acc.cursor <= t, t < e.at PROVE statesLeft[t] = acc.state
  <2>1. \A f \in inWindow(events) \ rest : t < f.at
    BY <1>1, <1>2, <1>4, <1>9, <1>10
  <2>. QED
    BY <1>6, <1>7, <1>10, <2>1, StateHeld
<1>11. shows(acc.segments, windowStart, acc.cursor, statesLeft)
  BY <1>7 DEF walkedTo
<1>12. shows(next.segments, windowStart, e.at, statesLeft)
  <2>1. CASE e.at > acc.cursor
    BY <1>4, <1>5, <1>8, <1>10, <1>11, <2>1, ShowsMore
  <2>2. CASE ~ (e.at > acc.cursor)
    <3>1. acc.cursor <= e.at
      <4>1. CASE rest = {}
        BY <1>4, <1>7, <4>1 DEF walkedTo
      <4>2. CASE rest # {}
        <5>1. newest(rest) \in rest /\ rest \subseteq written
          BY <1>2, <4>2, NewestOfRows DEF Recorded
        <5>2. acc.cursor = newest(rest).at
          BY <1>7, <4>2 DEF walkedTo
        <5>3. newest(rest) \in written /\ newest(rest) \in s /\ newest(rest) # e /\ e \in written
              /\ newest(rest) \in events /\ e \in events
          BY <1>2, <1>3, <5>1
        <5> HIDE DEF rest
        <5>4. newest(rest).id < e.id
          BY <1>1, <1>3, <5>3 DEF Recorded, Ordered
        <5>. QED
          BY <5>2, <5>3, <5>4 DEF Recorded, Ordered
      <4>. QED
        BY <4>1, <4>2
    <3>2. acc.cursor = e.at
      BY <1>4, <1>8, <2>2, <3>1
    <3>. QED
      BY <1>5, <1>11, <2>2, <3>2
  <2>. QED
    BY <2>1, <2>2
<1>13. walkedTo(s, next)
  BY <1>5, <1>12 DEF walkedTo, e
<1>. QED
  BY <1>13 DEF next, e

\* The walk ends at the last event of the window.
LEMMA WalkedAll == ASSUME Recorded PROVE walkedTo(inWindow(events), walked)
<1> DEFINE W == inWindow(events)
           base == [segments |-> <<>>, cursor |-> windowStart,
                    state |-> stateAfter(upTo(windowStart, events))]
<1>1. W \in SUBSET written /\ IsFiniteSet(W)
  <2>1. W \in SUBSET written
    BY DEF Recorded, ConnectivityTypeOK, inWindow
  <2>. QED
    BY <2>1, FS_Subset DEF Recorded, ConnectivityTypeOK
<1>2. picks("events", W)
  <2> SUFFICES ASSUME NEW s \in SUBSET W, s # {} PROVE newest(s) \in s
    BY DEF picks, picked
  <2>. QED
    BY <1>1, NewestOfRows DEF Recorded
<1> HIDE DEF base, W
<1>3. PICK iter : folds("events", <<>>, base, SUBSET W, iter)
                  /\ MapThenFoldSet(closesAt, base, LAMBDA e : e, newest, W) = iter[W]
  BY <1>1, <1>2, FoldOfEvents
<1>4. walked = iter[W]
  BY <1>3 DEF walked, base, W
<1> DEFINE Bad == {s \in SUBSET W : isPrefix(s) /\ ~ walkedTo(s, iter[s])}
<1>5. Bad \in SUBSET FiniteSubsetsOf(W)
  BY <1>1, FS_FiniteSubsetsOfFinite
<1>6. ASSUME NEW s \in Bad, \A t \in Bad : ~ (<<t, s>> \in StrictSubsetOrdering(W))
      PROVE  FALSE
  <2>1. CASE s = {}
    <3>1. iter[s] = base
      BY <2>1, <1>3 DEF folds
    <3>2. windowStart \in Int
      BY ConnectivityAssumption DEF Recorded, ConnectivityTypeOK, windowStart
    <3>3. shows(<<>>, windowStart, windowStart, statesLeft)
      BY <3>2 DEF shows
    <3>4. walkedTo({}, base)
      BY <3>3 DEF walkedTo, base
    <3>. QED
      BY <1>6, <2>1, <3>1, <3>4
  <2>2. CASE s # {}
    <3> DEFINE e == newest(s)
               rest == s \ {e}
    <3>1. e \in s /\ s \in SUBSET W
      BY <1>2, <1>6, <2>2 DEF picks, picked
    <3>2. iter[s] = closesAt(e, iter[rest])
      BY <1>3, <2>2, <3>1 DEF folds, folded, picked
    <3>3. rest \in SUBSET W /\ <<rest, s>> \in StrictSubsetOrdering(W)
      BY <3>1 DEF StrictSubsetOrdering
    <3>4. isPrefix(rest) => walkedTo(rest, iter[rest])
      BY <1>6, <3>3
    <3>5. walkedTo(s, closesAt(e, iter[rest]))
      BY <1>6, <2>2, <3>4, WalkFurther
    <3>. QED
      BY <1>6, <3>2, <3>5
  <2>. QED
    BY <2>1, <2>2
<1>7. Bad = {}
  <2> SUFFICES ASSUME Bad # {} PROVE FALSE
    OBVIOUS
  <2>1. IsWellFoundedOn(StrictSubsetOrdering(W), FiniteSubsetsOf(W))
    BY <1>1, FS_StrictSubsetOrderingWellFounded
  <2> HIDE DEF Bad
  <2>2. PICK s \in Bad : \A t \in Bad : ~ (<<t, s>> \in StrictSubsetOrdering(W))
    BY <1>5, <2>1, WFMin
  <2>. QED
    BY <1>6, <2>2
<1>8. isPrefix(W)
  BY DEF isPrefix, W
<1>9. W \notin Bad
  BY <1>7
<1>10. walkedTo(W, iter[W])
  BY <1>8, <1>9
<1>. QED
  BY <1>4, <1>10 DEF W

\* All of them lie between the two instants.
LEMMA SegmentsWithin ==
    ASSUME NEW segments, NEW from, NEW to, NEW st, shows(segments, from, to, st),
           NEW i \in 1..Len(segments)
    PROVE  from <= segments[i].startMs /\ segments[i].endMs <= to
<1> DEFINE n == Len(segments)
<1>1. segments \in Seq(Segment) /\ n \in Nat /\ n >= 1 /\ from \in Int /\ to \in Int
      /\ segments[1].startMs = from /\ segments[n].endMs = to
  BY DEF shows
<1>2. \A k \in 1..n : segments[k].startMs \in Int /\ segments[k].endMs \in Int
                      /\ segments[k].startMs < segments[k].endMs
  <2>1. \A k \in 1..n : segments[k] \in Segment
    BY <1>1
  <2>2. \A k \in 1..n : segments[k].startMs < segments[k].endMs
    BY DEF shows
  <2> HIDE DEF n
  <2>. QED
    BY <2>1, <2>2 DEF Segment
<1>3. \A k \in 1..(n - 1) : segments[k].endMs = segments[k + 1].startMs
  BY DEF shows
<1> HIDE DEF n
<1>4. from <= segments[i].startMs
  <2> DEFINE Bad == {k \in 1..n : ~ (from <= segments[k].startMs)}
  <2>1. Bad = {}
    <3> SUFFICES ASSUME Bad # {} PROVE FALSE
      OBVIOUS
    <3>1. Bad \in SUBSET Nat
      BY <1>1
    <3>2. PICK m \in Bad : \A k \in Bad : m <= k
      BY <3>1, LeastNumber
    <3>3. m # 1
      BY <1>1, <3>2
    <3>4. m - 1 \in 1..(n - 1) /\ m - 1 \in 1..n /\ (m - 1) + 1 = m
      BY <1>1, <3>2, <3>3
    <3>5. from <= segments[m - 1].startMs
      BY <3>2, <3>4
    <3>6. segments[m - 1].endMs = segments[m].startMs
      BY <1>3, <3>4
    <3>. QED
      BY <1>1, <1>2, <3>2, <3>4, <3>5, <3>6
  <2>. QED
    BY <2>1 DEF n
<1>5. segments[i].endMs <= to
  <2> DEFINE Bad == {k \in 0..(n - 1) : ~ (segments[n - k].endMs <= to)}
  <2>1. Bad = {}
    <3> SUFFICES ASSUME Bad # {} PROVE FALSE
      OBVIOUS
    <3>1. Bad \in SUBSET Nat
      BY <1>1
    <3>2. PICK m \in Bad : \A k \in Bad : m <= k
      BY <3>1, LeastNumber
    <3>3. m # 0
      BY <1>1, <3>2
    <3>4. m - 1 \in 0..(n - 1) /\ n - m \in 1..(n - 1) /\ n - m \in 1..n
          /\ n - (m - 1) = (n - m) + 1 /\ (n - m) + 1 \in 1..n
      BY <1>1, <3>2, <3>3
    <3>5. segments[n - (m - 1)].endMs <= to
      <4>1. m - 1 \notin Bad
        BY <3>1, <3>2
      <4>. QED
        BY <3>4, <4>1
    <3>6. segments[n - m].endMs = segments[(n - m) + 1].startMs
      BY <1>3, <3>4
    <3>7. segments[n - m].endMs <= to
      BY <1>1, <1>2, <3>4, <3>5, <3>6
    <3>. QED
      BY <3>2, <3>7
  <2>2. n - i \in 0..(n - 1) /\ n - (n - i) = i
    BY <1>1 DEF n
  <2>. QED
    BY <2>1, <2>2
<1>. QED
  BY <1>4, <1>5

\* Between an instant and itself there are none.
LEMMA ShowsNothing ==
    ASSUME NEW segments, NEW from, NEW st, shows(segments, from, from, st)
    PROVE  segments = <<>>
<1> SUFFICES ASSUME segments # <<>> PROVE FALSE
  OBVIOUS
<1>1. segments \in Seq(Segment) /\ 1 \in 1..Len(segments) /\ segments[1] \in Segment
  BY DEF shows
<1>2. segments[1].startMs = from /\ segments[1].startMs < segments[1].endMs
  BY <1>1 DEF shows
<1>3. segments[1].endMs <= from
  BY <1>1, SegmentsWithin
<1>. QED
  BY <1>1, <1>2, <1>3 DEF Segment

-----------------------------------------------------------------------------
(* Connectivity: the segments drawn.                                        *)

\* The state at each instant, as the property has it.
statesShown == [t \in Int |-> stateAt(t)]

\* Before they are merged the segments already show the window.
LEMMA SegmentsOfEventsShow ==
    ASSUME Recorded, events # {}
    PROVE  \E st : /\ \A t \in windowStart .. clock : st[t] = statesShown[t]
                   /\ shows(segmentsOfEvents, windowStart, clock, st)
<1> DEFINE W == inWindow(events)
           state == IF W = {} THEN stateOf(isOnline) ELSE walked.state
           st == IF W = {} THEN [t \in Int |-> stateOf(isOnline)] ELSE statesLeft
<1>1. walkedTo(W, walked)
  BY WalkedAll
<1>2. isPrefix(W)
  BY DEF isPrefix
<1>3. walked.state \in States /\ walked.cursor \in Int
  BY <1>1, <1>2, StateTyped
<1>4. clock \in Nat /\ windowStart \in Int /\ windowStart < clock
  BY ConnectivityAssumption DEF Recorded, ConnectivityTypeOK, windowStart
<1>5. (W = {}) = (inWindow(written) = {}) /\ written # {}
  BY SameEmpty
<1>6. \A t \in windowStart .. clock : st[t] = statesShown[t]
  <2> SUFFICES ASSUME NEW t \in windowStart .. clock PROVE st[t] = statesShown[t]
    OBVIOUS
  <2>1. t \in Int
    BY <1>4
  <2>2. statesShown[t] = IF W = {} THEN stateOf(isOnline) ELSE stateAfter(upTo(t, written))
    BY <1>5, <2>1 DEF statesShown, stateAt
  <2>3. stateAfter(upTo(t, written)) = stateAfter(upTo(t, events))
    BY SameState
  <2>. QED
    BY <2>1, <2>2, <2>3 DEF statesLeft
<1>7. shows(walked.segments, windowStart, walked.cursor, statesLeft)
  BY <1>1 DEF walkedTo
<1>8. shows(walked.segments, windowStart, walked.cursor, st)
  <2>1. CASE W = {}
    <3>1. walked.cursor = windowStart
      BY <1>1, <2>1 DEF walkedTo
    <3>2. walked.segments = <<>>
      BY <1>7, <3>1, ShowsNothing
    <3>. QED
      BY <1>4, <3>1, <3>2 DEF shows
  <2>2. CASE W # {}
    BY <1>7, <2>2
  <2>. QED
    BY <2>1, <2>2
<1>9. walked.cursor <= clock
  <2>1. CASE W = {}
    BY <1>1, <1>4, <2>1 DEF walkedTo
  <2>2. CASE W # {}
    <3>1. W \in SUBSET written
      BY DEF Recorded, ConnectivityTypeOK, inWindow
    <3>2. newest(W) \in W
      BY <2>2, <3>1, NewestOfRows DEF Recorded
    <3>3. walked.cursor = newest(W).at
      BY <1>1, <2>2 DEF walkedTo
    <3>. QED
      BY <3>1, <3>2, <3>3 DEF Recorded, Ordered
  <2>. QED
    BY <2>1, <2>2
<1>10. state \in States
  BY <1>3 DEF stateOf, States
<1>11. ASSUME NEW t \in Int, walked.cursor <= t, t < clock PROVE st[t] = state
  <2>1. CASE W = {}
    BY <2>1
  <2>2. CASE W # {}
    BY <1>1, <1>2, <1>11, <2>2, StateHeld
  <2>. QED
    BY <2>1, <2>2
<1>12. segmentsOfEvents = IF walked.cursor < clock
                          THEN Append(walked.segments, segment(state, walked.cursor, clock))
                          ELSE walked.segments
  BY DEF segmentsOfEvents
<1> HIDE DEF st, state, W
<1>13. CASE walked.cursor < clock
  <2>1. shows(Append(walked.segments, segment(state, walked.cursor, clock)), windowStart, clock, st)
    BY <1>4, <1>8, <1>10, <1>11, <1>13, ShowsMore
  <2>. QED
    BY <1>6, <1>12, <1>13, <2>1
<1>14. CASE ~ (walked.cursor < clock)
  <2>1. walked.cursor = clock
    BY <1>3, <1>4, <1>9, <1>14
  <2>. QED
    BY <1>6, <1>8, <1>12, <1>14, <2>1
<1>. QED
  BY <1>13, <1>14

\* Merging one more segment.
LEMMA CollapsedShows ==
    ASSUME NEW merged, NEW from, NEW to, NEW st, shows(merged, from, to, st), differs(merged),
           NEW s \in Segment, s.startMs = to, s.startMs < s.endMs,
           \A t \in Int : s.startMs <= t /\ t < s.endMs => st[t] = s.online
    PROVE  shows(collapsed(merged, s), from, s.endMs, st) /\ differs(collapsed(merged, s))
<1> DEFINE n == Len(merged)
<1>1. merged \in Seq(Segment) /\ n \in Nat
  BY DEF shows
<1>2. s.endMs \in Int /\ s.online \in States /\ to \in Int /\ s = segment(s.online, to, s.endMs)
  BY DEF Segment, segment, shows
<1>3. CASE merged # <<>> /\ Last(merged).online = s.online
  <2> DEFINE longer == [merged EXCEPT ![n].endMs = s.endMs]
  <2>1. Last(merged) = merged[n] /\ n >= 1
    BY <1>1, <1>3 DEF Last
  <2>2. collapsed(merged, s) = longer
    BY <1>3 DEF collapsed
  <2>3. shows(longer, from, s.endMs, st)
    BY <1>2, <1>3, <2>1, ShowsLonger
  <2>4. Len(longer) = n /\ \A i \in 1..n : longer[i].online = merged[i].online
    <3>1. \A i \in 1..n : merged[i] \in Segment
      BY <1>1
    <3>2. \A i \in 1..n : i # n => longer[i] = merged[i]
      BY <1>1
    <3>3. longer[n] = [merged[n] EXCEPT !.endMs = s.endMs]
      BY <1>1, <2>1
    <3>4. longer[n].online = merged[n].online
      BY <2>1, <3>1, <3>3 DEF Segment
    <3>5. Len(longer) = n
      BY <1>1
    <3>. QED
      BY <3>2, <3>4, <3>5
  <2> HIDE DEF longer
  <2>5. differs(longer)
    BY <1>1, <2>4 DEF differs
  <2>. QED
    BY <2>2, <2>3, <2>5
<1>4. CASE ~ (merged # <<>> /\ Last(merged).online = s.online)
  <2> DEFINE more == Append(merged, s)
  <2>1. collapsed(merged, s) = more
    BY <1>4 DEF collapsed
  <2>2. shows(more, from, s.endMs, st)
    BY <1>2, ShowsMore
  <2>3. Len(more) = n + 1 /\ more[n + 1] = s /\ \A i \in 1..n : more[i] = merged[i]
    BY <1>1
  <2>4. n >= 1 => merged[n].online # s.online
    BY <1>1, <1>4 DEF Last
  <2> HIDE DEF more
  <2>5. ASSUME NEW i \in 1..n PROVE more[i].online # more[i + 1].online
    <3>1. CASE i = n
      BY <1>1, <2>3, <2>4, <3>1
    <3>2. CASE i # n
      BY <1>1, <2>3, <3>2 DEF differs
    <3>. QED
      BY <3>1, <3>2
  <2>6. differs(more)
    <3>1. Len(more) - 1 = n
      BY <1>1, <2>3
    <3>. QED
      BY <2>5, <3>1 DEF differs
  <2>. QED
    BY <2>1, <2>2, <2>6
<1>. QED
  BY <1>3, <1>4

\* The greatest of the first k numbers.
LEMMA PrefixMax ==
    ASSUME NEW k \in Nat, k # 0
    PROVE  Max(1..k) = k /\ (1..k) \ {k} = 1..(k - 1)
<1>1. k \in 1..k /\ \A y \in 1..k : k >= y
  OBVIOUS
<1>2. Max(1..k) = k
  BY <1>1 DEF Max
<1>. QED
  BY <1>2

LEMMA MaxPicked == ASSUME NEW n \in Nat PROVE picks("segments", 1..n)
<1> SUFFICES ASSUME NEW s \in SUBSET (1..n), s # {} PROVE Max(s) \in s
  BY DEF picks, picked
<1> DEFINE Behind == {n - x : x \in s}
<1>1. Behind \in SUBSET Nat /\ Behind # {}
  <2>1. \A x \in s : n - x \in Nat
    OBVIOUS
  <2>. QED
    BY <2>1
<1>2. PICK m \in Behind : \A k \in Behind : m <= k
  BY <1>1, LeastNumber
<1>3. PICK x \in s : m = n - x
  BY <1>2
<1>4. \A y \in s : n - x <= n - y
  BY <1>2, <1>3
<1>5. \A y \in s : x >= y
  BY <1>4
<1>. QED
  BY <1>5 DEF Max

\* Merging all of them.
LEMMA AllCollapsed ==
    ASSUME NEW all, NEW from, NEW to, NEW st, shows(all, from, to, st), from # to
    PROVE  LET merged == FoldLeft(collapsed, <<>>, all)
           IN  shows(merged, from, to, st) /\ differs(merged)
<1> DEFINE n == Len(all)
           endOf(k) == IF k = 0 THEN from ELSE all[k].endMs
<1>1. all \in Seq(Segment) /\ n \in Nat /\ n >= 1 /\ DOMAIN all = 1..n /\ from \in Int
  BY DEF shows
<1>2. PICK iter : folds("segments", all, <<>>, SUBSET (1..n), iter)
                  /\ FoldLeft(collapsed, <<>>, all) = iter[1..n]
  <2>1. IsFiniteSet(1..n)
    BY <1>1, FS_Interval
  <2>2. picks("segments", 1..n)
    BY <1>1, MaxPicked
  <2>. QED
    BY <1>1, <2>1, <2>2, FoldOfSegments
<1> DEFINE Bad == {k \in 0..n : ~ (shows(iter[1..k], from, endOf(k), st) /\ differs(iter[1..k]))}
<1>3. 0 \notin Bad
  <2>1. 1..0 = {}
    OBVIOUS
  <2>2. iter[1..0] = <<>>
    BY <1>2, <2>1 DEF folds
  <2>3. shows(<<>>, from, from, st) /\ differs(<<>>)
    BY <1>1 DEF shows, differs
  <2>. QED
    BY <2>2, <2>3
<1>4. ASSUME NEW k \in 1..n, k - 1 \notin Bad PROVE k \notin Bad
  <2> DEFINE s == all[k]
             merged == iter[1..(k - 1)]
  <2>1. k \in Nat /\ k # 0 /\ k - 1 \in 0..n /\ 1..k # {} /\ 1..k \in SUBSET (1..n)
    <3>1. k \in Nat /\ k # 0 /\ k <= n /\ n \in Nat
      BY <1>1
    <3>2. k \in 1..k
      BY <3>1
    <3>3. \A x \in 1..k : x \in 1..n
      BY <3>1
    <3>. QED
      BY <3>1, <3>2, <3>3
  <2>2. iter[1..k] = collapsed(merged, s)
    <3>1. Max(1..k) = k /\ (1..k) \ {k} = 1..(k - 1)
      BY <2>1, PrefixMax
    <3>. QED
      BY <1>2, <2>1, <3>1 DEF folds, folded, picked
  <2>3. shows(merged, from, endOf(k - 1), st) /\ differs(merged)
    BY <1>4, <2>1
  <2>4. s \in Segment /\ s.startMs < s.endMs
        /\ \A t \in Int : s.startMs <= t /\ t < s.endMs => st[t] = s.online
    BY <1>1 DEF shows
  <2>5. s.startMs = endOf(k - 1)
    <3>1. CASE k = 1
      BY <1>1, <3>1 DEF shows
    <3>2. CASE k # 1
      <4>1. k - 1 \in 1..(n - 1) /\ (k - 1) + 1 = k
        BY <1>1, <3>2
      <4>2. all[k - 1].endMs = all[k].startMs
        BY <4>1 DEF shows
      <4>. QED
        BY <4>1, <4>2
    <3>. QED
      BY <3>1, <3>2
  <2>6. s.endMs = endOf(k)
    BY <2>1
  <2> HIDE DEF s, merged, endOf
  <2>7. shows(collapsed(merged, s), from, s.endMs, st) /\ differs(collapsed(merged, s))
    BY <2>3, <2>4, <2>5, CollapsedShows
  <2>. QED
    BY <2>2, <2>6, <2>7
<1>5. Bad = {}
  <2> SUFFICES ASSUME Bad # {} PROVE FALSE
    OBVIOUS
  <2>1. Bad \in SUBSET Nat
    BY <1>1
  <2>2. PICK m \in Bad : \A k \in Bad : m <= k
    BY <2>1, LeastNumber
  <2>3. m \in 0..n /\ m \in Nat
    BY <2>1
  <2> HIDE DEF Bad
  <2>4. m # 0 /\ m \in 1..n /\ m - 1 \notin Bad
    BY <1>1, <1>3, <2>1, <2>2, <2>3
  <2>. QED
    BY <1>4, <2>2, <2>4
<1>6. endOf(n) = to
  BY <1>1 DEF shows
<1>7. n \in 0..n /\ n \notin Bad
  BY <1>1, <1>5
<1>8. shows(iter[1..n], from, endOf(n), st) /\ differs(iter[1..n])
  BY <1>7
<1>. QED
  BY <1>2, <1>6, <1>8

\* The segments drawn cover the window without gap or overlap, two neighbours differ, and each
\* instant has the state that all the rows ever written give it, whatever sweeps, overlapping
\* recordings and restarts came before: buildConnectivitySegments and pruneConnectivityEvents.
THEOREM SegmentsAreCorrect == ConnectivitySpec => []SegmentsCorrect
<1>1. Recorded => SegmentsCorrect
  <2> SUFFICES ASSUME Recorded PROVE SegmentsCorrect
    OBVIOUS
  <2>1. clock \in Nat /\ windowStart \in Int /\ windowStart < clock
    BY ConnectivityAssumption DEF Recorded, ConnectivityTypeOK, windowStart
  <2>2. \E st : /\ \A t \in windowStart .. clock : st[t] = statesShown[t]
                /\ shows(buildConnectivitySegments, windowStart, clock, st)
                /\ differs(buildConnectivitySegments)
    <3>1. CASE events = {}
      <4>1. written = {}
        BY <3>1, SameEmpty
      <4>2. \A t \in Int : statesShown[t] = "unknown"
        BY <4>1 DEF statesShown, stateAt, stateAfter, upTo
      <4>3. shows(<<>>, windowStart, windowStart, statesShown)
        BY <2>1 DEF shows
      <4>4. shows(Append(<<>>, segment("unknown", windowStart, clock)),
                  windowStart, clock, statesShown)
        <5>1. "unknown" \in States /\ clock \in Int
          BY <2>1 DEF States
        <5>2. \A t \in Int : windowStart <= t /\ t < clock => statesShown[t] = "unknown"
          BY <4>2
        <5> HIDE DEF statesShown, windowStart
        <5>. QED
          BY <2>1, <4>3, <5>1, <5>2, ShowsMore
      <4>5. buildConnectivitySegments = Append(<<>>, segment("unknown", windowStart, clock))
        BY <3>1 DEF buildConnectivitySegments
      <4>6. differs(buildConnectivitySegments)
        BY <4>5 DEF differs
      <4>. QED
        BY <4>4, <4>5, <4>6
    <3>2. CASE events # {}
      <4>1. PICK st : /\ \A t \in windowStart .. clock : st[t] = statesShown[t]
                      /\ shows(segmentsOfEvents, windowStart, clock, st)
        BY <3>2, SegmentsOfEventsShow
      <4>2. buildConnectivitySegments = FoldLeft(collapsed, <<>>, segmentsOfEvents)
        BY <3>2 DEF buildConnectivitySegments
      <4>3. shows(buildConnectivitySegments, windowStart, clock, st)
            /\ differs(buildConnectivitySegments)
        BY <2>1, <4>1, <4>2, AllCollapsed
      <4>. QED
        BY <4>1, <4>3
    <3>. QED
      BY <3>1, <3>2
  <2> DEFINE drawn == buildConnectivitySegments
  <2>3. PICK st : /\ \A t \in windowStart .. clock : st[t] = statesShown[t]
                  /\ shows(drawn, windowStart, clock, st) /\ differs(drawn)
    BY <2>2
  <2> HIDE DEF drawn
  <2>4. drawn # <<>> /\ drawn \in Seq(Segment) /\ Last(drawn) = drawn[Len(drawn)]
    BY <2>1, <2>3 DEF shows, Last
  <2>5. drawn[1].startMs = windowStart /\ Last(drawn).endMs = clock
    BY <2>3, <2>4 DEF shows
  <2>6. \A i \in 1..(Len(drawn) - 1) : drawn[i].endMs = drawn[i + 1].startMs
                                       /\ drawn[i].online # drawn[i + 1].online
    BY <2>3 DEF shows, differs
  <2>7. ASSUME NEW i \in 1..Len(drawn)
        PROVE  /\ drawn[i].startMs < drawn[i].endMs
               /\ \A t \in drawn[i].startMs .. (drawn[i].endMs - 1) : drawn[i].online = stateAt(t)
    <3>1. windowStart <= drawn[i].startMs /\ drawn[i].endMs <= clock
      BY <2>1, <2>3, SegmentsWithin
    <3>2. drawn[i] \in Segment
      BY <2>4
    <3>3. drawn[i].startMs \in Int /\ drawn[i].endMs \in Int
      BY <3>2 DEF Segment
    <3>4. drawn[i].startMs < drawn[i].endMs
          /\ \A t \in Int : drawn[i].startMs <= t /\ t < drawn[i].endMs => st[t] = drawn[i].online
      BY <2>3 DEF shows
    <3>5. ASSUME NEW t \in drawn[i].startMs .. (drawn[i].endMs - 1)
          PROVE  drawn[i].online = stateAt(t)
      <4>1. t \in Int /\ drawn[i].startMs <= t /\ t < drawn[i].endMs /\ t \in windowStart .. clock
        BY <2>1, <3>1, <3>3
      <4>2. st[t] = statesShown[t]
        BY <2>3, <4>1
      <4>3. statesShown[t] = stateAt(t)
        BY <4>1 DEF statesShown
      <4>. QED
        BY <3>4, <4>1, <4>2, <4>3
    <3>. QED
      BY <3>4, <3>5
  <2>. QED
    BY <2>4, <2>5, <2>6, <2>7 DEF SegmentsCorrect, drawn
<1>. QED
  BY <1>1, RowsAreKept, PTL
=============================================================================
