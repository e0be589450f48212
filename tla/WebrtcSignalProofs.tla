------------------------- MODULE WebrtcSignalProofs -------------------------
(***************************************************************************)
(* Proofs about WebrtcSignal, for every number of nodes, users, sockets,   *)
(* sessions and concurrent requests.                                       *)
(***************************************************************************)
EXTENDS WebrtcSignal, FiniteSetTheorems, TLAPS

SessionTypes ==
    /\ sessions \in [SessionIds -> Session \cup {NoSession}]
    /\ sessionsByNodeId \in [Nodes -> SUBSET SessionIds]
    /\ sessionsByUserId \in [Users -> SUBSET SessionIds]
    /\ sessionsByClient \in [Clients -> SUBSET SessionIds]

\* The ids in the two maps were minted once: a new one collides with neither.
IdsUsed == \A sid \in SessionIds : Live(sid) \/ Pending(sid) => sid \in usedIds

\* The bookkeeping invariant: TypeOK is not inductive without the indexes, because a
\* handler updates the record of every id it finds in an index.
Bookkeeping ==
    /\ TypeOK
    /\ IndexesExact
    /\ SessionsMatchClients
    /\ SignalSocketsExact
    /\ IdsUsed
    /\ ResumesHalfOpen

\* The session part of the bookkeeping invariant.
SessionMap == SessionTypes /\ IndexesExact /\ SessionsMatchClients

\* A step that adds no session to the map and keeps the keys of those it leaves there.
NoNewSession ==
    \A sid \in SessionIds :
        Live(sid)' => /\ Live(sid)
                      /\ sessions'[sid].user = sessions[sid].user
                      /\ sessions'[sid].node = sessions[sid].node
                      /\ sessions'[sid].client = sessions[sid].client

\* A browser whose signalling socket is connected.
ConnectedClient(c) == c \in Clients /\ clientConn[c] = "up"

\* A record in the map is a full session, one that is not is NoSession.
LEMMA LiveSessions ==
    ASSUME SessionTypes, NEW sid \in SessionIds
    PROVE  /\ Live(sid) <=> sessions[sid] \in Session
           /\ ~Live(sid) <=> sessions[sid] = NoSession
           /\ Live(sid) => /\ sessions[sid].client \in Clients
                           /\ sessions[sid].nodeSocket \in NodeSockets
                           /\ sessions[sid].node \in Nodes
                           /\ sessions[sid].user \in Users
                           /\ sessions[sid].state \in Negotiating \cup {"CONNECTED"}
                           /\ sessions[sid].negotiationTimer \in BOOLEAN
                           /\ sessions[sid].orphanTimer \in BOOLEAN
           /\ ~Live(sid) => /\ sessions[sid].client = None
                            /\ sessions[sid].node = None
                            /\ sessions[sid].user = None
                            /\ ~sessions[sid].negotiationTimer
                            /\ ~sessions[sid].orphanTimer
    BY DEF SessionTypes, Live, Session, NoSession, Negotiating

\* storeSessions keeps the types and the indexes exact, provided the ids added were
\* not in the map and the others keep their node, user and client.
LEMMA StoreSessions ==
    ASSUME SessionMap,
           NEW gone \in SUBSET SessionIds, NEW added \in SUBSET SessionIds,
           NEW next \in [SessionIds -> Session \cup {NoSession}],
           gone \cap added = {},
           \A sid \in added : ~Live(sid) /\ next[sid] \in Session,
           \A sid \in SessionIds \ (gone \cup added) :
               /\ next[sid].node = sessions[sid].node
               /\ next[sid].user = sessions[sid].user
               /\ next[sid].client = sessions[sid].client,
           \A sid \in added : /\ next[sid].node = TargetOf[next[sid].client]
                              /\ next[sid].user = UserOf[next[sid].client],
           storeSessions(gone, added, next)
    PROVE  /\ SessionMap'
           /\ \A sid \in SessionIds :
                /\ Live(sid)' <=> sid \notin gone /\ (Live(sid) \/ sid \in added)
                /\ Live(sid)' => sessions'[sid] = next[sid]
<1> USE DEF SessionMap
<1>1. /\ sessions' = [sid \in SessionIds |-> IF sid \in gone THEN NoSession ELSE next[sid]]
      /\ sessionsByNodeId' = [n \in Nodes |->
            {sid \in sessionsByNodeId[n] : ~(sid \in gone /\ sessions[sid].node = n)}
              \cup {sid \in added : next[sid].node = n}]
      /\ sessionsByUserId' = [n \in Users |->
            {sid \in sessionsByUserId[n] : ~(sid \in gone /\ sessions[sid].user = n)}
              \cup {sid \in added : next[sid].user = n}]
      /\ sessionsByClient' = [n \in Clients |->
            {sid \in sessionsByClient[n] : ~(sid \in gone /\ sessions[sid].client = n)}
              \cup {sid \in added : next[sid].client = n}]
  BY DEF storeSessions, indexAdd, indexRemove, SessionTypes
<1>2. SessionTypes'
  BY <1>1 DEF SessionTypes
<1>3. \A sid \in SessionIds : Live(sid)' <=> /\ sid \notin gone
                                             /\ Live(sid) \/ sid \in added
  <2> TAKE sid \in SessionIds
  <2>1. Live(sid)' <=> sid \notin gone /\ next[sid].state # "CLOSED"
    BY <1>1 DEF Live, NoSession
  <2>2. next[sid] = NoSession <=> next[sid].state = "CLOSED"
    BY DEF Session, NoSession, Negotiating
  <2>3. next[sid] = NoSession <=> next[sid].node = None
    BY <2>2, NoneAssumption DEF Session, NoSession
  <2>4. Live(sid) <=> sessions[sid].node # None
    BY LiveSessions, NoneAssumption
  <2>. QED
    BY <2>1, <2>2, <2>3, <2>4, NoneAssumption DEF Session, NoSession
<1>4. \A sid \in SessionIds : sessions'[sid] = IF sid \in gone THEN NoSession ELSE next[sid]
  BY <1>1
<1>5. IndexesExact'
  BY <1>1, <1>3, <1>4 DEF IndexesExact
<1>6. SessionsMatchClients'
  BY <1>3, <1>4 DEF SessionsMatchClients
<1>. QED
  BY <1>2, <1>3, <1>4, <1>5, <1>6

\* refreshOrphanState changes the timer of a session and nothing else.
LEMMA RefreshOrphan ==
    ASSUME NEW s \in Session, NEW nConn, NEW cConn
    PROVE  LET f == refreshOrphanState(s, nConn, cConn)
           IN  /\ f \in Session
               /\ f.node = s.node /\ f.user = s.user /\ f.client = s.client
               /\ f.state = s.state /\ f.nodeSocket = s.nodeSocket
    BY DEF refreshOrphanState, nodeOnline, nodeSocketUp, Session

\* Losing sockets leaves a well-formed resume, or none.
LEMMA WithoutSockets ==
    ASSUME NEW p \in PendingResume \cup {NoResume}, NEW lost
    PROVE  withoutSockets(p, lost) \in PendingResume \cup {NoResume}
    BY DEF withoutSockets, PendingResume, NoResume

\* What disconnectClients does to the bookkeeping.
LEMMA DisconnectClients ==
    ASSUME Bookkeeping,
           NEW S \in SUBSET Clients, NEW closed \in SUBSET SessionIds,
           disconnectClients(S, closed), UNCHANGED <<usedIds, nodeConn, registering>>
    PROVE  /\ SessionMap' /\ SignalSocketsExact' /\ IdsUsed' /\ ResumesHalfOpen'
           /\ clientConn' \in [Clients -> {"new", "auth", "up", "down"}]
           /\ signalSocketsByNodeId' \in [Nodes -> SUBSET Clients]
           /\ pendingResumes' \in [SessionIds -> PendingResume \cup {NoResume}]
           /\ \A c \in Clients : /\ clientConn'[c] = "up" => clientConn[c] = "up" /\ c \notin S
                                 /\ clientConn[c] \in {"up", "down"} => clientConn'[c] \in {"up", "down"}
           /\ NoNewSession
           /\ \A sid \in closed : ~Live(sid)'
<1> DEFINE lost == {c \in S : clientConn[c] \in {"auth", "up"}}
           cConn == [c \in Clients |-> IF c \in lost THEN "down" ELSE clientConn[c]]
           theirs == UNION {sessionsByClient[c] : c \in lost} \ closed
           gone == {sid \in theirs : sessions[sid].state # "CONNECTED"}
           next == [sid \in SessionIds |-> IF sid \in theirs
                                           THEN refreshOrphanState(sessions[sid], nodeConn, cConn)
                                           ELSE sessions[sid]]
<1>0. SessionTypes
  BY DEF Bookkeeping, TypeOK, SessionTypes
<1>1. /\ clientConn' = cConn
      /\ signalSocketsByNodeId' = [n \in Nodes |-> signalSocketsByNodeId[n] \ lost]
      /\ storeSessions(closed \cup gone, {}, next)
      /\ pendingResumes' = [sid \in SessionIds |-> withoutSockets(pendingResumes[sid], lost)]
  BY DEF disconnectClients
<1>2. \A sid \in theirs : sid \in SessionIds /\ Live(sid)
  BY DEF Bookkeeping, IndexesExact
<1>3. \A sid \in SessionIds : /\ next[sid] \in Session \cup {NoSession}
                              /\ next[sid].node = sessions[sid].node
                              /\ next[sid].user = sessions[sid].user
                              /\ next[sid].client = sessions[sid].client
  <2> TAKE sid \in SessionIds
  <2>1. CASE sid \in theirs
    <3>1. sessions[sid] \in Session
      BY <2>1, <1>2, <1>0, LiveSessions
    <3>2. next[sid] = refreshOrphanState(sessions[sid], nodeConn, cConn)
      BY <2>1
    <3>. QED
      BY <3>1, <3>2, RefreshOrphan
  <2>2. CASE sid \notin theirs
    BY <2>2, <1>0 DEF SessionTypes
  <2>. QED
    BY <2>1, <2>2
<1>4. next \in [SessionIds -> Session \cup {NoSession}]
  BY <1>3
<1>5. gone \in SUBSET SessionIds
  BY <1>2
<1> HIDE DEF next, theirs, gone
<1>6. /\ SessionMap'
      /\ \A sid \in SessionIds :
           /\ Live(sid)' <=> sid \notin (closed \cup gone) /\ Live(sid)
           /\ Live(sid)' => sessions'[sid] = next[sid]
  BY <1>0, <1>1, <1>3, <1>4, <1>5, StoreSessions DEF Bookkeeping, SessionMap
<1>7. clientConn' \in [Clients -> {"new", "auth", "up", "down"}]
  BY <1>1 DEF Bookkeeping, TypeOK
<1>8. signalSocketsByNodeId' \in [Nodes -> SUBSET Clients]
  BY <1>1 DEF Bookkeeping, TypeOK
<1>9. SignalSocketsExact'
  BY <1>1 DEF Bookkeeping, TypeOK, SignalSocketsExact
<1>10. pendingResumes' \in [SessionIds -> PendingResume \cup {NoResume}]
  BY <1>1, WithoutSockets DEF Bookkeeping, TypeOK
<1>12. \A sid \in SessionIds : Pending(sid)' =>
         /\ Pending(sid) /\ pendingResumes'[sid] = pendingResumes[sid]
         /\ pendingResumes[sid].client \notin lost
  <2> TAKE sid \in SessionIds
  <2>1. pendingResumes[sid] \in PendingResume \cup {NoResume}
    BY DEF Bookkeeping, TypeOK
  <2>2. pendingResumes'[sid] = withoutSockets(pendingResumes[sid], lost)
    BY <1>1
  <2>3. pendingResumes[sid].nodeSocket \notin lost
    BY <2>1, NoneAssumption DEF PendingResume, NoResume
  <2>. QED
    BY <2>1, <2>2, <2>3, NoneAssumption
    DEF withoutSockets, Pending, PendingResume, NoResume, Bookkeeping, ResumesHalfOpen, attached
<1>13. IdsUsed'
  BY <1>6, <1>12 DEF Bookkeeping, IdsUsed
<1>14. ResumesHalfOpen'
  <2>1. \A c \in Clients : c \notin lost /\ clientConn[c] = "up" => clientConn'[c] = "up"
    BY <1>1 DEF Bookkeeping, TypeOK
  <2>2. UNCHANGED <<nodeConn, registering>>
    OBVIOUS
  <2>3. \A sid \in SessionIds : pendingResumes[sid].client \in Clients \cup {None}
    BY DEF Bookkeeping, TypeOK, PendingResume, NoResume
  <2> SUFFICES ASSUME NEW sid \in SessionIds, Pending(sid)'
               PROVE  LET p == pendingResumes'[sid]
                      IN  /\ ~Live(sid)'
                          /\ (p.nodeSocket = None) # (p.client = None)
                          /\ p.nodeSocket # None => /\ attached(p.nodeSocket)
                                                     /\ NodeOf[p.nodeSocket] = p.node
                          /\ p.client # None => /\ clientConn'[p.client] = "up"
                                                 /\ TargetOf[p.client] = p.node
    BY <2>2 DEF ResumesHalfOpen, attached
  <2>5. /\ Pending(sid) /\ pendingResumes'[sid] = pendingResumes[sid]
        /\ pendingResumes[sid].client \notin lost
    BY <1>12
  <2> DEFINE p == pendingResumes[sid]
  <2>6. /\ ~Live(sid)
        /\ (p.nodeSocket = None) # (p.client = None)
        /\ p.nodeSocket # None => attached(p.nodeSocket) /\ NodeOf[p.nodeSocket] = p.node
        /\ p.client # None => clientConn[p.client] = "up" /\ TargetOf[p.client] = p.node
    BY <2>5 DEF Bookkeeping, ResumesHalfOpen
  <2>7. ~Live(sid)'
    BY <1>6, <2>6
  <2>. QED
    BY <2>1, <2>3, <2>5, <2>6, <2>7
<1>11. \A c \in Clients : /\ clientConn'[c] = "up" => clientConn[c] = "up" /\ c \notin S
                          /\ clientConn[c] \in {"up", "down"} => clientConn'[c] \in {"up", "down"}
  BY <1>1 DEF Bookkeeping, TypeOK
<1>. QED
  BY <1>3, <1>6, <1>7, <1>8, <1>9, <1>10, <1>11, <1>13, <1>14 DEF NoNewSession

LEMMA BookkeepingSessionMap ==
    ASSUME Bookkeeping PROVE SessionMap
    BY DEF Bookkeeping, TypeOK, SessionMap, SessionTypes

\* An update under unchanged keys.
LEMMA UpdateSession ==
    ASSUME SessionMap, NEW sid \in SessionIds, Live(sid), NEW s \in Session,
           s.node = sessions[sid].node, s.user = sessions[sid].user,
           s.client = sessions[sid].client,
           updateSession(sid, s)
    PROVE  SessionMap' /\ NoNewSession
<1>1. /\ sessions' = [sessions EXCEPT ![sid] = s]
      /\ UNCHANGED indexVars
  BY DEF updateSession
<1>2. s.state # "CLOSED"
  BY DEF Session, Negotiating
<1>3. SessionTypes'
  BY <1>1 DEF SessionMap, SessionTypes, indexVars
<1>4. \A k \in SessionIds : /\ Live(k)' <=> Live(k)
                            /\ sessions'[k].node = sessions[k].node
                            /\ sessions'[k].user = sessions[k].user
                            /\ sessions'[k].client = sessions[k].client
  BY <1>1, <1>2 DEF SessionMap, SessionTypes, Live
<1>5. IndexesExact'
  BY <1>1, <1>4 DEF SessionMap, IndexesExact, indexVars
<1>6. SessionsMatchClients'
  BY <1>4 DEF SessionMap, SessionsMatchClients
<1>. QED
  BY <1>3, <1>4, <1>5, <1>6 DEF SessionMap, NoNewSession

LEMMA ForgetSession ==
    ASSUME SessionMap, NEW sid \in SessionIds, forgetSession(sid)
    PROVE  SessionMap' /\ NoNewSession /\ ~Live(sid)'
<1>1. sessions \in [SessionIds -> Session \cup {NoSession}]
  BY DEF SessionMap, SessionTypes
<1>2. storeSessions({sid}, {}, sessions)
  BY DEF forgetSession
<1>. QED
  BY <1>1, <1>2, StoreSessions DEF NoNewSession

LEMMA SetSession ==
    ASSUME SessionMap, NEW sid \in SessionIds, ~Live(sid), NEW s \in Session,
           s.node = TargetOf[s.client], s.user = UserOf[s.client],
           setSession(sid, s)
    PROVE  /\ SessionMap'
           /\ \A k \in SessionIds : Live(k)' => \/ k = sid /\ sessions'[k] = s
                                                \/ Live(k) /\ sessions'[k] = sessions[k]
<1>1. [sessions EXCEPT ![sid] = s] \in [SessionIds -> Session \cup {NoSession}]
  BY DEF SessionMap, SessionTypes
<1>2. storeSessions({}, {sid}, [sessions EXCEPT ![sid] = s])
  BY DEF setSession
<1>3. \A k \in SessionIds : [sessions EXCEPT ![sid] = s][k] = IF k = sid THEN s ELSE sessions[k]
  BY DEF SessionMap, SessionTypes
<1> DEFINE next == [sessions EXCEPT ![sid] = s]
<1> HIDE DEF next
<1>4. /\ next \in [SessionIds -> Session \cup {NoSession}]
      /\ storeSessions({}, {sid}, next)
      /\ \A k \in SessionIds : next[k] = IF k = sid THEN s ELSE sessions[k]
  BY <1>1, <1>2, <1>3 DEF next
<1>. QED
  BY <1>4, StoreSessions

\* A session that was forgotten or never created is closed for every step that leaves
\* the session variables alone.
LEMMA UnchangedSessions ==
    ASSUME SessionMap, UNCHANGED sessionVars
    PROVE  SessionMap' /\ NoNewSession
    BY DEF SessionMap, SessionTypes, IndexesExact, SessionsMatchClients, NoNewSession,
           Live, sessionVars, indexVars

-----------------------------------------------------------------------------
(* Every step keeps the bookkeeping.                                        *)

OtherTypes ==
    /\ signalSocketsByNodeId \in [Nodes -> SUBSET Clients]
    /\ pendingResumes \in [SessionIds -> PendingResume \cup {NoResume}]
    /\ usedIds \in SUBSET SessionIds
    /\ nodeSocketsByNodeId \in [Nodes -> NodeSockets \cup {None}]
    /\ nodeConn \in [NodeSockets -> {"new", "up", "down"}]
    /\ registering \in SUBSET NodeSockets
    /\ clientConn \in [Clients -> {"new", "auth", "up", "down"}]
    /\ requests \in [Clients -> [Slots -> RequestState]]
    /\ rechecks \in SUBSET Recheck
    /\ access \in SUBSET (Users \X Nodes)
    /\ revocations \in SUBSET Revocation
    /\ revokedLogins \in SUBSET Logins

LEMMA BookkeepingParts ==
    Bookkeeping <=> /\ SessionMap /\ OtherTypes /\ SignalSocketsExact
                    /\ IdsUsed /\ ResumesHalfOpen
    BY DEF Bookkeeping, TypeOK, SessionMap, SessionTypes, OtherTypes

LEMMA BookkeepingPartsNext ==
    ASSUME SessionMap', OtherTypes', SignalSocketsExact', IdsUsed', ResumesHalfOpen'
    PROVE  Bookkeeping'
    BY DEF Bookkeeping, TypeOK, SessionMap, SessionTypes, OtherTypes

LEMMA InitBookkeeping == Init => Bookkeeping
    BY NoneAssumption
    DEF Init, Bookkeeping, TypeOK, IndexesExact, SessionsMatchClients, SignalSocketsExact,
        IdsUsed, ResumesHalfOpen, attached, Pending, Live, NoSession, NoResume, RequestState

\* The steps that add no session and leave the sockets and the resumes alone.
LEMMA QuietBookkeeping ==
    ASSUME Bookkeeping, SessionMap', NoNewSession, OtherTypes',
           UNCHANGED <<clientVars, pendingResumes, usedIds, nodeConn, registering>>
    PROVE  Bookkeeping'
<1>1. SignalSocketsExact'
  BY DEF Bookkeeping, SignalSocketsExact, clientVars
<1>2. IdsUsed'
  BY DEF Bookkeeping, IdsUsed, NoNewSession, Pending
<1>3. ResumesHalfOpen'
  BY DEF Bookkeeping, ResumesHalfOpen, attached, NoNewSession, Pending, clientVars
<1>. QED
  BY <1>1, <1>2, <1>3, BookkeepingPartsNext

LEMMA NodeDisconnectBookkeeping ==
    ASSUME Bookkeeping, NEW ns \in NodeSockets, NodeDisconnect(ns)
    PROVE  Bookkeeping' /\ NoNewSession
<1> DEFINE n == NodeOf[ns]
           nConn == [nodeConn EXCEPT ![ns] = "down"]
           its == sessionsOnSocket(n, ns)
           gone == {sid \in its : sessions[sid].state # "CONNECTED"}
           next == [sid \in SessionIds |-> IF sid \in its
                                           THEN refreshOrphanState(sessions[sid], nConn, clientConn)
                                           ELSE sessions[sid]]
<1>0. SessionMap /\ OtherTypes /\ n \in Nodes
  BY BookkeepingParts, SocketsAssumption
<1>1. storeSessions(gone, {}, next)
  BY DEF NodeDisconnect
<1>2. \A sid \in its : sid \in SessionIds /\ Live(sid)
  BY <1>0 DEF SessionMap, IndexesExact, sessionsOnSocket
<1>3. \A sid \in SessionIds : /\ next[sid] \in Session \cup {NoSession}
                              /\ next[sid].node = sessions[sid].node
                              /\ next[sid].user = sessions[sid].user
                              /\ next[sid].client = sessions[sid].client
  <2> TAKE sid \in SessionIds
  <2>1. CASE sid \in its
    <3>1. sessions[sid] \in Session
      BY <2>1, <1>2, <1>0, LiveSessions DEF SessionMap
    <3>2. next[sid] = refreshOrphanState(sessions[sid], nConn, clientConn)
      BY <2>1
    <3>. QED
      BY <3>1, <3>2, RefreshOrphan
  <2>2. CASE sid \notin its
    BY <2>2, <1>0 DEF SessionMap, SessionTypes
  <2>. QED
    BY <2>1, <2>2
<1>4. next \in [SessionIds -> Session \cup {NoSession}]
  BY <1>3
<1>5. gone \in SUBSET SessionIds
  BY <1>2
<1> HIDE DEF next, its, gone
<1>6. SessionMap' /\ NoNewSession
  BY <1>0, <1>1, <1>3, <1>4, <1>5, StoreSessions DEF NoNewSession
<1>7. pendingResumes' \in [SessionIds -> PendingResume \cup {NoResume}]
  BY <1>0, WithoutSockets DEF NodeDisconnect, OtherTypes
<1>8. OtherTypes'
  BY <1>0, <1>7 DEF NodeDisconnect, OtherTypes, clientVars, dbVars
<1>9. \A sid \in SessionIds : Pending(sid)' =>
        /\ Pending(sid) /\ pendingResumes'[sid] = pendingResumes[sid]
        /\ pendingResumes[sid].nodeSocket # ns
  <2> TAKE sid \in SessionIds
  <2>1. pendingResumes[sid] \in PendingResume \cup {NoResume}
    BY DEF Bookkeeping, TypeOK
  <2>2. pendingResumes'[sid] = withoutSockets(pendingResumes[sid], {ns})
    BY DEF NodeDisconnect
  <2>3. pendingResumes[sid].client # ns
    BY <2>1, NoneAssumption DEF PendingResume, NoResume
  <2>. QED
    BY <2>1, <2>2, <2>3, NoneAssumption
    DEF withoutSockets, Pending, PendingResume, NoResume, Bookkeeping, ResumesHalfOpen, attached
<1>10. SignalSocketsExact'
  BY DEF Bookkeeping, SignalSocketsExact, NodeDisconnect, clientVars
<1>11. IdsUsed'
  BY <1>6, <1>9 DEF Bookkeeping, IdsUsed, NoNewSession, NodeDisconnect
<1>12. /\ nodeConn' = nConn /\ clientConn' = clientConn /\ registering' = registering
       /\ nodeConn \in [NodeSockets -> {"new", "up", "down"}]
       /\ pendingResumes \in [SessionIds -> PendingResume \cup {NoResume}]
  BY <1>0 DEF NodeDisconnect, clientVars, OtherTypes
<1>13. \A sid \in SessionIds : Pending(sid)' => ~Live(sid)'
  BY <1>6, <1>9 DEF Bookkeeping, ResumesHalfOpen, attached, NoNewSession
<1>14. \A sid \in SessionIds : Pending(sid) /\ pendingResumes[sid].nodeSocket \notin {None, ns}
          => nConn[pendingResumes[sid].nodeSocket] = nodeConn[pendingResumes[sid].nodeSocket]
  BY <1>12, NoneAssumption DEF PendingResume, NoResume, Pending
<1>15. ResumesHalfOpen'
  BY <1>9, <1>12, <1>13, <1>14 DEF Bookkeeping, ResumesHalfOpen, attached
<1>. QED
  BY <1>6, <1>8, <1>10, <1>11, <1>15, BookkeepingPartsNext

\* The record of an adopted session, and the re-check that goes with it.
LEMMA Adopted ==
    ASSUME NEW n \in Nodes, NEW ns \in NodeSockets, NEW c \in Clients, TargetOf[c] = n
    PROVE  /\ adopted(n, ns, c) \in Session
           /\ adopted(n, ns, c).client = c
           /\ adopted(n, ns, c).node = TargetOf[c]
           /\ adopted(n, ns, c).user = UserOf[c]
           /\ adopted(n, ns, c).state = "CONNECTED"
    BY SocketsAssumption DEF adopted, Session

LEMMA RecheckOf ==
    ASSUME NEW sid \in SessionIds, NEW s \in Session
    PROVE  /\ recheckOf(sid, s) \in Recheck
           /\ recheckOf(sid, s).sid = sid
           /\ recheckOf(sid, s).user = s.user
           /\ recheckOf(sid, s).node = s.node
    BY DEF recheckOf, Recheck, Session

\* webrtc:sessions: what an announcement leaves in the map was there, or is adopted
\* with a re-check of its own.
LEMMA NodeSessionsBookkeeping ==
    ASSUME Bookkeeping, NEW ns \in NodeSockets, NEW announced \in SUBSET usedIds,
           NodeSessions(ns, announced)
    PROVE  /\ Bookkeeping'
           /\ \A sid \in SessionIds : Live(sid)' =>
                \/ /\ Live(sid)
                   /\ sessions'[sid].user = sessions[sid].user
                   /\ sessions'[sid].node = sessions[sid].node
                   /\ sessions'[sid].client = sessions[sid].client
                \/ /\ recheckOf(sid, sessions'[sid]) \in rechecks'
                   /\ ConnectedClient(sessions'[sid].client)
                   /\ sessions'[sid].state = "CONNECTED"
<1> DEFINE n == NodeOf[ns]
           unknown == {sid \in announced : ~Live(sid)}
           own == {sid \in announced : Live(sid) /\ sessions[sid].node = n}
           adopt == {sid \in unknown : complete(offerNodeHalf(sid, n, ns))}
           next == [sid \in SessionIds |->
                      IF sid \in adopt THEN adopted(n, ns, pendingResumes[sid].client)
                      ELSE IF sid \in own
                      THEN refreshOrphanState([sessions[sid] EXCEPT !.nodeSocket = ns], nodeConn, clientConn)
                      ELSE sessions[sid]]
           gone == {sid \in sessionsByNodeId[n] \ announced : sessions[sid].state = "CONNECTED"}
<1>0. SessionMap /\ OtherTypes /\ n \in Nodes
  BY BookkeepingParts, SocketsAssumption
<1>1. /\ storeSessions(gone, adopt, next)
      /\ pendingResumes' = [sid \in SessionIds |->
                              IF sid \in adopt THEN NoResume
                              ELSE IF sid \in unknown THEN offerNodeHalf(sid, n, ns)
                              ELSE pendingResumes[sid]]
      /\ rechecks' = rechecks \cup {recheckOf(sid, next[sid]) : sid \in adopt \cup own}
      /\ UNCHANGED <<clientVars, usedIds, nodeVars, requests, dbVars>>
      /\ attached(ns)
  BY DEF NodeSessions
<1>2. announced \subseteq SessionIds /\ announced \subseteq usedIds
  BY <1>0 DEF OtherTypes
<1>3. \A sid \in adopt : /\ pendingResumes[sid].client \in Clients
                         /\ pendingResumes[sid].node = n
                         /\ TargetOf[pendingResumes[sid].client] = n
                         /\ clientConn[pendingResumes[sid].client] = "up"
  <2> TAKE sid \in adopt
  <2>1. pendingResumes[sid] \in PendingResume \cup {NoResume}
    BY <1>0, <1>2 DEF OtherTypes
  <2>2. pendingResumes[sid].node = n /\ pendingResumes[sid].client # None
    BY DEF complete, offerNodeHalf
  <2>. QED
    BY <2>1, <2>2, <1>2, <1>0, NoneAssumption
    DEF Bookkeeping, ResumesHalfOpen, attached, Pending, PendingResume, NoResume
<1>4. \A sid \in SessionIds :
         /\ next[sid] \in Session \cup {NoSession}
         /\ sid \in adopt => /\ next[sid] \in Session
                             /\ next[sid].node = TargetOf[next[sid].client]
                             /\ next[sid].user = UserOf[next[sid].client]
                             /\ ConnectedClient(next[sid].client)
                             /\ next[sid].state = "CONNECTED"
         /\ sid \notin adopt => /\ next[sid].node = sessions[sid].node
                                /\ next[sid].user = sessions[sid].user
                                /\ next[sid].client = sessions[sid].client
         /\ sid \in own => next[sid] \in Session
  <2> TAKE sid \in SessionIds
  <2>1. CASE sid \in adopt
    <3>1. next[sid] = adopted(n, ns, pendingResumes[sid].client)
      BY <2>1
    <3>2. sid \notin own
      BY <2>1
    <3>. QED
      BY <2>1, <3>1, <3>2, <1>0, <1>3, Adopted DEF ConnectedClient
  <2>2. CASE sid \in own
    <3> DEFINE bound == [sessions[sid] EXCEPT !.nodeSocket = ns]
    <3>1. next[sid] = refreshOrphanState(bound, nodeConn, clientConn) /\ sid \notin adopt
      BY <2>2
    <3>2. sessions[sid] \in Session
      BY <2>2, <1>0, LiveSessions DEF SessionMap
    <3>3. /\ bound \in Session
          /\ bound.node = sessions[sid].node
          /\ bound.user = sessions[sid].user
          /\ bound.client = sessions[sid].client
      BY <3>2 DEF Session
    <3> HIDE DEF bound, next, adopt, own
    <3>. QED
      BY <3>1, <3>3, RefreshOrphan
  <2>3. CASE sid \notin adopt /\ sid \notin own
    BY <2>3, <1>0 DEF SessionMap, SessionTypes
  <2>. QED
    BY <2>1, <2>2, <2>3
<1>5. next \in [SessionIds -> Session \cup {NoSession}]
  BY <1>4
<1>6. /\ gone \in SUBSET SessionIds /\ adopt \in SUBSET SessionIds
      /\ gone \cap adopt = {}
      /\ \A sid \in adopt : ~Live(sid)
  BY <1>0, <1>2 DEF SessionMap, SessionTypes
<1>a. own \subseteq SessionIds /\ adopt \subseteq unknown /\ unknown \subseteq announced
      /\ \A sid \in unknown : ~Live(sid)
  BY <1>2
<1>b. \A sid \in SessionIds : sid \in unknown \ adopt => ~complete(offerNodeHalf(sid, n, ns))
  OBVIOUS
<1>c. \A sid \in own : Live(sid)
  OBVIOUS
<1> HIDE DEF next, gone, adopt, own, unknown
<1>7. /\ SessionMap'
      /\ \A sid \in SessionIds : /\ Live(sid)' <=> sid \notin gone /\ (Live(sid) \/ sid \in adopt)
                                 /\ Live(sid)' => sessions'[sid] = next[sid]
  BY <1>0, <1>1, <1>4, <1>5, <1>6, StoreSessions
<1>8. /\ \A sid \in adopt \cup own : recheckOf(sid, next[sid]) \in Recheck
      /\ rechecks' \in SUBSET Recheck
  BY <1>0, <1>1, <1>4, <1>6, <1>a, RecheckOf DEF OtherTypes
<1>9. \A sid \in SessionIds : sid \in unknown =>
        LET h == offerNodeHalf(sid, n, ns)
        IN  /\ h \in PendingResume
            /\ h.node = n /\ h.nodeSocket = ns
            /\ sid \notin adopt => h.client = None
  <2> TAKE sid \in SessionIds
  <2>1. pendingResumes[sid] \in PendingResume \cup {NoResume}
    BY <1>0 DEF OtherTypes
  <2>2. ns # None
    BY NoneAssumption
  <2>. QED
    BY <2>1, <2>2, <1>0, <1>b DEF offerNodeHalf, PendingResume, NoResume, complete
<1>10. pendingResumes' \in [SessionIds -> PendingResume \cup {NoResume}]
  BY <1>0, <1>1, <1>9 DEF OtherTypes
<1>11. OtherTypes'
  BY <1>0, <1>1, <1>8, <1>10 DEF OtherTypes, clientVars, nodeVars, dbVars
<1>12. SignalSocketsExact'
  BY <1>1 DEF Bookkeeping, SignalSocketsExact, clientVars
<1>13. \A sid \in SessionIds : Pending(sid)' =>
          /\ sid \notin adopt
          /\ \/ sid \in unknown /\ pendingResumes'[sid] = offerNodeHalf(sid, n, ns)
             \/ sid \notin unknown /\ pendingResumes'[sid] = pendingResumes[sid] /\ Pending(sid)
  BY <1>1 DEF Pending, NoResume
<1>14. IdsUsed'
  BY <1>1, <1>2, <1>7, <1>13, <1>a DEF Bookkeeping, IdsUsed
<1>15. \A sid \in SessionIds : Pending(sid)' => ~Live(sid)'
  BY <1>7, <1>13, <1>a DEF Bookkeeping, ResumesHalfOpen, attached
<1>16. ResumesHalfOpen'
  <2>0. /\ nodeConn' = nodeConn /\ registering' = registering /\ clientConn' = clientConn
        /\ ns # None
    BY <1>1, NoneAssumption DEF nodeVars, clientVars
  <2> SUFFICES ASSUME NEW sid \in SessionIds, Pending(sid)'
               PROVE  LET p == pendingResumes'[sid]
                      IN  /\ ~Live(sid)'
                          /\ (p.nodeSocket = None) # (p.client = None)
                          /\ p.nodeSocket # None => attached(p.nodeSocket) /\ NodeOf[p.nodeSocket] = p.node
                          /\ p.client # None => clientConn[p.client] = "up" /\ TargetOf[p.client] = p.node
    BY <2>0 DEF ResumesHalfOpen, attached
  <2>1. CASE sid \in unknown
    BY <2>0, <2>1, <1>1, <1>9, <1>13, <1>15
  <2>2. CASE sid \notin unknown
    BY <2>2, <1>13, <1>15 DEF Bookkeeping, ResumesHalfOpen, attached
  <2>. QED
    BY <2>1, <2>2
<1>17. Bookkeeping'
  BY <1>7, <1>11, <1>12, <1>14, <1>16, BookkeepingPartsNext
<1>18. \A sid \in SessionIds : Live(sid)' =>
         \/ /\ Live(sid)
            /\ sessions'[sid].user = sessions[sid].user
            /\ sessions'[sid].node = sessions[sid].node
            /\ sessions'[sid].client = sessions[sid].client
         \/ /\ recheckOf(sid, sessions'[sid]) \in rechecks'
            /\ ConnectedClient(sessions'[sid].client)
            /\ sessions'[sid].state = "CONNECTED"
  BY <1>1, <1>4, <1>7
<1>. QED
  BY <1>17, <1>18

LEMMA SessionRequestGrantedBookkeeping ==
    ASSUME Bookkeeping, NEW c \in Clients, NEW r \in Slots, NEW sid \in SessionIds,
           SessionRequestGranted(c, r, sid)
    PROVE  /\ Bookkeeping'
           /\ \A k \in SessionIds : Live(k)' =>
                \/ /\ k = sid
                   /\ sessions'[k].user = UserOf[c] /\ sessions'[k].node = TargetOf[c]
                   /\ sessions'[k].client = c
                \/ Live(k) /\ sessions'[k] = sessions[k]
<1> DEFINE s == [client |-> c, nodeSocket |-> nodeSocketsByNodeId[TargetOf[c]],
                 node |-> TargetOf[c], user |-> UserOf[c], state |-> "OPEN_SENT",
                 negotiationTimer |-> TRUE, orphanTimer |-> FALSE]
<1>0. SessionMap /\ OtherTypes /\ TargetOf[c] \in Nodes /\ UserOf[c] \in Users
  BY BookkeepingParts, SocketsAssumption
<1>1. ~Live(sid) /\ ~Pending(sid)
  BY DEF SessionRequestGranted, Bookkeeping, IdsUsed
<1>2. s \in Session
  BY <1>0, NoneAssumption
  DEF SessionRequestGranted, stillWelcome, nodeSocketUp, OtherTypes, Session, Negotiating
<1>3. setSession(sid, s)
  BY DEF SessionRequestGranted
<1>4. s.client = c /\ s.node = TargetOf[c] /\ s.user = UserOf[c]
  OBVIOUS
<1> HIDE DEF s
<1>5. /\ SessionMap'
      /\ \A k \in SessionIds : Live(k)' => \/ k = sid /\ sessions'[k] = s
                                           \/ Live(k) /\ sessions'[k] = sessions[k]
  BY <1>0, <1>1, <1>2, <1>3, <1>4, SetSession
<1>6. OtherTypes'
  BY <1>0 DEF SessionRequestGranted, OtherTypes, RequestState, clientVars, nodeVars, dbVars
<1>7. SignalSocketsExact'
  BY DEF SessionRequestGranted, Bookkeeping, SignalSocketsExact, clientVars
<1>8. IdsUsed'
  BY <1>5 DEF SessionRequestGranted, Bookkeeping, IdsUsed, Pending
<1>9. ResumesHalfOpen'
  BY <1>1, <1>5 DEF SessionRequestGranted, Bookkeeping, ResumesHalfOpen, attached, Pending, clientVars, nodeVars
<1>. QED
  BY <1>4, <1>5, <1>6, <1>7, <1>8, <1>9, BookkeepingPartsNext

LEMMA ClientResumeBookkeeping ==
    ASSUME Bookkeeping, NEW c \in Clients, NEW sid \in SessionIds, ClientResume(c, sid)
    PROVE  /\ Bookkeeping'
           /\ \A k \in SessionIds : Live(k)' => /\ Live(k)
                                                /\ sessions'[k].user = sessions[k].user
                                                /\ sessions'[k].node = sessions[k].node
                                                /\ \/ sessions'[k].client = sessions[k].client
                                                   \/ /\ sessions'[k].client = c
                                                      /\ sessions'[k].state = "CONNECTED"
<1> DEFINE base == [sessions[sid] EXCEPT !.client = c]
           s == refreshOrphanState(base, nodeConn, clientConn)
<1>0. SessionMap /\ OtherTypes
  BY BookkeepingParts
<1>1. /\ sessions[sid] \in Session /\ sessions[sid].client \in Clients
      /\ sessions[sid].node = TargetOf[c] /\ sessions[sid].user = UserOf[c]
  BY <1>0, LiveSessions DEF ClientResume, mayTakeOver, SessionMap
<1>2. /\ base \in Session /\ base.node = TargetOf[c] /\ base.user = UserOf[c] /\ base.client = c
      /\ base.state = "CONNECTED"
  BY <1>1 DEF Session, ClientResume, mayTakeOver
<1>3. /\ sessions' = [[sessions EXCEPT ![sid].client = c] EXCEPT
                         ![sid] = refreshOrphanState(@, nodeConn, clientConn)]
      /\ sessionsByClient' = [k \in Clients |->
            {i \in sessionsByClient[k] : ~(i = sid /\ sessions[i].client = k)}
              \cup {i \in {sid} : [sessions EXCEPT ![sid].client = c][i].client = k}]
      /\ UNCHANGED <<sessionsByNodeId, sessionsByUserId>>
  BY <1>0 DEF ClientResume, takeOver, indexAdd, indexRemove, SessionMap, SessionTypes
<1>4. /\ sessions' = [sessions EXCEPT ![sid] = s]
      /\ [sessions EXCEPT ![sid].client = c][sid].client = c
  BY <1>0, <1>1, <1>3 DEF SessionMap, SessionTypes, Session
<1>5. /\ s \in Session /\ s.node = TargetOf[c] /\ s.user = UserOf[c] /\ s.client = c
      /\ s.state = "CONNECTED"
  <2> HIDE DEF base
  <2>. QED
    BY <1>2, RefreshOrphan
<1> HIDE DEF s, base
<1>6. SessionTypes'
  BY <1>0, <1>3, <1>4, <1>5 DEF SessionMap, SessionTypes
<1>7. \A k \in SessionIds : /\ Live(k)' <=> Live(k)
                            /\ sessions'[k].node = sessions[k].node
                            /\ sessions'[k].user = sessions[k].user
                            /\ sessions'[k].client = IF k = sid THEN c ELSE sessions[k].client
                            /\ k = sid => sessions'[k].state = "CONNECTED"
  BY <1>0, <1>1, <1>4, <1>5 DEF SessionMap, SessionTypes, Live, ClientResume
<1>8. IndexesExact'
  <2>0. /\ Live(sid)
        /\ \A k \in Clients : sessionsByClient[k] = {i \in SessionIds : Live(i) /\ sessions[i].client = k}
    BY <1>0 DEF SessionMap, IndexesExact, ClientResume
  <2>1. \A k \in Clients : sessionsByClient'[k] =
            {i \in SessionIds : Live(i)' /\ sessions'[i].client = k}
    <3> TAKE k \in Clients
    <3>1. \A i \in SessionIds : i \in sessionsByClient'[k] <=>
             \/ i # sid /\ Live(i) /\ sessions[i].client = k
             \/ i = sid /\ c = k
      BY <1>3, <1>4, <2>0
    <3>2. sessionsByClient'[k] \subseteq SessionIds
      BY <1>3, <2>0
    <3>. QED
      BY <1>7, <2>0, <3>1, <3>2
  <2>2. /\ \A n \in Nodes : sessionsByNodeId'[n] = {i \in SessionIds : Live(i)' /\ sessions'[i].node = n}
        /\ \A u \in Users : sessionsByUserId'[u] = {i \in SessionIds : Live(i)' /\ sessions'[i].user = u}
    BY <1>0, <1>3, <1>7 DEF SessionMap, IndexesExact
  <2>. QED
    BY <2>1, <2>2 DEF IndexesExact
<1>9. SessionsMatchClients'
  BY <1>0, <1>1, <1>7 DEF SessionMap, SessionsMatchClients
<1>10. OtherTypes'
  BY <1>0 DEF ClientResume, OtherTypes, clientVars, nodeVars, dbVars
<1>11. SignalSocketsExact'
  BY DEF ClientResume, Bookkeeping, SignalSocketsExact, clientVars
<1>12. IdsUsed'
  BY <1>7 DEF ClientResume, Bookkeeping, IdsUsed, Pending
<1>13. ResumesHalfOpen'
  BY <1>7 DEF ClientResume, Bookkeeping, ResumesHalfOpen, attached, Pending, clientVars, nodeVars
<1>14. SessionMap'
  BY <1>6, <1>8, <1>9 DEF SessionMap
<1>. QED
  BY <1>7, <1>10, <1>11, <1>12, <1>13, <1>14, BookkeepingPartsNext

LEMMA ClientOfferResumeBookkeeping ==
    ASSUME Bookkeeping, NEW c \in Clients, NEW sid \in usedIds, ClientOfferResume(c, sid)
    PROVE  /\ Bookkeeping'
           /\ \A k \in SessionIds : Live(k)' =>
                \/ /\ Live(k)
                   /\ sessions'[k].user = sessions[k].user
                   /\ sessions'[k].node = sessions[k].node
                   /\ sessions'[k].client = sessions[k].client
                \/ /\ recheckOf(k, sessions'[k]) \in rechecks'
                   /\ sessions'[k].client = c /\ sessions'[k].state = "CONNECTED"
<1> DEFINE resume == offerClientHalf(sid, TargetOf[c], c)
           s == adopted(resume.node, resume.nodeSocket, c)
<1>0. SessionMap /\ OtherTypes /\ TargetOf[c] \in Nodes /\ sid \in SessionIds /\ c # None
  BY BookkeepingParts, SocketsAssumption, NoneAssumption DEF OtherTypes
<1>1. pendingResumes[sid] \in PendingResume \cup {NoResume}
  BY <1>0 DEF OtherTypes
<1>2. /\ resume \in PendingResume /\ resume.node = TargetOf[c] /\ resume.client = c
      /\ resume.nodeSocket # None =>
           /\ resume.nodeSocket \in NodeSockets /\ attached(resume.nodeSocket)
           /\ NodeOf[resume.nodeSocket] = TargetOf[c]
  BY <1>0, <1>1, NoneAssumption
  DEF offerClientHalf, PendingResume, NoResume, Bookkeeping, ResumesHalfOpen, attached, Pending
<1>3. /\ clientConn[c] = "up" /\ ~Live(sid)
      /\ UNCHANGED <<clientVars, usedIds, nodeVars, requests, dbVars>>
  BY DEF ClientOfferResume
<1>4. CASE complete(resume)
  <2>1. s \in Session /\ s.client = c /\ s.node = TargetOf[c] /\ s.user = UserOf[c] /\ s.state = "CONNECTED"
    BY <1>0, <1>2, <1>4, Adopted DEF complete
  <2>2. /\ setSession(sid, s)
        /\ rechecks' = rechecks \cup {recheckOf(sid, s)}
        /\ pendingResumes' = [pendingResumes EXCEPT ![sid] = NoResume]
    BY <1>4 DEF ClientOfferResume
  <2> HIDE DEF s, resume
  <2>3. /\ SessionMap'
        /\ \A k \in SessionIds : Live(k)' => \/ k = sid /\ sessions'[k] = s
                                             \/ Live(k) /\ sessions'[k] = sessions[k]
    BY <1>0, <1>3, <2>1, <2>2, SetSession
  <2>4. OtherTypes'
    <3>1. rechecks' \in SUBSET Recheck
      BY <1>0, <2>1, <2>2, RecheckOf DEF OtherTypes
    <3>. QED
      BY <1>0, <1>3, <2>2, <3>1 DEF OtherTypes, clientVars, nodeVars, dbVars
  <2>5. SignalSocketsExact'
    BY <1>3 DEF Bookkeeping, SignalSocketsExact, clientVars
  <2>6. \A k \in SessionIds : Pending(k)' => k # sid /\ Pending(k) /\ pendingResumes'[k] = pendingResumes[k]
    BY <1>0, <2>2, NoneAssumption DEF OtherTypes, Pending, NoResume
  <2>7. IdsUsed'
    BY <1>3, <2>3, <2>6 DEF Bookkeeping, IdsUsed
  <2>8. ResumesHalfOpen'
    BY <1>3, <2>3, <2>6 DEF Bookkeeping, ResumesHalfOpen, attached, clientVars, nodeVars
  <2>. QED
    BY <2>1, <2>2, <2>3, <2>4, <2>5, <2>7, <2>8, BookkeepingPartsNext
<1>5. CASE ~complete(resume)
  <2>1. /\ pendingResumes' = [pendingResumes EXCEPT ![sid] = resume]
        /\ UNCHANGED <<sessionVars, rechecks>>
    BY <1>5 DEF ClientOfferResume
  <2>2. resume.nodeSocket = None
    BY <1>0, <1>2, <1>5 DEF complete
  <2> HIDE DEF resume
  <2>3. SessionMap' /\ NoNewSession
    BY <1>0, <2>1, UnchangedSessions
  <2>4. OtherTypes'
    BY <1>0, <1>2, <1>3, <2>1 DEF OtherTypes, clientVars, nodeVars, dbVars
  <2>5. SignalSocketsExact'
    BY <1>3 DEF Bookkeeping, SignalSocketsExact, clientVars
  <2>6. \A k \in SessionIds : pendingResumes'[k] = IF k = sid THEN resume ELSE pendingResumes[k]
    BY <1>0, <2>1 DEF OtherTypes
  <2>7. IdsUsed'
    BY <1>3, <2>3, <2>6 DEF Bookkeeping, IdsUsed, NoNewSession, Pending
  <2>8. ResumesHalfOpen'
    <3>1. /\ nodeConn' = nodeConn /\ registering' = registering /\ clientConn' = clientConn
          /\ \A k \in SessionIds : Live(k)' => Live(k)
      BY <1>3, <2>3 DEF NoNewSession, clientVars, nodeVars
    <3>. QED
      BY <1>0, <1>2, <1>3, <2>2, <2>6, <3>1 DEF Bookkeeping, ResumesHalfOpen, attached, Pending
  <2>. QED
    BY <2>3, <2>4, <2>5, <2>7, <2>8, BookkeepingPartsNext DEF NoNewSession
<1>. QED
  BY <1>4, <1>5

\* The bookkeeping of the steps that call disconnectClients.
LEMMA DisconnectBookkeeping ==
    ASSUME Bookkeeping,
           NEW S \in SUBSET Clients, NEW closed \in SUBSET SessionIds,
           disconnectClients(S, closed), UNCHANGED <<usedIds, nodeVars>>,
           requests' \in [Clients -> [Slots -> RequestState]],
           rechecks' \in SUBSET Recheck, access' \in SUBSET (Users \X Nodes),
           revocations' \in SUBSET Revocation, revokedLogins' \in SUBSET Logins
    PROVE  Bookkeeping'
<1>1. UNCHANGED <<usedIds, nodeConn, registering>>
  BY DEF nodeVars
<1>2. /\ SessionMap' /\ SignalSocketsExact' /\ IdsUsed' /\ ResumesHalfOpen'
      /\ clientConn' \in [Clients -> {"new", "auth", "up", "down"}]
      /\ signalSocketsByNodeId' \in [Nodes -> SUBSET Clients]
      /\ pendingResumes' \in [SessionIds -> PendingResume \cup {NoResume}]
  BY <1>1, DisconnectClients
<1>3. OtherTypes'
  BY <1>2, BookkeepingParts DEF OtherTypes, nodeVars
<1>. QED
  BY <1>2, <1>3, BookkeepingPartsNext

\* The steps of a control socket that change neither a session nor a resume.
LEMMA NodeSocketBookkeeping ==
    ASSUME Bookkeeping, NEW ns \in NodeSockets,
           \/ NodeConnect(ns) \/ NodeRegister(ns) \/ NodeRegistered(ns)
           \/ NodeDisconnectUnregistered(ns)
    PROVE  Bookkeeping'
<1>0. SessionMap /\ OtherTypes /\ NodeOf[ns] \in Nodes
  BY BookkeepingParts, SocketsAssumption
<1>1. UNCHANGED <<sessionVars, clientVars, pendingResumes, usedIds>>
  BY DEF NodeConnect, NodeRegister, NodeRegistered, NodeDisconnectUnregistered
<1>2. OtherTypes'
  BY <1>0
  DEF NodeConnect, NodeRegister, NodeRegistered, NodeDisconnectUnregistered,
      OtherTypes, clientVars, dbVars
<1>3. SessionMap' /\ NoNewSession
  BY <1>0, <1>1, UnchangedSessions
<1>4. SignalSocketsExact' /\ IdsUsed'
  BY <1>1, <1>3 DEF Bookkeeping, SignalSocketsExact, IdsUsed, clientVars, NoNewSession, Pending
<1>5. \A k \in NodeSockets : attached(k) => attached(k)'
  BY <1>0
  DEF attached, OtherTypes, NodeConnect, NodeRegister, NodeRegistered, NodeDisconnectUnregistered
<1>6. \A sid \in SessionIds : Pending(sid) /\ pendingResumes[sid].nodeSocket # None
          => pendingResumes[sid].nodeSocket \in NodeSockets
  BY <1>0 DEF OtherTypes, PendingResume, NoResume, Pending
<1>7. ResumesHalfOpen'
  BY <1>1, <1>3, <1>5, <1>6 DEF Bookkeeping, ResumesHalfOpen, NoNewSession, Pending, clientVars
<1>. QED
  BY <1>2, <1>3, <1>4, <1>7, BookkeepingPartsNext

LEMMA ClientArrivalBookkeeping ==
    ASSUME Bookkeeping, NEW c \in Clients, ClientAuth(c) \/ ClientConnect(c)
    PROVE  Bookkeeping'
<1>0. SessionMap /\ OtherTypes /\ TargetOf[c] \in Nodes
  BY BookkeepingParts, SocketsAssumption
<1>1. UNCHANGED <<sessionVars, pendingResumes, usedIds, nodeConn, registering>>
  BY DEF ClientAuth, ClientConnect, nodeVars
<1>2. OtherTypes'
  <2>1. CASE ClientAuth(c)
    BY <1>0, <2>1 DEF ClientAuth, OtherTypes, nodeVars, dbVars
  <2>2. CASE ClientConnect(c)
    <3>1. /\ signalSocketsByNodeId' \in [Nodes -> SUBSET Clients]
          /\ clientConn' \in [Clients -> {"new", "auth", "up", "down"}]
      BY <1>0, <2>2 DEF ClientConnect, OtherTypes
    <3>2. UNCHANGED <<pendingResumes, usedIds, nodeVars, requests, rechecks, dbVars>>
      BY <2>2 DEF ClientConnect
    <3>. QED
      BY <1>0, <3>1, <3>2 DEF OtherTypes, nodeVars, dbVars
  <2>. QED
    BY <2>1, <2>2
<1>3. SessionMap' /\ NoNewSession
  BY <1>0, <1>1, UnchangedSessions
<1>4. SignalSocketsExact'
  BY <1>0 DEF ClientAuth, ClientConnect, Bookkeeping, SignalSocketsExact, OtherTypes
<1>5. IdsUsed'
  BY <1>1, <1>3 DEF Bookkeeping, IdsUsed, NoNewSession, Pending
<1>6. \A d \in Clients : clientConn[d] = "up" => clientConn'[d] = "up"
  BY <1>0 DEF ClientAuth, ClientConnect, OtherTypes
<1>7. \A sid \in SessionIds : Pending(sid) /\ pendingResumes[sid].client # None
          => pendingResumes[sid].client \in Clients
  BY <1>0 DEF OtherTypes, PendingResume, NoResume, Pending
<1>8. ResumesHalfOpen'
  BY <1>1, <1>3, <1>6, <1>7 DEF Bookkeeping, ResumesHalfOpen, attached, NoNewSession, Pending
<1>. QED
  BY <1>2, <1>3, <1>4, <1>5, <1>8, BookkeepingPartsNext

LEMMA ResumeTimeoutBookkeeping ==
    ASSUME Bookkeeping, NEW sid \in SessionIds, ResumeTimeout(sid)
    PROVE  Bookkeeping'
<1>0. SessionMap /\ OtherTypes
  BY BookkeepingParts
<1>1. SessionMap' /\ NoNewSession
  BY <1>0, UnchangedSessions DEF ResumeTimeout
<1>2. OtherTypes'
  BY <1>0 DEF ResumeTimeout, OtherTypes, clientVars, nodeVars, dbVars
<1>3. \A k \in SessionIds : Pending(k)' => Pending(k) /\ pendingResumes'[k] = pendingResumes[k]
  BY <1>0 DEF ResumeTimeout, OtherTypes, Pending, NoResume
<1>4. IdsUsed' /\ SignalSocketsExact'
  BY <1>1, <1>3 DEF ResumeTimeout, Bookkeeping, IdsUsed, SignalSocketsExact, NoNewSession, clientVars
<1>5. ResumesHalfOpen'
  BY <1>1, <1>3
  DEF ResumeTimeout, Bookkeeping, ResumesHalfOpen, attached, NoNewSession, clientVars, nodeVars
<1>. QED
  BY <1>1, <1>2, <1>4, <1>5, BookkeepingPartsNext

LEMMA RestartBookkeeping ==
    ASSUME Bookkeeping, Restart
    PROVE  Bookkeeping'
    BY NoneAssumption
    DEF Bookkeeping, Restart, TypeOK, IndexesExact, SessionsMatchClients, SignalSocketsExact,
        IdsUsed, ResumesHalfOpen, Pending, Live, NoSession, NoResume, RequestState

\* webrtc:answer, webrtc:connected, webrtc:close and webrtc:error
LEMMA NodeEventBookkeeping ==
    ASSUME Bookkeeping, NEW ns \in NodeSockets, NEW sid \in SessionIds,
           NodeAnswer(ns, sid) \/ NodeConnected(ns, sid) \/ NodeClose(ns, sid)
    PROVE  Bookkeeping'
<1>0. SessionMap /\ OtherTypes
  BY BookkeepingParts
<1>1. ASSUME NodeAnswer(ns, sid)
      PROVE  Bookkeeping'
  <2>1. Live(sid) /\ sessions[sid] \in Session
    BY <1>1, <1>0, LiveSessions DEF NodeAnswer, fromNode, SessionMap
  <2>2. SessionMap' /\ NoNewSession
    BY <1>1, <1>0, <2>1, UpdateSession DEF NodeAnswer, Session, Negotiating
  <2>. QED
    BY <1>1, <1>0, <2>2, QuietBookkeeping DEF NodeAnswer, OtherTypes, clientVars, nodeVars, dbVars
<1>2. ASSUME NodeConnected(ns, sid)
      PROVE  Bookkeeping'
  <2>1. Live(sid) /\ sessions[sid] \in Session
    BY <1>2, <1>0, LiveSessions DEF NodeConnected, fromNode, SessionMap
  <2>2. SessionMap' /\ NoNewSession
    BY <1>2, <1>0, <2>1, UpdateSession DEF NodeConnected, Session, Negotiating
  <2>. QED
    BY <1>2, <1>0, <2>2, QuietBookkeeping DEF NodeConnected, OtherTypes, clientVars, nodeVars, dbVars
<1>3. ASSUME NodeClose(ns, sid)
      PROVE  Bookkeeping'
  BY <1>3, <1>0, ForgetSession, QuietBookkeeping
  DEF NodeClose, OtherTypes, clientVars, nodeVars, dbVars
<1>. QED
  BY <1>1, <1>2, <1>3

\* webrtc:offer and webrtc:close
LEMMA ClientEventBookkeeping ==
    ASSUME Bookkeeping, NEW c \in Clients, NEW sid \in SessionIds,
           ClientOffer(c, sid) \/ ClientClose(c, sid)
    PROVE  Bookkeeping'
<1>0. SessionMap /\ OtherTypes
  BY BookkeepingParts
<1>1. ASSUME ClientOffer(c, sid)
      PROVE  Bookkeeping'
  <2>1. Live(sid) /\ sessions[sid] \in Session
    BY <1>1, <1>0, LiveSessions DEF ClientOffer, fromClient, SessionMap
  <2>2. SessionMap' /\ NoNewSession
    BY <1>1, <1>0, <2>1, UpdateSession DEF ClientOffer, Session, Negotiating
  <2>. QED
    BY <1>1, <1>0, <2>2, QuietBookkeeping DEF ClientOffer, OtherTypes, clientVars, nodeVars, dbVars
<1>2. ASSUME ClientClose(c, sid)
      PROVE  Bookkeeping'
  BY <1>2, <1>0, ForgetSession, QuietBookkeeping
  DEF ClientClose, OtherTypes, clientVars, nodeVars, dbVars
<1>. QED
  BY <1>1, <1>2

LEMMA RequestBookkeeping ==
    ASSUME Bookkeeping, NEW c \in Clients, NEW r \in Slots,
           SessionRequest(c, r) \/ RequestStep(c, r)
    PROVE  Bookkeeping'
<1>0. SessionMap /\ OtherTypes
  BY BookkeepingParts
<1>1. ASSUME SessionRequest(c, r)
      PROVE  Bookkeeping'
  BY <1>1, <1>0, UnchangedSessions, QuietBookkeeping
  DEF SessionRequest, OtherTypes, clientVars, nodeVars, dbVars, RequestState
<1>2. ASSUME SessionRequestRead(c, r)
      PROVE  Bookkeeping'
  BY <1>2, <1>0, UnchangedSessions, QuietBookkeeping
  DEF SessionRequestRead, OtherTypes, clientVars, nodeVars, dbVars, RequestState
<1>3. ASSUME SessionRequestError(c, r)
      PROVE  Bookkeeping'
  BY <1>3, <1>0, UnchangedSessions, QuietBookkeeping
  DEF SessionRequestError, OtherTypes, clientVars, nodeVars, dbVars, RequestState
<1>4. ASSUME SessionRequestDropped(c, r)
      PROVE  Bookkeeping'
  BY <1>4, <1>0, UnchangedSessions, QuietBookkeeping
  DEF SessionRequestDropped, OtherTypes, clientVars, nodeVars, dbVars, RequestState
<1>5. ASSUME SessionRequestDenied(c, r)
      PROVE  Bookkeeping'
  <2> DEFINE S == IF clientConn[c] = "up" THEN sameTransport({c}) ELSE {}
  <2>1. /\ disconnectClients(S, {}) /\ S \in SUBSET Clients
        /\ UNCHANGED <<usedIds, nodeVars, rechecks, dbVars>>
        /\ requests' \in [Clients -> [Slots -> RequestState]]
    BY <1>0, <1>5 DEF SessionRequestDenied, sameTransport, OtherTypes, RequestState
  <2> HIDE DEF S
  <2>. QED
    BY <1>0, <2>1, DisconnectBookkeeping DEF OtherTypes, dbVars
<1>. QED
  BY <1>1, <1>2, <1>3, <1>4, <1>5, SessionRequestGrantedBookkeeping DEF RequestStep

LEMMA TimerBookkeeping ==
    ASSUME Bookkeeping, NEW sid \in SessionIds, TimerStep(sid)
    PROVE  Bookkeeping'
<1>0. SessionMap /\ OtherTypes
  BY BookkeepingParts
<1>1. ASSUME NegotiationTimeout(sid)
      PROVE  Bookkeeping'
  <2>1. Live(sid) /\ sessions[sid] \in Session
    BY <1>1, <1>0, LiveSessions DEF NegotiationTimeout, SessionMap
  <2>2. SessionMap' /\ NoNewSession
    <3>1. CASE sessions[sid].state # "CONNECTED"
      BY <1>1, <1>0, <2>1, <3>1, ForgetSession DEF NegotiationTimeout
    <3>2. CASE sessions[sid].state = "CONNECTED"
      BY <1>1, <1>0, <2>1, <3>2, UpdateSession DEF NegotiationTimeout, Session
    <3>. QED
      BY <3>1, <3>2
  <2>. QED
    BY <1>1, <1>0, <2>2, QuietBookkeeping
    DEF NegotiationTimeout, OtherTypes, clientVars, nodeVars, dbVars
<1>2. ASSUME OrphanTimeout(sid)
      PROVE  Bookkeeping'
  BY <1>2, <1>0, ForgetSession, QuietBookkeeping
  DEF OrphanTimeout, OtherTypes, clientVars, nodeVars, dbVars
<1>. QED
  BY <1>1, <1>2, ResumeTimeoutBookkeeping DEF TimerStep


LEMMA RecheckRevocationBookkeeping ==
    ASSUME Bookkeeping
    PROVE  /\ \A k \in rechecks : RecheckStep(k) => Bookkeeping'
           /\ \A u \in Users, n \in Nodes, phase \in {"reread", "due"} :
                GrantAccess(u, n) \/ RevokeAccess(u, n, phase) => Bookkeeping'
           /\ \A v \in revocations : RevokeStaleRead(v) => Bookkeeping'
<1>0. SessionMap /\ OtherTypes
  BY BookkeepingParts
<1>1. ASSUME NEW k \in rechecks, RecheckRead(k) \/ RecheckError(k)
      PROVE  Bookkeeping'
  <2>1. k \in Recheck /\ UNCHANGED <<sessionVars, clientVars, pendingResumes, usedIds, nodeVars, requests, dbVars>>
    BY <1>0, <1>1 DEF OtherTypes, RecheckRead, RecheckError
  <2>2. rechecks' \in SUBSET Recheck
    BY <1>0, <1>1, <2>1 DEF OtherTypes, RecheckRead, RecheckError, Recheck
  <2>. QED
    BY <1>0, <2>1, <2>2, UnchangedSessions, QuietBookkeeping
    DEF OtherTypes, clientVars, nodeVars, dbVars
<1>2. ASSUME NEW k \in rechecks, RecheckDenied(k)
      PROVE  Bookkeeping'
  <2>1. k.sid \in SessionIds
    BY <1>0 DEF OtherTypes, Recheck
  <2>2. SessionMap' /\ NoNewSession
    BY <1>0, <1>2, <2>1, UnchangedSessions, ForgetSession DEF RecheckDenied
  <2>. QED
    BY <1>0, <1>2, <2>2, QuietBookkeeping
    DEF RecheckDenied, OtherTypes, clientVars, nodeVars, dbVars
<1>3. ASSUME NEW u \in Users, NEW n \in Nodes, NEW phase \in {"reread", "due"},
             GrantAccess(u, n) \/ RevokeAccess(u, n, phase)
      PROVE  Bookkeeping'
  <2>1. /\ UNCHANGED <<sessionVars, clientVars, pendingResumes, usedIds, nodeVars, requests,
                       rechecks, revokedLogins>>
        /\ access' \in SUBSET (Users \X Nodes)
    BY <1>0, <1>3 DEF OtherTypes, GrantAccess, RevokeAccess
  <2>2. revocations' \in SUBSET Revocation
    BY <1>0, <1>3 DEF OtherTypes, GrantAccess, RevokeAccess, Revocation
  <2>. QED
    BY <1>0, <2>1, <2>2, UnchangedSessions, QuietBookkeeping DEF OtherTypes, clientVars, nodeVars
<1>4. ASSUME NEW v \in revocations, RevokeStaleRead(v)
      PROVE  Bookkeeping'
  <2>1. /\ UNCHANGED <<sessionVars, clientVars, pendingResumes, usedIds, nodeVars, requests,
                       rechecks, access, revokedLogins>>
        /\ v \in Revocation
    BY <1>0, <1>4 DEF OtherTypes, RevokeStaleRead
  <2>2. revocations' \in SUBSET Revocation
    BY <1>0, <1>4, <2>1 DEF OtherTypes, RevokeStaleRead, Revocation
  <2>. QED
    BY <1>0, <2>1, <2>2, UnchangedSessions, QuietBookkeeping DEF OtherTypes, clientVars, nodeVars
<1>. QED
  BY <1>1, <1>2, <1>3, <1>4 DEF RecheckStep

LEMMA ClientDisconnectBookkeeping ==
    ASSUME Bookkeeping, NEW c \in Clients, ClientDisconnect(c)
    PROVE  Bookkeeping'
<1>1. /\ disconnectClients({c}, {})
      /\ UNCHANGED <<usedIds, nodeVars, requests, rechecks, dbVars>>
  BY DEF ClientDisconnect
<1>. QED
  BY <1>1, BookkeepingParts, DisconnectBookkeeping DEF OtherTypes, dbVars

LEMMA RevokeLoginBookkeeping ==
    ASSUME Bookkeeping, NEW l \in Logins, RevokeLogin(l)
    PROVE  Bookkeeping'
<1> DEFINE S == sameTransport({d \in Clients : LoginOf[d] = l /\ clientConn[d] \in {"auth", "up"}})
           closed == {sid \in SessionIds : Live(sid) /\ LoginOf[sessions[sid].client] = l}
<1>1. /\ disconnectClients(S, closed) /\ S \in SUBSET Clients /\ closed \in SUBSET SessionIds
      /\ UNCHANGED <<usedIds, nodeVars, requests, rechecks, access, revocations>>
      /\ revokedLogins' \in SUBSET Logins
  BY BookkeepingParts DEF RevokeLogin, sameTransport, OtherTypes
<1> HIDE DEF S, closed
<1>. QED
  BY <1>1, BookkeepingParts, DisconnectBookkeeping DEF OtherTypes

LEMMA CloseNodeSessionsForUserBookkeeping ==
    ASSUME Bookkeeping, NEW v \in revocations, CloseNodeSessionsForUser(v)
    PROVE  Bookkeeping'
<1> DEFINE S == sameTransport(signalSocketsOf(v.user, v.node))
           closed == {sid \in sessionsByUserId[v.user] : sessions[sid].node = v.node}
<1>0. SessionMap /\ OtherTypes /\ v.user \in Users
  BY BookkeepingParts DEF OtherTypes, Revocation
<1>1. /\ disconnectClients(S, closed) /\ S \in SUBSET Clients /\ closed \in SUBSET SessionIds
      /\ UNCHANGED <<usedIds, nodeVars, requests, rechecks, access, revokedLogins>>
      /\ revocations' \in SUBSET Revocation
  BY <1>0 DEF CloseNodeSessionsForUser, sameTransport, OtherTypes, SessionMap, SessionTypes
<1> HIDE DEF S, closed
<1>. QED
  BY <1>0, <1>1, DisconnectBookkeeping DEF OtherTypes

LEMMA StutterBookkeeping ==
    ASSUME Bookkeeping, UNCHANGED vars
    PROVE  Bookkeeping'
<1>0. SessionMap /\ OtherTypes
  BY BookkeepingParts
<1>1. SessionMap' /\ NoNewSession
  BY <1>0, UnchangedSessions DEF vars
<1>. QED
  BY <1>0, <1>1, QuietBookkeeping DEF vars, OtherTypes, clientVars, nodeVars, dbVars

LEMMA NextBookkeeping == Bookkeeping /\ [Next]_vars => Bookkeeping'
<1> SUFFICES ASSUME Bookkeeping, [Next]_vars
             PROVE  Bookkeeping'
  OBVIOUS
<1>1. ASSUME NEW ns \in NodeSockets, NodeStep(ns)
      PROVE  Bookkeeping'
  BY <1>1, NodeSocketBookkeeping, NodeDisconnectBookkeeping, NodeSessionsBookkeeping,
     NodeEventBookkeeping
  DEF NodeStep
<1>2. ASSUME NEW c \in Clients, ClientStep(c)
      PROVE  Bookkeeping'
  BY <1>2, ClientArrivalBookkeeping, ClientDisconnectBookkeeping, ClientEventBookkeeping,
     RequestBookkeeping, ClientResumeBookkeeping, ClientOfferResumeBookkeeping
  DEF ClientStep
<1>3. ASSUME NEW c \in Clients, NEW r \in Slots, RequestStep(c, r)
      PROVE  Bookkeeping'
  BY <1>3, RequestBookkeeping
<1>4. ASSUME NEW sid \in SessionIds, TimerStep(sid)
      PROVE  Bookkeeping'
  BY <1>4, TimerBookkeeping
<1>5. ASSUME NEW k \in rechecks, RecheckStep(k)
      PROVE  Bookkeeping'
  BY <1>5, RecheckRevocationBookkeeping
<1>6. ASSUME NEW v \in revocations, RevocationStep(v)
      PROVE  Bookkeeping'
  BY <1>6, RecheckRevocationBookkeeping, CloseNodeSessionsForUserBookkeeping DEF RevocationStep
<1>7. ASSUME AccessStep
      PROVE  Bookkeeping'
  BY <1>7, RecheckRevocationBookkeeping, RevokeLoginBookkeeping DEF AccessStep
<1>8. ASSUME Restart
      PROVE  Bookkeeping'
  BY <1>8, RestartBookkeeping
<1>9. ASSUME UNCHANGED vars
      PROVE  Bookkeeping'
  BY <1>9, StutterBookkeeping
<1>. QED
  BY <1>1, <1>2, <1>3, <1>4, <1>5, <1>6, <1>7, <1>8, <1>9 DEF Next

LEMMA InvariantBookkeeping == Spec => []Bookkeeping
<1>. QED
  BY InitBookkeeping, NextBookkeeping, PTL DEF Spec

\* Every variable of the specification always has its type.
THEOREM TypeCorrect == Spec => []TypeOK
<1>1. Bookkeeping => TypeOK
  BY DEF Bookkeeping
<1>. QED
  BY <1>1, InvariantBookkeeping, PTL

\* The reverse indexes are exact in every reachable state: the disconnect handler never
\* meets an id whose session is gone, and no teardown misses a session.
THEOREM IndexesCorrect == Spec => [](IndexesExact /\ SignalSocketsExact)
<1>1. Bookkeeping => IndexesExact /\ SignalSocketsExact
  BY DEF Bookkeeping
<1>. QED
  BY <1>1, InvariantBookkeeping, PTL

\* A live session belongs to the node and the user of the socket that has it, however often
\* sessions were resumed by other sockets: its id opens nothing to anybody else.
THEOREM SessionsMatch == Spec => []SessionsMatchClients
<1>1. Bookkeeping => SessionsMatchClients
  BY DEF Bookkeeping
<1>. QED
  BY <1>1, InvariantBookkeeping, PTL

\* A pending resume never holds a dead socket, and never stands beside a live session.
THEOREM ResumesCorrect == Spec => []ResumesHalfOpen
<1>1. Bookkeeping => ResumesHalfOpen
  BY DEF Bookkeeping
<1>. QED
  BY <1>1, InvariantBookkeeping, PTL

-----------------------------------------------------------------------------
(* A session outlives its user's access only while something is on its way  *)
(* to close it.  The invariant speaks of the requests in flight too: one    *)
(* that was allowed must not open a session after the teardown has run.     *)

\* A socket sends requests only once it is connected.
RequestsConnected ==
    \A c \in Clients, r \in Slots : requests[c][r] # "idle" => clientConn[c] \in {"up", "down"}

Guarded == AccessEnforced /\ RequestsEnforced /\ RequestsConnected

\* What AccessEnforced asks for a live session.
Covered(sid) == \/ <<sessions[sid].user, sessions[sid].node>> \in access
                \/ beingRevoked(sessions[sid].user, sessions[sid].node)
                \/ beingRechecked(sid)

\* Nothing that covers a session or a request is taken away.
CoverKept == /\ access \subseteq access'
             /\ revocations \subseteq revocations'
             /\ rechecks \subseteq rechecks'

\* No request is allowed that was not, and no socket with one comes back.
RequestsKept ==
    \A c \in Clients : /\ clientConn[c] \in {"up", "down"} => clientConn'[c] \in {"up", "down"}
                       /\ clientConn'[c] = "up" => clientConn[c] \in {"auth", "up"}
                       /\ \A r \in Slots : requests'[c][r] \in {requests[c][r], "idle"}

LEMMA SessionsKeptGuarded ==
    ASSUME AccessEnforced, CoverKept, 
           \A sid \in SessionIds : Live(sid)' =>
                \/ /\ Live(sid)
                   /\ sessions'[sid].user = sessions[sid].user
                   /\ sessions'[sid].node = sessions[sid].node
                \/ recheckOf(sid, sessions'[sid]) \in rechecks'
                \/ Covered(sid)'
    PROVE  AccessEnforced'
<1> SUFFICES ASSUME NEW sid \in SessionIds, Live(sid)'
             PROVE  Covered(sid)'
  BY DEF AccessEnforced, Covered
<1>1. CASE recheckOf(sid, sessions'[sid]) \in rechecks'
  <2>1. /\ recheckOf(sid, sessions'[sid]).sid = sid
        /\ recheckOf(sid, sessions'[sid]).user = sessions'[sid].user
        /\ recheckOf(sid, sessions'[sid]).node = sessions'[sid].node
    BY DEF recheckOf
  <2>. QED
    BY <1>1, <2>1 DEF Covered, beingRechecked
<1>2. CASE /\ Live(sid)
           /\ sessions'[sid].user = sessions[sid].user
           /\ sessions'[sid].node = sessions[sid].node
  <2>1. Covered(sid)
    BY <1>2 DEF AccessEnforced, Covered
  <2>. QED
    BY <1>2, <2>1 DEF Covered, CoverKept, beingRevoked, beingRechecked
<1>. QED
  BY <1>1, <1>2

LEMMA RequestsKeptGuarded ==
    ASSUME RequestsEnforced, RequestsConnected, RequestsKept,
           access \subseteq access', revocations \subseteq revocations'
    PROVE  RequestsEnforced' /\ RequestsConnected'
<1>1. RequestsConnected'
  BY DEF RequestsConnected, RequestsKept
<1>2. RequestsEnforced'
  <2> SUFFICES ASSUME NEW c \in Clients, NEW r \in Slots,
                      requests'[c][r] = "allowed", clientConn'[c] = "up"
               PROVE  \/ <<UserOf[c], TargetOf[c]>> \in access'
                      \/ beingRevoked(UserOf[c], TargetOf[c])'
    BY DEF RequestsEnforced, beingRevoked
  <2>1. requests[c][r] = "allowed" /\ clientConn[c] = "up"
    BY DEF RequestsKept, RequestsConnected
  <2>. QED
    BY <2>1 DEF RequestsEnforced, beingRevoked
<1>. QED
  BY <1>1, <1>2

\* The steps that drop sessions at most and keep everything else that matters here.
LEMMA QuietGuarded ==
    ASSUME Guarded, NoNewSession, CoverKept, RequestsKept
    PROVE  Guarded'
<1>1. AccessEnforced'
  BY SessionsKeptGuarded DEF Guarded, NoNewSession
<1>. QED
  BY <1>1, RequestsKeptGuarded DEF Guarded, CoverKept

LEMMA DisconnectKept ==
    ASSUME Bookkeeping, NEW S \in SUBSET Clients, NEW closed \in SUBSET SessionIds,
           disconnectClients(S, closed), UNCHANGED <<usedIds, nodeVars>>
    PROVE  /\ NoNewSession
           /\ \A sid \in closed : ~Live(sid)'
           /\ \A c \in Clients : /\ clientConn[c] \in {"up", "down"} => clientConn'[c] \in {"up", "down"}
                                 /\ clientConn'[c] = "up" => clientConn[c] = "up" /\ c \notin S
<1>1. UNCHANGED <<usedIds, nodeConn, registering>>
  BY DEF nodeVars
<1>. QED
  BY <1>1, DisconnectClients

LEMMA NodeStepGuarded ==
    ASSUME Bookkeeping, Guarded, NEW ns \in NodeSockets, NodeStep(ns)
    PROVE  Guarded'
<1>0. SessionMap /\ OtherTypes
  BY BookkeepingParts
<1>1. UNCHANGED <<clientVars, requests, dbVars>> /\ rechecks \subseteq rechecks'
  BY DEF NodeStep, NodeConnect, NodeRegister, NodeRegistered, NodeDisconnectUnregistered,
         NodeDisconnect, NodeAnswer, NodeClose, NodeConnected, NodeSessions
<1>2. CoverKept /\ RequestsKept
  BY <1>1 DEF CoverKept, RequestsKept, clientVars, dbVars
<1>3. ASSUME NodeConnect(ns) \/ NodeRegister(ns) \/ NodeRegistered(ns) \/ NodeDisconnectUnregistered(ns)
      PROVE  NoNewSession
  BY <1>3, <1>0, UnchangedSessions
  DEF NodeConnect, NodeRegister, NodeRegistered, NodeDisconnectUnregistered
<1>4. ASSUME NEW sid \in SessionIds, NodeAnswer(ns, sid) \/ NodeConnected(ns, sid)
      PROVE  NoNewSession
  <2>1. Live(sid) /\ sessions[sid] \in Session
    BY <1>4, <1>0, LiveSessions DEF NodeAnswer, NodeConnected, fromNode, SessionMap
  <2>. QED
    BY <1>4, <1>0, <2>1, UpdateSession DEF NodeAnswer, NodeConnected, Session, Negotiating
<1>5. ASSUME NEW sid \in SessionIds, NodeClose(ns, sid)
      PROVE  NoNewSession
  BY <1>5, <1>0, ForgetSession DEF NodeClose
<1>6. ASSUME NEW announced \in SUBSET usedIds, NodeSessions(ns, announced)
      PROVE  Guarded'
  <2>1. AccessEnforced'
    BY <1>2, <1>6, NodeSessionsBookkeeping, SessionsKeptGuarded DEF Guarded
  <2>. QED
    BY <1>2, <2>1, RequestsKeptGuarded DEF Guarded, CoverKept
<1>. QED
  BY <1>2, <1>3, <1>4, <1>5, <1>6, NodeDisconnectBookkeeping, QuietGuarded DEF NodeStep

LEMMA ClientStepGuarded ==
    ASSUME Bookkeeping, Guarded, NEW c \in Clients, ClientStep(c)
    PROVE  Guarded'
<1>0. SessionMap /\ OtherTypes
  BY BookkeepingParts
<1>1. CoverKept
  BY DEF ClientStep, ClientAuth, ClientConnect, ClientDisconnect, SessionRequest, ClientOffer,
         ClientClose, ClientResume, ClientOfferResume, CoverKept, dbVars
<1>2. ASSUME ClientAuth(c) \/ ClientConnect(c)
      PROVE  Guarded'
  <2>1. NoNewSession
    BY <1>0, <1>2, UnchangedSessions DEF ClientAuth, ClientConnect
  <2>2. RequestsKept
    BY <1>0, <1>2 DEF ClientAuth, ClientConnect, RequestsKept, OtherTypes
  <2>. QED
    BY <1>1, <2>1, <2>2, QuietGuarded
<1>3. ASSUME ClientDisconnect(c)
      PROVE  Guarded'
  <2>1. /\ disconnectClients({c}, {})
        /\ UNCHANGED <<usedIds, nodeVars, requests, rechecks, dbVars>>
    BY <1>3 DEF ClientDisconnect
  <2>2. NoNewSession /\ RequestsKept
    BY <2>1, DisconnectKept DEF RequestsKept
  <2>. QED
    BY <1>1, <2>2, QuietGuarded
<1>4. ASSUME NEW r \in Slots, SessionRequest(c, r)
      PROVE  Guarded'
  <2>1. UNCHANGED <<sessionVars, clientVars, dbVars, rechecks>>
    BY <1>4 DEF SessionRequest
  <2>2. AccessEnforced'
    BY <1>0, <1>1, <2>1, UnchangedSessions, SessionsKeptGuarded DEF NoNewSession, Guarded
  <2>3. \A d \in Clients, q \in Slots :
          requests'[d][q] = IF d = c /\ q = r THEN "reading" ELSE requests[d][q]
    BY <1>0, <1>4 DEF SessionRequest, OtherTypes
  <2>4. clientConn[c] = "up"
    BY <1>4 DEF SessionRequest
  <2>5. RequestsEnforced'
    BY <2>1, <2>3 DEF Guarded, RequestsEnforced, beingRevoked, clientVars, dbVars
  <2>6. RequestsConnected'
    BY <2>1, <2>3, <2>4 DEF Guarded, RequestsConnected, clientVars
  <2>. QED
    BY <2>2, <2>5, <2>6 DEF Guarded
<1>5. ASSUME NEW sid \in SessionIds, ClientOffer(c, sid)
      PROVE  NoNewSession
  <2>1. Live(sid) /\ sessions[sid] \in Session
    BY <1>5, <1>0, LiveSessions DEF ClientOffer, fromClient, SessionMap
  <2>. QED
    BY <1>5, <1>0, <2>1, UpdateSession DEF ClientOffer, Session, Negotiating
<1>6. ASSUME NEW sid \in SessionIds, ClientClose(c, sid)
      PROVE  NoNewSession
  BY <1>6, <1>0, ForgetSession DEF ClientClose
<1>7. ASSUME \E sid \in SessionIds : ClientOffer(c, sid) \/ ClientClose(c, sid)
      PROVE  Guarded'
  <2>1. RequestsKept
    BY <1>7 DEF ClientOffer, ClientClose, RequestsKept, clientVars
  <2>. QED
    BY <1>1, <1>5, <1>6, <1>7, <2>1, QuietGuarded
<1>8. ASSUME \/ \E sid \in SessionIds : ClientResume(c, sid)
             \/ \E sid \in usedIds : ClientOfferResume(c, sid)
      PROVE  Guarded'
  <2>1. RequestsKept
    BY <1>8 DEF ClientResume, ClientOfferResume, RequestsKept, clientVars
  <2>2. AccessEnforced'
    BY <1>1, <1>8, ClientResumeBookkeeping, ClientOfferResumeBookkeeping, SessionsKeptGuarded
    DEF Guarded
  <2>. QED
    BY <1>1, <2>1, <2>2, RequestsKeptGuarded DEF Guarded, CoverKept
<1>. QED
  BY <1>2, <1>3, <1>4, <1>7, <1>8 DEF ClientStep

LEMMA RequestStepGuarded ==
    ASSUME Bookkeeping, Guarded, NEW c \in Clients, NEW r \in Slots, RequestStep(c, r)
    PROVE  Guarded'
<1>0. SessionMap /\ OtherTypes
  BY BookkeepingParts
<1>1. CoverKept
  BY DEF RequestStep, SessionRequestRead, SessionRequestError, SessionRequestDenied,
         SessionRequestDropped, SessionRequestGranted, CoverKept, dbVars
<1>2. ASSUME SessionRequestRead(c, r)
      PROVE  Guarded'
  <2>1. UNCHANGED <<sessionVars, clientVars, dbVars, rechecks>>
    BY <1>2 DEF SessionRequestRead
  <2>2. AccessEnforced'
    BY <1>0, <1>1, <2>1, UnchangedSessions, SessionsKeptGuarded DEF NoNewSession, Guarded
  <2>3. \A d \in Clients, q \in Slots :
          requests'[d][q] = IF d = c /\ q = r
                            THEN IF <<UserOf[c], TargetOf[c]>> \in access THEN "allowed" ELSE "denied"
                            ELSE requests[d][q]
    BY <1>0, <1>2 DEF SessionRequestRead, OtherTypes
  <2>4. requests[c][r] = "reading"
    BY <1>2 DEF SessionRequestRead
  <2>5. RequestsEnforced'
    BY <2>1, <2>3 DEF Guarded, RequestsEnforced, beingRevoked, clientVars, dbVars
  <2>6. RequestsConnected'
    BY <2>1, <2>3, <2>4 DEF Guarded, RequestsConnected, clientVars
  <2>. QED
    BY <2>2, <2>5, <2>6 DEF Guarded
<1>3. ASSUME SessionRequestError(c, r) \/ SessionRequestDropped(c, r)
      PROVE  Guarded'
  <2>1. NoNewSession
    BY <1>0, <1>3, UnchangedSessions DEF SessionRequestError, SessionRequestDropped
  <2>2. RequestsKept
    BY <1>0, <1>3
    DEF SessionRequestError, SessionRequestDropped, RequestsKept, OtherTypes, clientVars
  <2>. QED
    BY <1>1, <2>1, <2>2, QuietGuarded
<1>4. ASSUME SessionRequestDenied(c, r)
      PROVE  Guarded'
  <2> DEFINE S == IF clientConn[c] = "up" THEN sameTransport({c}) ELSE {}
  <2>1. /\ disconnectClients(S, {}) /\ S \in SUBSET Clients
        /\ UNCHANGED <<usedIds, nodeVars>>
        /\ requests' = [requests EXCEPT ![c][r] = "idle"]
    BY <1>4 DEF SessionRequestDenied, sameTransport
  <2> HIDE DEF S
  <2>3. \A d \in Clients, q \in Slots : requests'[d][q] \in {requests[d][q], "idle"}
    BY <1>0, <2>1 DEF OtherTypes
  <2>4. /\ NoNewSession
        /\ \A d \in Clients : /\ clientConn[d] \in {"up", "down"} => clientConn'[d] \in {"up", "down"}
                              /\ clientConn'[d] = "up" => clientConn[d] = "up" /\ d \notin S
    BY <2>1, DisconnectKept
  <2>2. NoNewSession /\ RequestsKept
    BY <2>3, <2>4 DEF RequestsKept
  <2>. QED
    BY <1>1, <2>2, QuietGuarded
<1>5. ASSUME NEW sid \in SessionIds, SessionRequestGranted(c, r, sid)
      PROVE  Guarded'
  <2>1. RequestsKept
    BY <1>0, <1>5 DEF SessionRequestGranted, RequestsKept, OtherTypes, clientVars
  <2>2. \/ <<UserOf[c], TargetOf[c]>> \in access'
        \/ beingRevoked(UserOf[c], TargetOf[c])'
    BY <1>5 DEF SessionRequestGranted, stillWelcome, Guarded, RequestsEnforced, beingRevoked, dbVars
  <2>3. \A k \in SessionIds : Live(k)' =>
          \/ Live(k) /\ sessions'[k].user = sessions[k].user /\ sessions'[k].node = sessions[k].node
          \/ sessions'[k].user = UserOf[c] /\ sessions'[k].node = TargetOf[c]
    BY <1>5, SessionRequestGrantedBookkeeping
  <2>4. ASSUME NEW k \in SessionIds,
               sessions'[k].user = UserOf[c], sessions'[k].node = TargetOf[c]
        PROVE  Covered(k)'
    BY <2>2, <2>4 DEF Covered, beingRevoked
  <2>5. AccessEnforced'
    BY <1>1, <2>3, <2>4, SessionsKeptGuarded DEF Guarded
  <2>. QED
    BY <1>1, <2>1, <2>5, RequestsKeptGuarded DEF Guarded, CoverKept
<1>. QED
  BY <1>2, <1>3, <1>4, <1>5 DEF RequestStep

LEMMA TimerStepGuarded ==
    ASSUME Bookkeeping, Guarded, NEW sid \in SessionIds, TimerStep(sid)
    PROVE  Guarded'
<1>0. SessionMap
  BY BookkeepingParts
<1>1. CoverKept /\ RequestsKept
  BY DEF TimerStep, NegotiationTimeout, OrphanTimeout, ResumeTimeout, CoverKept, RequestsKept,
         clientVars, dbVars
<1>2. ASSUME NegotiationTimeout(sid)
      PROVE  NoNewSession
  <2>1. Live(sid) /\ sessions[sid] \in Session
    BY <1>2, <1>0, LiveSessions DEF NegotiationTimeout, SessionMap
  <2>2. CASE sessions[sid].state # "CONNECTED"
    BY <1>2, <1>0, <2>1, <2>2, ForgetSession DEF NegotiationTimeout
  <2>3. CASE sessions[sid].state = "CONNECTED"
    BY <1>2, <1>0, <2>1, <2>3, UpdateSession DEF NegotiationTimeout, Session
  <2>. QED
    BY <2>2, <2>3
<1>3. ASSUME OrphanTimeout(sid) \/ ResumeTimeout(sid)
      PROVE  NoNewSession
  BY <1>0, <1>3, ForgetSession, UnchangedSessions DEF OrphanTimeout, ResumeTimeout
<1>. QED
  BY <1>1, <1>2, <1>3, QuietGuarded DEF TimerStep

\* A re-check leaves the set when it found the access in place, or with its session.
LEMMA RecheckStepGuarded ==
    ASSUME ~DbFails, Bookkeeping, Guarded, NEW k \in rechecks, RecheckStep(k)
    PROVE  Guarded'
<1>0. SessionMap /\ OtherTypes /\ k \in Recheck
  BY BookkeepingParts DEF OtherTypes
<1>1. UNCHANGED <<clientVars, requests, dbVars>>
  BY DEF RecheckStep, RecheckRead, RecheckError, RecheckDenied
<1>2. RequestsEnforced' /\ RequestsConnected'
  BY <1>1, RequestsKeptGuarded DEF RequestsKept, Guarded, clientVars, dbVars
<1>3. CASE RecheckRead(k)
  <2>1. UNCHANGED sessionVars
    BY <1>3 DEF RecheckRead
  <2>2. \A sid \in SessionIds : beingRechecked(sid)
           => beingRechecked(sid)' \/ <<sessions[sid].user, sessions[sid].node>> \in access
    <3> SUFFICES ASSUME NEW sid \in SessionIds, NEW j \in rechecks,
                        j.sid = sid, j.user = sessions[sid].user, j.node = sessions[sid].node
                 PROVE  beingRechecked(sid)' \/ <<sessions[sid].user, sessions[sid].node>> \in access
      BY DEF beingRechecked
    <3>1. CASE j # k
      BY <1>3, <2>1, <3>1 DEF RecheckRead, beingRechecked, sessionVars
    <3>2. CASE j = k /\ <<k.user, k.node>> \notin access
      <4> DEFINE d == [k EXCEPT !.phase = "denied"]
      <4>1. d \in rechecks'
        BY <1>3, <3>2 DEF RecheckRead
      <4>2. d.sid = sid /\ d.user = sessions'[sid].user /\ d.node = sessions'[sid].node
        BY <1>0, <2>1, <3>2 DEF Recheck, sessionVars
      <4> HIDE DEF d
      <4>. QED
        BY <4>1, <4>2 DEF beingRechecked
    <3>. QED
      BY <3>1, <3>2
  <2>3. AccessEnforced'
    BY <1>1, <2>1, <2>2 DEF Guarded, AccessEnforced, beingRevoked, Live, sessionVars, dbVars
  <2>. QED
    BY <1>2, <2>3 DEF Guarded
<1>4. CASE RecheckDenied(k)
  <2>1. NoNewSession /\ ~Live(k.sid)'
    <3>1. k.sid \in SessionIds
      BY <1>0 DEF Recheck
    <3>2. CASE Live(k.sid)
      BY <1>0, <1>4, <3>1, <3>2, ForgetSession DEF RecheckDenied
    <3>3. CASE ~Live(k.sid)
      BY <1>0, <1>4, <3>1, <3>3, UnchangedSessions DEF RecheckDenied, Live, sessionVars
    <3>. QED
      BY <3>2, <3>3
  <2>2. \A j \in rechecks : j \in rechecks' \/ j = k
    BY <1>4 DEF RecheckDenied
  <2>3. AccessEnforced'
    <3> SUFFICES ASSUME NEW sid \in SessionIds, Live(sid)'
                 PROVE  Covered(sid)'
      BY DEF AccessEnforced, Covered
    <3>1. /\ Live(sid) /\ sid # k.sid
          /\ sessions'[sid].user = sessions[sid].user /\ sessions'[sid].node = sessions[sid].node
      BY <2>1 DEF NoNewSession
    <3>2. Covered(sid)
      BY <3>1 DEF Guarded, AccessEnforced, Covered
    <3>. QED
      BY <1>1, <2>2, <3>1, <3>2 DEF Covered, beingRevoked, beingRechecked, dbVars
  <2>. QED
    BY <1>2, <2>3 DEF Guarded
<1>. QED
  BY <1>3, <1>4 DEF RecheckStep, RecheckError

LEMMA AccessStepGuarded ==
    ASSUME Bookkeeping, Guarded, AccessStep
    PROVE  Guarded'
<1>0. SessionMap /\ OtherTypes
  BY BookkeepingParts
<1>1. ASSUME NEW u \in Users, NEW n \in Nodes, GrantAccess(u, n)
      PROVE  Guarded'
  <2>1. NoNewSession /\ CoverKept /\ RequestsKept
    BY <1>0, <1>1, UnchangedSessions DEF GrantAccess, CoverKept, RequestsKept, clientVars
  <2>. QED
    BY <2>1, QuietGuarded
<1>2. ASSUME NEW u \in Users, NEW n \in Nodes, NEW phase \in {"reread", "due"},
             RevokeAccess(u, n, phase)
      PROVE  Guarded'
  <2> DEFINE w == [user |-> u, node |-> n, phase |-> phase]
  <2>1. /\ UNCHANGED <<sessionVars, clientVars, requests, rechecks>>
        /\ access' = access \ {<<u, n>>}
        /\ revocations' = revocations \cup {w}
        /\ w.user = u /\ w.node = n
    BY <1>2 DEF RevokeAccess
  <2> HIDE DEF w
  <2>2. \A x, y : <<x, y>> \in access \/ beingRevoked(x, y) => <<x, y>> \in access' \/ beingRevoked(x, y)'
    BY <2>1 DEF beingRevoked
  <2>3. AccessEnforced'
    BY <2>1, <2>2 DEF Guarded, AccessEnforced, Live, beingRechecked, beingRevoked, sessionVars
  <2>4. RequestsEnforced' /\ RequestsConnected'
    BY <2>1, <2>2 DEF Guarded, RequestsEnforced, RequestsConnected, beingRevoked, clientVars
  <2>. QED
    BY <2>3, <2>4 DEF Guarded
<1>3. ASSUME NEW l \in Logins, RevokeLogin(l)
      PROVE  Guarded'
  <2> DEFINE S == sameTransport({d \in Clients : LoginOf[d] = l /\ clientConn[d] \in {"auth", "up"}})
             closed == {sid \in SessionIds : Live(sid) /\ LoginOf[sessions[sid].client] = l}
  <2>1. /\ disconnectClients(S, closed) /\ S \in SUBSET Clients /\ closed \in SUBSET SessionIds
        /\ UNCHANGED <<usedIds, nodeVars, requests, rechecks, access, revocations>>
    BY <1>3 DEF RevokeLogin, sameTransport
  <2> HIDE DEF S, closed
  <2>2. NoNewSession /\ CoverKept /\ RequestsKept
    BY <2>1, DisconnectKept DEF CoverKept, RequestsKept
  <2>. QED
    BY <2>2, QuietGuarded
<1>. QED
  BY <1>1, <1>2, <1>3 DEF AccessStep

\* A teardown leaves the set when it found the access restored, or when it has closed
\* every session of the user on the node and disconnected every socket that may open one.
LEMMA RevocationStepGuarded ==
    ASSUME Bookkeeping, Guarded, NEW v \in revocations, RevocationStep(v)
    PROVE  Guarded'
<1>0. SessionMap /\ OtherTypes /\ v \in Revocation
  BY BookkeepingParts DEF OtherTypes
<1>1. CASE RevokeStaleRead(v)
  <2>1. UNCHANGED <<sessionVars, clientVars, requests, rechecks, access>>
    BY <1>1 DEF RevokeStaleRead
  <2>2. \A x, y : beingRevoked(x, y) => beingRevoked(x, y)' \/ <<x, y>> \in access
    <3> SUFFICES ASSUME NEW x, NEW y, NEW w \in revocations, w.user = x, w.node = y
                 PROVE  beingRevoked(x, y)' \/ <<x, y>> \in access
      BY DEF beingRevoked
    <3>1. CASE w # v
      BY <1>1, <3>1 DEF RevokeStaleRead, beingRevoked
    <3>2. CASE w = v /\ <<v.user, v.node>> \notin access
      <4> DEFINE d == [v EXCEPT !.phase = "due"]
      <4>1. d \in revocations' /\ d.user = x /\ d.node = y
        BY <1>0, <1>1, <3>2 DEF RevokeStaleRead, Revocation
      <4> HIDE DEF d
      <4>. QED
        BY <4>1 DEF beingRevoked
    <3>. QED
      BY <3>1, <3>2
  <2>3. AccessEnforced'
    BY <2>1, <2>2 DEF Guarded, AccessEnforced, Live, beingRechecked, beingRevoked, sessionVars
  <2>4. RequestsEnforced' /\ RequestsConnected'
    BY <2>1, <2>2 DEF Guarded, RequestsEnforced, RequestsConnected, beingRevoked, clientVars
  <2>. QED
    BY <2>3, <2>4 DEF Guarded
<1>2. CASE CloseNodeSessionsForUser(v)
  <2> DEFINE S == sameTransport(signalSocketsOf(v.user, v.node))
             closed == {sid \in sessionsByUserId[v.user] : sessions[sid].node = v.node}
  <2>0. v.user \in Users /\ v.node \in Nodes
    BY <1>0 DEF Revocation
  <2>1. /\ disconnectClients(S, closed) /\ S \in SUBSET Clients /\ closed \in SUBSET SessionIds
        /\ UNCHANGED <<usedIds, nodeVars, requests, rechecks, access>>
        /\ revocations' = revocations \ {v}
    BY <1>0, <1>2, <2>0 DEF CloseNodeSessionsForUser, sameTransport, SessionMap, SessionTypes
  <2>2. \A sid \in SessionIds : Live(sid) /\ sessions[sid].user = v.user /\ sessions[sid].node = v.node
          => sid \in closed
    BY <1>0, <2>0 DEF SessionMap, IndexesExact
  <2>3. \A c \in Clients : clientConn[c] = "up" /\ UserOf[c] = v.user /\ TargetOf[c] = v.node => c \in S
    BY <2>0 DEF Bookkeeping, SignalSocketsExact, signalSocketsOf, sameTransport
  <2> HIDE DEF S, closed
  <2>4. /\ NoNewSession /\ RequestsKept
        /\ \A sid \in closed : ~Live(sid)'
        /\ \A c \in Clients : clientConn'[c] = "up" => clientConn[c] = "up" /\ c \notin S
    BY <2>1, DisconnectKept DEF RequestsKept
  <2>5. \A x, y : beingRevoked(x, y) => beingRevoked(x, y)' \/ (x = v.user /\ y = v.node)
    BY <2>1 DEF beingRevoked
  <2>6. AccessEnforced'
    <3> SUFFICES ASSUME NEW sid \in SessionIds, Live(sid)'
                 PROVE  Covered(sid)'
      BY DEF AccessEnforced, Covered
    <3>1. /\ Live(sid) /\ sid \notin closed
          /\ sessions'[sid].user = sessions[sid].user /\ sessions'[sid].node = sessions[sid].node
      BY <2>4 DEF NoNewSession
    <3>2. Covered(sid)
      BY <3>1 DEF Guarded, AccessEnforced, Covered
    <3>3. CASE <<sessions[sid].user, sessions[sid].node>> \in access
      BY <2>1, <3>1, <3>3 DEF Covered
    <3>4. CASE beingRevoked(sessions[sid].user, sessions[sid].node)
      <4>1. PICK w \in revocations : w.user = sessions[sid].user /\ w.node = sessions[sid].node
        BY <3>4 DEF beingRevoked
      <4>2. w # v
        BY <2>2, <3>1, <4>1
      <4>. QED
        BY <2>1, <3>1, <4>1, <4>2 DEF Covered, beingRevoked
    <3>5. CASE beingRechecked(sid)
      BY <2>1, <3>1, <3>5 DEF Covered, beingRechecked
    <3>. QED
      BY <3>2, <3>3, <3>4, <3>5 DEF Covered
  <2>7. RequestsConnected'
    BY <2>4 DEF Guarded, RequestsConnected, RequestsKept
  <2>8. RequestsEnforced'
    <3> SUFFICES ASSUME NEW c \in Clients, NEW r \in Slots,
                        requests'[c][r] = "allowed", clientConn'[c] = "up"
                 PROVE  \/ <<UserOf[c], TargetOf[c]>> \in access'
                        \/ beingRevoked(UserOf[c], TargetOf[c])'
      BY DEF RequestsEnforced, beingRevoked
    <3>. QED
      BY <2>1, <2>3, <2>4, <2>5 DEF Guarded, RequestsEnforced
  <2>. QED
    BY <2>6, <2>7, <2>8 DEF Guarded
<1>. QED
  BY <1>1, <1>2 DEF RevocationStep

LEMMA NextGuarded ==
    ASSUME ~DbFails, Bookkeeping, Guarded, [Next]_vars
    PROVE  Guarded'
<1>1. CASE Restart
  BY <1>1 DEF Restart, Guarded, AccessEnforced, RequestsEnforced, RequestsConnected, Live, NoSession
<1>2. CASE UNCHANGED vars
  <2>1. NoNewSession /\ CoverKept /\ RequestsKept
    BY <1>2, BookkeepingSessionMap, UnchangedSessions
    DEF vars, CoverKept, RequestsKept, clientVars, dbVars
  <2>2. RequestsConnected' /\ RequestsEnforced'
    BY <1>2 DEF vars, Guarded, RequestsConnected, RequestsEnforced, beingRevoked, clientVars, dbVars
  <2>3. AccessEnforced'
    BY <2>1, SessionsKeptGuarded DEF Guarded, NoNewSession
  <2>. QED
    BY <2>2, <2>3 DEF Guarded
<1>. QED
  BY <1>1, <1>2, NodeStepGuarded, ClientStepGuarded, RequestStepGuarded, TimerStepGuarded,
     RecheckStepGuarded, RevocationStepGuarded, AccessStepGuarded
  DEF Next

LEMMA InvariantGuarded == ASSUME ~DbFails PROVE Spec => []Guarded
<1>1. Init => Guarded
  BY DEF Init, Guarded, AccessEnforced, RequestsEnforced, RequestsConnected, Live, NoSession
<1>2. Bookkeeping /\ Guarded /\ [Next]_vars => Guarded'
  BY NextGuarded
<1>. QED
  BY <1>1, <1>2, InvariantBookkeeping, PTL DEF Spec

\* Unless a database read throws, no session outlives its user's access with nothing on
\* its way to close it.
THEOREM AccessIsEnforced == ASSUME ~DbFails PROVE Spec => []AccessEnforced
<1>1. Guarded => AccessEnforced
  BY DEF Guarded
<1>. QED
  BY <1>1, InvariantGuarded, PTL

\* And no request that was allowed opens one behind the teardown: until it is answered, its user
\* has access or the revoke that will meet it has yet to run.
THEOREM RequestsAreEnforced == ASSUME ~DbFails PROVE Spec => []RequestsEnforced
<1>1. Guarded => RequestsEnforced
  BY DEF Guarded
<1>. QED
  BY <1>1, InvariantGuarded, PTL

-----------------------------------------------------------------------------
(* A revoked fleet session has no connected socket, and a session changes   *)
(* hands only to a client whose socket is connected.                        *)

ClientsLoggedIn ==
    \A c \in Clients : clientConn[c] \in {"auth", "up"} => LoginOf[c] \notin revokedLogins

LoggedIn == LoginsEnforced /\ ClientsLoggedIn

\* No socket is connected that was not.
ClientsKept ==
    \A c \in Clients : clientConn'[c] \in {"auth", "up"} => clientConn[c] \in {"auth", "up"}

\* Every session in the map has the client it had, or one that is connected: an
\* established session was resumed, and a new one was opened below the cap.
SessionsPassedOn ==
    \A sid \in SessionIds : Live(sid)' =>
        \/ Live(sid) /\ sessions'[sid].client = sessions[sid].client
        \/ /\ ConnectedClient(sessions'[sid].client)
           /\ \/ sessions'[sid].state = "CONNECTED"
              \/ Cardinality(sessionsByClient'[sessions'[sid].client]) <= MaxSessions

LEMMA PassedOnLoggedIn ==
    ASSUME LoggedIn, ClientsKept, SessionsPassedOn, revokedLogins' = revokedLogins
    PROVE  LoggedIn' /\ SessionsPassedOn
    BY DEF LoggedIn, LoginsEnforced, ClientsLoggedIn, ClientsKept, SessionsPassedOn, ConnectedClient

LEMMA QuietLoggedIn ==
    ASSUME LoggedIn, ClientsKept, NoNewSession, revokedLogins' = revokedLogins
    PROVE  LoggedIn' /\ SessionsPassedOn
    BY PassedOnLoggedIn DEF NoNewSession, SessionsPassedOn

LEMMA DisconnectedClients ==
    ASSUME NEW S, NEW closed, disconnectClients(S, closed)
    PROVE  \A c \in Clients : clientConn'[c] \in {"auth", "up"} =>
              clientConn[c] \in {"auth", "up"} /\ c \notin S
<1> DEFINE lost == {c \in S : clientConn[c] \in {"auth", "up"}}
<1>1. clientConn' = [c \in Clients |-> IF c \in lost THEN "down" ELSE clientConn[c]]
  BY DEF disconnectClients
<1>. QED
  BY <1>1

LEMMA DisconnectLoggedIn ==
    ASSUME Bookkeeping, LoggedIn, NEW S \in SUBSET Clients, disconnectClients(S, {}),
           UNCHANGED <<usedIds, nodeVars, revokedLogins>>
    PROVE  LoggedIn' /\ SessionsPassedOn
<1>1. NoNewSession
  <2>1. {} \in SUBSET SessionIds
    OBVIOUS
  <2>. QED
    BY <2>1, DisconnectKept
<1>. QED
  BY <1>1, DisconnectedClients, QuietLoggedIn DEF ClientsKept

LEMMA NodeStepLoggedIn ==
    ASSUME Bookkeeping, LoggedIn, NEW ns \in NodeSockets, NodeStep(ns)
    PROVE  LoggedIn' /\ SessionsPassedOn
<1>0. SessionMap /\ OtherTypes
  BY BookkeepingParts
<1>1. UNCHANGED <<clientVars, dbVars>>
  BY DEF NodeStep, NodeConnect, NodeRegister, NodeRegistered, NodeDisconnectUnregistered,
         NodeDisconnect, NodeAnswer, NodeClose, NodeConnected, NodeSessions
<1>2. ClientsKept /\ revokedLogins' = revokedLogins
  BY <1>1 DEF ClientsKept, clientVars, dbVars
<1>3. ASSUME NodeConnect(ns) \/ NodeRegister(ns) \/ NodeRegistered(ns) \/ NodeDisconnectUnregistered(ns)
      PROVE  NoNewSession
  BY <1>3, <1>0, UnchangedSessions
  DEF NodeConnect, NodeRegister, NodeRegistered, NodeDisconnectUnregistered
<1>4. ASSUME NEW sid \in SessionIds, NodeAnswer(ns, sid) \/ NodeConnected(ns, sid)
      PROVE  NoNewSession
  <2>1. Live(sid) /\ sessions[sid] \in Session
    BY <1>4, <1>0, LiveSessions DEF NodeAnswer, NodeConnected, fromNode, SessionMap
  <2>. QED
    BY <1>4, <1>0, <2>1, UpdateSession DEF NodeAnswer, NodeConnected, Session, Negotiating
<1>5. ASSUME NEW sid \in SessionIds, NodeClose(ns, sid)
      PROVE  NoNewSession
  BY <1>5, <1>0, ForgetSession DEF NodeClose
<1>6. ASSUME NEW announced \in SUBSET usedIds, NodeSessions(ns, announced)
      PROVE  SessionsPassedOn
  BY <1>6, NodeSessionsBookkeeping DEF SessionsPassedOn
<1>. QED
  BY <1>2, <1>3, <1>4, <1>5, <1>6, NodeDisconnectBookkeeping, QuietLoggedIn, PassedOnLoggedIn
  DEF NodeStep

LEMMA ClientStepLoggedIn ==
    ASSUME Bookkeeping, LoggedIn, NEW c \in Clients, ClientStep(c)
    PROVE  LoggedIn' /\ SessionsPassedOn
<1>0. SessionMap /\ OtherTypes
  BY BookkeepingParts
<1>1. revokedLogins' = revokedLogins
  BY DEF ClientStep, ClientAuth, ClientConnect, ClientDisconnect, SessionRequest, ClientOffer,
         ClientClose, ClientResume, ClientOfferResume, dbVars
<1>2. ASSUME ClientAuth(c) \/ ClientConnect(c)
      PROVE  LoggedIn' /\ SessionsPassedOn
  <2>1. NoNewSession
    BY <1>0, <1>2, UnchangedSessions DEF ClientAuth, ClientConnect
  <2>2. LoginsEnforced'
    BY <1>1, <2>1 DEF LoggedIn, LoginsEnforced, NoNewSession
  <2>3. ClientsLoggedIn'
    BY <1>0, <1>1, <1>2 DEF LoggedIn, ClientsLoggedIn, ClientAuth, ClientConnect, OtherTypes
  <2>. QED
    BY <2>1, <2>2, <2>3 DEF LoggedIn, NoNewSession, SessionsPassedOn
<1>3. ASSUME ClientDisconnect(c)
      PROVE  LoggedIn' /\ SessionsPassedOn
  BY <1>3, DisconnectLoggedIn DEF ClientDisconnect, dbVars
<1>4. ASSUME NEW r \in Slots, SessionRequest(c, r)
      PROVE  ClientsKept /\ NoNewSession
  BY <1>0, <1>4, UnchangedSessions DEF SessionRequest, ClientsKept, clientVars
<1>5. ASSUME NEW sid \in SessionIds, ClientOffer(c, sid)
      PROVE  ClientsKept /\ NoNewSession
  <2>1. Live(sid) /\ sessions[sid] \in Session
    BY <1>5, <1>0, LiveSessions DEF ClientOffer, fromClient, SessionMap
  <2>2. NoNewSession
    BY <1>5, <1>0, <2>1, UpdateSession DEF ClientOffer, Session, Negotiating
  <2>. QED
    BY <1>5, <2>2 DEF ClientOffer, ClientsKept, clientVars
<1>6. ASSUME NEW sid \in SessionIds, ClientClose(c, sid)
      PROVE  ClientsKept /\ NoNewSession
  BY <1>6, <1>0, ForgetSession DEF ClientClose, ClientsKept, clientVars
<1>7. ASSUME NEW sid \in SessionIds, ClientResume(c, sid)
      PROVE  ClientsKept /\ SessionsPassedOn
  BY <1>7, ClientResumeBookkeeping
  DEF ClientResume, ClientsKept, SessionsPassedOn, ConnectedClient, clientVars
<1>8. ASSUME NEW sid \in usedIds, ClientOfferResume(c, sid)
      PROVE  ClientsKept /\ SessionsPassedOn
  BY <1>8, ClientOfferResumeBookkeeping
  DEF ClientOfferResume, ClientsKept, SessionsPassedOn, ConnectedClient, clientVars
<1>. QED
  BY <1>1, <1>2, <1>3, <1>4, <1>5, <1>6, <1>7, <1>8, QuietLoggedIn, PassedOnLoggedIn DEF ClientStep

\* The request that was granted finds its client below the cap and adds one session.
LEMMA GrantedBelowCap ==
    ASSUME Bookkeeping, NEW c \in Clients, NEW r \in Slots, NEW sid \in SessionIds,
           SessionRequestGranted(c, r, sid)
    PROVE  Cardinality(sessionsByClient'[c]) <= MaxSessions
<1> DEFINE owned == sessionsByClient[c]
<1>1. IsFiniteSet(owned) /\ Cardinality(owned) \in Nat /\ Cardinality(owned) < MaxSessions
  <2>1. owned \subseteq SessionIds
    BY DEF Bookkeeping, TypeOK
  <2>2. IsFiniteSet(owned)
    BY <2>1, IdsAssumption, FS_Subset
  <2>. QED
    BY <2>2, FS_CardinalityType DEF SessionRequestGranted, stillWelcome, belowCap
<1>2. sessionsByClient'[c] \subseteq owned \cup {sid}
  <2>1. /\ owned = {k \in SessionIds : Live(k) /\ sessions[k].client = c}
        /\ sessionsByClient'[c] = {k \in SessionIds : Live(k)' /\ sessions'[k].client = c}
    BY SessionRequestGrantedBookkeeping DEF Bookkeeping, IndexesExact
  <2>. QED
    BY <2>1, SessionRequestGrantedBookkeeping
<1> HIDE DEF owned
<1>3. /\ IsFiniteSet(owned \cup {sid})
      /\ Cardinality(owned \cup {sid}) \in Nat
      /\ Cardinality(owned \cup {sid}) <= Cardinality(owned) + 1
  <2>1. /\ IsFiniteSet(owned \cup {sid})
        /\ Cardinality(owned \cup {sid}) = IF sid \in owned THEN Cardinality(owned)
                                                            ELSE Cardinality(owned) + 1
    BY <1>1, FS_AddElement
  <2>2. Cardinality(owned \cup {sid}) \in Nat
    BY <2>1, FS_CardinalityType
  <2>. QED
    BY <1>1, <2>1, <2>2
<1>4. /\ Cardinality(sessionsByClient'[c]) \in Nat
      /\ Cardinality(sessionsByClient'[c]) <= Cardinality(owned \cup {sid})
  BY <1>2, <1>3, FS_Subset, FS_CardinalityType
<1>. QED
  BY <1>1, <1>3, <1>4, BoundsAssumption

LEMMA RequestStepLoggedIn ==
    ASSUME Bookkeeping, LoggedIn, NEW c \in Clients, NEW r \in Slots, RequestStep(c, r)
    PROVE  LoggedIn' /\ SessionsPassedOn
<1>0. SessionMap
  BY BookkeepingParts
<1>1. revokedLogins' = revokedLogins
  BY DEF RequestStep, SessionRequestRead, SessionRequestError, SessionRequestDenied,
         SessionRequestDropped, SessionRequestGranted, dbVars
<1>2. ASSUME SessionRequestRead(c, r) \/ SessionRequestError(c, r) \/ SessionRequestDropped(c, r)
      PROVE  ClientsKept /\ NoNewSession
  BY <1>0, <1>2, UnchangedSessions
  DEF SessionRequestRead, SessionRequestError, SessionRequestDropped, ClientsKept, clientVars
<1>3. ASSUME SessionRequestDenied(c, r)
      PROVE  LoggedIn' /\ SessionsPassedOn
  BY <1>3, DisconnectLoggedIn DEF SessionRequestDenied, sameTransport, dbVars
<1>4. ASSUME NEW sid \in SessionIds, SessionRequestGranted(c, r, sid)
      PROVE  ClientsKept /\ SessionsPassedOn
  <2>1. ConnectedClient(c) /\ ClientsKept
    BY <1>4 DEF SessionRequestGranted, stillWelcome, ConnectedClient, ClientsKept, clientVars
  <2>2. Cardinality(sessionsByClient'[c]) <= MaxSessions
    BY <1>4, GrantedBelowCap
  <2>. QED
    BY <1>4, <2>1, <2>2, SessionRequestGrantedBookkeeping DEF SessionsPassedOn
<1>. QED
  BY <1>1, <1>2, <1>3, <1>4, QuietLoggedIn, PassedOnLoggedIn DEF RequestStep

LEMMA TimerRecheckLoggedIn ==
    ASSUME Bookkeeping, LoggedIn,
           \/ \E sid \in SessionIds : TimerStep(sid)
           \/ \E k \in rechecks : RecheckStep(k)
    PROVE  LoggedIn' /\ SessionsPassedOn
<1>0. SessionMap /\ OtherTypes
  BY BookkeepingParts
<1>1. ClientsKept /\ revokedLogins' = revokedLogins
  BY DEF TimerStep, NegotiationTimeout, OrphanTimeout, ResumeTimeout, RecheckStep, RecheckRead,
         RecheckError, RecheckDenied, ClientsKept, clientVars, dbVars
<1>2. ASSUME NEW sid \in SessionIds, NegotiationTimeout(sid)
      PROVE  NoNewSession
  <2>1. Live(sid) /\ sessions[sid] \in Session
    BY <1>2, <1>0, LiveSessions DEF NegotiationTimeout, SessionMap
  <2>2. CASE sessions[sid].state # "CONNECTED"
    BY <1>2, <1>0, <2>1, <2>2, ForgetSession DEF NegotiationTimeout
  <2>3. CASE sessions[sid].state = "CONNECTED"
    BY <1>2, <1>0, <2>1, <2>3, UpdateSession DEF NegotiationTimeout, Session
  <2>. QED
    BY <2>2, <2>3
<1>3. ASSUME NEW sid \in SessionIds, OrphanTimeout(sid) \/ ResumeTimeout(sid)
      PROVE  NoNewSession
  BY <1>0, <1>3, ForgetSession, UnchangedSessions DEF OrphanTimeout, ResumeTimeout
<1>4. ASSUME NEW k \in rechecks, RecheckStep(k)
      PROVE  NoNewSession
  <2>1. k.sid \in SessionIds
    BY <1>0 DEF OtherTypes, Recheck
  <2>. QED
    BY <1>0, <1>4, <2>1, ForgetSession, UnchangedSessions
    DEF RecheckStep, RecheckRead, RecheckError, RecheckDenied
<1>. QED
  BY <1>1, <1>2, <1>3, <1>4, QuietLoggedIn DEF TimerStep

\* The teardown of a login leaves it no socket and no session.
LEMMA AccessLoggedIn ==
    ASSUME Bookkeeping, LoggedIn,
           AccessStep \/ \E v \in revocations : RevocationStep(v)
    PROVE  LoggedIn' /\ SessionsPassedOn
<1>0. SessionMap /\ OtherTypes
  BY BookkeepingParts
<1>1. ASSUME NEW u \in Users, NEW n \in Nodes,
             GrantAccess(u, n) \/ \E phase \in {"reread", "due"} : RevokeAccess(u, n, phase)
      PROVE  LoggedIn' /\ SessionsPassedOn
  <2>1. NoNewSession /\ ClientsKept /\ revokedLogins' = revokedLogins
    BY <1>0, <1>1, UnchangedSessions DEF GrantAccess, RevokeAccess, ClientsKept, clientVars
  <2>. QED
    BY <2>1, QuietLoggedIn
<1>2. ASSUME NEW v \in revocations, RevokeStaleRead(v)
      PROVE  LoggedIn' /\ SessionsPassedOn
  <2>1. NoNewSession /\ ClientsKept /\ revokedLogins' = revokedLogins
    BY <1>0, <1>2, UnchangedSessions DEF RevokeStaleRead, ClientsKept, clientVars
  <2>. QED
    BY <2>1, QuietLoggedIn
<1>3. ASSUME NEW v \in revocations, CloseNodeSessionsForUser(v)
      PROVE  LoggedIn' /\ SessionsPassedOn
  <2> DEFINE S == sameTransport(signalSocketsOf(v.user, v.node))
             closed == {sid \in sessionsByUserId[v.user] : sessions[sid].node = v.node}
  <2>1. /\ disconnectClients(S, closed) /\ S \in SUBSET Clients /\ closed \in SUBSET SessionIds
        /\ UNCHANGED <<usedIds, nodeVars, revokedLogins>>
    BY <1>0, <1>3 DEF CloseNodeSessionsForUser, sameTransport, SessionMap, SessionTypes,
                      OtherTypes, Revocation
  <2> HIDE DEF S, closed
  <2>2. NoNewSession /\ ClientsKept
    BY <2>1, DisconnectKept, DisconnectedClients DEF ClientsKept
  <2>. QED
    BY <2>1, <2>2, QuietLoggedIn
<1>4. ASSUME NEW l \in Logins, RevokeLogin(l)
      PROVE  LoggedIn' /\ SessionsPassedOn
  <2> DEFINE S == sameTransport({d \in Clients : LoginOf[d] = l /\ clientConn[d] \in {"auth", "up"}})
             closed == {sid \in SessionIds : Live(sid) /\ LoginOf[sessions[sid].client] = l}
  <2>1. /\ disconnectClients(S, closed) /\ S \in SUBSET Clients /\ closed \in SUBSET SessionIds
        /\ UNCHANGED <<usedIds, nodeVars>> /\ revokedLogins' = revokedLogins \cup {l}
    BY <1>4 DEF RevokeLogin, sameTransport
  <2>2. \A c \in Clients : clientConn[c] \in {"auth", "up"} /\ LoginOf[c] = l => c \in S
    BY DEF sameTransport
  <2>3. \A sid \in SessionIds : Live(sid) /\ LoginOf[sessions[sid].client] = l => sid \in closed
    OBVIOUS
  <2> HIDE DEF S, closed
  <2>4. /\ NoNewSession
        /\ \A sid \in closed : ~Live(sid)'
    BY <2>1, DisconnectKept
  <2>5. LoginsEnforced'
    BY <2>1, <2>3, <2>4 DEF NoNewSession, LoggedIn, LoginsEnforced
  <2>6. ClientsLoggedIn'
    BY <2>1, <2>2, DisconnectedClients DEF LoggedIn, ClientsLoggedIn
  <2>. QED
    BY <2>4, <2>5, <2>6 DEF LoggedIn, NoNewSession, SessionsPassedOn
<1>. QED
  BY <1>1, <1>2, <1>3, <1>4 DEF AccessStep, RevocationStep

LEMMA NextLoggedIn ==
    ASSUME Bookkeeping, LoggedIn, [Next]_vars
    PROVE  LoggedIn' /\ SessionsPassedOn
<1>1. CASE Restart
  <2>1. /\ \A sid \in SessionIds : ~Live(sid)'
        /\ ClientsKept /\ revokedLogins' = revokedLogins
    BY <1>1, BookkeepingParts DEF Restart, Live, NoSession, ClientsKept, OtherTypes
  <2>. QED
    BY <2>1, QuietLoggedIn DEF NoNewSession
<1>2. CASE UNCHANGED vars
  <2>1. NoNewSession /\ ClientsKept /\ revokedLogins' = revokedLogins
    BY <1>2, BookkeepingSessionMap, UnchangedSessions DEF vars, ClientsKept, clientVars, dbVars
  <2>. QED
    BY <2>1, QuietLoggedIn
<1>. QED
  BY <1>1, <1>2, NodeStepLoggedIn, ClientStepLoggedIn, RequestStepLoggedIn, TimerRecheckLoggedIn,
     AccessLoggedIn
  DEF Next

\* A revoked fleet session owns no session with a node: neither one that it had, nor one
\* that a request, a resume or an announcement in flight at that time opens for it later.
THEOREM LoginsAreEnforced == Spec => []LoginsEnforced
<1>1. Init => LoggedIn
  BY DEF Init, LoggedIn, LoginsEnforced, ClientsLoggedIn, Live, NoSession
<1>2. Bookkeeping /\ LoggedIn /\ [Next]_vars => LoggedIn' /\ SessionsPassedOn
  BY NextLoggedIn
<1>3. LoggedIn => LoginsEnforced
  BY DEF LoggedIn
<1>. QED
  BY <1>1, <1>2, <1>3, InvariantBookkeeping, PTL DEF Spec

\* A request leaves its client with at most MaxSessions sessions, whatever other
\* requests of the client were in flight with it.
THEOREM CapIsHeld == Spec => CapHeld
<1>1. ASSUME Bookkeeping, LoggedIn, [Next]_vars
      PROVE  [\A c \in Clients : \A sid \in sessionsByClient'[c] \ sessionsByClient[c] :
                sessions'[sid].state # "CONNECTED"
                  => Cardinality(sessionsByClient'[c]) <= MaxSessions]_vars
  <2>1. SessionsPassedOn /\ Bookkeeping'
    BY <1>1, NextLoggedIn, NextBookkeeping
  <2> SUFFICES ASSUME NEW c \in Clients, NEW sid \in sessionsByClient'[c] \ sessionsByClient[c],
                      sessions'[sid].state # "CONNECTED"
               PROVE  Cardinality(sessionsByClient'[c]) <= MaxSessions
    OBVIOUS
  <2>2. /\ sid \in SessionIds /\ Live(sid)' /\ sessions'[sid].client = c
        /\ ~(Live(sid) /\ sessions[sid].client = c)
    BY <1>1, <2>1 DEF Bookkeeping, IndexesExact
  <2>. QED
    BY <2>1, <2>2 DEF SessionsPassedOn
<1>2. Init => LoggedIn
  BY DEF Init, LoggedIn, LoginsEnforced, ClientsLoggedIn, Live, NoSession
<1>3. Bookkeeping /\ LoggedIn /\ [Next]_vars => LoggedIn'
  BY NextLoggedIn
<1>. QED
  BY <1>1, <1>2, <1>3, InvariantBookkeeping, PTL DEF Spec, CapHeld

=============================================================================
