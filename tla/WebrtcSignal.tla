---------------------------- MODULE WebrtcSignal ----------------------------
(***************************************************************************)
(* The WebRTC signalling component of virgo-fleet (utils/webrtc_signal.js). *)
(*                                                                         *)
(* A browser asks, over its signalling socket, for a session with a node;  *)
(* the fleet relays the negotiation over the node's control socket and     *)
(* keeps the session's bookkeeping.  Handlers run to completion between    *)
(* two awaits, so an action is the code between two awaits; what a handler *)
(* has read from the database before an await is kept in `requests`,       *)
(* `rechecks` and `revocations` until it is used.                          *)
(*                                                                         *)
(* A message relayed to an end (SDP, ICE candidates, webrtc:close) leaves  *)
(* no trace in the fleet's state and is left out, and so is a handler that *)
(* returns early without changing anything.                                *)
(***************************************************************************)
EXTENDS Integers, FiniteSets

CONSTANTS
    Nodes, Users, Logins,   \* node ids, user ids, fleet (cookie) session ids
    NodeSockets, Clients,   \* control sockets and signalling sockets, used once each
    SessionIds,             \* the ids randomUUID can return
    Slots,                  \* concurrent session requests of one client
    MaxSessions,            \* MAX_SESSIONS_PER_SOCKET
    NodeOf,                 \* the node at the other end of a control socket
    Registering,            \* control sockets without a secret: they send node:register
    TargetOf, UserOf, LoginOf, ConnOf,
                            \* a client's node, user, fleet session and transport
    MaxRevocations,         \* bound: access changes awaiting their teardown at once
    DbFails,                \* whether a database read may throw
    None                    \* null

ASSUME BoundsAssumption == MaxSessions \in Nat \ {0} /\ MaxRevocations \in Nat
\* randomUUID returns one of 2^122 ids.
ASSUME IdsAssumption == IsFiniteSet(SessionIds)
ASSUME SocketsAssumption ==
    /\ NodeOf \in [NodeSockets -> Nodes]
    /\ Registering \subseteq NodeSockets
    /\ TargetOf \in [Clients -> Nodes]
    /\ UserOf \in [Clients -> Users]
    /\ LoginOf \in [Clients -> Logins]
    /\ DbFails \in BOOLEAN
\* One transport has one cookie, and a fleet session has one user.
ASSUME CookieAssumption ==
    \A c, d \in Clients : /\ ConnOf[c] = ConnOf[d] => LoginOf[c] = LoginOf[d]
                          /\ LoginOf[c] = LoginOf[d] => UserOf[c] = UserOf[d]
ASSUME NoneAssumption ==
    /\ None \notin Nodes
    /\ None \notin Users
    /\ None \notin NodeSockets
    /\ None \notin Clients
    /\ NodeSockets \cap Clients = {}

VARIABLES
    sessions,               \* sessionId -> session record; CLOSED when not in the map
    sessionsByNodeId, sessionsByUserId, sessionsByClient,
    signalSocketsByNodeId,
    pendingResumes,         \* sessionId -> the halves of a resume, its timer armed
    usedIds,                \* the ids minted so far, which both ends may still hold
    nodeSocketsByNodeId,    \* the node registry (modules/node/index.js)
    nodeConn,               \* state of each control socket
    registering,            \* node:register handlers between two awaits
    clientConn,             \* state of each signalling socket
    requests,               \* handleSessionRequest calls in flight
    rechecks,               \* recheckSessionAccess calls in flight
    access,                 \* (user, node) pairs the database grants
    revocations,            \* access changes committed, teardown still to come
    revokedLogins           \* fleet sessions that were revoked

indexVars   == <<sessionsByNodeId, sessionsByUserId, sessionsByClient>>
sessionVars == <<sessions, indexVars>>
nodeVars    == <<nodeSocketsByNodeId, nodeConn, registering>>
clientVars  == <<clientConn, signalSocketsByNodeId>>
dbVars      == <<access, revocations, revokedLogins>>
vars == <<sessionVars, clientVars, pendingResumes, usedIds, nodeVars,
          requests, rechecks, dbVars>>

\* SESSION_STATE, less REQUESTED and CLOSING which no other handler ever sees.
Negotiating == {"OPEN_SENT", "OFFER_RECEIVED", "ANSWERED"}

Session == [client : Clients, nodeSocket : NodeSockets, node : Nodes, user : Users,
            state : Negotiating \cup {"CONNECTED"},
            negotiationTimer : BOOLEAN, orphanTimer : BOOLEAN]
NoSession == [client |-> None, nodeSocket |-> None, node |-> None, user |-> None,
              state |-> "CLOSED", negotiationTimer |-> FALSE, orphanTimer |-> FALSE]

PendingResume == [node : Nodes, nodeSocket : NodeSockets \cup {None},
                  client : Clients \cup {None}]
NoResume == [node |-> None, nodeSocket |-> None, client |-> None]

RequestState == {"idle", "reading", "allowed", "denied"}
Recheck    == [sid : SessionIds, user : Users, node : Nodes, phase : {"reading", "denied"}]
Revocation == [user : Users, node : Nodes, phase : {"reread", "due"}]

Live(sid)    == sessions[sid].state # "CLOSED"
Pending(sid) == pendingResumes[sid].node # None

Init ==
    /\ sessions = [sid \in SessionIds |-> NoSession]
    /\ sessionsByNodeId = [n \in Nodes |-> {}]
    /\ sessionsByUserId = [u \in Users |-> {}]
    /\ sessionsByClient = [c \in Clients |-> {}]
    /\ signalSocketsByNodeId = [n \in Nodes |-> {}]
    /\ pendingResumes = [sid \in SessionIds |-> NoResume]
    /\ usedIds = {}
    /\ nodeSocketsByNodeId = [n \in Nodes |-> None]
    /\ nodeConn = [ns \in NodeSockets |-> "new"]
    /\ registering = {}
    /\ clientConn = [c \in Clients |-> "new"]
    /\ requests = [c \in Clients |-> [r \in Slots |-> "idle"]]
    /\ rechecks = {}
    /\ access \in SUBSET (Users \X Nodes)
    /\ revocations = {}
    /\ revokedLogins = {}

-----------------------------------------------------------------------------
(* The session map and its reverse indexes.  A handler that drops or adds a *)
(* set of sessions does so one by one; each touches its own entries only,   *)
(* so the whole set is done at once.                                        *)

indexRemove(index, keyOf, sids) ==
    [k \in DOMAIN index |-> {sid \in index[k] : ~(sid \in sids /\ keyOf[sid] = k)}]

indexAdd(index, keyOf, sids) ==
    [k \in DOMAIN index |-> index[k] \cup {sid \in sids : keyOf[sid] = k}]

\* forgetSession of the ids in `gone`; `next` gives the records of the others,
\* of which those in `added` are new in the map.
storeSessions(gone, added, next) ==
    LET nodeOf(s)   == [sid \in SessionIds |-> s[sid].node]
        userOf(s)   == [sid \in SessionIds |-> s[sid].user]
        clientOf(s) == [sid \in SessionIds |-> s[sid].client]
    IN  /\ sessions' = [sid \in SessionIds |-> IF sid \in gone THEN NoSession ELSE next[sid]]
        /\ sessionsByNodeId' = indexAdd(indexRemove(sessionsByNodeId, nodeOf(sessions), gone),
                                        nodeOf(next), added)
        /\ sessionsByUserId' = indexAdd(indexRemove(sessionsByUserId, userOf(sessions), gone),
                                        userOf(next), added)
        /\ sessionsByClient' = indexAdd(indexRemove(sessionsByClient, clientOf(sessions), gone),
                                        clientOf(next), added)

forgetSession(sid) == storeSessions({sid}, {}, sessions)

setSession(sid, session) == storeSessions({}, {sid}, [sessions EXCEPT ![sid] = session])

\* Replaces the record of a session that stays in the map under the same keys.
updateSession(sid, session) ==
    /\ sessions' = [sessions EXCEPT ![sid] = session]
    /\ UNCHANGED indexVars

-----------------------------------------------------------------------------
(* Orphans and resumes.                                                     *)

nodeSocketUp(n, conn) == nodeSocketsByNodeId[n] # None /\ conn[nodeSocketsByNodeId[n]] = "up"

nodeOnline(session, conn) ==
    conn[session.nodeSocket] = "up" \/ nodeSocketUp(session.node, conn)

\* Mutant: one live end is enough to disarm the timer.
refreshOrphanStateEither(session, nConn, cConn) ==
    [session EXCEPT !.orphanTimer = ~(nodeOnline(session, nConn) \/ cConn[session.client] = "up")]

refreshOrphanState(session, nConn, cConn) ==
    [session EXCEPT !.orphanTimer = ~(nodeOnline(session, nConn) /\ cConn[session.client] = "up")]

adopted(n, ns, c) ==
    [client |-> c, nodeSocket |-> ns, node |-> n, user |-> UserOf[c],
     state |-> "CONNECTED", negotiationTimer |-> FALSE, orphanTimer |-> FALSE]

recheckOf(sid, session) ==
    [sid |-> sid, user |-> session.user, node |-> session.node, phase |-> "reading"]

\* The pending resume after offerResume stored a half, before it is tested for
\* completeness: a resume that waits for another node is replaced.
offerNodeHalf(sid, n, ns) ==
    [node |-> n, nodeSocket |-> ns,
     client |-> IF pendingResumes[sid].node = n THEN pendingResumes[sid].client ELSE None]

offerClientHalf(sid, n, c) ==
    [node |-> n, client |-> c,
     nodeSocket |-> IF pendingResumes[sid].node = n THEN pendingResumes[sid].nodeSocket ELSE None]

complete(resume) == resume.nodeSocket # None /\ resume.client # None

\* Mutant: a lost control socket stays in the resume.
withoutSocketsNodeKept(resume, lost) == IF resume.client \in lost THEN NoResume ELSE resume

\* The resume left when the sockets in `lost` disconnect: dropped with its last half.
withoutSockets(resume, lost) ==
    LET ns == IF resume.nodeSocket \in lost THEN None ELSE resume.nodeSocket
        c  == IF resume.client \in lost THEN None ELSE resume.client
    IN  IF ns = None /\ c = None THEN NoResume
        ELSE [node |-> resume.node, nodeSocket |-> ns, client |-> c]

\* The disconnect handlers of the clients in S that are still connected, after
\* the sessions in `closed` were closed.  disconnect(true) closes the transport,
\* so S holds every socket that shares it.
disconnectClients(S, closed) ==
    LET lost == {c \in S : clientConn[c] \in {"auth", "up"}}
        cConn == [c \in Clients |-> IF c \in lost THEN "down" ELSE clientConn[c]]
        theirs == UNION {sessionsByClient[c] : c \in lost} \ closed
        gone == {sid \in theirs : sessions[sid].state # "CONNECTED"}
    IN  /\ clientConn' = cConn
        /\ signalSocketsByNodeId' = [n \in Nodes |-> signalSocketsByNodeId[n] \ lost]
        /\ storeSessions(closed \cup gone, {},
                         [sid \in SessionIds |-> IF sid \in theirs
                                                 THEN refreshOrphanState(sessions[sid], nodeConn, cConn)
                                                 ELSE sessions[sid]])
        /\ pendingResumes' = [sid \in SessionIds |-> withoutSockets(pendingResumes[sid], lost)]

sameTransport(S) == {d \in Clients : \E c \in S : ConnOf[d] = ConnOf[c]}

-----------------------------------------------------------------------------
(* Control sockets of the nodes.                                            *)

\* A node authenticates with its secret: setNodeSocket replaces any older socket.
NodeConnect(ns) ==
    /\ nodeConn[ns] = "new" /\ ns \notin Registering
    /\ nodeConn' = [nodeConn EXCEPT ![ns] = "up"]
    /\ nodeSocketsByNodeId' = [nodeSocketsByNodeId EXCEPT ![NodeOf[ns]] = ns]
    /\ UNCHANGED <<sessionVars, clientVars, pendingResumes, usedIds, registering,
                   requests, rechecks, dbVars>>

\* A node without a secret connects and sends node:register, which awaits the database.
NodeRegister(ns) ==
    /\ nodeConn[ns] = "new" /\ ns \in Registering
    /\ nodeConn' = [nodeConn EXCEPT ![ns] = "up"]
    /\ registering' = registering \cup {ns}
    /\ UNCHANGED <<sessionVars, clientVars, pendingResumes, usedIds, nodeSocketsByNodeId,
                   requests, rechecks, dbVars>>

\* node:register resumes and stores its socket, whether or not it is still connected.
NodeRegistered(ns) ==
    /\ ns \in registering
    /\ registering' = registering \ {ns}
    /\ nodeSocketsByNodeId' = [nodeSocketsByNodeId EXCEPT ![NodeOf[ns]] = ns]
    /\ UNCHANGED <<sessionVars, clientVars, pendingResumes, usedIds, nodeConn,
                   requests, rechecks, dbVars>>

\* A socket whose data.nodeId is not set yet leaves nothing to clean up.
NodeDisconnectUnregistered(ns) ==
    /\ nodeConn[ns] = "up" /\ ns \in registering
    /\ nodeConn' = [nodeConn EXCEPT ![ns] = "down"]
    /\ UNCHANGED <<sessionVars, clientVars, pendingResumes, usedIds, nodeSocketsByNodeId,
                   registering, requests, rechecks, dbVars>>

\* data.nodeId is set and the listeners of setNodeSocket are attached.
attached(ns) == nodeConn[ns] = "up" /\ ns \notin registering

\* The sessions closeNodeWebrtcSessions acts on: the others of this node are skipped.
sessionsOnSocket(n, ns) == {sid \in sessionsByNodeId[n] : sessions[sid].nodeSocket = ns}

\* The disconnect handler of a registered control socket, closeNodeWebrtcSessions included.
NodeDisconnect(ns) ==
    LET n == NodeOf[ns]
        nConn == [nodeConn EXCEPT ![ns] = "down"]
        its == sessionsOnSocket(n, ns)
        gone == {sid \in its : sessions[sid].state # "CONNECTED"}
    IN  /\ attached(ns)
        /\ nodeConn' = nConn
        /\ storeSessions(gone, {},
                         [sid \in SessionIds |-> IF sid \in its
                                                 THEN refreshOrphanState(sessions[sid], nConn, clientConn)
                                                 ELSE sessions[sid]])
        /\ pendingResumes' = [sid \in SessionIds |-> withoutSockets(pendingResumes[sid], {ns})]
        /\ nodeSocketsByNodeId' = [nodeSocketsByNodeId EXCEPT
                                       ![n] = IF nodeSocketsByNodeId[n] = ns THEN None ELSE @]
        /\ UNCHANGED <<clientVars, usedIds, registering, requests, rechecks, dbVars>>

\* The node's listeners are attached to ns, and the session is one of this node's.
fromNode(ns, sid) ==
    /\ attached(ns)
    /\ Live(sid) /\ sessions[sid].node = NodeOf[ns]

\* webrtc:answer
NodeAnswer(ns, sid) ==
    /\ fromNode(ns, sid)
    /\ sessions[sid].state = "OFFER_RECEIVED"
    /\ updateSession(sid, [sessions[sid] EXCEPT !.state = "ANSWERED"])
    /\ UNCHANGED <<clientVars, pendingResumes, usedIds, nodeVars, requests, rechecks, dbVars>>

\* webrtc:close and webrtc:error
NodeClose(ns, sid) ==
    /\ fromNode(ns, sid)
    /\ forgetSession(sid)
    /\ UNCHANGED <<clientVars, pendingResumes, usedIds, nodeVars, requests, rechecks, dbVars>>

\* webrtc:connected, accepted in every state of a live session
NodeConnected(ns, sid) ==
    /\ fromNode(ns, sid)
    /\ updateSession(sid, [sessions[sid] EXCEPT !.state = "CONNECTED", !.negotiationTimer = FALSE])
    /\ UNCHANGED <<clientVars, pendingResumes, usedIds, nodeVars, requests, rechecks, dbVars>>

\* webrtc:sessions: the node lists the channels it holds.  The unknown ones wait for
\* their client or are adopted, its own are bound to this socket and their access is
\* read again, and the established ones it does not list are closed.
NodeSessions(ns, announced) ==
    LET n == NodeOf[ns]
        unknown == {sid \in announced : ~Live(sid)}
        own == {sid \in announced : Live(sid) /\ sessions[sid].node = n}
        adopt == {sid \in unknown : complete(offerNodeHalf(sid, n, ns))}
        next == [sid \in SessionIds |->
                   IF sid \in adopt THEN adopted(n, ns, pendingResumes[sid].client)
                   ELSE IF sid \in own
                   THEN refreshOrphanState([sessions[sid] EXCEPT !.nodeSocket = ns], nodeConn, clientConn)
                   ELSE sessions[sid]]
        gone == {sid \in sessionsByNodeId[n] \ announced : sessions[sid].state = "CONNECTED"}
    IN  /\ attached(ns)
        /\ storeSessions(gone, adopt, next)
        /\ pendingResumes' = [sid \in SessionIds |->
                                IF sid \in adopt THEN NoResume
                                ELSE IF sid \in unknown THEN offerNodeHalf(sid, n, ns)
                                ELSE pendingResumes[sid]]
        /\ rechecks' = rechecks \cup {recheckOf(sid, next[sid]) : sid \in adopt \cup own}
        /\ UNCHANGED <<clientVars, usedIds, nodeVars, requests, dbVars>>

-----------------------------------------------------------------------------
(* Signalling sockets of the browsers.                                      *)

\* fleetNamespaceMiddleware: the cookie's session is valid and the access read succeeds.
ClientAuth(c) ==
    /\ clientConn[c] = "new"
    /\ LoginOf[c] \notin revokedLogins
    /\ <<UserOf[c], TargetOf[c]>> \in access
    /\ clientConn' = [clientConn EXCEPT ![c] = "auth"]
    /\ UNCHANGED <<sessionVars, signalSocketsByNodeId, pendingResumes, usedIds, nodeVars,
                   requests, rechecks, dbVars>>

\* The connection handler runs after the middleware's last await.
ClientConnect(c) ==
    /\ clientConn[c] = "auth"
    /\ clientConn' = [clientConn EXCEPT ![c] = "up"]
    /\ signalSocketsByNodeId' = [signalSocketsByNodeId EXCEPT ![TargetOf[c]] = @ \cup {c}]
    /\ UNCHANGED <<sessionVars, pendingResumes, usedIds, nodeVars, requests, rechecks, dbVars>>

ClientDisconnect(c) ==
    /\ clientConn[c] \in {"auth", "up"}
    /\ disconnectClients({c}, {})
    /\ UNCHANGED <<usedIds, nodeVars, requests, rechecks, dbVars>>

belowCap(c) == Cardinality(sessionsByClient[c]) < MaxSessions

\* webrtc:session:request, up to the await in handleSessionRequest
SessionRequest(c, r) ==
    /\ clientConn[c] = "up" /\ requests[c][r] = "idle"
    /\ belowCap(c)
    /\ nodeSocketUp(TargetOf[c], nodeConn)
    /\ requests' = [requests EXCEPT ![c][r] = "reading"]
    /\ UNCHANGED <<sessionVars, clientVars, pendingResumes, usedIds, nodeVars, rechecks, dbVars>>

\* The database answers canUserAccessNode.
SessionRequestRead(c, r) ==
    /\ requests[c][r] = "reading"
    /\ requests' = [requests EXCEPT ![c][r] =
                      IF <<UserOf[c], TargetOf[c]>> \in access THEN "allowed" ELSE "denied"]
    /\ UNCHANGED <<sessionVars, clientVars, pendingResumes, usedIds, nodeVars, rechecks, dbVars>>

\* The read throws: the request is answered with a failure.
SessionRequestError(c, r) ==
    /\ DbFails /\ requests[c][r] = "reading"
    /\ requests' = [requests EXCEPT ![c][r] = "idle"]
    /\ UNCHANGED <<sessionVars, clientVars, pendingResumes, usedIds, nodeVars, rechecks, dbVars>>

\* handleSessionRequest resumes without access: clientSocket.disconnect(true), which
\* does nothing when the socket is already gone.
SessionRequestDenied(c, r) ==
    /\ requests[c][r] = "denied"
    /\ requests' = [requests EXCEPT ![c][r] = "idle"]
    /\ disconnectClients(IF clientConn[c] = "up" THEN sameTransport({c}) ELSE {}, {})
    /\ UNCHANGED <<usedIds, nodeVars, rechecks, dbVars>>

\* Mutants: one of the three tests is not repeated.
stillWelcomeUnconnected(c) == belowCap(c) /\ nodeSocketUp(TargetOf[c], nodeConn)
stillWelcomeUncapped(c) == clientConn[c] = "up" /\ nodeSocketUp(TargetOf[c], nodeConn)
stillWelcomeNodeless(c) == clientConn[c] = "up" /\ belowCap(c)

\* The tests handleSessionRequest repeats after the await.
stillWelcome(c) ==
    /\ clientConn[c] = "up"
    /\ belowCap(c)
    /\ nodeSocketUp(TargetOf[c], nodeConn)

SessionRequestDropped(c, r) ==
    /\ requests[c][r] = "allowed" /\ ~stillWelcome(c)
    /\ requests' = [requests EXCEPT ![c][r] = "idle"]
    /\ UNCHANGED <<sessionVars, clientVars, pendingResumes, usedIds, nodeVars, rechecks, dbVars>>

\* The session is minted, indexed and opened on the node, its negotiation timer armed.
SessionRequestGranted(c, r, sid) ==
    /\ requests[c][r] = "allowed" /\ stillWelcome(c)
    /\ sid \notin usedIds
    /\ requests' = [requests EXCEPT ![c][r] = "idle"]
    /\ usedIds' = usedIds \cup {sid}
    /\ setSession(sid, [client |-> c, nodeSocket |-> nodeSocketsByNodeId[TargetOf[c]],
                        node |-> TargetOf[c], user |-> UserOf[c], state |-> "OPEN_SENT",
                        negotiationTimer |-> TRUE, orphanTimer |-> FALSE])
    /\ UNCHANGED <<clientVars, pendingResumes, nodeVars, rechecks, dbVars>>

fromClient(c, sid) == clientConn[c] = "up" /\ Live(sid) /\ sessions[sid].client = c

\* webrtc:offer
ClientOffer(c, sid) ==
    /\ fromClient(c, sid)
    /\ sessions[sid].state = "OPEN_SENT"
    /\ updateSession(sid, [sessions[sid] EXCEPT !.state = "OFFER_RECEIVED"])
    /\ UNCHANGED <<clientVars, pendingResumes, usedIds, nodeVars, requests, rechecks, dbVars>>

\* webrtc:close
ClientClose(c, sid) ==
    /\ fromClient(c, sid)
    /\ forgetSession(sid)
    /\ UNCHANGED <<clientVars, pendingResumes, usedIds, nodeVars, requests, rechecks, dbVars>>

\* Mutant: the previous client keeps the session in its index.
takeOverTwice(c, sid) ==
    /\ sessions' = [sessions EXCEPT ![sid] =
                      refreshOrphanState([sessions[sid] EXCEPT !.client = c], nodeConn, clientConn)]
    /\ sessionsByClient' = [sessionsByClient EXCEPT ![c] = @ \cup {sid}]
    /\ UNCHANGED <<sessionsByNodeId, sessionsByUserId>>

\* reassignSessionClient and the refresh of a known session
takeOver(c, sid) ==
    LET next == [sessions EXCEPT ![sid].client = c]
        clientOf(s) == [k \in SessionIds |-> s[k].client]
    IN  /\ sessions' = [next EXCEPT ![sid] = refreshOrphanState(@, nodeConn, clientConn)]
        /\ sessionsByClient' = indexAdd(indexRemove(sessionsByClient, clientOf(sessions), {sid}),
                                        clientOf(next), {sid})
        /\ UNCHANGED <<sessionsByNodeId, sessionsByUserId>>

\* Mutant: the user is not compared.
mayTakeOverAnyUser(c, sid) == sessions[sid].node = TargetOf[c] /\ sessions[sid].state = "CONNECTED"

mayTakeOver(c, sid) ==
    /\ sessions[sid].node = TargetOf[c]
    /\ sessions[sid].user = UserOf[c]
    /\ sessions[sid].state = "CONNECTED"

\* webrtc:session:resume of a session the fleet knows
ClientResume(c, sid) ==
    /\ clientConn[c] = "up" /\ Live(sid)
    /\ mayTakeOver(c, sid)
    /\ takeOver(c, sid)
    /\ UNCHANGED <<clientVars, pendingResumes, usedIds, nodeVars, requests, rechecks, dbVars>>

\* webrtc:session:resume of one it does not: the other half is waited for, or it is adopted.
ClientOfferResume(c, sid) ==
    LET resume == offerClientHalf(sid, TargetOf[c], c)
        session == adopted(resume.node, resume.nodeSocket, c)
    IN  /\ clientConn[c] = "up" /\ ~Live(sid)
        /\ IF complete(resume)
           THEN /\ setSession(sid, session)
                /\ rechecks' = rechecks \cup {recheckOf(sid, session)}
                /\ pendingResumes' = [pendingResumes EXCEPT ![sid] = NoResume]
           ELSE /\ pendingResumes' = [pendingResumes EXCEPT ![sid] = resume]
                /\ UNCHANGED <<sessionVars, rechecks>>
        /\ UNCHANGED <<clientVars, usedIds, nodeVars, requests, dbVars>>

-----------------------------------------------------------------------------
(* Timers.                                                                  *)

\* The timer fires, finds the session still negotiating and closes it.
NegotiationTimeout(sid) ==
    /\ sessions[sid].negotiationTimer
    /\ IF Live(sid) /\ sessions[sid].state # "CONNECTED"
       THEN forgetSession(sid)
       ELSE updateSession(sid, [sessions[sid] EXCEPT !.negotiationTimer = FALSE])
    /\ UNCHANGED <<clientVars, pendingResumes, usedIds, nodeVars, requests, rechecks, dbVars>>

OrphanTimeout(sid) ==
    /\ sessions[sid].orphanTimer
    /\ forgetSession(sid)
    /\ UNCHANGED <<clientVars, pendingResumes, usedIds, nodeVars, requests, rechecks, dbVars>>

ResumeTimeout(sid) ==
    /\ Pending(sid)
    /\ pendingResumes' = [pendingResumes EXCEPT ![sid] = NoResume]
    /\ UNCHANGED <<sessionVars, clientVars, usedIds, nodeVars, requests, rechecks, dbVars>>

-----------------------------------------------------------------------------
(* Access: the database, the re-check and the teardown.                     *)

\* recheckSessionAccess: the database answers for the user and node read before the await.
RecheckRead(k) ==
    /\ k \in rechecks /\ k.phase = "reading"
    /\ rechecks' = IF <<k.user, k.node>> \in access
                   THEN rechecks \ {k}
                   ELSE (rechecks \ {k}) \cup {[k EXCEPT !.phase = "denied"]}
    /\ UNCHANGED <<sessionVars, clientVars, pendingResumes, usedIds, nodeVars, requests, dbVars>>

\* The read throws and the error is logged.
RecheckError(k) ==
    /\ DbFails /\ k \in rechecks /\ k.phase = "reading"
    /\ rechecks' = rechecks \ {k}
    /\ UNCHANGED <<sessionVars, clientVars, pendingResumes, usedIds, nodeVars, requests, dbVars>>

\* Mutant: the answer is dropped.
RecheckDeniedIgnored(k) ==
    /\ k \in rechecks /\ k.phase = "denied"
    /\ rechecks' = rechecks \ {k}
    /\ UNCHANGED <<sessionVars, clientVars, pendingResumes, usedIds, nodeVars, requests, dbVars>>

\* Denied: whatever session now has the id is closed.
RecheckDenied(k) ==
    /\ k \in rechecks /\ k.phase = "denied"
    /\ rechecks' = rechecks \ {k}
    /\ IF Live(k.sid) THEN forgetSession(k.sid) ELSE UNCHANGED sessionVars
    /\ UNCHANGED <<clientVars, pendingResumes, usedIds, nodeVars, requests, dbVars>>

\* node:invite, group:node:add, group:user:add
GrantAccess(u, n) ==
    /\ <<u, n>> \notin access
    /\ access' = access \cup {<<u, n>>}
    /\ UNCHANGED <<sessionVars, clientVars, pendingResumes, usedIds, nodeVars, requests,
                   rechecks, revocations, revokedLogins>>

\* The deletion commits.  A direct revoke goes on to the teardown; a group change
\* first reads the access again (revokeStaleNodeAccess).
RevokeAccess(u, n, phase) ==
    /\ <<u, n>> \in access
    /\ Cardinality(revocations) < MaxRevocations
    /\ access' = access \ {<<u, n>>}
    /\ revocations' = revocations \cup {[user |-> u, node |-> n, phase |-> phase]}
    /\ UNCHANGED <<sessionVars, clientVars, pendingResumes, usedIds, nodeVars, requests,
                   rechecks, revokedLogins>>

\* Mutant: the users who can still reach the node are the ones torn down.
RevokeStaleReadInverted(v) ==
    /\ v \in revocations /\ v.phase = "reread"
    /\ revocations' = IF <<v.user, v.node>> \notin access
                      THEN revocations \ {v}
                      ELSE (revocations \ {v}) \cup {[v EXCEPT !.phase = "due"]}
    /\ UNCHANGED <<sessionVars, clientVars, pendingResumes, usedIds, nodeVars, requests,
                   rechecks, access, revokedLogins>>

\* revokeStaleNodeAccess: listAccessibleNodes answers.
RevokeStaleRead(v) ==
    /\ v \in revocations /\ v.phase = "reread"
    /\ revocations' = IF <<v.user, v.node>> \in access
                      THEN revocations \ {v}
                      ELSE (revocations \ {v}) \cup {[v EXCEPT !.phase = "due"]}
    /\ UNCHANGED <<sessionVars, clientVars, pendingResumes, usedIds, nodeVars, requests,
                   rechecks, access, revokedLogins>>

\* Mutant: only the sessions are closed, the sockets stay.
signalSocketsOfNone(u, n) == {c \in signalSocketsByNodeId[n] : FALSE}

signalSocketsOf(u, n) == {c \in signalSocketsByNodeId[n] : UserOf[c] = u}

\* disconnectNodeUser, its call of closeNodeWebrtcSessionsForUser
CloseNodeSessionsForUser(v) ==
    /\ v \in revocations /\ v.phase = "due"
    /\ revocations' = revocations \ {v}
    /\ disconnectClients(sameTransport(signalSocketsOf(v.user, v.node)),
                         {sid \in sessionsByUserId[v.user] : sessions[sid].node = v.node})
    /\ UNCHANGED <<usedIds, nodeVars, requests, rechecks, access, revokedLogins>>

\* sessions:revoked: closeWebrtcSessionsForFleetSessions, then disconnectSessions.
RevokeLogin(l) ==
    /\ l \notin revokedLogins
    /\ revokedLogins' = revokedLogins \cup {l}
    /\ disconnectClients(sameTransport({c \in Clients : LoginOf[c] = l /\ clientConn[c] \in {"auth", "up"}}),
                         {sid \in SessionIds : Live(sid) /\ LoginOf[sessions[sid].client] = l})
    /\ UNCHANGED <<usedIds, nodeVars, requests, rechecks, access, revocations>>

\* The fleet process restarts: nothing but the database survives, and the ids both ends hold.
Restart ==
    /\ sessions' = [sid \in SessionIds |-> NoSession]
    /\ sessionsByNodeId' = [n \in Nodes |-> {}]
    /\ sessionsByUserId' = [u \in Users |-> {}]
    /\ sessionsByClient' = [c \in Clients |-> {}]
    /\ signalSocketsByNodeId' = [n \in Nodes |-> {}]
    /\ pendingResumes' = [sid \in SessionIds |-> NoResume]
    /\ nodeSocketsByNodeId' = [n \in Nodes |-> None]
    /\ nodeConn' = [ns \in NodeSockets |-> IF nodeConn[ns] = "up" THEN "down" ELSE nodeConn[ns]]
    /\ registering' = {}
    /\ clientConn' = [c \in Clients |-> IF clientConn[c] \in {"auth", "up"} THEN "down" ELSE clientConn[c]]
    /\ requests' = [c \in Clients |-> [r \in Slots |-> "idle"]]
    /\ rechecks' = {}
    /\ revocations' = {}
    /\ UNCHANGED <<usedIds, access, revokedLogins>>

-----------------------------------------------------------------------------

NodeStep(ns) ==
    \/ NodeConnect(ns)
    \/ NodeRegister(ns)
    \/ NodeRegistered(ns)
    \/ NodeDisconnectUnregistered(ns)
    \/ NodeDisconnect(ns)
    \/ \E sid \in SessionIds : NodeAnswer(ns, sid) \/ NodeClose(ns, sid) \/ NodeConnected(ns, sid)
    \/ \E announced \in SUBSET usedIds : NodeSessions(ns, announced)

ClientStep(c) ==
    \/ ClientAuth(c)
    \/ ClientConnect(c)
    \/ ClientDisconnect(c)
    \/ \E r \in Slots : SessionRequest(c, r)
    \/ \E sid \in SessionIds : ClientOffer(c, sid) \/ ClientClose(c, sid) \/ ClientResume(c, sid)
    \/ \E sid \in usedIds : ClientOfferResume(c, sid)

RequestStep(c, r) ==
    \/ SessionRequestRead(c, r)
    \/ SessionRequestError(c, r)
    \/ SessionRequestDenied(c, r)
    \/ SessionRequestDropped(c, r)
    \/ \E sid \in SessionIds : SessionRequestGranted(c, r, sid)

TimerStep(sid) == NegotiationTimeout(sid) \/ OrphanTimeout(sid) \/ ResumeTimeout(sid)

RecheckStep(k) == RecheckRead(k) \/ RecheckError(k) \/ RecheckDenied(k)

RevocationStep(v) == RevokeStaleRead(v) \/ CloseNodeSessionsForUser(v)

AccessStep ==
    \/ \E u \in Users, n \in Nodes :
          \/ GrantAccess(u, n)
          \/ \E phase \in {"reread", "due"} : RevokeAccess(u, n, phase)
    \/ \E l \in Logins : RevokeLogin(l)

Next ==
    \/ \E ns \in NodeSockets : NodeStep(ns)
    \/ \E c \in Clients : ClientStep(c)
    \/ \E c \in Clients, r \in Slots : RequestStep(c, r)
    \/ \E sid \in SessionIds : TimerStep(sid)
    \/ \E k \in rechecks : RecheckStep(k)
    \/ \E v \in revocations : RevocationStep(v)
    \/ AccessStep
    \/ Restart

Spec == Init /\ [][Next]_vars

\* An armed timer fires and a started handler is resumed, unless they are cancelled first.
Fairness ==
    /\ \A sid \in SessionIds : /\ WF_vars(NegotiationTimeout(sid))
                               /\ WF_vars(OrphanTimeout(sid))
                               /\ WF_vars(ResumeTimeout(sid))
    /\ \A k \in Recheck : WF_vars(RecheckStep(k))
    /\ \A v \in Revocation : WF_vars(RevocationStep(v))

FairSpec == Spec /\ Fairness

-----------------------------------------------------------------------------
(* Properties.                                                              *)

\* Every variable has its shape: no session record keeps a null field while it is
\* in the map, and no resume is stored without its node.
TypeOK ==
    /\ sessions \in [SessionIds -> Session \cup {NoSession}]
    /\ sessionsByNodeId \in [Nodes -> SUBSET SessionIds]
    /\ sessionsByUserId \in [Users -> SUBSET SessionIds]
    /\ sessionsByClient \in [Clients -> SUBSET SessionIds]
    /\ signalSocketsByNodeId \in [Nodes -> SUBSET Clients]
    /\ pendingResumes \in [SessionIds -> PendingResume \cup {NoResume}]
    /\ usedIds \in SUBSET SessionIds
    /\ nodeSocketsByNodeId \in [Nodes -> NodeSockets \cup {None}]
    /\ nodeConn \in [NodeSockets -> {"new", "up", "down"}]
    /\ registering \in SUBSET NodeSockets
    /\ clientConn \in [Clients -> {"new", "auth", "up", "down"}]
    /\ requests \in [Clients -> [Slots -> RequestState]]
    /\ rechecks \in SUBSET Recheck
    /\ access \in SUBSET (Users \X Nodes)
    /\ revocations \in SUBSET Revocation
    /\ revokedLogins \in SUBSET Logins

\* The three reverse indexes hold exactly the live sessions under their own keys.
\* The disconnect handler dereferences sessions.get(id) for every id of
\* sessionsByClient without a null check, and the teardowns find sessions only here.
IndexesExact ==
    /\ \A n \in Nodes : sessionsByNodeId[n] = {sid \in SessionIds : Live(sid) /\ sessions[sid].node = n}
    /\ \A u \in Users : sessionsByUserId[u] = {sid \in SessionIds : Live(sid) /\ sessions[sid].user = u}
    /\ \A c \in Clients : sessionsByClient[c] = {sid \in SessionIds : Live(sid) /\ sessions[sid].client = c}

\* signalSocketsByNodeId holds exactly the connected signalling sockets of each node:
\* a revoke can reach a browser that has no session yet only through it.
SignalSocketsExact ==
    \A n \in Nodes : signalSocketsByNodeId[n] = {c \in Clients : clientConn[c] = "up" /\ TargetOf[c] = n}

\* A session's node and user are those of the client it belongs to, whoever resumed it.
SessionsMatchClients ==
    \A sid \in SessionIds : Live(sid) => /\ sessions[sid].node = TargetOf[sessions[sid].client]
                                         /\ sessions[sid].user = UserOf[sessions[sid].client]

beingRevoked(u, n) == \E v \in revocations : v.user = u /\ v.node = n

beingRechecked(sid) ==
    \E k \in rechecks : k.sid = sid /\ k.user = sessions[sid].user /\ k.node = sessions[sid].node

\* A live session's user may access its node, or a teardown or a re-check that will
\* close it is already on its way: no order of requests, resumes, announcements,
\* reconnects and revokes leaves a revoked user with a session nobody looks at again.
AccessEnforced ==
    \A sid \in SessionIds :
        Live(sid) => \/ <<sessions[sid].user, sessions[sid].node>> \in access
                     \/ beingRevoked(sessions[sid].user, sessions[sid].node)
                     \/ beingRechecked(sid)

\* A request that was allowed before its user lost access either finds its socket
\* disconnected or runs while the teardown is still to come, which then finds its session.
RequestsEnforced ==
    \A c \in Clients, r \in Slots :
        (requests[c][r] = "allowed" /\ clientConn[c] = "up")
            => \/ <<UserOf[c], TargetOf[c]>> \in access
               \/ beingRevoked(UserOf[c], TargetOf[c])

\* No live session belongs to a browser whose fleet session was revoked, even if its
\* request or its resume was in flight at that time.
LoginsEnforced ==
    \A sid \in SessionIds : Live(sid) => LoginOf[sessions[sid].client] \notin revokedLogins

\* An established session whose node is gone has its grace timer armed (the comment on
\* closeNodeWebrtcSessions: it is kept for a grace period in which the node is expected
\* to reconnect and re-announce it).
OrphanedByNodeTimed ==
    \A sid \in SessionIds :
        (sessions[sid].state = "CONNECTED" /\ ~nodeOnline(sessions[sid], nodeConn))
            => sessions[sid].orphanTimer

\* A pending resume holds exactly one half, of a connected socket of its node, and its
\* session is not in the map: the socket that completes it finds a live other end.
ResumesHalfOpen ==
    \A sid \in SessionIds : Pending(sid) =>
        LET ns == pendingResumes[sid].nodeSocket
            c  == pendingResumes[sid].client
        IN  /\ ~Live(sid)
            /\ (ns = None) # (c = None)
            /\ ns # None => attached(ns) /\ NodeOf[ns] = pendingResumes[sid].node
            /\ c # None => clientConn[c] = "up" /\ TargetOf[c] = pendingResumes[sid].node

\* A request never takes its client past MAX_SESSIONS_PER_SOCKET, however many were in
\* flight when it passed the first test; only resuming established sessions does.
CapHeld ==
    [][\A c \in Clients : \A sid \in sessionsByClient'[c] \ sessionsByClient[c] :
          sessions'[sid].state # "CONNECTED" => Cardinality(sessionsByClient'[c]) <= MaxSessions]_vars

\* A browser that went away and does not come back loses its sessions.
ClientGoneReaped ==
    \A sid \in SessionIds, c \in Clients :
        (Live(sid) /\ sessions[sid].client = c /\ clientConn[c] = "down")
            ~> ~(Live(sid) /\ sessions[sid].client = c)

\* A user whose access is gone loses the session, unless it is granted again first.
RevokedUserCutOff ==
    \A sid \in SessionIds, u \in Users, n \in Nodes :
        (Live(sid) /\ sessions[sid].user = u /\ sessions[sid].node = n /\ <<u, n>> \notin access)
            ~> (~(Live(sid) /\ sessions[sid].user = u /\ sessions[sid].node = n) \/ <<u, n>> \in access)

=============================================================================
