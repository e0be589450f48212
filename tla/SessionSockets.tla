--------------------------- MODULE SessionSockets ---------------------------
(***************************************************************************)
(* The live sockets of every browser session (utils/session_sockets.js,    *)
(* utils/socket_auth.js), against the session rows that modules and sign-  *)
(* outs delete (services/data_service.js).  A socket is authenticated once,*)
(* by the cookie of its transport, in a middleware that awaits the session *)
(* row; from then on only this registry can end it.                        *)
(*                                                                         *)
(* expiresAtBySessionId has the keys of socketsBySessionId: track adds     *)
(* both and forget deletes both, so it is not a variable.  The events      *)
(* sessions:connection and sessions:updated only refresh lists.            *)
(***************************************************************************)
EXTENDS Integers, FiniteSets

CONSTANTS
    Sessions,               \* session rows, each created once
    Conns, Sockets,         \* transports, and sockets multiplexed over them
    ConnOf,                 \* the transport of a socket
    CookieOf,               \* the session whose token a transport's cookie holds
    Proxied,                \* sockets of namespaces that check more than the session
    MaxDue                  \* bound: deletions whose event is still to come

ASSUME SocketsAssumption ==
    /\ ConnOf \in [Sockets -> Conns]
    /\ CookieOf \in [Conns -> Sessions]
    /\ Proxied \subseteq Sockets
    /\ MaxDue \in Nat

VARIABLES
    row,                    \* the row of each session
    expired,                \* sessions past their expiresAt
    due,                    \* rows deleted together, sessions:revoked still to come
    announced,              \* history: sessions that a sessions:revoked named
    connState,              \* readyState of each transport
    phase,                  \* how far each socket has come
    isAuthenticated,
    socketsBySessionId,
    revokedAtBySessionId    \* its keys

dbVars   == <<row, expired, due, announced>>
connVars == <<connState, phase, isAuthenticated>>
mapVars  == <<socketsBySessionId, revokedAtBySessionId>>
vars == <<dbVars, connVars, mapVars>>

SessionOf(x) == CookieOf[ConnOf[x]]

Init ==
    /\ row = [s \in Sessions |-> "none"]
    /\ expired = {}
    /\ due = {}
    /\ announced = {}
    /\ connState = [k \in Conns |-> "open"]
    /\ phase = [x \in Sockets |-> "new"]
    /\ isAuthenticated = [x \in Sockets |-> FALSE]
    /\ socketsBySessionId = [s \in Sessions |-> {}]
    /\ revokedAtBySessionId = {}

-----------------------------------------------------------------------------
(* Session rows.                                                            *)

\* A sign-in, its second factor still to come or not.
CreateSession(s, state) ==
    /\ row[s] = "none"
    /\ row' = [row EXCEPT ![s] = state]
    /\ UNCHANGED <<expired, due, announced, connVars, mapVars>>

SatisfyMfa(s) ==
    /\ row[s] = "gated"
    /\ row' = [row EXCEPT ![s] = "satisfied"]
    /\ UNCHANGED <<expired, due, announced, connVars, mapVars>>

\* Time passes expiresAt.
Expire(s) ==
    /\ row[s] # "none" /\ s \notin expired
    /\ expired' = expired \cup {s}
    /\ UNCHANGED <<row, due, announced, connVars, mapVars>>

\* Mutant: the event is emitted before the rows are deleted.
DestroySessionsLater(S) ==
    /\ S # {} /\ \A s \in S : row[s] # "none"
    /\ Cardinality(due) < MaxDue
    /\ due' = due \cup {S}
    /\ UNCHANGED <<row, expired, announced, connVars, mapVars>>

\* A sign-out, a revoke, a changed password, a deleted user, the expired rows of a user
\* who signs in: rows are deleted, and sessions:revoked is emitted after the await.  What a
\* handler has found another may have deleted, and announced, before it.
DestroySessions(S) ==
    /\ S # {} /\ \A s \in S : row[s] # "none"
    /\ Cardinality(due) < MaxDue
    /\ row' = [s \in Sessions |-> IF s \in S THEN "gone" ELSE row[s]]
    /\ due' = due \cup {S}
    /\ UNCHANGED <<expired, announced, connVars, mapVars>>

-----------------------------------------------------------------------------
(* Authentication of a socket.                                              *)

\* getSessionByToken, in the middleware of a socket whose transport is open.
ReadSession(x) ==
    /\ phase[x] = "new" /\ connState[ConnOf[x]] = "open"
    /\ phase' = [phase EXCEPT ![x] = IF row[SessionOf(x)] = "satisfied" /\ SessionOf(x) \notin expired
                                     THEN "found" ELSE "authenticated"]
    /\ UNCHANGED <<dbVars, connState, isAuthenticated, mapVars>>

\* Mutant: a session revoked since it was read is tracked like any other.
TrackRevoked(x) ==
    /\ phase[x] = "found"
    /\ phase' = [phase EXCEPT ![x] = "authenticated"]
    /\ isAuthenticated' = [isAuthenticated EXCEPT ![x] = TRUE]
    /\ socketsBySessionId' = [socketsBySessionId EXCEPT ![SessionOf(x)] = @ \cup {x}]
    /\ UNCHANGED <<connState, dbVars, revokedAtBySessionId>>

\* After the await: applyFleetUserSession and track.  The socket is not connected yet, so
\* close can only close its transport.
Track(x) ==
    /\ phase[x] = "found"
    /\ phase' = [phase EXCEPT ![x] = "authenticated"]
    /\ isAuthenticated' = [isAuthenticated EXCEPT ![x] = TRUE]
    /\ IF SessionOf(x) \in revokedAtBySessionId
       THEN /\ connState' = [connState EXCEPT ![ConnOf[x]] = IF @ = "open" THEN "closing" ELSE @]
            /\ UNCHANGED socketsBySessionId
       ELSE /\ socketsBySessionId' = [socketsBySessionId EXCEPT ![SessionOf(x)] = @ \cup {x}]
            /\ UNCHANGED connState
    /\ UNCHANGED <<dbVars, revokedAtBySessionId>>

\* The last middleware called next: Socket.IO connects the socket if its transport is open.
Admit(x) ==
    /\ phase[x] = "authenticated"
    /\ phase' = [phase EXCEPT ![x] = IF connState[ConnOf[x]] = "open" THEN "connected" ELSE "over"]
    /\ UNCHANGED <<dbVars, connState, isAuthenticated, mapVars>>

untrack(S) == [s \in Sessions |-> socketsBySessionId[s] \ S]

\* A later check of the namespace failed: the socket never connects.
Deny(x) ==
    /\ phase[x] = "authenticated" /\ x \in Proxied
    /\ phase' = [phase EXCEPT ![x] = "over"]
    /\ socketsBySessionId' = untrack({x})
    /\ UNCHANGED <<dbVars, connState, isAuthenticated, revokedAtBySessionId>>

\* The transport is closed, by the browser or at last by close.  Only sockets that are
\* connected have a disconnect handler to run: those in their middleware stay tracked.
CloseConn(k) ==
    LET lost == {x \in Sockets : ConnOf[x] = k /\ phase[x] = "connected"}
    IN  /\ connState[k] # "closed"
        /\ connState' = [connState EXCEPT ![k] = "closed"]
        /\ phase' = [x \in Sockets |-> IF x \in lost THEN "over" ELSE phase[x]]
        /\ socketsBySessionId' = untrack(lost)
        /\ UNCHANGED <<dbVars, isAuthenticated, revokedAtBySessionId>>

-----------------------------------------------------------------------------
(* Closing the sockets of revoked sessions.                                 *)

\* close: a connected socket takes its transport along, any other closes its transport.
closedConns(T) == {ConnOf[x] : x \in T}

\* disconnectSessions(S), when the maps hold `tracked` and `revoked` before it.  A
\* disconnect(true) runs the disconnect handlers of the whole transport at once.
disconnectSessions(S, tracked, revoked) ==
    LET T    == UNION {tracked[s] : s \in S}
        lost == {x \in Sockets : /\ phase[x] = "connected"
                                 /\ \E y \in T : ConnOf[y] = ConnOf[x] /\ phase[y] = "connected"}
    IN  /\ revokedAtBySessionId' = revoked \cup S
        /\ socketsBySessionId' = [s \in Sessions |-> IF s \in S THEN {} ELSE tracked[s] \ lost]
        /\ phase' = [x \in Sockets |-> IF x \in lost THEN "over" ELSE phase[x]]
        /\ connState' = [k \in Conns |-> IF k \in closedConns(T) /\ connState[k] = "open"
                                         THEN "closing" ELSE connState[k]]
        /\ UNCHANGED isAuthenticated

\* sessions:revoked
SessionsRevoked(S) ==
    /\ S \in due
    /\ due' = due \ {S}
    /\ announced' = announced \cup S
    /\ disconnectSessions(S, socketsBySessionId, revokedAtBySessionId)
    /\ UNCHANGED <<row, expired>>

\* A retention has passed; the reads that began before the revocation are answered by then.
retained(D) == \A x \in Sockets : phase[x] = "found" => SessionOf(x) \notin D

\* Mutant: the test of the transport is inverted.
isDeadOpen(x) == phase[x] # "connected" /\ connState[ConnOf[x]] = "open"

isDead(x) == phase[x] # "connected" /\ connState[ConnOf[x]] # "open"

\* Mutant: the comparison with now is inverted.
expiredTrackedLate(tracked) == {s \in Sessions : s \notin expired /\ tracked[s] # {}}

expiredTracked(tracked) == {s \in Sessions : s \in expired /\ tracked[s] # {}}

\* The interval of startSweep; D are the revocations past their retention.  The sessions that
\* expired are announced, and so cut off at once, though their rows are still there.
Sweep(D) ==
    LET tracked == untrack({x \in Sockets : isDead(x)})
    IN  /\ D \subseteq revokedAtBySessionId /\ retained(D)
        /\ announced' = announced \cup expiredTracked(tracked)
        /\ disconnectSessions(expiredTracked(tracked), tracked, revokedAtBySessionId \ D)
        /\ UNCHANGED <<row, expired, due>>

-----------------------------------------------------------------------------

Next ==
    \/ \E s \in Sessions :
          \/ \E state \in {"gated", "satisfied"} : CreateSession(s, state)
          \/ SatisfyMfa(s)
          \/ Expire(s)
    \/ \E S \in SUBSET Sessions : DestroySessions(S) \/ SessionsRevoked(S) \/ Sweep(S)
    \/ \E x \in Sockets : ReadSession(x) \/ Track(x) \/ Admit(x) \/ Deny(x)
    \/ \E k \in Conns : CloseConn(k)

Spec == Init /\ [][Next]_vars

\* The sweep is an interval timer, the handler of a deletion resumes after its await, and a
\* transport that is being closed closes once it has drained.
FairSpec ==
    /\ Spec
    /\ WF_vars(\E D \in SUBSET Sessions : Sweep(D))
    /\ \A S \in SUBSET Sessions : WF_vars(SessionsRevoked(S))
    /\ \A k \in Conns : WF_vars(connState[k] = "closing" /\ CloseConn(k))

-----------------------------------------------------------------------------
(* Properties.                                                              *)

\* Every variable has its shape; only authenticated sockets are tracked, under their session.
TypeOK ==
    /\ row \in [Sessions -> {"none", "gated", "satisfied", "gone"}]
    /\ expired \in SUBSET Sessions
    /\ due \in SUBSET SUBSET Sessions
    /\ announced \in SUBSET Sessions
    /\ connState \in [Conns -> {"open", "closing", "closed"}]
    /\ phase \in [Sockets -> {"new", "found", "authenticated", "connected", "over"}]
    /\ isAuthenticated \in [Sockets -> BOOLEAN]
    /\ socketsBySessionId \in [Sessions -> SUBSET Sockets]
    /\ \A s \in Sessions : \A x \in socketsBySessionId[s] : SessionOf(x) = s /\ isAuthenticated[x]
    /\ revokedAtBySessionId \in SUBSET Sessions

live(x) == phase[x] = "connected" /\ isAuthenticated[x]

isRevoked(s) == s \in announced

\* Once sessions:revoked has named a session, deleted or expired, no socket of it is connected, not even
\* one whose authentication was under way (the comments on the module and on
\* disconnectSessions).
SessionsCutOff == \A x \in Sockets : live(x) => ~isRevoked(SessionOf(x))

\* A connected, authenticated socket is tracked: the next revocation finds it, whatever
\* became of the sockets it shares its session with.
LiveTracked == \A x \in Sockets : live(x) => x \in socketsBySessionId[SessionOf(x)]

\* A session that expires loses its sockets, also those that authenticated just before.
ExpiredCutOff == \A x \in Sockets : (live(x) /\ SessionOf(x) \in expired) ~> ~live(x)

\* A socket that never connected does not keep its session shown as connected for ever.
DeadUntracked ==
    \A x \in Sockets :
        (x \in socketsBySessionId[SessionOf(x)] /\ connState[ConnOf[x]] # "open")
            ~> (x \notin socketsBySessionId[SessionOf(x)])

\* The rows as SessionRows has them.
rowState == [s \in Sessions |-> IF row[s] = "none" THEN "new" ELSE row[s]]

Protocol == INSTANCE SessionRows WITH Ids <- Sessions, row <- rowState

\* What the sockets are told of sessions is what SessionRows allows: a row that is deleted stays
\* so, and sessions:revoked names a session only when its row is deleted (data_service.js:57-70,
\* the comment on disconnectSessions) or its time is over (the sweep), though deletions overlap.
RowsProtocol == Protocol!Spec

=============================================================================
