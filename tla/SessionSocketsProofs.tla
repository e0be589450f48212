------------------------ MODULE SessionSocketsProofs ------------------------
(***************************************************************************)
(* Proofs about SessionSockets, for any sessions, transports and sockets.  *)
(***************************************************************************)
EXTENDS SessionSockets, TLAPS

\* A session with tracked sockets has not been cut off.
TrackedHold == \A s \in Sessions : socketsBySessionId[s] # {} => ~isRevoked(s)

\* The revocation of a session is remembered while a socket that read it is under way.
FoundRemembered ==
    \A x \in Sockets : phase[x] = "found" /\ isRevoked(SessionOf(x))
                          => SessionOf(x) \in revokedAtBySessionId

\* A socket that is about to connect is tracked, unless its transport is closing.
tracksAuthenticated(tracked) ==
    \A x \in Sockets : phase[x] = "authenticated" /\ isAuthenticated[x] /\ connState[ConnOf[x]] = "open"
                          => x \in tracked[SessionOf(x)]

tracksLive(tracked) == \A x \in Sockets : live(x) => x \in tracked[SessionOf(x)]

ShapeOfTracked(tracked) ==
    /\ tracked \in [Sessions -> SUBSET Sockets]
    /\ \A s \in Sessions : \A x \in tracked[s] : SessionOf(x) = s /\ isAuthenticated[x]

AuthenticatedTracked == tracksAuthenticated(socketsBySessionId)

\* A socket is authenticated by track only.
FreshUnauthenticated == \A x \in Sockets : phase[x] \in {"new", "found"} => ~isAuthenticated[x]

\* A session is announced when its row is deleted or its time over, by a deletion only the first.
RowsEnded ==
    /\ \A s \in announced : row[s] = "gone" \/ s \in expired
    /\ \A s \in UNION due : row[s] = "gone"

CutOff ==
    /\ TypeOK /\ LiveTracked /\ AuthenticatedTracked
    /\ TrackedHold /\ FoundRemembered /\ FreshUnauthenticated /\ RowsEnded

LEMMA SessionOfType == \A x \in Sockets : ConnOf[x] \in Conns /\ SessionOf(x) \in Sessions
    BY SocketsAssumption DEF SessionOf

LEMMA InitCutOff == Init => CutOff
<1> SUFFICES ASSUME Init PROVE CutOff
  OBVIOUS
<1>1. TypeOK
  BY DEF Init, TypeOK
<1>2. LiveTracked /\ AuthenticatedTracked /\ TrackedHold /\ FoundRemembered /\ FreshUnauthenticated
      /\ RowsEnded
  BY SessionOfType
  DEF Init, LiveTracked, live, AuthenticatedTracked, tracksAuthenticated, TrackedHold, FoundRemembered,
      FreshUnauthenticated, RowsEnded
<1>. QED
  BY <1>1, <1>2 DEF CutOff

\* The registry forgets the given sessions and closes all their sockets.
LEMMA DisconnectSessions ==
    ASSUME CutOff, NEW S \in SUBSET Sessions, NEW tracked, NEW revoked \in SUBSET Sessions,
           disconnectSessions(S, tracked, revoked),
           ShapeOfTracked(tracked), tracksLive(tracked), tracksAuthenticated(tracked),
           \A s \in Sessions : tracked[s] \subseteq socketsBySessionId[s],
           UNCHANGED <<row, expired>>, due' \in SUBSET SUBSET Sessions,
           announced' \in SUBSET Sessions, RowsEnded',
           \A s \in Sessions : isRevoked(s)' => isRevoked(s) \/ s \in S,
           \A x \in Sockets : phase[x] = "found" /\ isRevoked(SessionOf(x)) => SessionOf(x) \in revoked
    PROVE  CutOff'
<1> DEFINE T    == UNION {tracked[s] : s \in S}
           lost == {x \in Sockets : /\ phase[x] = "connected"
                                    /\ \E y \in T : ConnOf[y] = ConnOf[x] /\ phase[y] = "connected"}
<1>1. /\ revokedAtBySessionId' = revoked \cup S
      /\ socketsBySessionId' = [s \in Sessions |-> IF s \in S THEN {} ELSE tracked[s] \ lost]
      /\ phase' = [x \in Sockets |-> IF x \in lost THEN "over" ELSE phase[x]]
      /\ connState' = [k \in Conns |-> IF k \in closedConns(T) /\ connState[k] = "open"
                                       THEN "closing" ELSE connState[k]]
      /\ isAuthenticated' = isAuthenticated
  BY DEF disconnectSessions
<1>2. ASSUME NEW x \in Sockets, x \in tracked[SessionOf(x)], SessionOf(x) \in S
      PROVE  x \in T /\ ConnOf[x] \in closedConns(T)
  BY <1>2 DEF closedConns
<1>3. ASSUME NEW x \in T, x \in Sockets, phase[x] = "connected"
      PROVE  x \in lost
  BY <1>3
<1>4. \A x \in lost : x \in Sockets /\ phase[x] = "connected"
  OBVIOUS
<1> HIDE DEF T, lost
<1>5. TypeOK'
  <2>1. socketsBySessionId' \in [Sessions -> SUBSET Sockets]
    BY <1>1 DEF ShapeOfTracked
  <2>2. \A s \in Sessions : \A x \in socketsBySessionId'[s] : SessionOf(x) = s /\ isAuthenticated'[x]
    BY <1>1 DEF ShapeOfTracked
  <2>. QED
    BY <1>1, <2>1, <2>2 DEF CutOff, TypeOK
<1>6. LiveTracked'
  <2> SUFFICES ASSUME NEW x \in Sockets, live(x)'
               PROVE  x \in socketsBySessionId'[SessionOf(x)]
    BY DEF LiveTracked
  <2>1. live(x) /\ x \notin lost /\ phase[x] = "connected"
    BY <1>1, <1>4 DEF live
  <2>2. x \in tracked[SessionOf(x)]
    BY <2>1 DEF tracksLive
  <2>3. SessionOf(x) \notin S
    BY <1>2, <1>3, <2>1, <2>2
  <2>. QED
    BY <1>1, <2>1, <2>2, <2>3, SessionOfType
<1>7. AuthenticatedTracked'
  <2> SUFFICES ASSUME NEW x \in Sockets, phase'[x] = "authenticated", isAuthenticated'[x],
                      connState'[ConnOf[x]] = "open"
               PROVE  x \in socketsBySessionId'[SessionOf(x)]
    BY DEF AuthenticatedTracked, tracksAuthenticated
  <2>1. phase[x] = "authenticated" /\ x \notin lost
    BY <1>1, <1>4
  <2>2. connState[ConnOf[x]] = "open" /\ ConnOf[x] \notin closedConns(T)
    BY <1>1, SessionOfType
  <2>3. x \in tracked[SessionOf(x)]
    BY <1>1, <2>1, <2>2 DEF tracksAuthenticated
  <2>4. SessionOf(x) \notin S
    BY <1>2, <2>2, <2>3
  <2>. QED
    BY <1>1, <2>1, <2>3, <2>4, SessionOfType
<1>8. TrackedHold'
  BY <1>1 DEF CutOff, TrackedHold
<1>9. FoundRemembered'
  <2> SUFFICES ASSUME NEW x \in Sockets, phase'[x] = "found", isRevoked(SessionOf(x))'
               PROVE  SessionOf(x) \in revokedAtBySessionId'
    BY DEF FoundRemembered
  <2>1. phase[x] = "found"
    BY <1>1
  <2>. QED
    BY <1>1, <2>1, SessionOfType
<1>10. FreshUnauthenticated'
  BY <1>1 DEF CutOff, FreshUnauthenticated
<1>. QED
  BY <1>5, <1>6, <1>7, <1>8, <1>9, <1>10 DEF CutOff

LEMMA SessionsRevokedCutOff ==
    ASSUME CutOff, NEW S \in SUBSET Sessions, SessionsRevoked(S)
    PROVE  CutOff'
<1>1. /\ S \in due /\ due' = due \ {S} /\ announced' = announced \cup S /\ UNCHANGED <<row, expired>>
      /\ disconnectSessions(S, socketsBySessionId, revokedAtBySessionId)
  BY DEF SessionsRevoked
<1>2. \A s \in Sessions : isRevoked(s)' => isRevoked(s) \/ s \in S
  BY <1>1 DEF isRevoked
<1>3. ShapeOfTracked(socketsBySessionId) /\ tracksLive(socketsBySessionId)
      /\ tracksAuthenticated(socketsBySessionId)
  BY DEF CutOff, TypeOK, ShapeOfTracked, tracksLive, LiveTracked, AuthenticatedTracked
<1>4. due' \in SUBSET SUBSET Sessions /\ revokedAtBySessionId \in SUBSET Sessions
      /\ announced' \in SUBSET Sessions
  BY <1>1 DEF CutOff, TypeOK
<1>5. \A x \in Sockets : phase[x] = "found" /\ isRevoked(SessionOf(x))
                            => SessionOf(x) \in revokedAtBySessionId
  BY DEF CutOff, FoundRemembered
<1>6. RowsEnded'
  BY <1>1 DEF CutOff, RowsEnded
<1>. QED
  BY <1>1, <1>2, <1>3, <1>4, <1>5, <1>6, DisconnectSessions

LEMMA SweepCutOff ==
    ASSUME CutOff, NEW D \in SUBSET Sessions, Sweep(D)
    PROVE  CutOff'
<1> DEFINE tracked == untrack({x \in Sockets : isDead(x)})
<1>1. /\ retained(D) /\ UNCHANGED <<row, expired, due>>
      /\ announced' = announced \cup expiredTracked(tracked)
      /\ disconnectSessions(expiredTracked(tracked), tracked, revokedAtBySessionId \ D)
  BY DEF Sweep
<1>2. ShapeOfTracked(tracked) /\ \A s \in Sessions : tracked[s] \subseteq socketsBySessionId[s]
  BY DEF CutOff, TypeOK, ShapeOfTracked, untrack
<1>3. tracksLive(tracked)
  BY SessionOfType DEF CutOff, LiveTracked, tracksLive, live, untrack, isDead
<1>4. tracksAuthenticated(tracked)
  BY SessionOfType DEF CutOff, AuthenticatedTracked, tracksAuthenticated, untrack, isDead
<1>5. \A x \in Sockets : phase[x] = "found" /\ isRevoked(SessionOf(x))
                            => SessionOf(x) \in revokedAtBySessionId \ D
  BY <1>1 DEF CutOff, FoundRemembered, retained
<1>6. revokedAtBySessionId \ D \in SUBSET Sessions /\ expiredTracked(tracked) \in SUBSET Sessions
      /\ due' \in SUBSET SUBSET Sessions /\ announced' \in SUBSET Sessions
      /\ UNCHANGED <<row, expired>>
  BY <1>1 DEF CutOff, TypeOK, expiredTracked
<1>7. \A s \in Sessions : isRevoked(s)' => isRevoked(s) \/ s \in expiredTracked(tracked)
  BY <1>1 DEF isRevoked
<1>8. RowsEnded'
  BY <1>1 DEF CutOff, RowsEnded, expiredTracked
<1> HIDE DEF tracked
<1>. QED
  BY <1>1, <1>2, <1>3, <1>4, <1>5, <1>6, <1>7, <1>8, DisconnectSessions

\* Rows are created and deleted.
LEMMA RowsCutOff ==
    ASSUME CutOff, NEW s \in Sessions, NEW S \in SUBSET Sessions,
           \/ \E state \in {"gated", "satisfied"} : CreateSession(s, state)
           \/ SatisfyMfa(s) \/ Expire(s) \/ DestroySessions(S)
    PROVE  CutOff'
<1>1. UNCHANGED <<connVars, mapVars>>
  BY DEF CreateSession, SatisfyMfa, Expire, DestroySessions
<1>2. TypeOK'
  <2>1. row' \in [Sessions -> {"none", "gated", "satisfied", "gone"}] /\ expired' \in SUBSET Sessions
        /\ due' \in SUBSET SUBSET Sessions /\ announced' \in SUBSET Sessions
    BY DEF CutOff, TypeOK, CreateSession, SatisfyMfa, Expire, DestroySessions
  <2>. QED
    BY <1>1, <2>1 DEF CutOff, TypeOK, connVars, mapVars
<1>3. \A z \in Sessions : isRevoked(z)' => isRevoked(z)
  BY DEF isRevoked, CreateSession, SatisfyMfa, Expire, DestroySessions
<1>4. RowsEnded'
  BY DEF CutOff, TypeOK, RowsEnded, CreateSession, SatisfyMfa, Expire, DestroySessions
<1>. QED
  BY <1>1, <1>2, <1>3, <1>4, SessionOfType
  DEF CutOff, LiveTracked, live, AuthenticatedTracked, tracksAuthenticated, TrackedHold, FoundRemembered,
      FreshUnauthenticated, connVars, mapVars

\* The session of a socket is read, and found or not.
LEMMA ReadSessionCutOff ==
    ASSUME CutOff, NEW x \in Sockets, ReadSession(x)
    PROVE  CutOff'
<1>1. /\ UNCHANGED <<dbVars, connState, isAuthenticated, mapVars>>
      /\ phase[x] = "new" /\ phase' \in [Sockets -> {"new", "found", "authenticated", "connected", "over"}]
      /\ \A y \in Sockets : y # x => phase'[y] = phase[y]
      /\ phase'[x] \in {"found", "authenticated"}
      /\ phase'[x] = "found" => row[SessionOf(x)] = "satisfied" /\ SessionOf(x) \notin expired
  BY DEF ReadSession, CutOff, TypeOK
<1>2. TypeOK'
  BY <1>1 DEF CutOff, TypeOK, dbVars, mapVars
<1>3. \A s \in Sessions : isRevoked(s)' <=> isRevoked(s)
  BY <1>1 DEF isRevoked, dbVars
<1>4. ~isAuthenticated[x]
  BY <1>1 DEF CutOff, FreshUnauthenticated
<1>5. LiveTracked' /\ AuthenticatedTracked' /\ FreshUnauthenticated'
  BY <1>1, <1>4 DEF CutOff, LiveTracked, live, AuthenticatedTracked, tracksAuthenticated,
      FreshUnauthenticated, mapVars
<1>6. TrackedHold'
  BY <1>1, <1>3 DEF CutOff, TrackedHold, mapVars
<1>7. FoundRemembered'
  <2> SUFFICES ASSUME NEW y \in Sockets, phase'[y] = "found", isRevoked(SessionOf(y))'
               PROVE  SessionOf(y) \in revokedAtBySessionId'
    BY DEF FoundRemembered
  <2>1. isRevoked(SessionOf(y))
    BY <1>3, SessionOfType
  <2>2. y # x
    BY <1>1, <2>1, SessionOfType DEF isRevoked, CutOff, RowsEnded
  <2>. QED
    BY <1>1, <2>1, <2>2 DEF CutOff, FoundRemembered, mapVars
<1>8. RowsEnded'
  BY <1>1 DEF CutOff, RowsEnded, dbVars
<1>. QED
  BY <1>2, <1>5, <1>6, <1>7, <1>8 DEF CutOff

\* A session found is tracked, unless its revocation is remembered.
LEMMA TrackCutOff ==
    ASSUME CutOff, NEW x \in Sockets, Track(x)
    PROVE  CutOff'
<1>1. /\ phase[x] = "found" /\ UNCHANGED <<dbVars, revokedAtBySessionId>>
      /\ phase' = [phase EXCEPT ![x] = "authenticated"]
      /\ isAuthenticated' = [isAuthenticated EXCEPT ![x] = TRUE]
  BY DEF Track
<1>2. \A s \in Sessions : isRevoked(s)' <=> isRevoked(s)
  BY <1>1 DEF isRevoked, dbVars
<1>3. TypeOK'
  <2>1. /\ connState' \in [Conns -> {"open", "closing", "closed"}]
        /\ socketsBySessionId' \in [Sessions -> SUBSET Sockets]
    BY SessionOfType DEF Track, CutOff, TypeOK
  <2>2. \A s \in Sessions : \A y \in socketsBySessionId'[s] :
            SessionOf(y) = s /\ (isAuthenticated[y] \/ y = x)
    BY SessionOfType DEF Track, CutOff, TypeOK
  <2>. QED
    BY <1>1, <2>1, <2>2 DEF CutOff, TypeOK, dbVars
<1>4. \A s \in Sessions : socketsBySessionId[s] \subseteq socketsBySessionId'[s]
  BY SessionOfType DEF Track, CutOff, TypeOK
<1>5. LiveTracked'
  BY <1>1, <1>4, SessionOfType DEF CutOff, TypeOK, LiveTracked, live
<1>6. AuthenticatedTracked'
  <2> SUFFICES ASSUME NEW y \in Sockets, phase'[y] = "authenticated", isAuthenticated'[y],
                      connState'[ConnOf[y]] = "open"
               PROVE  y \in socketsBySessionId'[SessionOf(y)]
    BY DEF AuthenticatedTracked, tracksAuthenticated
  <2>1. CASE y = x
    <3>1. SessionOf(x) \notin revokedAtBySessionId
      BY <2>1, SessionOfType DEF Track, CutOff, TypeOK
    <3>. QED
      BY <2>1, <3>1, SessionOfType DEF Track, CutOff, TypeOK
  <2>2. CASE y # x
    <3>1. phase[y] = "authenticated" /\ isAuthenticated[y] /\ connState[ConnOf[y]] = "open"
      BY <1>1, <2>2, SessionOfType DEF Track, CutOff, TypeOK
    <3>. QED
      BY <1>4, <3>1, SessionOfType DEF CutOff, AuthenticatedTracked, tracksAuthenticated
  <2>. QED
    BY <2>1, <2>2
<1>7. TrackedHold'
  <2> SUFFICES ASSUME NEW s \in Sessions, socketsBySessionId'[s] # {}
               PROVE  ~isRevoked(s)
    BY <1>2 DEF TrackedHold
  <2>1. CASE socketsBySessionId[s] # {}
    BY <2>1 DEF CutOff, TrackedHold
  <2>2. CASE socketsBySessionId[s] = {}
    <3>1. s = SessionOf(x) /\ SessionOf(x) \notin revokedAtBySessionId
      BY <2>2, SessionOfType DEF Track, CutOff, TypeOK
    <3>. QED
      BY <1>1, <3>1 DEF CutOff, FoundRemembered
  <2>. QED
    BY <2>1, <2>2
<1>8. FoundRemembered' /\ FreshUnauthenticated'
  BY <1>1, <1>2, SessionOfType DEF CutOff, TypeOK, FoundRemembered, FreshUnauthenticated
<1>9. RowsEnded'
  BY <1>1 DEF CutOff, RowsEnded, dbVars
<1>. QED
  BY <1>3, <1>5, <1>6, <1>7, <1>8, <1>9 DEF CutOff

\* A socket connects, or a later check of its namespace fails.
LEMMA AdmitDenyCutOff ==
    ASSUME CutOff, NEW x \in Sockets, Admit(x) \/ Deny(x)
    PROVE  CutOff'
<1>1. /\ UNCHANGED <<dbVars, connState, isAuthenticated, revokedAtBySessionId>>
      /\ phase[x] = "authenticated" /\ phase'[x] \in {"connected", "over"}
      /\ phase' \in [Sockets -> {"new", "found", "authenticated", "connected", "over"}]
      /\ \A y \in Sockets : y # x => phase'[y] = phase[y]
      /\ phase'[x] = "connected" => connState[ConnOf[x]] = "open" /\ socketsBySessionId' = socketsBySessionId
  BY DEF Admit, Deny, mapVars, CutOff, TypeOK
<1>2. /\ socketsBySessionId' \in [Sessions -> SUBSET Sockets]
      /\ \A s \in Sessions : socketsBySessionId'[s] \subseteq socketsBySessionId[s]
      /\ \A y \in Sockets : y # x /\ y \in socketsBySessionId[SessionOf(y)]
                               => y \in socketsBySessionId'[SessionOf(y)]
  BY SessionOfType DEF Admit, Deny, mapVars, untrack, CutOff, TypeOK
<1>3. \A s \in Sessions : isRevoked(s)' <=> isRevoked(s)
  BY <1>1 DEF isRevoked, dbVars
<1>4. TypeOK'
  BY <1>1, <1>2 DEF CutOff, TypeOK, dbVars
<1>5. LiveTracked'
  <2> SUFFICES ASSUME NEW y \in Sockets, live(y)'
               PROVE  y \in socketsBySessionId'[SessionOf(y)]
    BY DEF LiveTracked
  <2>1. CASE y = x
    BY <1>1, <2>1 DEF live, CutOff, AuthenticatedTracked, tracksAuthenticated
  <2>2. CASE y # x
    BY <1>1, <1>2, <2>2 DEF live, CutOff, LiveTracked
  <2>. QED
    BY <2>1, <2>2
<1>6. AuthenticatedTracked' /\ FreshUnauthenticated'
  BY <1>1, <1>2 DEF CutOff, AuthenticatedTracked, tracksAuthenticated, FreshUnauthenticated
<1>7. TrackedHold' /\ FoundRemembered'
  BY <1>1, <1>2, <1>3, SessionOfType DEF CutOff, TrackedHold, FoundRemembered
<1>8. RowsEnded'
  BY <1>1 DEF CutOff, RowsEnded, dbVars
<1>. QED
  BY <1>4, <1>5, <1>6, <1>7, <1>8 DEF CutOff

\* A transport closes: its connected sockets are untracked, the others stay.
LEMMA CloseConnCutOff ==
    ASSUME CutOff, NEW k \in Conns, CloseConn(k)
    PROVE  CutOff'
<1> DEFINE lost == {x \in Sockets : ConnOf[x] = k /\ phase[x] = "connected"}
<1>1. /\ connState' = [connState EXCEPT ![k] = "closed"]
      /\ phase' = [x \in Sockets |-> IF x \in lost THEN "over" ELSE phase[x]]
      /\ socketsBySessionId' = [s \in Sessions |-> socketsBySessionId[s] \ lost]
      /\ UNCHANGED <<dbVars, isAuthenticated, revokedAtBySessionId>>
  BY DEF CloseConn, untrack
<1>2. \A x \in lost : x \in Sockets /\ phase[x] = "connected"
  OBVIOUS
<1> HIDE DEF lost
<1>3. \A s \in Sessions : isRevoked(s)' <=> isRevoked(s)
  BY <1>1 DEF isRevoked, dbVars
<1>4. TypeOK'
  <2>1. /\ connState' \in [Conns -> {"open", "closing", "closed"}]
        /\ phase' \in [Sockets -> {"new", "found", "authenticated", "connected", "over"}]
        /\ socketsBySessionId' \in [Sessions -> SUBSET Sockets]
    BY <1>1 DEF CutOff, TypeOK
  <2>2. \A s \in Sessions : \A x \in socketsBySessionId'[s] : SessionOf(x) = s /\ isAuthenticated'[x]
    BY <1>1 DEF CutOff, TypeOK
  <2>. QED
    BY <1>1, <2>1, <2>2 DEF CutOff, TypeOK, dbVars
<1>5. LiveTracked'
  BY <1>1, <1>2, SessionOfType DEF CutOff, LiveTracked, live
<1>6. AuthenticatedTracked'
  <2> SUFFICES ASSUME NEW x \in Sockets, phase'[x] = "authenticated", isAuthenticated'[x],
                      connState'[ConnOf[x]] = "open"
               PROVE  x \in socketsBySessionId'[SessionOf(x)]
    BY DEF AuthenticatedTracked, tracksAuthenticated
  <2>1. phase[x] = "authenticated" /\ x \notin lost /\ connState[ConnOf[x]] = "open"
    BY <1>1, <1>2, SessionOfType DEF CutOff, TypeOK
  <2>. QED
    BY <1>1, <2>1, SessionOfType DEF CutOff, AuthenticatedTracked, tracksAuthenticated
<1>7. TrackedHold'
  BY <1>1, <1>3 DEF CutOff, TrackedHold
<1>8. FoundRemembered' /\ FreshUnauthenticated'
  BY <1>1, <1>3, SessionOfType DEF CutOff, FoundRemembered, FreshUnauthenticated
<1>9. RowsEnded'
  BY <1>1 DEF CutOff, RowsEnded, dbVars
<1>. QED
  BY <1>4, <1>5, <1>6, <1>7, <1>8, <1>9 DEF CutOff

LEMMA NextCutOff == CutOff /\ [Next]_vars => CutOff'
<1> SUFFICES ASSUME CutOff, [Next]_vars PROVE CutOff'
  OBVIOUS
<1>1. CASE \E s \in Sessions : \/ \E state \in {"gated", "satisfied"} : CreateSession(s, state)
                               \/ SatisfyMfa(s)
                               \/ Expire(s)
  BY <1>1, RowsCutOff
<1>2. CASE \E S \in SUBSET Sessions : DestroySessions(S)
  <2>1. PICK S \in SUBSET Sessions : DestroySessions(S)
    BY <1>2
  <2>2. PICK s \in Sessions : s \in S
    BY <2>1 DEF DestroySessions
  <2>. QED
    BY <2>1, RowsCutOff
<1>3. CASE \E S \in SUBSET Sessions : SessionsRevoked(S) \/ Sweep(S)
  BY <1>3, SessionsRevokedCutOff, SweepCutOff
<1>4. CASE \E x \in Sockets : ReadSession(x) \/ Track(x) \/ Admit(x) \/ Deny(x)
  BY <1>4, ReadSessionCutOff, TrackCutOff, AdmitDenyCutOff
<1>5. CASE \E k \in Conns : CloseConn(k)
  BY <1>5, CloseConnCutOff
<1>6. CASE UNCHANGED vars
  BY <1>6 DEF CutOff, TypeOK, LiveTracked, live, AuthenticatedTracked, tracksAuthenticated, TrackedHold,
      FoundRemembered, FreshUnauthenticated, RowsEnded, isRevoked, vars, dbVars, connVars, mapVars
<1>. QED
  BY <1>1, <1>2, <1>3, <1>4, <1>5, <1>6 DEF Next

LEMMA InvariantCutOff == Spec => []CutOff
  BY InitCutOff, NextCutOff, PTL DEF Spec

\* Every variable keeps its type; only authenticated sockets are tracked, each under the
\* session of its own cookie.
THEOREM SessionsTypeCorrect == Spec => []TypeOK
<1>1. CutOff => TypeOK
  BY DEF CutOff
<1>. QED
  BY <1>1, InvariantCutOff, PTL

\* track, disconnectSessions and the sweep leave no connected, authenticated socket that
\* the next revocation of its session would not find.
THEOREM LiveSocketsTracked == Spec => []LiveTracked
<1>1. CutOff => LiveTracked
  BY DEF CutOff
<1>. QED
  BY <1>1, InvariantCutOff, PTL

\* Once sessions:revoked has named a session, deleted or expired, no socket of it is connected,
\* whichever step of its authentication the event met.
THEOREM SessionsAreCutOff == Spec => []SessionsCutOff
<1>1. CutOff => SessionsCutOff
  BY SessionOfType DEF CutOff, LiveTracked, TrackedHold, SessionsCutOff
<1>. QED
  BY <1>1, InvariantCutOff, PTL

-----------------------------------------------------------------------------
(* The rows and their announcements are those of SessionRows.               *)

LEMMA InitRows == Init => Protocol!Init
  BY DEF Init, Protocol!Init, rowState

\* An action leaves the rows and the announcements as they are, or is a step of SessionRows.
LEMMA NextRows == CutOff /\ [Next]_vars => [Protocol!Next]_<<rowState, expired, announced>>
<1> SUFFICES ASSUME CutOff, [Next]_vars PROVE [Protocol!Next]_<<rowState, expired, announced>>
  OBVIOUS
<1>1. row \in [Sessions -> {"none", "gated", "satisfied", "gone"}]
  BY DEF CutOff, TypeOK
<1>2. ASSUME UNCHANGED <<row, expired, announced>> PROVE UNCHANGED <<rowState, expired, announced>>
  BY <1>2 DEF rowState
<1>3. ASSUME NEW s \in Sessions, NEW state \in {"gated", "satisfied"}, CreateSession(s, state)
      PROVE  Protocol!Create(s, state)
  BY <1>1, <1>3 DEF CreateSession, Protocol!Create, rowState
<1>4. ASSUME NEW s \in Sessions, SatisfyMfa(s) PROVE Protocol!Lift(s)
  BY <1>1, <1>4 DEF SatisfyMfa, Protocol!Lift, rowState
<1>5. ASSUME NEW S \in SUBSET Sessions, DestroySessions(S) PROVE Protocol!Destroy(S)
  BY <1>1, <1>5 DEF DestroySessions, Protocol!Destroy, rowState
<1>6. ASSUME NEW S \in SUBSET Sessions, SessionsRevoked(S) PROVE Protocol!Announce(S)
  <2>1. \A s \in S : row[s] = "gone"
    BY <1>6 DEF SessionsRevoked, CutOff, RowsEnded
  <2>2. announced' = announced \cup S /\ UNCHANGED <<row, expired>>
    BY <1>6 DEF SessionsRevoked
  <2>. QED
    BY <1>1, <2>1, <2>2 DEF Protocol!Announce, rowState
<1>7. ASSUME NEW s \in Sessions, Expire(s) PROVE Protocol!Expire(s)
  BY <1>1, <1>7 DEF Expire, Protocol!Expire, rowState
<1>8. ASSUME NEW D \in SUBSET Sessions, Sweep(D)
      PROVE  \E S \in SUBSET Sessions : Protocol!Announce(S)
  <2> DEFINE S == expiredTracked(untrack({x \in Sockets : isDead(x)}))
  <2>1. S \in SUBSET Sessions /\ \A s \in S : s \in expired
    BY DEF expiredTracked
  <2>2. announced' = announced \cup S /\ UNCHANGED <<row, expired>>
    BY <1>8 DEF Sweep
  <2> HIDE DEF S
  <2>3. Protocol!Announce(S)
    BY <2>1, <2>2 DEF Protocol!Announce, rowState
  <2>. QED
    BY <2>1, <2>3
<1>9. ASSUME NEW x \in Sockets, ReadSession(x) \/ Track(x) \/ Admit(x) \/ Deny(x)
      PROVE  UNCHANGED <<row, expired, announced>>
  BY <1>9 DEF ReadSession, Track, Admit, Deny, dbVars
<1>10. ASSUME NEW k \in Conns, CloseConn(k) PROVE UNCHANGED <<row, expired, announced>>
  BY <1>10 DEF CloseConn, dbVars
<1>11. CASE UNCHANGED vars
  BY <1>2, <1>11 DEF vars, dbVars
<1>. QED
  BY <1>2, <1>3, <1>4, <1>5, <1>6, <1>7, <1>8, <1>9, <1>10, <1>11 DEF Next, Protocol!Next

\* What the sockets are told of the session rows, overlapping deletions and the sweep included,
\* is what SessionRows allows: sessions:revoked names a session only when its row is gone or it
\* has expired.
THEOREM RowsKeepProtocol == Spec => RowsProtocol
<1>1. Spec => Protocol!Spec
  BY InitRows, NextRows, InvariantCutOff, PTL DEF Spec, Protocol!Spec
<1>. QED
  BY <1>1 DEF RowsProtocol
=============================================================================
