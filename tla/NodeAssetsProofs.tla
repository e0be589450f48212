--------------------------- MODULE NodeAssetsProofs ---------------------------
(***************************************************************************)
(* Proofs about NodeAssets, for any number of nodes, sockets and requests, *)
(* any length of what is fetched, any cap and any window.                  *)
(***************************************************************************)
EXTENDS NodeAssets, FiniteSetTheorems, TLAPS

\* The registry files a control socket under its own node.
RegistryExact ==
    \A n \in Nodes : nodeSocketsByNodeId[n] # None => NodeOf[nodeSocketsByNodeId[n]] = n

\* The next chunk expected is the one after the last taken, or no further one is taken.
ChunksAligned == \A r \in Requests : pending[r].nextExpectedSeq = Len(got[r]) \/ rejects(r)

Tracking ==
    TypeOK /\ TimersMatch /\ RegistryExact /\ PendingOnline /\ ChunksAligned /\ ChunksInOrder

\* The parts of the types that handlers change separately.
NodeTypes ==
    /\ nodeSocketsByNodeId \in [Nodes -> NodeSockets \cup {None}]
    /\ nodeConn \in [NodeSockets -> {"new", "up", "down"}]
    /\ filed \in [NodeSockets -> {"no", "in time", "late"}]

ChunkTypes ==
    /\ got \in [Requests -> Seq(Nat)]
    /\ writing \in [Requests -> SUBSET Nat]
    /\ failing \in [Requests -> SUBSET Nat]
    /\ overtaken \subseteq Requests

RemoteTypes ==
    /\ browser \in [Requests -> {"open", "closed"}]
    /\ via \in [Requests -> NodeSockets \cup {None}]
    /\ sent \in [Requests -> Nat]
    /\ acked \in [Requests -> Nat]

LEMMA TypeParts ==
    TypeOK <=> NodeTypes /\ pending \in [Requests -> Pending] /\ ChunkTypes /\ RemoteTypes
    BY DEF TypeOK, NodeTypes, ChunkTypes, RemoteTypes

LEMMA TypedCounters ==
    ASSUME TypeOK
    PROVE  /\ sent \in [Requests -> Nat] /\ acked \in [Requests -> Nat]
           /\ \A r \in Requests : Len(got[r]) \in Nat
<1>1. sent \in [Requests -> Nat] /\ acked \in [Requests -> Nat] /\ got \in [Requests -> Seq(Nat)]
  BY DEF TypeOK
<1>2. ASSUME NEW r \in Requests PROVE Len(got[r]) \in Nat
  <2>1. got[r] \in Seq(Nat)
    BY <1>1
  <2>. QED
    BY <2>1
<1>. QED
  BY <1>1, <1>2

LEMMA CountedUp ==
    ASSUME NEW f \in [Requests -> Nat], NEW r \in Requests
    PROVE  [f EXCEPT ![r] = f[r] + 1] \in [Requests -> Nat]
    OBVIOUS

-----------------------------------------------------------------------------
(* What the handlers do to one record.                                      *)

LEMMA ClearedRequest ==
    ASSUME NEW p \in Pending
    PROVE  LET c == clearPendingRequest(p)
           IN  /\ c \in Pending
               /\ ~c.listed /\ ~c.initialTimeout /\ ~c.chunkTimeout /\ ~c.maxTimeout
               /\ c.settles = p.settles /\ c.state = p.state
               /\ c.nextExpectedSeq = p.nextExpectedSeq
    BY DEF clearPendingRequest, Pending

LEMMA FailedRequest ==
    ASSUME NEW p \in Pending, timersMatch(p)
    PROVE  LET q == failPendingRequest(p)
           IN  /\ q \in Pending /\ timersMatch(q) /\ ~q.listed
               /\ q.nextExpectedSeq = p.nextExpectedSeq /\ q.state = p.state
               /\ p.listed => p.settles = 0 /\ q.settles = 1
               /\ ~p.listed => q = p
<1>1. CASE p.listed
  <2>1. p.settles = 0
    BY <1>1 DEF timersMatch
  <2> DEFINE c == clearPendingRequest(p)
  <2>2. c \in Pending /\ ~c.listed /\ c.settles = 0
    BY <2>1, ClearedRequest
  <2>3. failPendingRequest(p) = [c EXCEPT !.settles = c.settles + 1]
    BY <1>1 DEF failPendingRequest
  <2>4. c.settles + 1 = 1
    BY <2>2
  <2>5. failPendingRequest(p) = [c EXCEPT !.settles = 1]
    BY <2>3, <2>4
  <2>6. /\ ~c.initialTimeout /\ ~c.chunkTimeout /\ ~c.maxTimeout
        /\ c.state = p.state /\ c.nextExpectedSeq = p.nextExpectedSeq
    BY ClearedRequest
  <2> HIDE DEF c
  <2>. QED
    BY <1>1, <2>1, <2>2, <2>5, <2>6 DEF Pending, timersMatch
<1>2. CASE ~p.listed
  BY <1>2 DEF failPendingRequest
<1>. QED
  BY <1>1, <1>2

LEMMA RespondedRequest ==
    ASSUME NEW p \in Pending, timersMatch(p), p.listed
    PROVE  LET q == resetChunkTimeout([p EXCEPT !.state = "streaming"])
           IN  /\ q \in Pending /\ timersMatch(q) /\ q.listed /\ q.settles = p.settles
               /\ q.nextExpectedSeq = p.nextExpectedSeq
    BY DEF resetChunkTimeout, Pending, timersMatch

LEMMA ChunkedRequest ==
    ASSUME NEW p \in Pending, timersMatch(p), p.listed, p.state = "streaming"
    PROVE  LET q == chunkTaken(p)
           IN  /\ q \in Pending /\ timersMatch(q) /\ q.listed /\ q.settles = p.settles
               /\ q.nextExpectedSeq = p.nextExpectedSeq + 1
<1>1. p.nextExpectedSeq + 1 \in Nat
  BY DEF Pending
<1>. QED
  BY <1>1 DEF chunkTaken, resetChunkTimeout, Pending, timersMatch

LEMMA EndedRequest ==
    ASSUME NEW p \in Pending, timersMatch(p), p.listed
    PROVE  LET q == endedRequest(p)
           IN  /\ q \in Pending /\ timersMatch(q) /\ ~q.listed
               /\ p.settles = 0 /\ q.settles = 1 /\ q.nextExpectedSeq = p.nextExpectedSeq
<1>1. p.settles = 0
  BY DEF timersMatch
<1> DEFINE c == clearPendingRequest(p)
<1>2. /\ c \in Pending /\ ~c.listed /\ c.settles = 0
      /\ ~c.initialTimeout /\ ~c.chunkTimeout /\ ~c.maxTimeout
      /\ c.nextExpectedSeq = p.nextExpectedSeq
  BY <1>1, ClearedRequest
<1>3. c.settles + 1 = 1
  BY <1>2
<1> HIDE DEF c
<1>4. endedRequest(p) = [c EXCEPT !.state = "done", !.settles = 1]
  <2>1. endedRequest(p) = [c EXCEPT !.state = "done", !.settles = c.settles + 1]
    BY <1>2 DEF endedRequest, c, Pending
  <2>. QED
    BY <1>3, <2>1
<1>5. [c EXCEPT !.state = "done", !.settles = 1] \in Pending
  BY <1>2 DEF Pending
<1>. QED
  BY <1>1, <1>2, <1>4, <1>5 DEF Pending, timersMatch

-----------------------------------------------------------------------------
(* Every step keeps the invariant.                                          *)

LEMMA InitTracking == Init => Tracking
<1> SUFFICES ASSUME Init PROVE Tracking
  OBVIOUS
<1>1. NotRequested \in Pending /\ timersMatch(NotRequested)
  BY DEF NotRequested, Pending, timersMatch
<1>2. TypeOK /\ RegistryExact
  BY <1>1 DEF Init, TypeOK, RegistryExact
<1>3. TimersMatch /\ PendingOnline
  BY <1>1 DEF Init, TimersMatch, PendingOnline, NotRequested
<1>4. ChunksAligned /\ ChunksInOrder
  BY DEF Init, ChunksAligned, ChunksInOrder, NotRequested
<1>. QED
  BY <1>2, <1>3, <1>4 DEF Tracking

\* One request changes, and no chunk is taken.
LEMMA RequestTracking ==
    ASSUME Tracking, NEW r \in Requests, NEW q \in Pending, pending' = [pending EXCEPT ![r] = q],
           timersMatch(q), q.nextExpectedSeq = pending[r].nextExpectedSeq,
           q.listed => connectedOrLate(TargetOf[r]),
           UNCHANGED nodeVars, got' = got, ChunkTypes', RemoteTypes',
           \A s \in Requests : browser[s] = "closed" => browser'[s] = "closed"
    PROVE  Tracking'
<1>1. pending' \in [Requests -> Pending] /\ \A s \in Requests : pending'[s] = IF s = r THEN q ELSE pending[s]
  BY DEF Tracking, TypeOK
<1>2. TypeOK' /\ RegistryExact'
  BY <1>1, TypeParts DEF Tracking, TypeOK, NodeTypes, ChunkTypes, RemoteTypes, nodeVars, RegistryExact
<1>3. TimersMatch'
  BY <1>1 DEF Tracking, TimersMatch
<1>4. PendingOnline'
  BY <1>1 DEF Tracking, PendingOnline, connectedOrLate, nodeVars
<1>5. ChunksAligned'
  <2>1. \A s \in Requests : pending'[s].nextExpectedSeq = pending[s].nextExpectedSeq
    BY <1>1
  <2>. QED
    BY <2>1 DEF Tracking, ChunksAligned, rejects
<1>6. ChunksInOrder'
  BY DEF Tracking, ChunksInOrder
<1>. QED
  BY <1>2, <1>3, <1>4, <1>5, <1>6 DEF Tracking

LEMMA FailsTracking ==
    ASSUME Tracking, NEW r \in Requests, fails(r) \/ UNCHANGED pending,
           UNCHANGED nodeVars, got' = got, ChunkTypes', RemoteTypes',
           \A s \in Requests : browser[s] = "closed" => browser'[s] = "closed"
    PROVE  Tracking'
<1>1. pending[r] \in Pending /\ timersMatch(pending[r])
  BY DEF Tracking, TypeOK, TimersMatch
<1>2. pending[r].listed => connectedOrLate(TargetOf[r])
  BY DEF Tracking, PendingOnline
<1>3. CASE fails(r)
  <2> DEFINE q == failPendingRequest(pending[r])
  <2>1. /\ q \in Pending /\ timersMatch(q) /\ ~q.listed
        /\ q.nextExpectedSeq = pending[r].nextExpectedSeq
    BY <1>1, FailedRequest
  <2>2. pending' = [pending EXCEPT ![r] = q]
    BY <1>3 DEF fails
  <2> HIDE DEF q
  <2>. QED
    BY <2>1, <2>2, RequestTracking
<1>4. CASE UNCHANGED pending
  <2>1. pending' = [pending EXCEPT ![r] = pending[r]]
    BY <1>4 DEF Tracking, TypeOK
  <2>. QED
    BY <1>1, <1>2, <2>1, RequestTracking
<1>. QED
  BY <1>3, <1>4

LEMMA TimeoutTracking ==
    ASSUME Tracking, NEW r \in Requests,
           InitialTimeout(r) \/ ChunkTimeout(r) \/ MaxTimeout(r) \/ HandleHttpError(r)
    PROVE  Tracking'
<1>1. fails(r) /\ UNCHANGED <<nodeVars, chunkVars, remoteVars>>
  BY DEF InitialTimeout, ChunkTimeout, MaxTimeout, HandleHttpError, Expires
<1>2. ChunkTypes' /\ RemoteTypes' /\ got' = got /\ browser' = browser
  BY <1>1, TypeParts DEF Tracking, ChunkTypes, RemoteTypes, chunkVars, remoteVars
<1>. QED
  BY <1>1, <1>2, FailsTracking

LEMMA RemoteTracking ==
    ASSUME Tracking, NEW r \in Requests, BrowserCloses(r) \/ NodeLoses(r)
    PROVE  Tracking'
<1>1. /\ UNCHANGED <<nodeVars, pending, chunkVars, via, acked>>
      /\ browser' = browser \/ browser' = [browser EXCEPT ![r] = "closed"]
      /\ sent' = sent \/ sent' = [sent EXCEPT ![r] = sent[r] + 1]
  BY DEF BrowserCloses, NodeLoses, nodeSends
<1>2. ChunkTypes' /\ got' = got
  BY <1>1 DEF Tracking, TypeOK, ChunkTypes, chunkVars
<1>3. RemoteTypes'
  <2>1. sent' \in [Requests -> Nat]
    BY <1>1, TypedCounters, CountedUp DEF Tracking
  <2>2. browser' \in [Requests -> {"open", "closed"}]
    BY <1>1 DEF Tracking, TypeOK
  <2>. QED
    BY <1>1, <2>1, <2>2 DEF Tracking, TypeOK, RemoteTypes
<1>4. \A s \in Requests : browser[s] = "closed" => browser'[s] = "closed"
  BY <1>1 DEF Tracking, TypeOK
<1>. QED
  BY <1>1, <1>2, <1>3, <1>4, FailsTracking

LEMMA ProxyNodeHttpTracking ==
    ASSUME Tracking, NEW r \in Requests, ProxyNodeHttp(r)
    PROVE  Tracking'
<1> DEFINE q == [NotRequested EXCEPT !.listed = TRUE, !.state = "awaiting_response",
                                     !.initialTimeout = TRUE, !.maxTimeout = TRUE]
<1>1. /\ pending' = [pending EXCEPT ![r] = q] /\ connectedOrLate(TargetOf[r])
      /\ pending[r] = NotRequested
      /\ via' = [via EXCEPT ![r] = nodeSocketsByNodeId[TargetOf[r]]]
      /\ UNCHANGED <<nodeVars, chunkVars, browser, sent, acked>>
  BY DEF ProxyNodeHttp, nodeSocketUp, connectedOrLate
<1>2. q \in Pending /\ timersMatch(q) /\ q.nextExpectedSeq = NotRequested.nextExpectedSeq
  BY DEF NotRequested, Pending, timersMatch
<1> HIDE DEF q
<1>3. ChunkTypes' /\ RemoteTypes' /\ got' = got /\ browser' = browser
  BY <1>1, AssetsAssumption DEF Tracking, TypeOK, ChunkTypes, RemoteTypes, chunkVars
<1>. QED
  BY <1>1, <1>2, <1>3, RequestTracking

LEMMA ResponseTracking ==
    ASSUME Tracking, NEW r \in Requests, HandleHttpResponse(r)
    PROVE  Tracking'
<1>1. /\ UNCHANGED <<nodeVars, chunkVars, browser, via, acked>>
      /\ sent' = [sent EXCEPT ![r] = 1]
  BY DEF HandleHttpResponse, nodeSends
<1>2. ChunkTypes' /\ RemoteTypes' /\ got' = got /\ browser' = browser
  BY <1>1 DEF Tracking, TypeOK, ChunkTypes, RemoteTypes, chunkVars
<1>3. CASE UNCHANGED pending
  BY <1>1, <1>2, <1>3, FailsTracking
<1>4. CASE pending[r].listed /\ pending[r].state = "awaiting_response"
  <2> DEFINE q == resetChunkTimeout([pending[r] EXCEPT !.state = "streaming"])
  <2>1. pending[r] \in Pending /\ timersMatch(pending[r]) /\ connectedOrLate(TargetOf[r])
    BY <1>4 DEF Tracking, TypeOK, TimersMatch, PendingOnline
  <2>2. q \in Pending /\ timersMatch(q) /\ q.nextExpectedSeq = pending[r].nextExpectedSeq
    BY <1>4, <2>1, RespondedRequest
  <2>3. pending' = [pending EXCEPT ![r] = q]
    BY <1>4 DEF HandleHttpResponse
  <2> HIDE DEF q
  <2>. QED
    BY <1>1, <1>2, <2>1, <2>2, <2>3, RequestTracking
<1>. QED
  BY <1>3, <1>4 DEF HandleHttpResponse

LEMMA EndTracking ==
    ASSUME Tracking, NEW r \in Requests, HandleHttpEnd(r)
    PROVE  Tracking'
<1>1. /\ UNCHANGED <<nodeVars, got, writing, failing, browser, via, acked>>
      /\ sent' = [sent EXCEPT ![r] = Length[r] + 2]
      /\ overtaken' \in {overtaken, overtaken \cup {r}}
  BY DEF HandleHttpEnd, nodeEnds
<1>2. ChunkTypes' /\ RemoteTypes' /\ got' = got /\ browser' = browser
  <2>1. Length[r] + 2 \in Nat
    BY AssetsAssumption
  <2>2. sent' \in [Requests -> Nat]
    BY <1>1, <2>1 DEF Tracking, TypeOK
  <2>. QED
    BY <1>1, <2>2 DEF Tracking, TypeOK, ChunkTypes, RemoteTypes
<1>3. CASE ~streaming(r)
  <2>1. UNCHANGED pending
    BY <1>3 DEF HandleHttpEnd, Tracking, TypeOK
  <2>. QED
    BY <1>1, <1>2, <2>1, FailsTracking
<1>4. CASE streaming(r)
  <2> DEFINE q == endedRequest(pending[r])
  <2>1. pending[r] \in Pending /\ timersMatch(pending[r]) /\ pending[r].listed
    BY <1>4 DEF Tracking, TypeOK, TimersMatch, streaming
  <2>2. q \in Pending /\ timersMatch(q) /\ ~q.listed /\ q.nextExpectedSeq = pending[r].nextExpectedSeq
    BY <2>1, EndedRequest
  <2>3. pending' = [pending EXCEPT ![r] = q]
    BY <1>4 DEF HandleHttpEnd
  <2> HIDE DEF q
  <2>. QED
    BY <1>1, <1>2, <2>2, <2>3, RequestTracking
<1>. QED
  BY <1>3, <1>4

LEMMA CallbackTracking ==
    ASSUME Tracking, NEW r \in Requests, NEW seq \in writing[r] \cup failing[r],
           ChunkWritten(r, seq) \/ ChunkFails(r, seq)
    PROVE  Tracking'
<1>1. /\ UNCHANGED <<nodeVars, got, overtaken, browser, via, sent>>
      /\ writing' = [writing EXCEPT ![r] = @ \ {seq}]
      /\ failing' = failing \/ failing' = [failing EXCEPT ![r] = @ \ {seq}]
      /\ acked' = acked \/ acked' = [acked EXCEPT ![r] = acked[r] + 1]
      /\ fails(r) \/ UNCHANGED pending
  BY DEF ChunkWritten, ChunkFails, rejected, remoteVars
<1>2. ChunkTypes' /\ got' = got /\ browser' = browser
  <2>0. writing \in [Requests -> SUBSET Nat] /\ failing \in [Requests -> SUBSET Nat]
    BY DEF Tracking, TypeOK
  <2>1. writing' \in [Requests -> SUBSET Nat]
    <3>1. writing[r] \ {seq} \in SUBSET Nat
      BY <2>0
    <3>. QED
      BY <1>1, <2>0, <3>1
  <2>2. failing' \in [Requests -> SUBSET Nat]
    <3>1. failing[r] \ {seq} \in SUBSET Nat
      BY <2>0
    <3>. QED
      BY <1>1, <2>0, <3>1
  <2>3. got' = got /\ browser' = browser /\ got \in [Requests -> Seq(Nat)] /\ overtaken' \subseteq Requests
    BY <1>1 DEF Tracking, TypeOK
  <2>. QED
    BY <2>1, <2>2, <2>3 DEF ChunkTypes
<1>3. RemoteTypes'
  <2>1. acked' \in [Requests -> Nat]
    BY <1>1, TypedCounters, CountedUp DEF Tracking
  <2>. QED
    BY <1>1, <2>1 DEF Tracking, TypeOK, RemoteTypes
<1>. QED
  BY <1>1, <1>2, <1>3, FailsTracking

LEMMA ChunkTracking ==
    ASSUME Tracking, NEW r \in Requests, NEW empty \in BOOLEAN, HandleHttpChunk(r, empty)
    PROVE  Tracking'
<1> DEFINE seq == sent[r] - 1
<1>1. /\ UNCHANGED <<nodeVars, browser, via, acked>>
      /\ sent' = [sent EXCEPT ![r] = sent[r] + 1]
      /\ sent[r] \in 1..Length[r]
  BY DEF HandleHttpChunk, nodeSends, nodeSendsChunk
<1>2. RemoteTypes' /\ browser' = browser /\ seq \in Nat
  <2>1. sent[r] \in Nat /\ Length[r] \in Nat
    BY AssetsAssumption, TypedCounters DEF Tracking
  <2>2. sent' \in [Requests -> Nat]
    BY <1>1, TypedCounters, CountedUp DEF Tracking
  <2>3. seq \in Nat
    BY <1>1, <2>1
  <2>. QED
    BY <1>1, <2>2, <2>3 DEF Tracking, TypeOK, RemoteTypes
<1>3. CASE UNCHANGED chunkVars /\ (UNCHANGED pending \/ fails(r))
  <2>1. ChunkTypes' /\ got' = got
    BY <1>3 DEF Tracking, TypeOK, ChunkTypes, chunkVars
  <2>. QED
    BY <1>1, <1>2, <1>3, <2>1, FailsTracking
<1>4. CASE /\ streaming(r) /\ isExpected(r, seq)
           /\ pending' = [pending EXCEPT ![r] = chunkTaken(@)]
           /\ onChunk(r, seq)
  <2> DEFINE q == chunkTaken(pending[r])
  <2>1. /\ pending[r] \in Pending /\ timersMatch(pending[r]) /\ connectedOrLate(TargetOf[r])
        /\ pending[r].listed /\ pending[r].state = "streaming"
    BY <1>4 DEF Tracking, TypeOK, TimersMatch, PendingOnline, streaming
  <2>2. /\ q \in Pending /\ timersMatch(q) /\ q.nextExpectedSeq = pending[r].nextExpectedSeq + 1
        /\ pending[r].nextExpectedSeq = seq
    BY <1>4, <2>1, ChunkedRequest DEF isExpected
  <2>3. pending' = [pending EXCEPT ![r] = q]
    BY <1>4
  <2> HIDE DEF q, seq
  <2>4. pending' \in [Requests -> Pending]
        /\ \A s \in Requests : pending'[s] = IF s = r THEN q ELSE pending[s]
    BY <2>2, <2>3 DEF Tracking, TypeOK
  <2>5. TimersMatch' /\ PendingOnline' /\ RegistryExact'
    BY <1>1, <2>1, <2>2, <2>4
    DEF Tracking, TimersMatch, PendingOnline, RegistryExact, connectedOrLate, nodeVars
  <2>6. CASE rejects(r)
    <3>1. /\ got' = got /\ writing' = writing /\ overtaken' = overtaken
          /\ failing' = [failing EXCEPT ![r] = @ \cup {seq}]
      BY <1>4, <2>6 DEF onChunk
    <3>2. ChunkTypes'
      BY <1>2, <3>1 DEF Tracking, TypeOK, ChunkTypes
    <3>3. ChunksAligned' /\ ChunksInOrder'
      BY <1>2, <2>4, <2>6, <3>1 DEF Tracking, ChunksAligned, ChunksInOrder, rejects
    <3>4. TypeOK'
      BY <1>1, <1>2, <2>4, <3>2 DEF Tracking, TypeOK, ChunkTypes, RemoteTypes, nodeVars
    <3>. QED
      BY <2>5, <3>3, <3>4 DEF Tracking
  <2>7. CASE ~rejects(r)
    <3>1. /\ got' = [got EXCEPT ![r] = Append(got[r], seq)]
          /\ writing' = [writing EXCEPT ![r] = @ \cup {seq}] /\ failing' = failing
          /\ overtaken' = overtaken
      BY <1>4, <2>7 DEF onChunk
    <3>2. got[r] \in Seq(Nat) /\ seq = Len(got[r])
      BY <2>2, <2>7 DEF Tracking, TypeOK, ChunksAligned
    <3>3. \A s \in Requests : got'[s] = IF s = r THEN Append(got[r], seq) ELSE got[s]
      BY <3>1 DEF Tracking, TypeOK
    <3>4. ChunkTypes'
      <4>1. ChunkTypes
        BY TypeParts DEF Tracking
      <4>2. Append(got[r], seq) \in Seq(Nat) /\ writing[r] \cup {seq} \in SUBSET Nat
        BY <1>2, <3>2, <4>1 DEF ChunkTypes
      <4>3. got' \in [Requests -> Seq(Nat)]
        BY <3>1, <4>1, <4>2 DEF ChunkTypes
      <4>. QED
        BY <3>1, <4>1, <4>2, <4>3 DEF ChunkTypes
    <3>5. ChunksAligned'
      <4>1. Len(got'[r]) = Len(got[r]) + 1
        <5>1. got'[r] = Append(got[r], seq)
          BY <3>3
        <5>. QED
          BY <3>2, <5>1
      <4>2. pending'[r].nextExpectedSeq = Len(got'[r])
        BY <2>2, <2>4, <3>2, <4>1
      <4>3. \A s \in Requests : s # r => /\ pending'[s].nextExpectedSeq = pending[s].nextExpectedSeq
                                       /\ got'[s] = got[s]
        BY <2>4, <3>3
      <4>. QED
        BY <1>2, <4>2, <4>3 DEF Tracking, ChunksAligned, rejects
    <3>6. ChunksInOrder'
      <4>1. \A i \in DOMAIN got'[r] : got'[r][i] = i - 1
        <5> TAKE i \in DOMAIN got'[r]
        <5>1. got'[r] = Append(got[r], seq)
          BY <3>3
        <5>2. \A j \in 1..Len(got[r]) : got[r][j] = j - 1
          BY <3>2 DEF Tracking, ChunksInOrder
        <5>. QED
          BY <3>2, <5>1, <5>2
      <4>. QED
        BY <3>3, <4>1 DEF Tracking, ChunksInOrder
    <3>7. TypeOK'
      BY <1>1, <1>2, <2>4, <3>4 DEF Tracking, TypeOK, ChunkTypes, RemoteTypes, nodeVars
    <3>. QED
      BY <2>5, <3>5, <3>6, <3>7 DEF Tracking
  <2>. QED
    BY <2>6, <2>7
<1>. QED
  BY <1>3, <1>4 DEF HandleHttpChunk

\* A node's new socket: filed at once, later, too late, or never.
LEMMA NodeConnectTracking ==
    ASSUME Tracking, NEW ns \in NodeSockets,
           (\E secret \in BOOLEAN : NodeConnect(ns, secret)) \/ NodeRegister(ns)
    PROVE  Tracking'
<1>1. /\ nodeConn' = nodeConn \/ (nodeConn[ns] = "new" /\ nodeConn' = [nodeConn EXCEPT ![ns] = "up"])
      /\ UNCHANGED <<pending, chunkVars, remoteVars>>
  BY DEF NodeConnect, NodeRegister
<1>2. \/ UNCHANGED <<nodeSocketsByNodeId, filed>>
      \/ setNodeSocket(ns, nodeConn'[ns]) /\ nodeConn'[ns] # "new"
  BY DEF NodeConnect, NodeRegister, Tracking, TypeOK
<1>3. NodeTypes'
  <2>1. NodeTypes
    BY TypeParts DEF Tracking
  <2>2. nodeConn' \in [NodeSockets -> {"new", "up", "down"}]
    BY <1>1, <2>1 DEF NodeTypes
  <2>3. nodeSocketsByNodeId' \in [Nodes -> NodeSockets \cup {None}]
    BY <1>2, <2>1 DEF NodeTypes, setNodeSocket
  <2>4. filed' \in [NodeSockets -> {"no", "in time", "late"}]
    BY <1>2, <2>1 DEF NodeTypes, setNodeSocket
  <2>. QED
    BY <2>2, <2>3, <2>4 DEF NodeTypes
<1>4. TypeOK'
  BY <1>1, <1>3 DEF Tracking, TypeOK, NodeTypes, chunkVars, remoteVars
<1>5. RegistryExact'
  <2>1. nodeSocketsByNodeId \in [Nodes -> NodeSockets \cup {None}] /\ RegistryExact
    BY DEF Tracking, TypeOK
  <2>2. \A n \in Nodes : nodeSocketsByNodeId'[n] \in {nodeSocketsByNodeId[n], ns}
        /\ (nodeSocketsByNodeId'[n] # nodeSocketsByNodeId[n] => NodeOf[ns] = n)
    BY <1>2, <2>1 DEF setNodeSocket
  <2>. QED
    BY <2>1, <2>2 DEF RegistryExact
<1>6. ASSUME NEW n \in Nodes, connectedOrLate(n) PROVE connectedOrLate(n)'
  <2> DEFINE s == nodeSocketsByNodeId[n]
  <2>1. s \in NodeSockets /\ (nodeConn[s] = "up" \/ filed[s] = "late") /\ NodeOf[s] = n
    BY <1>6 DEF Tracking, TypeOK, RegistryExact, connectedOrLate
  <2>2. nodeConn[s] = "up" => nodeConn'[s] = "up"
    BY <1>1, <2>1 DEF Tracking, TypeOK
  <2>3. CASE UNCHANGED <<nodeSocketsByNodeId, filed>>
    BY <2>1, <2>2, <2>3, AssetsAssumption DEF connectedOrLate
  <2>4. CASE setNodeSocket(ns, nodeConn'[ns]) /\ nodeConn'[ns] # "new"
    <3>1. filed'[ns] = IF nodeConn'[ns] = "up" THEN "in time" ELSE "late"
      BY <2>4 DEF setNodeSocket, Tracking, TypeOK
    <3>2. CASE NodeOf[ns] = n
      <4>1. nodeSocketsByNodeId'[n] = ns
        BY <2>4, <3>2 DEF setNodeSocket, Tracking, TypeOK
      <4>. QED
        BY <3>1, <4>1, AssetsAssumption DEF connectedOrLate
    <3>3. CASE NodeOf[ns] # n
      <4>1. nodeSocketsByNodeId'[n] = s /\ filed'[s] = filed[s]
        BY <2>1, <2>4, <3>3, AssetsAssumption DEF setNodeSocket, Tracking, TypeOK
      <4>. QED
        BY <2>1, <2>2, <4>1, AssetsAssumption DEF connectedOrLate
    <3>. QED
      BY <3>2, <3>3
  <2>. QED
    BY <1>2, <2>3, <2>4
<1>7. PendingOnline' /\ TimersMatch'
  BY <1>1, <1>6, AssetsAssumption DEF Tracking, PendingOnline, TimersMatch
<1>8. ChunksAligned' /\ ChunksInOrder'
  BY <1>1 DEF Tracking, ChunksAligned, ChunksInOrder, rejects, chunkVars, remoteVars
<1>. QED
  BY <1>4, <1>5, <1>7, <1>8 DEF Tracking

LEMMA NodeDisconnectTracking ==
    ASSUME Tracking, NEW ns \in NodeSockets, NodeDisconnect(ns)
    PROVE  Tracking'
<1>1. nodeConn' = [nodeConn EXCEPT ![ns] = "down"] /\ UNCHANGED <<filed, chunkVars, remoteVars>>
  BY DEF NodeDisconnect
<1>2. nodeSocketsByNodeId' = IF isCurrent(ns) THEN [nodeSocketsByNodeId EXCEPT ![NodeOf[ns]] = None]
                             ELSE nodeSocketsByNodeId
  BY DEF NodeDisconnect
<1>3. \A r \in Requests :
        pending'[r] = IF isCurrent(ns) /\ TargetOf[r] = NodeOf[ns] THEN failPendingRequest(pending[r])
                      ELSE pending[r]
  BY DEF NodeDisconnect, failPendingRequestsForNode
<1>4. ASSUME NEW r \in Requests
      PROVE  /\ pending'[r] \in Pending /\ timersMatch(pending'[r])
             /\ pending'[r].nextExpectedSeq = pending[r].nextExpectedSeq
             /\ pending'[r].listed => pending[r].listed
             /\ pending'[r].listed /\ isCurrent(ns) => TargetOf[r] # NodeOf[ns]
  <2>1. pending[r] \in Pending /\ timersMatch(pending[r])
    BY DEF Tracking, TypeOK, TimersMatch
  <2>. QED
    BY <1>3, <2>1, FailedRequest
<1>9. pending' \in [Requests -> Pending]
  BY <1>4 DEF NodeDisconnect, failPendingRequestsForNode, Tracking, TypeOK
<1>10. TimersMatch'
  BY <1>4 DEF TimersMatch
<1>5. TypeOK'
  BY <1>1, <1>2, <1>9, AssetsAssumption DEF Tracking, TypeOK, chunkVars, remoteVars
<1>6. RegistryExact'
  BY <1>2, AssetsAssumption DEF Tracking, TypeOK, RegistryExact
<1>7. PendingOnline'
  <2> SUFFICES ASSUME NEW r \in Requests, pending'[r].listed
               PROVE  connectedOrLate(TargetOf[r])'
    BY DEF PendingOnline
  <2> DEFINE n == TargetOf[r]
  <2>0. pending[r].listed /\ ~(isCurrent(ns) /\ n = NodeOf[ns])
    BY <1>4
  <2>1. n \in Nodes /\ connectedOrLate(n) /\ ~(isCurrent(ns) /\ n = NodeOf[ns])
    BY <2>0, AssetsAssumption DEF Tracking, PendingOnline
  <2>2. nodeSocketsByNodeId'[n] = nodeSocketsByNodeId[n]
    BY <1>2, <2>1 DEF Tracking, TypeOK
  <2>3. nodeSocketsByNodeId[n] # ns
    BY <2>1 DEF Tracking, RegistryExact, isCurrent, connectedOrLate
  <2>. QED
    BY <1>1, <2>1, <2>2, <2>3 DEF connectedOrLate, Tracking, TypeOK
<1>8. ChunksAligned' /\ ChunksInOrder'
  <2>1. got' = got /\ browser' = browser
    BY <1>1 DEF chunkVars, remoteVars
  <2>2. \A r \in Requests : pending'[r].nextExpectedSeq = pending[r].nextExpectedSeq
    BY <1>4
  <2>. QED
    BY <2>1, <2>2 DEF Tracking, ChunksAligned, ChunksInOrder, rejects
<1>. QED
  BY <1>5, <1>6, <1>7, <1>8, <1>10 DEF Tracking

LEMMA NextTracking == Tracking /\ [Next]_vars => Tracking'
<1> SUFFICES ASSUME Tracking, [Next]_vars PROVE Tracking'
  OBVIOUS
<1>1. CASE UNCHANGED vars
  BY <1>1
  DEF vars, nodeVars, chunkVars, remoteVars, Tracking, TypeOK, TimersMatch, RegistryExact,
      PendingOnline, connectedOrLate, ChunksAligned, rejects, ChunksInOrder
<1>. QED
  BY <1>1, NodeConnectTracking, NodeDisconnectTracking, ProxyNodeHttpTracking, RemoteTracking,
     ResponseTracking, ChunkTracking, EndTracking, TimeoutTracking, CallbackTracking
  DEF Next

LEMMA InvariantTracking == Spec => []Tracking
<1>. QED
  BY InitTracking, NextTracking, PTL DEF Spec

\* Every variable of the asset transfers always has its type; no promise settles twice.
THEOREM AssetsTypeCorrect == Spec => []TypeOK
<1>1. Tracking => TypeOK
  BY DEF Tracking
<1>. QED
  BY <1>1, InvariantTracking, PTL

\* A request has exactly the timers of its state.
THEOREM TimersCorrect == Spec => []TimersMatch
<1>1. Tracking => TimersMatch
  BY DEF Tracking
<1>. QED
  BY <1>1, InvariantTracking, PTL

\* No request of a node that has gone is left pending: a node that disconnects between the
\* request and its answer takes its requests with it, unless a socket that was gone already had
\* been filed in place of its own.
THEOREM PendingAreOnline == Spec => []PendingOnline
<1>1. Tracking => PendingOnline
  BY DEF Tracking
<1>. QED
  BY <1>1, InvariantTracking, PTL

\* What is written or buffered is a beginning of what the node sent, for any window of
\* chunks in flight and whatever is lost.
THEOREM ChunksCorrect == Spec => []ChunksInOrder
<1>1. Tracking => ChunksInOrder
  BY DEF Tracking
<1>. QED
  BY <1>1, InvariantTracking, PTL

-----------------------------------------------------------------------------
(* A request that succeeded has all that was handled before its end.        *)

\* Chunks are acknowledged once written, and none is taken past the cap.
kept(r) ==
    /\ r \in Buffered => Len(got[r]) <= Cap
    /\ IsFiniteSet(writing[r]) /\ acked[r] + Cardinality(writing[r]) <= Len(got[r])

\* A chunk that was handled is taken or its rejection is on the way, until the end.
accounted(r) ==
    /\ pending[r].state = "idle" => Len(got[r]) = 0
    /\ pending[r].listed => Len(got[r]) = pending[r].nextExpectedSeq \/ failing[r] # {}
    /\ pending[r].state = "done" => Len(got[r]) = pending[r].nextExpectedSeq \/ r \in overtaken

whole(r) == kept(r) /\ accounted(r)

Delivering == Tracking /\ \A r \in Requests : whole(r)

LEMMA InitDelivering == Init => Delivering
<1> SUFFICES ASSUME Init, NEW r \in Requests PROVE whole(r)
  BY InitTracking DEF Delivering
<1>1. IsFiniteSet(writing[r]) /\ Cardinality(writing[r]) = 0
  BY FS_EmptySet DEF Init
<1>2. Len(got[r]) = 0 /\ acked[r] = 0 /\ pending[r].state = "idle" /\ ~pending[r].listed
  BY DEF Init, NotRequested
<1>. QED
  BY <1>1, <1>2, AssetsAssumption DEF whole, kept, accounted

\* A request that changes by no more than failing, or that gets its response.
LEMMA KeepsAccounted ==
    ASSUME NEW r \in Requests, accounted(r), got'[r] = got[r], overtaken' = overtaken,
           pending'[r].nextExpectedSeq = pending[r].nextExpectedSeq,
           pending'[r].listed => pending[r].listed /\ failing'[r] = failing[r],
           pending'[r].state \in {pending[r].state, "streaming"}
    PROVE  accounted(r)'
    BY DEF accounted

LEMMA FailsKeeps ==
    ASSUME Tracking, NEW r \in Requests, fails(r), NEW s \in Requests
    PROVE  /\ pending'[s].state = pending[s].state
           /\ pending'[s].nextExpectedSeq = pending[s].nextExpectedSeq
           /\ pending'[s].listed => pending[s].listed /\ s # r
<1>1. pending[r] \in Pending /\ timersMatch(pending[r])
  BY DEF Tracking, TypeOK, TimersMatch
<1> DEFINE q == failPendingRequest(pending[r])
<1>2. q.state = pending[r].state /\ q.nextExpectedSeq = pending[r].nextExpectedSeq /\ ~q.listed
  BY <1>1, FailedRequest
<1>3. pending' = [pending EXCEPT ![r] = q]
  BY DEF fails
<1> HIDE DEF q
<1>. QED
  BY <1>2, <1>3 DEF Tracking, TypeOK

LEMMA QuietWhole ==
    ASSUME Delivering, NEW s \in Requests,
           \/ UNCHANGED vars
           \/ \E ns \in NodeSockets : \/ \E secret \in BOOLEAN : NodeConnect(ns, secret)
                                      \/ NodeRegister(ns) \/ NodeDisconnect(ns)
           \/ \E r \in Requests :
                 \/ ProxyNodeHttp(r) \/ BrowserCloses(r) \/ HandleHttpResponse(r)
                 \/ HandleHttpError(r) \/ NodeLoses(r)
                 \/ InitialTimeout(r) \/ ChunkTimeout(r) \/ MaxTimeout(r)
    PROVE  whole(s)'
<1>1. UNCHANGED <<got, writing, failing, overtaken, acked>>
  BY DEF vars, NodeConnect, NodeRegister, NodeDisconnect, ProxyNodeHttp, BrowserCloses,
         HandleHttpResponse, HandleHttpError, NodeLoses, InitialTimeout, ChunkTimeout, MaxTimeout,
         Expires, chunkVars, remoteVars
<1>2. pending[s] \in Pending /\ timersMatch(pending[s]) /\ pending \in [Requests -> Pending]
      /\ Tracking /\ kept(s) /\ accounted(s)
  BY DEF Delivering, Tracking, TypeOK, TimersMatch, whole
<1>3. accounted(s)'
  <2>1. CASE UNCHANGED pending
    BY <1>1, <1>2, <2>1, KeepsAccounted
  <2>2. CASE \E r \in Requests : fails(r)
    BY <1>1, <1>2, <2>2, FailsKeeps, KeepsAccounted
  <2>3. CASE \E ns \in NodeSockets : NodeDisconnect(ns)
    <3>1. pending'[s] \in {pending[s], failPendingRequest(pending[s])}
      BY <2>3 DEF NodeDisconnect, failPendingRequestsForNode
    <3>2. /\ pending'[s].state = pending[s].state
          /\ pending'[s].nextExpectedSeq = pending[s].nextExpectedSeq
          /\ pending'[s].listed => pending[s].listed
      BY <1>2, <3>1, FailedRequest
    <3>. QED
      BY <1>1, <1>2, <3>2, KeepsAccounted
  <2>4. CASE \E r \in Requests : ProxyNodeHttp(r)
    <3>1. PICK r \in Requests : ProxyNodeHttp(r)
      BY <2>4
    <3>2. CASE r = s
      <4>1. /\ pending'[s].nextExpectedSeq = 0 /\ pending'[s].state = "awaiting_response"
            /\ pending[s].nextExpectedSeq = 0
        BY <1>2, <3>1, <3>2 DEF ProxyNodeHttp, NotRequested
      <4>2. pending[s].state = "idle"
        BY <3>1, <3>2 DEF ProxyNodeHttp, NotRequested
      <4>. QED
        BY <1>1, <1>2, <4>1, <4>2 DEF accounted
    <3>3. CASE r # s
      <4>1. pending'[s] = pending[s]
        BY <1>2, <3>1, <3>3 DEF ProxyNodeHttp
      <4>. QED
        BY <1>1, <1>2, <4>1, KeepsAccounted
    <3>. QED
      BY <3>2, <3>3
  <2>5. CASE \E r \in Requests : HandleHttpResponse(r)
    <3>1. PICK r \in Requests : HandleHttpResponse(r)
      BY <2>5
    <3> DEFINE q == resetChunkTimeout([pending[r] EXCEPT !.state = "streaming"])
    <3>2. UNCHANGED pending \/ (pending[r].listed /\ pending' = [pending EXCEPT ![r] = q])
      BY <3>1 DEF HandleHttpResponse
    <3>3. pending[r] \in Pending
      BY <1>2
    <3>4. q.state = "streaming" /\ q.nextExpectedSeq = pending[r].nextExpectedSeq
      BY <3>3 DEF resetChunkTimeout, Pending
    <3> HIDE DEF q
    <3>5. /\ pending'[s].state \in {pending[s].state, "streaming"}
          /\ pending'[s].nextExpectedSeq = pending[s].nextExpectedSeq
          /\ pending'[s].listed => pending[s].listed
      BY <1>2, <3>2, <3>4
    <3>. QED
      BY <1>1, <1>2, <3>5, KeepsAccounted
  <2>. QED
    BY <2>1, <2>2, <2>3, <2>4, <2>5
    DEF vars, NodeConnect, NodeRegister, BrowserCloses, HandleHttpError, NodeLoses,
        InitialTimeout, ChunkTimeout, MaxTimeout, Expires
<1>4. kept(s)'
  BY <1>1, <1>2 DEF kept
<1>. QED
  BY <1>3, <1>4 DEF whole

LEMMA EndWhole ==
    ASSUME Delivering, NEW r \in Requests, HandleHttpEnd(r), NEW s \in Requests
    PROVE  whole(s)'
<1>1. UNCHANGED <<got, writing, failing, acked>>
  BY DEF HandleHttpEnd
<1>2. /\ kept(s) /\ accounted(s) /\ pending \in [Requests -> Pending]
      /\ pending[s] \in Pending /\ timersMatch(pending[s])
  BY DEF Delivering, Tracking, TypeOK, TimersMatch, whole
<1>3. kept(s)'
  BY <1>1, <1>2 DEF kept
<1>4. CASE ~streaming(r)
  <2>1. UNCHANGED <<pending, overtaken>>
    BY <1>4 DEF HandleHttpEnd
  <2>. QED
    BY <1>1, <1>2, <1>3, <2>1, KeepsAccounted DEF whole
<1>5. CASE streaming(r) /\ s = r
  <2> DEFINE q == endedRequest(pending[r])
  <2>1. ~q.listed /\ q.nextExpectedSeq = pending[r].nextExpectedSeq
    BY <1>2, <1>5, EndedRequest DEF streaming
  <2>2. pending'[r] = q /\ overtaken' = IF failing[r] # {} THEN overtaken \cup {r} ELSE overtaken
    BY <1>2, <1>5 DEF HandleHttpEnd
  <2>3. Len(got[r]) = pending[r].nextExpectedSeq \/ failing[r] # {}
    BY <1>2, <1>5 DEF accounted, streaming
  <2>4. q.state # "idle"
    BY <1>2, <1>5 DEF endedRequest, clearPendingRequest, Pending
  <2> HIDE DEF q
  <2>5. accounted(r)'
    BY <1>1, <2>1, <2>2, <2>3, <2>4 DEF accounted
  <2>. QED
    BY <1>3, <1>5, <2>5 DEF whole
<1>6. CASE streaming(r) /\ s # r
  <2>1. pending'[s] = pending[s] /\ (s \in overtaken' <=> s \in overtaken)
    BY <1>2, <1>6 DEF HandleHttpEnd
  <2>2. accounted(s)'
    BY <1>1, <1>2, <2>1 DEF accounted
  <2>. QED
    BY <1>3, <2>2 DEF whole
<1>. QED
  BY <1>4, <1>5, <1>6

LEMMA ChunkWhole ==
    ASSUME Delivering, NEW r \in Requests, NEW empty \in BOOLEAN, HandleHttpChunk(r, empty),
           NEW s \in Requests
    PROVE  whole(s)'
<1> DEFINE seq == sent[r] - 1
<1>1. kept(s) /\ accounted(s) /\ acked' = acked /\ sent[r] \in 1..Length[r]
  BY DEF Delivering, HandleHttpChunk, nodeSendsChunk, whole
<1>2. TypeOK /\ Tracking
  BY DEF Delivering, Tracking
<1>3. CASE UNCHANGED chunkVars /\ (UNCHANGED pending \/ fails(r))
  <2>1. /\ pending'[s].state = pending[s].state
        /\ pending'[s].nextExpectedSeq = pending[s].nextExpectedSeq
        /\ pending'[s].listed => pending[s].listed
    BY <1>2, <1>3, FailsKeeps
  <2>2. accounted(s)'
    BY <1>1, <1>3, <2>1, KeepsAccounted DEF chunkVars
  <2>. QED
    BY <1>1, <1>3, <2>2 DEF chunkVars, kept, whole
<1>4. CASE /\ streaming(r) /\ isExpected(r, seq)
           /\ pending' = [pending EXCEPT ![r] = chunkTaken(@)]
           /\ onChunk(r, seq)
  <2>0. pending[r] \in Pending /\ timersMatch(pending[r]) /\ pending[r].listed
        /\ pending[r].state = "streaming" /\ overtaken' = overtaken
    BY <1>2, <1>4 DEF Tracking, TypeOK, TimersMatch, streaming, onChunk
  <2>1. CASE s # r
    <3>1. /\ got'[s] = got[s] /\ writing'[s] = writing[s] /\ failing'[s] = failing[s]
          /\ pending'[s] = pending[s]
      BY <1>2, <1>4, <2>1 DEF onChunk, TypeOK
    <3>2. accounted(s)'
      BY <1>1, <2>0, <3>1, KeepsAccounted
    <3>. QED
      BY <1>1, <3>1, <3>2 DEF whole, kept
  <2> DEFINE q == chunkTaken(pending[r])
  <2>2. /\ pending'[r].nextExpectedSeq = pending[r].nextExpectedSeq + 1
        /\ pending'[r].state = "streaming"
    <3>1. pending'[r] = q
      BY <1>2, <1>4 DEF TypeOK
    <3>2. q.nextExpectedSeq = pending[r].nextExpectedSeq + 1
      BY <2>0, ChunkedRequest
    <3>3. q.state = "streaming"
      BY <2>0 DEF chunkTaken, resetChunkTimeout, Pending
    <3>. QED
      BY <3>1, <3>2, <3>3
  <2>3. CASE rejects(r) /\ s = r
    <3>1. got'[r] = got[r] /\ writing'[r] = writing[r] /\ failing'[r] # {}
      BY <1>2, <1>4, <2>3 DEF onChunk, TypeOK
    <3>2. accounted(r)'
      BY <2>2, <3>1 DEF accounted
    <3>. QED
      BY <1>1, <2>3, <3>1, <3>2 DEF whole, kept
  <2>4. CASE ~rejects(r) /\ s = r
    <3>1. /\ got'[r] = Append(got[r], seq) /\ writing'[r] = writing[r] \cup {seq}
          /\ failing'[r] = failing[r]
      BY <1>2, <1>4, <2>4 DEF onChunk, TypeOK
    <3>2. /\ seq = pending[r].nextExpectedSeq /\ pending[r].nextExpectedSeq = Len(got[r])
          /\ got[r] \in Seq(Nat) /\ Len(got[r]) \in Nat
      <4>1. got[r] \in Seq(Nat)
        BY <1>2 DEF TypeOK
      <4>. QED
        BY <1>2, <1>4, <2>4, <4>1 DEF isExpected, Tracking, ChunksAligned
    <3>3. sent[r] \in Nat /\ acked[r] \in Nat /\ Cap \in Nat
      BY <1>2, AssetsAssumption DEF TypeOK
    <3>4. Len(got'[r]) = Len(got[r]) + 1
      BY <3>1, <3>2, <3>3
    <3> HIDE DEF seq
    <3>5. /\ IsFiniteSet(writing'[r]) /\ Cardinality(writing[r]) \in Nat
          /\ Cardinality(writing'[r]) \in {Cardinality(writing[r]), Cardinality(writing[r]) + 1}
      <4>1. IsFiniteSet(writing[r])
        BY <1>1, <2>4 DEF kept
      <4>2. /\ IsFiniteSet(writing[r] \cup {seq})
            /\ Cardinality(writing[r] \cup {seq}) =
                   IF seq \in writing[r] THEN Cardinality(writing[r]) ELSE Cardinality(writing[r]) + 1
        BY <4>1, FS_AddElement
      <4>3. Cardinality(writing[r]) \in Nat
        BY <4>1, FS_CardinalityType
      <4>. QED
        BY <3>1, <4>2, <4>3
    <3>6. r \in Buffered => Len(got'[r]) <= Cap
      BY <2>4, <3>2, <3>3, <3>4 DEF rejects
    <3>7. acked'[r] + Cardinality(writing'[r]) <= Len(got'[r])
      BY <1>1, <2>4, <3>2, <3>3, <3>4, <3>5 DEF kept
    <3>8. accounted(r)'
      BY <2>2, <3>2, <3>4 DEF accounted
    <3>. QED
      BY <2>4, <3>5, <3>6, <3>7, <3>8 DEF whole, kept
  <2>. QED
    BY <2>1, <2>3, <2>4
<1>. QED
  BY <1>3, <1>4 DEF HandleHttpChunk

LEMMA CallbackWhole ==
    ASSUME Delivering, NEW r \in Requests, NEW seq \in writing[r] \cup failing[r],
           ChunkWritten(r, seq) \/ ChunkFails(r, seq), NEW s \in Requests
    PROVE  whole(s)'
<1>1. /\ got' = got /\ overtaken' = overtaken /\ writing' = [writing EXCEPT ![r] = @ \ {seq}]
      /\ fails(r) \/ (UNCHANGED pending /\ failing' = failing)
      /\ failing' = failing \/ failing' = [failing EXCEPT ![r] = @ \ {seq}]
      /\ acked' = acked \/ (seq \in writing[r] /\ acked' = [acked EXCEPT ![r] = acked[r] + 1])
  BY DEF ChunkWritten, ChunkFails, rejected, remoteVars
<1>2. kept(s) /\ accounted(s) /\ Tracking /\ TypeOK
  BY DEF Delivering, Tracking, whole
<1>3. accounted(s)'
  <2>1. CASE UNCHANGED pending /\ failing' = failing
    BY <1>1, <1>2, <2>1, KeepsAccounted
  <2>2. CASE fails(r)
    <3>1. /\ pending'[s].state = pending[s].state
          /\ pending'[s].nextExpectedSeq = pending[s].nextExpectedSeq
          /\ pending'[s].listed => pending[s].listed /\ s # r
      BY <1>2, <2>2, FailsKeeps
    <3>2. s # r => failing'[s] = failing[s]
      BY <1>1, <1>2 DEF TypeOK
    <3>. QED
      BY <1>1, <1>2, <3>1, <3>2, KeepsAccounted
  <2>. QED
    BY <1>1, <2>1, <2>2
<1>4. CASE s # r
  <2>1. writing'[s] = writing[s] /\ acked'[s] = acked[s]
    BY <1>1, <1>2, <1>4 DEF TypeOK
  <2>. QED
    BY <1>1, <1>2, <1>3, <2>1 DEF whole, kept
<1>5. CASE s = r
  <2>1. writing'[r] = writing[r] \ {seq}
    BY <1>1, <1>2 DEF TypeOK
  <2>2. /\ IsFiniteSet(writing'[r]) /\ Cardinality(writing[r]) \in Nat
        /\ Cardinality(writing'[r]) = IF seq \in writing[r] THEN Cardinality(writing[r]) - 1
                                      ELSE Cardinality(writing[r])
    BY <1>2, <1>5, <2>1, FS_RemoveElement, FS_CardinalityType DEF kept
  <2>3. acked[r] \in Nat /\ Len(got[r]) \in Nat
    BY <1>2, TypedCounters
  <2>4. acked'[r] = acked[r] \/ (seq \in writing[r] /\ acked'[r] = acked[r] + 1)
    BY <1>1, <1>2 DEF TypeOK
  <2>5. acked'[r] + Cardinality(writing'[r]) <= Len(got'[r])
    BY <1>1, <1>2, <1>5, <2>2, <2>3, <2>4 DEF kept
  <2>. QED
    BY <1>1, <1>2, <1>3, <1>5, <2>2, <2>5 DEF whole, kept
<1>. QED
  BY <1>4, <1>5

LEMMA NextDelivering == Delivering /\ [Next]_vars => Delivering'
<1> SUFFICES ASSUME Delivering, [Next]_vars PROVE Delivering'
  OBVIOUS
<1>1. Tracking'
  BY NextTracking DEF Delivering
<1>2. ASSUME NEW s \in Requests PROVE whole(s)'
  BY QuietWhole, EndWhole, ChunkWhole, CallbackWhole DEF Next
<1>. QED
  BY <1>1, <1>2 DEF Delivering

\* What a promise resolves with is all that was handled before its end, unless a rejection was
\* overtaken: no chunk is handled after one that was rejected and seen to be, and none is
\* acknowledged that is not in the result.  A document never grows past the cap.
THEOREM SuccessIsWhole == Spec => []DeliveredWhole
<1>1. Delivering => DeliveredWhole
  <2> SUFFICES ASSUME Delivering, NEW r \in Requests
               PROVE  /\ accounted(r) /\ acked[r] <= Len(got[r])
                      /\ r \in Buffered => Len(got[r]) <= Cap
    BY DEF DeliveredWhole, accounted
  <2>1. kept(r) /\ accounted(r) /\ acked[r] \in Nat /\ Len(got[r]) \in Nat
    <3>1. TypeOK /\ whole(r)
      BY DEF Delivering, Tracking
    <3>. QED
      BY <3>1, TypedCounters DEF whole
  <2>2. Cardinality(writing[r]) \in Nat
    BY <2>1, FS_CardinalityType DEF kept
  <2>. QED
    BY <2>1, <2>2 DEF kept
<1>. QED
  BY <1>1, InitDelivering, NextDelivering, PTL DEF Spec

-----------------------------------------------------------------------------
(* The requests settle as SettleOnce promises (its safety).                 *)

LEMMA StatusOf ==
    ASSUME NEW p \in Pending, timersMatch(p)
    PROVE  /\ p.listed => statusOf(p) = "open"
           /\ ~p.listed /\ p.settles = 0 => statusOf(p) = "idle"
           /\ ~p.listed /\ p.settles = 1 => statusOf(p) = "settled"
<1>1. p.listed => p.settles = 0
  BY DEF timersMatch
<1>. QED
  BY <1>1 DEF statusOf

\* The statuses when one request changes.
LEMMA OneRequestStatus ==
    ASSUME Tracking, NEW r \in Requests, NEW q, pending' = [pending EXCEPT ![r] = q]
    PROVE  requestStatus' = [requestStatus EXCEPT ![r] = statusOf(q)]
    BY DEF requestStatus, Tracking, TypeOK

LEMMA SameStatus ==
    ASSUME Tracking, NEW r \in Requests, NEW q, pending' = [pending EXCEPT ![r] = q],
           statusOf(q) = statusOf(pending[r])
    PROVE  requestStatus' = requestStatus
    BY DEF requestStatus, Tracking, TypeOK

LEMMA FailsSettles ==
    ASSUME Tracking, NEW r \in Requests, fails(r)
    PROVE  SettledRequests!Settle(r) \/ requestStatus' = requestStatus
<1> DEFINE q == failPendingRequest(pending[r])
<1>1. pending[r] \in Pending /\ timersMatch(pending[r]) /\ pending' = [pending EXCEPT ![r] = q]
  BY DEF Tracking, TypeOK, TimersMatch, fails
<1>2. /\ q \in Pending /\ timersMatch(q) /\ ~q.listed
      /\ pending[r].listed => q.settles = 1
      /\ ~pending[r].listed => q = pending[r]
  BY <1>1, FailedRequest
<1> HIDE DEF q
<1>3. CASE pending[r].listed
  <2>1. requestStatus[r] = "open" /\ statusOf(q) = "settled"
    BY <1>1, <1>2, <1>3, StatusOf DEF requestStatus
  <2>2. requestStatus' = [requestStatus EXCEPT ![r] = statusOf(q)]
    BY <1>1, OneRequestStatus
  <2>. QED
    BY <2>1, <2>2 DEF SettledRequests!Settle
<1>4. CASE ~pending[r].listed
  BY <1>1, <1>2, <1>4, SameStatus
<1>. QED
  BY <1>3, <1>4

LEMMA ProxyNodeHttpOpens ==
    ASSUME Tracking, NEW r \in Requests, ProxyNodeHttp(r)
    PROVE  SettledRequests!Open(r)
<1> DEFINE q == [NotRequested EXCEPT !.listed = TRUE, !.state = "awaiting_response",
                                     !.initialTimeout = TRUE, !.maxTimeout = TRUE]
<1>1. pending' = [pending EXCEPT ![r] = q] /\ pending[r] = NotRequested
  BY DEF ProxyNodeHttp
<1>2. q \in Pending /\ timersMatch(q) /\ q.listed
  BY DEF NotRequested, Pending, timersMatch
<1>3. NotRequested \in Pending /\ timersMatch(NotRequested) /\ ~NotRequested.listed
      /\ NotRequested.settles = 0
  BY DEF NotRequested, Pending, timersMatch
<1> HIDE DEF q
<1>4. requestStatus[r] = "idle" /\ statusOf(q) = "open"
  BY <1>1, <1>2, <1>3, StatusOf DEF requestStatus
<1>5. requestStatus' = [requestStatus EXCEPT ![r] = statusOf(q)]
  BY <1>1, OneRequestStatus
<1>. QED
  BY <1>4, <1>5 DEF SettledRequests!Open

LEMMA ResponseKeepsStatus ==
    ASSUME Tracking, NEW r \in Requests, HandleHttpResponse(r), ~UNCHANGED pending
    PROVE  requestStatus' = requestStatus
<1> DEFINE q == resetChunkTimeout([pending[r] EXCEPT !.state = "streaming"])
<1>1. pending' = [pending EXCEPT ![r] = q] /\ pending[r].listed
  BY DEF HandleHttpResponse
<1>2. pending[r] \in Pending /\ timersMatch(pending[r])
  BY DEF Tracking, TypeOK, TimersMatch
<1>3. q \in Pending /\ timersMatch(q) /\ q.listed
  BY <1>1, <1>2, RespondedRequest
<1> HIDE DEF q
<1>4. statusOf(q) = "open" /\ statusOf(pending[r]) = "open"
  BY <1>1, <1>2, <1>3, StatusOf
<1>. QED
  BY <1>1, <1>4, SameStatus

LEMMA ChunkKeepsStatus ==
    ASSUME Tracking, NEW r \in Requests, streaming(r), pending' = [pending EXCEPT ![r] = chunkTaken(@)]
    PROVE  requestStatus' = requestStatus
<1> DEFINE q == chunkTaken(pending[r])
<1>1. pending[r] \in Pending /\ timersMatch(pending[r])
      /\ pending[r].listed /\ pending[r].state = "streaming"
  BY DEF Tracking, TypeOK, TimersMatch, streaming
<1>2. q \in Pending /\ timersMatch(q) /\ q.listed /\ pending' = [pending EXCEPT ![r] = q]
  BY <1>1, ChunkedRequest
<1> HIDE DEF q
<1>3. statusOf(q) = "open" /\ statusOf(pending[r]) = "open"
  BY <1>1, <1>2, StatusOf
<1>. QED
  BY <1>2, <1>3, SameStatus

LEMMA EndSettles ==
    ASSUME Tracking, NEW r \in Requests, HandleHttpEnd(r), streaming(r)
    PROVE  SettledRequests!Settle(r)
<1> DEFINE q == endedRequest(pending[r])
<1>1. pending[r] \in Pending /\ timersMatch(pending[r]) /\ pending[r].listed
  BY DEF Tracking, TypeOK, TimersMatch, streaming
<1>2. q \in Pending /\ timersMatch(q) /\ ~q.listed /\ q.settles = 1
  BY <1>1, EndedRequest
<1>3. pending' = [pending EXCEPT ![r] = q]
  BY DEF HandleHttpEnd
<1> HIDE DEF q
<1>4. requestStatus[r] = "open" /\ statusOf(q) = "settled"
  BY <1>1, <1>2, StatusOf DEF requestStatus
<1>5. requestStatus' = [requestStatus EXCEPT ![r] = statusOf(q)]
  BY <1>3, OneRequestStatus
<1>. QED
  BY <1>4, <1>5 DEF SettledRequests!Settle

\* The requests of a lost node settle together.
LEMMA NodeDisconnectSettles ==
    ASSUME Tracking, NEW ns \in NodeSockets, NodeDisconnect(ns)
    PROVE  (\E S \in SUBSET Requests : SettledRequests!SettleAll(S)) \/ requestStatus' = requestStatus
<1> DEFINE S == {r \in Requests : isCurrent(ns) /\ TargetOf[r] = NodeOf[ns] /\ pending[r].listed}
<1>1. ASSUME NEW r \in Requests
      PROVE  /\ r \in S => requestStatus[r] = "open" /\ statusOf(pending'[r]) = "settled"
             /\ r \notin S => pending'[r] = pending[r]
  <2>1. pending[r] \in Pending /\ timersMatch(pending[r])
    BY DEF Tracking, TypeOK, TimersMatch
  <2>2. pending'[r] = IF isCurrent(ns) /\ TargetOf[r] = NodeOf[ns] THEN failPendingRequest(pending[r])
                      ELSE pending[r]
    BY DEF NodeDisconnect, failPendingRequestsForNode
  <2> DEFINE q == failPendingRequest(pending[r])
  <2>3. /\ q \in Pending /\ timersMatch(q) /\ ~q.listed
        /\ pending[r].listed => q.settles = 1
        /\ ~pending[r].listed => q = pending[r]
    BY <2>1, FailedRequest
  <2> HIDE DEF q
  <2>4. CASE r \in S
    <3>1. pending'[r] = q /\ pending[r].listed
      BY <2>2, <2>4 DEF q
    <3>. QED
      BY <2>1, <2>3, <2>4, <3>1, StatusOf DEF requestStatus
  <2>5. CASE r \notin S
    BY <2>2, <2>3, <2>5 DEF q
  <2>. QED
    BY <2>4, <2>5
<1>2. requestStatus' = [r \in Requests |-> IF r \in S THEN "settled" ELSE requestStatus[r]]
  BY <1>1 DEF requestStatus
<1> HIDE DEF S
<1>3. CASE S = {}
  BY <1>2, <1>3 DEF requestStatus
<1>4. CASE S # {}
  <2>1. SettledRequests!SettleAll(S)
    BY <1>1, <1>2, <1>4 DEF SettledRequests!SettleAll, S
  <2>. QED
    BY <2>1 DEF S
<1>. QED
  BY <1>3, <1>4

LEMMA NextSettles == Tracking /\ [Next]_vars => [SettledRequests!Next]_requestStatus
<1> SUFFICES ASSUME Tracking, [Next]_vars
             PROVE  SettledRequests!Next \/ requestStatus' = requestStatus
  OBVIOUS
<1>1. CASE UNCHANGED pending
  BY <1>1 DEF requestStatus
<1>2. ASSUME NEW r \in Requests, fails(r)
      PROVE  SettledRequests!Next \/ requestStatus' = requestStatus
  BY <1>2, FailsSettles DEF SettledRequests!Next
<1>3. ASSUME NEW ns \in NodeSockets,
             (\E secret \in BOOLEAN : NodeConnect(ns, secret)) \/ NodeRegister(ns) \/ NodeDisconnect(ns)
      PROVE  SettledRequests!Next \/ requestStatus' = requestStatus
  <2>1. CASE (\E secret \in BOOLEAN : NodeConnect(ns, secret)) \/ NodeRegister(ns)
    BY <1>1, <2>1 DEF NodeConnect, NodeRegister
  <2>2. CASE NodeDisconnect(ns)
    BY <2>2, NodeDisconnectSettles DEF SettledRequests!Next
  <2>. QED
    BY <1>3, <2>1, <2>2
<1>4. ASSUME NEW r \in Requests, ProxyNodeHttp(r) \/ HandleHttpResponse(r) \/ HandleHttpEnd(r)
      PROVE  SettledRequests!Next \/ requestStatus' = requestStatus
  <2>1. CASE ProxyNodeHttp(r)
    BY <2>1, ProxyNodeHttpOpens DEF SettledRequests!Next
  <2>2. CASE HandleHttpResponse(r)
    BY <1>1, <2>2, ResponseKeepsStatus
  <2>3. CASE HandleHttpEnd(r) /\ streaming(r)
    BY <2>3, EndSettles DEF SettledRequests!Next
  <2>4. CASE HandleHttpEnd(r) /\ ~streaming(r)
    <3>1. UNCHANGED pending
      BY <2>4 DEF HandleHttpEnd, Tracking, TypeOK
    <3>. QED
      BY <1>1, <3>1
  <2>. QED
    BY <1>4, <2>1, <2>2, <2>3, <2>4
<1>5. ASSUME NEW r \in Requests, NEW empty \in BOOLEAN, HandleHttpChunk(r, empty)
      PROVE  SettledRequests!Next \/ requestStatus' = requestStatus
  BY <1>1, <1>2, <1>5, ChunkKeepsStatus DEF HandleHttpChunk
<1>6. ASSUME NEW r \in Requests, BrowserCloses(r) \/ NodeLoses(r)
      PROVE  SettledRequests!Next \/ requestStatus' = requestStatus
  BY <1>1, <1>6 DEF BrowserCloses, NodeLoses
<1>7. ASSUME NEW r \in Requests,
             HandleHttpError(r) \/ InitialTimeout(r) \/ ChunkTimeout(r) \/ MaxTimeout(r)
      PROVE  SettledRequests!Next \/ requestStatus' = requestStatus
  BY <1>2, <1>7 DEF HandleHttpError, InitialTimeout, ChunkTimeout, MaxTimeout, Expires
<1>8. ASSUME NEW r \in Requests, NEW seq, ChunkWritten(r, seq) \/ ChunkFails(r, seq)
      PROVE  SettledRequests!Next \/ requestStatus' = requestStatus
  BY <1>1, <1>2, <1>8 DEF ChunkWritten, ChunkFails
<1>. QED
  BY <1>1, <1>3, <1>4, <1>5, <1>6, <1>7, <1>8 DEF Next, vars

\* NodeAssets implements the safety of SettleOnce: a request opens once and is settled at
\* most once, alone or with the others of its node, and never reopens.
THEOREM RequestsSettle == Spec => SettledRequests!Spec
<1>1. Init => SettledRequests!Init
  BY DEF Init, SettledRequests!Init, requestStatus, statusOf, NotRequested
<1>. QED
  BY <1>1, InvariantTracking, NextSettles, PTL DEF Spec, SettledRequests!Spec

=============================================================================
