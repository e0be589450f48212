----------------------------- MODULE NodeAssets -----------------------------
(***************************************************************************)
(* Pages and assets that a browser fetches from a node through the fleet   *)
(* (utils/node_assets.js).  A request goes to the node over its control    *)
(* socket; the node answers with a response, chunks numbered from 0 and an *)
(* end, or with an error.  Every chunk is handed to a callback that is     *)
(* awaited, and acknowledged afterwards.  A document is buffered up to a   *)
(* cap, any other asset is streamed to the browser's response.             *)
(*                                                                         *)
(* The node is external: it keeps at most Window chunks unacknowledged and *)
(* ends when it likes, after the last of them or early.  It goes on over   *)
(* another socket when it reconnects, and may lose what it sent over an    *)
(* older one.  A request for a node that is offline is refused at once and *)
(* leaves no trace.                                                        *)
(***************************************************************************)
EXTENDS Integers, Sequences

CONSTANTS
    Nodes, NodeSockets,     \* node ids, and control sockets, used once each
    NodeOf,                 \* the node at the other end of a control socket
    Requests,               \* the ids randomUUID can return
    TargetOf,               \* the node a request is for
    Buffered,               \* the requests for documents (fetchNodeAsset)
    Length,                 \* the number of chunks of what a request asks for
    Cap,                    \* MAX_BUFFERED_ASSET_BYTES, in chunks
    Window,                 \* chunks a node sends ahead of their acknowledgement
    None                    \* undefined

ASSUME AssetsAssumption ==
    /\ NodeOf \in [NodeSockets -> Nodes]
    /\ TargetOf \in [Requests -> Nodes]
    /\ Buffered \subseteq Requests
    /\ Length \in [Requests -> Nat]
    /\ Cap \in Nat /\ Window \in Nat
    /\ None \notin NodeSockets

VARIABLES
    nodeSocketsByNodeId,    \* the node registry (modules/node/index.js)
    nodeConn,               \* state of each control socket
    filed,                  \* whether setNodeSocket had it, while it was connected or too late
    pending,                \* each request, and what pendingHttpRequests has of it
    got,                    \* the chunks written or buffered
    writing, failing,       \* chunks whose callback is awaited: it wrote them, it rejects
    overtaken,              \* history: documents and assets whose end overtook a rejection
    browser,                \* whether the browser still takes the response
    via,                    \* the control socket the request was sent on
    sent, acked             \* the node: messages sent, acknowledgements received

nodeVars    == <<nodeSocketsByNodeId, nodeConn, filed>>
chunkVars   == <<got, writing, failing, overtaken>>
remoteVars  == <<browser, via, sent, acked>>
vars == <<nodeVars, pending, chunkVars, remoteVars>>

\* `listed` while the id is in pendingHttpRequests; its promise settled `settles` times.
Pending ==
    [listed : BOOLEAN, state : {"idle", "awaiting_response", "streaming", "done"},
     nextExpectedSeq : Nat, initialTimeout : BOOLEAN, chunkTimeout : BOOLEAN, maxTimeout : BOOLEAN,
     settles : {0, 1}]

NotRequested ==
    [listed |-> FALSE, state |-> "idle", nextExpectedSeq |-> 0,
     initialTimeout |-> FALSE, chunkTimeout |-> FALSE, maxTimeout |-> FALSE, settles |-> 0]

Init ==
    /\ nodeSocketsByNodeId = [n \in Nodes |-> None]
    /\ nodeConn = [ns \in NodeSockets |-> "new"]
    /\ filed = [ns \in NodeSockets |-> "no"]
    /\ pending = [r \in Requests |-> NotRequested]
    /\ got = [r \in Requests |-> <<>>]
    /\ writing = [r \in Requests |-> {}]
    /\ failing = [r \in Requests |-> {}]
    /\ overtaken = {}
    /\ browser = [r \in Requests |-> "open"]
    /\ via = [r \in Requests |-> None]
    /\ sent = [r \in Requests |-> 0]
    /\ acked = [r \in Requests |-> 0]

-----------------------------------------------------------------------------
(* The end of a request.                                                    *)

clearPendingRequest(p) ==
    [p EXCEPT !.listed = FALSE, !.initialTimeout = FALSE, !.chunkTimeout = FALSE,
              !.maxTimeout = FALSE]

\* Mutant: a request is failed whether it is still listed or not.
failPendingRequestAgain(p) == [clearPendingRequest(p) EXCEPT !.settles = @ + 1]

\* The node's abort may come too late to stop it, so it changes nothing here.
failPendingRequest(p) ==
    IF p.listed THEN [clearPendingRequest(p) EXCEPT !.settles = @ + 1] ELSE p

fails(r) == pending' = [pending EXCEPT ![r] = failPendingRequest(@)]

Expires(r) ==
    /\ fails(r)
    /\ UNCHANGED <<nodeVars, chunkVars, remoteVars>>

InitialTimeout(r) == pending[r].initialTimeout /\ Expires(r)
ChunkTimeout(r)   == pending[r].chunkTimeout /\ Expires(r)
MaxTimeout(r)     == pending[r].maxTimeout /\ Expires(r)

-----------------------------------------------------------------------------
(* Control sockets.                                                         *)

\* The entry replaces any other; the handlers of a socket that is gone hear nothing.
setNodeSocket(ns, conn) ==
    /\ nodeSocketsByNodeId' = [nodeSocketsByNodeId EXCEPT ![NodeOf[ns]] = ns]
    /\ filed' = [filed EXCEPT ![ns] = IF conn = "up" THEN "in time" ELSE "late"]

\* A node with a secret is filed as it connects; a transient or a new one is not.
NodeConnect(ns, secret) ==
    /\ nodeConn[ns] = "new"
    /\ nodeConn' = [nodeConn EXCEPT ![ns] = "up"]
    /\ IF secret THEN setNodeSocket(ns, "up") ELSE UNCHANGED <<nodeSocketsByNodeId, filed>>
    /\ UNCHANGED <<pending, chunkVars, remoteVars>>

\* node:register files its socket after several awaits, without asking whether it is still
\* connected.  A socket may have any number of registrations in flight when it goes.
NodeRegister(ns) ==
    /\ nodeConn[ns] # "new"
    /\ setNodeSocket(ns, nodeConn[ns])
    /\ UNCHANGED <<nodeConn, pending, chunkVars, remoteVars>>

isCurrent(ns) == nodeSocketsByNodeId[NodeOf[ns]] = ns

\* Mutant: the requests of an offline node are left to their timers.
failPendingRequestsForNone(n) == n \in Nodes /\ UNCHANGED pending

failPendingRequestsForNode(n) ==
    pending' = [r \in Requests |-> IF TargetOf[r] = n THEN failPendingRequest(pending[r])
                                                      ELSE pending[r]]

NodeDisconnect(ns) ==
    /\ nodeConn[ns] = "up"
    /\ nodeConn' = [nodeConn EXCEPT ![ns] = "down"]
    /\ IF isCurrent(ns)
       THEN /\ nodeSocketsByNodeId' = [nodeSocketsByNodeId EXCEPT ![NodeOf[ns]] = None]
            /\ failPendingRequestsForNode(NodeOf[ns])
       ELSE UNCHANGED <<nodeSocketsByNodeId, pending>>
    /\ UNCHANGED <<filed, chunkVars, remoteVars>>

nodeSocketUp(n) == nodeSocketsByNodeId[n] # None /\ nodeConn[nodeSocketsByNodeId[n]] = "up"

-----------------------------------------------------------------------------
(* Requests.                                                                *)

ProxyNodeHttp(r) ==
    /\ pending[r] = NotRequested
    /\ nodeSocketUp(TargetOf[r])
    /\ pending' = [pending EXCEPT ![r] = [NotRequested EXCEPT !.listed = TRUE,
                                             !.state = "awaiting_response",
                                             !.initialTimeout = TRUE, !.maxTimeout = TRUE]]
    /\ via' = [via EXCEPT ![r] = nodeSocketsByNodeId[TargetOf[r]]]
    /\ UNCHANGED <<nodeVars, chunkVars, browser, sent, acked>>

BrowserCloses(r) ==
    /\ pending[r].listed /\ r \notin Buffered /\ browser[r] = "open"
    /\ browser' = [browser EXCEPT ![r] = "closed"]
    /\ UNCHANGED <<nodeVars, pending, chunkVars, via, sent, acked>>

-----------------------------------------------------------------------------
(* What the node sends: the response, chunks 0 .. Length - 1, the end.      *)

\* A socket of the request's node that the fleet listens to, filed last or not.
nodeHeard(r) ==
    /\ via[r] # None
    /\ \E ns \in NodeSockets : /\ NodeOf[ns] = TargetOf[r]
                              /\ nodeConn[ns] = "up" /\ filed[ns] = "in time"

\* The node's next message is its k-th, counting from 0.
nodeSends(r, k) ==
    /\ nodeHeard(r)
    /\ sent[r] = k
    /\ sent' = [sent EXCEPT ![r] = k + 1]

\* The end is its last one.
nodeEnds(r) ==
    /\ nodeHeard(r)
    /\ sent[r] \in 1..Length[r] + 1
    /\ sent' = [sent EXCEPT ![r] = Length[r] + 2]

nodeSendsChunk(r) == sent[r] \in 1..Length[r] /\ sent[r] - 1 < acked[r] + Window

resetChunkTimeout(p) == [p EXCEPT !.initialTimeout = FALSE, !.chunkTimeout = TRUE]

chunkTaken(p) == resetChunkTimeout([p EXCEPT !.nextExpectedSeq = @ + 1])

HandleHttpResponse(r) ==
    /\ nodeSends(r, 0)
    /\ IF pending[r].listed /\ pending[r].state = "awaiting_response"
       THEN pending' = [pending EXCEPT ![r] = resetChunkTimeout([@ EXCEPT !.state = "streaming"])]
       ELSE UNCHANGED pending
    /\ UNCHANGED <<nodeVars, chunkVars, browser, via, acked>>

streaming(r) == pending[r].listed /\ pending[r].state = "streaming"

\* Mutant: the cap is checked against what is buffered already.
rejectsLate(r) == IF r \in Buffered THEN Len(got[r]) > Cap ELSE browser[r] = "closed"

\* The callback throws: the document grew past the cap, or the browser is gone.
rejects(r) == IF r \in Buffered THEN Len(got[r]) + 1 > Cap ELSE browser[r] = "closed"

\* The callback has run up to its await.
onChunk(r, seq) ==
    /\ IF rejects(r)
       THEN failing' = [failing EXCEPT ![r] = @ \cup {seq}] /\ UNCHANGED <<got, writing>>
       ELSE /\ got' = [got EXCEPT ![r] = Append(@, seq)]
            /\ writing' = [writing EXCEPT ![r] = @ \cup {seq}]
            /\ UNCHANGED failing
    /\ UNCHANGED overtaken

\* Mutant: any chunk is taken for the next one.
isExpectedAny(r, seq) == seq >= pending[r].nextExpectedSeq

isExpected(r, seq) == seq = pending[r].nextExpectedSeq

\* An empty chunk is refused like one out of sequence.
HandleHttpChunk(r, empty) ==
    LET seq == sent[r] - 1
    IN  /\ nodeSendsChunk(r) /\ nodeSends(r, sent[r])
        /\ IF ~streaming(r)
           THEN UNCHANGED <<pending, chunkVars>>
           ELSE IF ~isExpected(r, seq) \/ empty
           THEN fails(r) /\ UNCHANGED chunkVars
           ELSE /\ pending' = [pending EXCEPT ![r] = chunkTaken(@)]
                /\ onChunk(r, seq)
        /\ UNCHANGED <<nodeVars, browser, via, acked>>

\* Mutant: the end leaves the request listed.
endedRequestListed(p) == [p EXCEPT !.state = "done", !.settles = @ + 1]

endedRequest(p) == [clearPendingRequest(p) EXCEPT !.state = "done", !.settles = @ + 1]

\* The end is taken whenever it comes, with chunks unacknowledged or a callback awaited.
HandleHttpEnd(r) ==
    /\ nodeEnds(r)
    /\ IF streaming(r)
       THEN /\ pending' = [pending EXCEPT ![r] = endedRequest(@)]
            /\ overtaken' = IF failing[r] # {} THEN overtaken \cup {r} ELSE overtaken
       ELSE UNCHANGED <<pending, overtaken>>
    /\ UNCHANGED <<nodeVars, got, writing, failing, browser, via, acked>>

\* The node gives up; whatever it still sends finds the request gone.
HandleHttpError(r) ==
    /\ nodeHeard(r)
    /\ pending[r].listed
    /\ fails(r)
    /\ UNCHANGED <<nodeVars, chunkVars, remoteVars>>

\* A message sent over a socket that the node has replaced is lost with it.  (To lose the
\* end is to send nothing more.)
NodeLoses(r) ==
    /\ nodeSocketsByNodeId[TargetOf[r]] # via[r]
    /\ sent[r] = 0 \/ nodeSendsChunk(r)
    /\ nodeSends(r, sent[r])
    /\ UNCHANGED <<nodeVars, pending, chunkVars, browser, via, acked>>

-----------------------------------------------------------------------------
(* The awaited callback has settled.                                        *)

\* The write went through, at once or when the response drained: the chunk is acknowledged.
ChunkWritten(r, seq) ==
    /\ seq \in writing[r]
    /\ r \in Buffered \/ browser[r] = "open"
    /\ writing' = [writing EXCEPT ![r] = @ \ {seq}]
    /\ IF ~streaming(r) THEN UNCHANGED <<pending, acked>>
       ELSE IF ~nodeSocketUp(TargetOf[r]) THEN fails(r) /\ UNCHANGED acked
       ELSE acked' = [acked EXCEPT ![r] = @ + 1] /\ UNCHANGED pending
    /\ UNCHANGED <<nodeVars, got, failing, overtaken, browser, via, sent>>

rejected(r, seq) ==
    /\ \/ seq \in failing[r]
       \/ seq \in writing[r] /\ r \notin Buffered /\ browser[r] = "closed"
    /\ failing' = [failing EXCEPT ![r] = @ \ {seq}]
    /\ writing' = [writing EXCEPT ![r] = @ \ {seq}]
    /\ UNCHANGED <<nodeVars, got, overtaken, remoteVars>>

\* Mutant: a rejection is logged and the transfer goes on.
ChunkFailsQuietly(r, seq) == rejected(r, seq) /\ UNCHANGED pending

\* The callback rejected, or the response failed before it drained.
ChunkFails(r, seq) == rejected(r, seq) /\ fails(r)

-----------------------------------------------------------------------------

Next ==
    \/ \E ns \in NodeSockets :
          \/ \E secret \in BOOLEAN : NodeConnect(ns, secret)
          \/ NodeRegister(ns)
          \/ NodeDisconnect(ns)
    \/ \E r \in Requests :
          \/ ProxyNodeHttp(r)
          \/ BrowserCloses(r)
          \/ HandleHttpResponse(r)
          \/ \E empty \in BOOLEAN : HandleHttpChunk(r, empty)
          \/ HandleHttpEnd(r)
          \/ HandleHttpError(r)
          \/ NodeLoses(r)
          \/ \E seq \in writing[r] \cup failing[r] : ChunkWritten(r, seq) \/ ChunkFails(r, seq)
          \/ InitialTimeout(r)
          \/ ChunkTimeout(r)
          \/ MaxTimeout(r)

Spec == Init /\ [][Next]_vars

\* An armed timer fires unless it is cleared first; the others only make it sooner.
FairSpec == Spec /\ \A r \in Requests : WF_vars(MaxTimeout(r))

-----------------------------------------------------------------------------
(* Properties.                                                              *)

\* Every variable has its shape: no promise settles twice.
TypeOK ==
    /\ nodeSocketsByNodeId \in [Nodes -> NodeSockets \cup {None}]
    /\ nodeConn \in [NodeSockets -> {"new", "up", "down"}]
    /\ filed \in [NodeSockets -> {"no", "in time", "late"}]
    /\ pending \in [Requests -> Pending]
    /\ got \in [Requests -> Seq(Nat)]
    /\ writing \in [Requests -> SUBSET Nat]
    /\ failing \in [Requests -> SUBSET Nat]
    /\ overtaken \subseteq Requests
    /\ browser \in [Requests -> {"open", "closed"}]
    /\ via \in [Requests -> NodeSockets \cup {None}]
    /\ sent \in [Requests -> Nat]
    /\ acked \in [Requests -> Nat]

\* A request has exactly the timers of its state: none once it is over, so that no timer
\* outlives its request, and while it is listed always one that ends it.
timersMatch(p) ==
    /\ p.initialTimeout <=> p.listed /\ p.state = "awaiting_response"
    /\ p.chunkTimeout   <=> p.listed /\ p.state = "streaming"
    /\ p.maxTimeout     <=> p.listed
    /\ p.listed => p.settles = 0 /\ p.state \in {"awaiting_response", "streaming"}

TimersMatch == \A r \in Requests : timersMatch(pending[r])

\* A listed request is for a node whose socket in the registry is connected, or was already
\* gone when a late node:register filed it: the disconnect handler of the socket that is filed
\* releases all requests of its node, and that of any other none.  Only in the second case does
\* the promise of failPendingRequestsForNode ("released immediately") fail, and timers are left.
connectedOrLate(n) ==
    LET ns == nodeSocketsByNodeId[n] IN ns # None /\ (nodeConn[ns] = "up" \/ filed[ns] = "late")

PendingOnline == \A r \in Requests : pending[r].listed => connectedOrLate(TargetOf[r])

\* What was written or buffered is a beginning of what the node sent, whatever a
\* reconnecting node loses and in whatever order the awaited writes settle.
ChunksInOrder == \A r \in Requests : \A i \in DOMAIN got[r] : got[r][i] = i - 1

\* A request that succeeded delivered every chunk that was handled before its end, those whose
\* write is still awaited too, unless the end overtook the rejection of one; what was
\* acknowledged to the node is in it, and a document is within the cap.  So a document that is
\* cut off at its cap passes for whole only when its end came before the rejection was seen.
DeliveredWhole ==
    \A r \in Requests :
        /\ pending[r].state = "done" =>
               Len(got[r]) = pending[r].nextExpectedSeq \/ r \in overtaken
        /\ acked[r] <= Len(got[r])
        /\ r \in Buffered => Len(got[r]) <= Cap

\* What became of each request, as SettleOnce sees it.
statusOf(p) ==
    CASE p.settles = 0 /\ ~p.listed -> "idle"
      [] p.settles = 0 /\ p.listed -> "open"
      [] p.settles = 1 /\ ~p.listed -> "settled"
      [] OTHER -> "settled twice"

requestStatus == [r \in Requests |-> statusOf(pending[r])]

SettledRequests == INSTANCE SettleOnce WITH Ids <- Requests, status <- requestStatus

\* Every request is settled once, by its end, an error, a timer or the loss of its node,
\* and none waits for ever.
RequestsSettleOnce == SettledRequests!FairSpec

=============================================================================
