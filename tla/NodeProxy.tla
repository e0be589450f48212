------------------------------ MODULE NodeProxy ------------------------------
(***************************************************************************)
(* The fleet proxy of virgo-fleet (utils/node_proxy.js): the socket of a   *)
(* browser on /fleet/{nodeId}/{module} is bridged to the node's control    *)
(* socket, over which all of the node's clients are multiplexed, and every *)
(* event with an acknowledgement becomes a call that the node answers or   *)
(* that times out.                                                         *)
(*                                                                         *)
(* A client is bridged once, so it stands for the session id minted for it.*)
(* Events without an acknowledgement and the node's own events are relayed *)
(* and leave no trace.  An event that finds the node's socket gone is      *)
(* dropped unanswered: BridgesAlive says that no connected client meets it.*)
(***************************************************************************)
EXTENDS Integers, FiniteSets

CONSTANTS
    Nodes, Users,           \* node ids, user ids
    NodeSockets, Clients,   \* control sockets and proxied sockets, used once each
    CallIds,                \* the ids randomUUID can return
    NodeOf,                 \* the node at the other end of a control socket
    TargetOf, UserOf, ConnOf,
                            \* a client's node, user and transport
    MaxRevocations,         \* bound: access changes awaiting their teardown at once
    None                    \* null

ASSUME ProxyAssumption ==
    /\ NodeOf \in [NodeSockets -> Nodes]
    /\ TargetOf \in [Clients -> Nodes]
    /\ UserOf \in [Clients -> Users]
    /\ MaxRevocations \in Nat
    /\ None \notin NodeSockets
    /\ None \notin Clients

VARIABLES
    nodeSocketsByNodeId,    \* the node registry (modules/node/index.js)
    nodeConn,               \* state of each control socket
    clientConn,             \* state of each client socket
    bridgedTo,              \* the control socket in the closures of bridgeClient
    proxySessions,          \* nodeSocket.data.proxySessions
    clientsByNodeId,
    calls,                  \* nodeSocket.data.proxyCalls, with what became of each
    access,                 \* (user, node) pairs the database grants
    revocations             \* access changes committed, teardown still to come

nodeVars   == <<nodeSocketsByNodeId, nodeConn>>
bridgeVars == <<clientConn, bridgedTo, proxySessions, clientsByNodeId>>
dbVars     == <<access, revocations>>
vars == <<nodeVars, bridgeVars, calls, dbVars>>

\* `pending` while the id is in proxyCalls; the client's ack was called `acks` times.
Call   == [client : Clients, nodeSocket : NodeSockets, pending : BOOLEAN, timer : BOOLEAN, acks : {0, 1}]
NoCall == [client |-> None, nodeSocket |-> None, pending |-> FALSE, timer |-> FALSE, acks |-> 0]

Revocation == [user : Users, node : Nodes, phase : {"reread", "due"}]

Init ==
    /\ nodeSocketsByNodeId = [n \in Nodes |-> None]
    /\ nodeConn = [ns \in NodeSockets |-> "new"]
    /\ clientConn = [c \in Clients |-> "new"]
    /\ bridgedTo = [c \in Clients |-> None]
    /\ proxySessions = [ns \in NodeSockets |-> {}]
    /\ clientsByNodeId = [n \in Nodes |-> {}]
    /\ calls = [k \in CallIds |-> NoCall]
    /\ access \in SUBSET (Users \X Nodes)
    /\ revocations = {}

-----------------------------------------------------------------------------
(* Disconnecting clients.  disconnect(true) closes the transport, so every  *)
(* socket that shares it runs its disconnect handler too.                   *)

sameTransport(S) == {d \in Clients : \E c \in S : ConnOf[d] = ConnOf[c]}

dropSessionCalls(lost) ==
    [k \in CallIds |-> IF calls[k].pending /\ calls[k].client \in lost
                       THEN [calls[k] EXCEPT !.pending = FALSE, !.timer = FALSE]
                       ELSE calls[k]]

\* The disconnect handlers of the clients in S that are still connected.
disconnectClients(S) ==
    LET lost == {c \in S : clientConn[c] \in {"auth", "up"}}
    IN  /\ clientConn' = [c \in Clients |-> IF c \in lost THEN "down" ELSE clientConn[c]]
        /\ proxySessions' = [ns \in NodeSockets |-> proxySessions[ns] \ lost]
        /\ clientsByNodeId' = [n \in Nodes |-> clientsByNodeId[n] \ lost]
        /\ calls' = dropSessionCalls(lost)
        /\ UNCHANGED bridgedTo

ClientDisconnect(c) ==
    /\ clientConn[c] \in {"auth", "up"}
    /\ disconnectClients(sameTransport({c}))
    /\ UNCHANGED <<nodeVars, dbVars>>

-----------------------------------------------------------------------------
(* Control sockets of the nodes.                                            *)

\* setNodeSocket replaces any older socket, which stays connected until it times out.
NodeConnect(ns) ==
    /\ nodeConn[ns] = "new"
    /\ nodeConn' = [nodeConn EXCEPT ![ns] = "up"]
    /\ nodeSocketsByNodeId' = [nodeSocketsByNodeId EXCEPT ![NodeOf[ns]] = ns]
    /\ UNCHANGED <<bridgeVars, calls, dbVars>>

isCurrent(ns) == nodeSocketsByNodeId[NodeOf[ns]] = ns

\* disconnectNodeClients: only the node's current socket takes all of its clients along.
clientsOfCurrent(ns) == IF isCurrent(ns) THEN clientsByNodeId[NodeOf[ns]] ELSE {}

\* disconnectNodeSocketClients, and then disconnectNodeClients
clientsOf(ns) == proxySessions[ns] \cup clientsOfCurrent(ns)

NodeDisconnect(ns) ==
    /\ nodeConn[ns] = "up"
    /\ nodeConn' = [nodeConn EXCEPT ![ns] = "down"]
    /\ nodeSocketsByNodeId' =
         [nodeSocketsByNodeId EXCEPT ![NodeOf[ns]] = IF isCurrent(ns) THEN None ELSE @]
    /\ disconnectClients(sameTransport(clientsOf(ns)))
    /\ UNCHANGED dbVars

\* Mutant: the timer of an answered call is left running.
answeredTimed(k) == [calls EXCEPT ![k].pending = FALSE, ![k].acks = @ + 1]

answered(k) == [calls EXCEPT ![k].pending = FALSE, ![k].timer = FALSE, ![k].acks = @ + 1]

\* proxy:reply for a call of this socket and of the session it names; any other is ignored.
NodeReply(ns, k) ==
    /\ nodeConn[ns] = "up"
    /\ calls[k].pending /\ calls[k].nodeSocket = ns
    /\ calls' = answered(k)
    /\ UNCHANGED <<nodeVars, bridgeVars, dbVars>>

\* proxy:close
NodeCloses(ns, c) ==
    /\ nodeConn[ns] = "up"
    /\ c \in proxySessions[ns]
    /\ disconnectClients(sameTransport({c}))
    /\ UNCHANGED <<nodeVars, dbVars>>

-----------------------------------------------------------------------------
(* Clients and their calls.                                                 *)

\* fleetNamespaceMiddleware has read the access.
ClientAuth(c) ==
    /\ clientConn[c] = "new"
    /\ <<UserOf[c], TargetOf[c]>> \in access
    /\ clientConn' = [clientConn EXCEPT ![c] = "auth"]
    /\ UNCHANGED <<nodeVars, bridgedTo, proxySessions, clientsByNodeId, calls, dbVars>>

nodeSocketUp(n) == nodeSocketsByNodeId[n] # None /\ nodeConn[nodeSocketsByNodeId[n]] = "up"

\* Mutant: the client is not tracked under its node.
ClientConnectUntracked(c) ==
    LET ns == nodeSocketsByNodeId[TargetOf[c]]
    IN  /\ clientConn[c] = "auth" /\ nodeSocketUp(TargetOf[c])
        /\ clientConn' = [clientConn EXCEPT ![c] = "up"]
        /\ bridgedTo' = [bridgedTo EXCEPT ![c] = ns]
        /\ proxySessions' = [proxySessions EXCEPT ![ns] = @ \cup {c}]
        /\ UNCHANGED <<clientsByNodeId, nodeVars, calls, dbVars>>

\* The connection handler runs after the middleware's last await: bridgeClient.
ClientConnect(c) ==
    LET ns == nodeSocketsByNodeId[TargetOf[c]]
    IN  /\ clientConn[c] = "auth" /\ nodeSocketUp(TargetOf[c])
        /\ clientConn' = [clientConn EXCEPT ![c] = "up"]
        /\ bridgedTo' = [bridgedTo EXCEPT ![c] = ns]
        /\ proxySessions' = [proxySessions EXCEPT ![ns] = @ \cup {c}]
        /\ clientsByNodeId' = [clientsByNodeId EXCEPT ![TargetOf[c]] = @ \cup {c}]
        /\ UNCHANGED <<nodeVars, calls, dbVars>>

\* The node is offline: the client is disconnected, its transport with it.
ClientRefused(c) ==
    /\ clientConn[c] = "auth" /\ ~nodeSocketUp(TargetOf[c])
    /\ disconnectClients(sameTransport({c}))
    /\ UNCHANGED <<nodeVars, dbVars>>

\* Mutant: no timer is armed.
ClientCallUntimed(c, k) ==
    /\ clientConn[c] = "up" /\ nodeConn[bridgedTo[c]] = "up"
    /\ calls[k] = NoCall
    /\ calls' = [calls EXCEPT ![k] = [client |-> c, nodeSocket |-> bridgedTo[c],
                                      pending |-> TRUE, timer |-> FALSE, acks |-> 0]]
    /\ UNCHANGED <<nodeVars, bridgeVars, dbVars>>

\* An event with an acknowledgement: proxy:call, its timer armed.
ClientCall(c, k) ==
    /\ clientConn[c] = "up" /\ nodeConn[bridgedTo[c]] = "up"
    /\ calls[k] = NoCall
    /\ calls' = [calls EXCEPT ![k] = [client |-> c, nodeSocket |-> bridgedTo[c],
                                      pending |-> TRUE, timer |-> TRUE, acks |-> 0]]
    /\ UNCHANGED <<nodeVars, bridgeVars, dbVars>>

CallTimeout(k) ==
    /\ calls[k].timer
    /\ calls' = answered(k)
    /\ UNCHANGED <<nodeVars, bridgeVars, dbVars>>

-----------------------------------------------------------------------------
(* Access.                                                                  *)

GrantAccess(u, n) ==
    /\ <<u, n>> \notin access
    /\ access' = access \cup {<<u, n>>}
    /\ UNCHANGED <<nodeVars, bridgeVars, calls, revocations>>

\* The deletion commits.  A direct revoke goes on to the teardown; a group change
\* first reads the access again (revokeStaleNodeAccess).
RevokeAccess(u, n, phase) ==
    /\ <<u, n>> \in access
    /\ Cardinality(revocations) < MaxRevocations
    /\ access' = access \ {<<u, n>>}
    /\ revocations' = revocations \cup {[user |-> u, node |-> n, phase |-> phase]}
    /\ UNCHANGED <<nodeVars, bridgeVars, calls>>

RevokeStaleRead(v) ==
    /\ v \in revocations /\ v.phase = "reread"
    /\ revocations' = IF <<v.user, v.node>> \in access
                      THEN revocations \ {v}
                      ELSE (revocations \ {v}) \cup {[v EXCEPT !.phase = "due"]}
    /\ UNCHANGED <<nodeVars, bridgeVars, calls, access>>

\* disconnectNodeUser
DisconnectNodeUser(v) ==
    /\ v \in revocations /\ v.phase = "due"
    /\ revocations' = revocations \ {v}
    /\ disconnectClients(sameTransport({c \in clientsByNodeId[v.node] : UserOf[c] = v.user}))
    /\ UNCHANGED <<nodeVars, access>>

-----------------------------------------------------------------------------

Next ==
    \/ \E ns \in NodeSockets :
          \/ NodeConnect(ns)
          \/ NodeDisconnect(ns)
          \/ \E k \in CallIds : NodeReply(ns, k)
          \/ \E c \in Clients : NodeCloses(ns, c)
    \/ \E c \in Clients :
          \/ ClientAuth(c)
          \/ ClientConnect(c)
          \/ ClientRefused(c)
          \/ ClientDisconnect(c)
          \/ \E k \in CallIds : ClientCall(c, k)
    \/ \E k \in CallIds : CallTimeout(k)
    \/ \E u \in Users, n \in Nodes :
          \/ GrantAccess(u, n)
          \/ \E phase \in {"reread", "due"} : RevokeAccess(u, n, phase)
    \/ \E v \in revocations : RevokeStaleRead(v) \/ DisconnectNodeUser(v)

Spec == Init /\ [][Next]_vars

\* An armed call timer fires unless the call is answered or dropped first.
FairSpec == Spec /\ \A k \in CallIds : WF_vars(CallTimeout(k))

-----------------------------------------------------------------------------
(* Properties.                                                              *)

\* Every variable has its shape: a call is acknowledged once at most, and every session
\* teardown names a user and a node.
TypeOK ==
    /\ nodeSocketsByNodeId \in [Nodes -> NodeSockets \cup {None}]
    /\ nodeConn \in [NodeSockets -> {"new", "up", "down"}]
    /\ clientConn \in [Clients -> {"new", "auth", "up", "down"}]
    /\ bridgedTo \in [Clients -> NodeSockets \cup {None}]
    /\ proxySessions \in [NodeSockets -> SUBSET Clients]
    /\ clientsByNodeId \in [Nodes -> SUBSET Clients]
    /\ calls \in [CallIds -> Call \cup {NoCall}]
    /\ access \in SUBSET (Users \X Nodes)
    /\ revocations \in SUBSET Revocation

\* A connected client is bridged to a connected control socket of its own node, whatever
\* the order in which the node's old and new sockets come and go: no browser is left
\* talking to a socket that drops its events without an answer (the return of onAny).
BridgesAlive ==
    \A c \in Clients : clientConn[c] = "up" =>
        /\ bridgedTo[c] # None
        /\ nodeConn[bridgedTo[c]] = "up"
        /\ NodeOf[bridgedTo[c]] = TargetOf[c]

\* proxySessions and clientsByNodeId hold exactly the connected clients: a teardown by
\* socket, by node or by user misses none of them and meets no dead one.
BridgesIndexed ==
    /\ \A ns \in NodeSockets :
          proxySessions[ns] = {c \in Clients : clientConn[c] = "up" /\ bridgedTo[c] = ns}
    /\ \A n \in Nodes :
          clientsByNodeId[n] = {c \in Clients : clientConn[c] = "up" /\ TargetOf[c] = n}

\* A call that waits has its timer armed and both its ends connected; one that does not
\* wait has no timer, so nothing acknowledges a call of a client that is gone, and only
\* such a client's call is given up without an answer.
callTimed(call) ==
    /\ call.pending = call.timer
    /\ call.pending => /\ call.acks = 0
                       /\ clientConn[call.client] = "up"
                       /\ nodeConn[call.nodeSocket] = "up"
                       /\ bridgedTo[call.client] = call.nodeSocket
    /\ (call # NoCall /\ ~call.pending /\ call.acks = 0) => clientConn[call.client] = "down"

CallsTimed == \A k \in CallIds : callTimed(calls[k])

\* What became of each call, as SettleOnce sees it.
statusOf(call) ==
    CASE call = NoCall  -> "idle"
      [] call # NoCall /\ call.pending -> "open"
      [] call # NoCall /\ ~call.pending /\ call.acks = 1 -> "settled"
      [] call # NoCall /\ ~call.pending /\ call.acks = 0 -> "dropped"
      [] OTHER -> "settled twice"

callStatus == [k \in CallIds |-> statusOf(calls[k])]

SettledCalls == INSTANCE SettleOnce WITH Ids <- CallIds, status <- callStatus

\* Every call is acknowledged exactly once, by the node or by the timeout, unless its
\* client is gone, and none waits for ever.
CallsSettleOnce == SettledCalls!FairSpec

tornDown(v) == \A c \in Clients : UserOf[c] = v.user /\ TargetOf[c] = v.node => clientConn[c] # "up"

teardownLeavesNone ==
    \A v \in revocations : v.phase = "due" /\ v \notin revocations' => tornDown(v)'

\* The teardown of a revoked user leaves none of the clients that were bridged by then.
TeardownComplete == [][teardownLeavesNone]_vars

beingRevoked(u, n) == \E v \in revocations : v.user = u /\ v.node = n

\* A bridged client's user may access the node, or a teardown is on its way (the comment
\* on revokeStaleNodeAccess: without it "a revoked user keeps an open session - and full
\* device control - until they happen to disconnect").
BridgesEnforced ==
    \A c \in Clients : clientConn[c] = "up" =>
        \/ <<UserOf[c], TargetOf[c]>> \in access
        \/ beingRevoked(UserOf[c], TargetOf[c])

=============================================================================
