--------------------------- MODULE NodeProxyProofs ---------------------------
(***************************************************************************)
(* Proofs about NodeProxy, for any number of nodes, sockets and calls.     *)
(***************************************************************************)
EXTENDS NodeProxy, TLAPS

\* The registry files a control socket under its own node.
RegistryExact ==
    \A n \in Nodes : nodeSocketsByNodeId[n] # None => NodeOf[nodeSocketsByNodeId[n]] = n

\* The three invariants need one another: a call has a live end because its client's
\* bridge is alive, which holds because a lost control socket finds all its clients.
Bridging == TypeOK /\ RegistryExact /\ BridgesIndexed /\ BridgesAlive /\ CallsTimed

\* The part of the types that the disconnection of clients changes.
BridgeTypes ==
    /\ clientConn \in [Clients -> {"new", "auth", "up", "down"}]
    /\ bridgedTo \in [Clients -> NodeSockets \cup {None}]
    /\ proxySessions \in [NodeSockets -> SUBSET Clients]
    /\ clientsByNodeId \in [Nodes -> SUBSET Clients]
    /\ calls \in [CallIds -> Call \cup {NoCall}]

OtherTypes ==
    /\ nodeSocketsByNodeId \in [Nodes -> NodeSockets \cup {None}]
    /\ nodeConn \in [NodeSockets -> {"new", "up", "down"}]
    /\ access \in SUBSET (Users \X Nodes)
    /\ revocations \in SUBSET Revocation

LEMMA TypeParts == TypeOK <=> BridgeTypes /\ OtherTypes
    BY DEF TypeOK, BridgeTypes, OtherTypes

\* What a call record is, NoCall included.
LEMMA CallFields ==
    ASSUME NEW call \in Call \cup {NoCall}
    PROVE  /\ call.pending \in BOOLEAN /\ call.timer \in BOOLEAN /\ call.acks \in {0, 1}
           /\ call # NoCall => /\ call \in Call
                               /\ call.client \in Clients /\ call.nodeSocket \in NodeSockets
           /\ call.pending => call # NoCall
<1>1. CASE call \in Call
  <2>1. call.client # None
    BY <1>1, ProxyAssumption DEF Call
  <2>. QED
    BY <1>1, <2>1 DEF Call, NoCall
<1>2. CASE call = NoCall
  BY <1>2 DEF NoCall
<1>. QED
  BY <1>1, <1>2

\* A dropped call waits for nothing.
LEMMA DroppedCall ==
    ASSUME NEW call \in Call,
           NEW d, d = [call EXCEPT !.pending = FALSE, !.timer = FALSE]
    PROVE  /\ d \in Call /\ d.pending = FALSE /\ d.timer = FALSE
           /\ d.client = call.client /\ d.nodeSocket = call.nodeSocket /\ d.acks = call.acks
    BY DEF Call

\* What the disconnect handlers of a set of clients leave behind.
LEMMA DisconnectClients ==
    ASSUME Bridging, NEW S \in SUBSET Clients, disconnectClients(S)
    PROVE  /\ BridgeTypes' /\ BridgesIndexed' /\ bridgedTo' = bridgedTo
           /\ \A c \in Clients : /\ clientConn'[c] = "up" <=> clientConn[c] = "up" /\ c \notin S
                                 /\ clientConn[c] = "down" => clientConn'[c] = "down"
                                 /\ clientConn[c] = "up" /\ c \in S => clientConn'[c] = "down"
           /\ \A k \in CallIds :
                \/ calls'[k] = calls[k] /\ ~(calls[k].pending /\ calls[k].client \in S)
                \/ /\ calls[k].pending /\ calls[k].client \in S
                   /\ calls'[k] = [calls[k] EXCEPT !.pending = FALSE, !.timer = FALSE]
<1> DEFINE lost == {c \in S : clientConn[c] \in {"auth", "up"}}
<1>0. BridgeTypes /\ BridgesIndexed /\ CallsTimed
  BY TypeParts DEF Bridging
<1>1. /\ clientConn' = [c \in Clients |-> IF c \in lost THEN "down" ELSE clientConn[c]]
      /\ proxySessions' = [ns \in NodeSockets |-> proxySessions[ns] \ lost]
      /\ clientsByNodeId' = [n \in Nodes |-> clientsByNodeId[n] \ lost]
      /\ calls' = dropSessionCalls(lost)
      /\ bridgedTo' = bridgedTo
  BY DEF disconnectClients
<1>2. \A c \in Clients : /\ clientConn'[c] = "up" <=> clientConn[c] = "up" /\ c \notin S
                         /\ clientConn[c] = "down" => clientConn'[c] = "down"
                         /\ clientConn[c] = "up" /\ c \in S => clientConn'[c] = "down"
  BY <1>1
<1>3. \A k \in CallIds :
        \/ calls'[k] = calls[k] /\ ~(calls[k].pending /\ calls[k].client \in S)
        \/ /\ calls[k].pending /\ calls[k].client \in S
           /\ calls'[k] = [calls[k] EXCEPT !.pending = FALSE, !.timer = FALSE]
  <2> TAKE k \in CallIds
  <2>0. calls[k] \in Call \cup {NoCall}
    BY <1>0 DEF BridgeTypes
  <2>1. calls[k].pending => clientConn[calls[k].client] = "up" /\ calls[k].client \in Clients
    BY <1>0, <2>0, CallFields DEF CallsTimed, callTimed
  <2>2. calls'[k] = IF calls[k].pending /\ calls[k].client \in lost
                    THEN [calls[k] EXCEPT !.pending = FALSE, !.timer = FALSE]
                    ELSE calls[k]
    BY <1>1 DEF dropSessionCalls
  <2>. QED
    BY <2>1, <2>2
<1>4. BridgeTypes'
  <2>1. calls' \in [CallIds -> Call \cup {NoCall}]
    <3>1. calls' = [k \in CallIds |-> IF calls[k].pending /\ calls[k].client \in lost
                                      THEN [calls[k] EXCEPT !.pending = FALSE, !.timer = FALSE]
                                      ELSE calls[k]]
      BY <1>1 DEF dropSessionCalls
    <3>2. \A k \in CallIds : calls'[k] \in Call \cup {NoCall}
      <4> TAKE k \in CallIds
      <4>1. calls[k] \in Call \cup {NoCall}
        BY <1>0 DEF BridgeTypes
      <4>2. CASE calls'[k] = calls[k]
        BY <4>1, <4>2
      <4>3. CASE calls[k].pending /\ calls'[k] = [calls[k] EXCEPT !.pending = FALSE, !.timer = FALSE]
        <5>1. calls[k] \in Call
          BY <4>1, <4>3, CallFields
        <5>. QED
          BY <4>3, <5>1, DroppedCall
      <4>. QED
        BY <1>3, <4>2, <4>3
    <3>. QED
      BY <3>1, <3>2
  <2>. QED
    BY <1>0, <1>1, <2>1 DEF BridgeTypes
<1>5. BridgesIndexed'
  BY <1>0, <1>1, <1>2 DEF BridgesIndexed
<1>. QED
  BY <1>1, <1>2, <1>3, <1>4, <1>5

\* Disconnecting clients keeps the bridges and the calls of those that stay, provided
\* the control sockets of those are still connected.
LEMMA DisconnectBridging ==
    ASSUME Bridging, OtherTypes', RegistryExact',
           NEW S \in SUBSET Clients, disconnectClients(S),
           \A c \in Clients : clientConn[c] = "up" /\ c \notin S
                => nodeConn'[bridgedTo[c]] = "up"
    PROVE  Bridging'
<1>0. BridgeTypes
  BY TypeParts DEF Bridging
<1>3. /\ BridgeTypes' /\ BridgesIndexed' /\ bridgedTo' = bridgedTo
      /\ \A c \in Clients : /\ clientConn'[c] = "up" <=> clientConn[c] = "up" /\ c \notin S
                            /\ clientConn[c] = "down" => clientConn'[c] = "down"
                            /\ clientConn[c] = "up" /\ c \in S => clientConn'[c] = "down"
      /\ \A k \in CallIds :
           \/ calls'[k] = calls[k] /\ ~(calls[k].pending /\ calls[k].client \in S)
           \/ /\ calls[k].pending /\ calls[k].client \in S
              /\ calls'[k] = [calls[k] EXCEPT !.pending = FALSE, !.timer = FALSE]
  BY DisconnectClients
<1>1. BridgesAlive'
  BY <1>3 DEF Bridging, BridgesAlive
<1>2. CallsTimed'
  <2> SUFFICES ASSUME NEW k \in CallIds
               PROVE  callTimed(calls[k])'
    BY DEF CallsTimed
  <2>0. calls[k] \in Call \cup {NoCall}
    BY <1>0 DEF BridgeTypes
  <2>1. callTimed(calls[k])
    BY DEF Bridging, CallsTimed
  <2>2. CASE calls'[k] = calls[k] /\ ~(calls[k].pending /\ calls[k].client \in S)
    <3>1. CASE calls[k] = NoCall
      BY <2>2, <3>1 DEF callTimed, NoCall
    <3>2. CASE calls[k] # NoCall
      <4>1. calls[k].client \in Clients
        BY <2>0, <3>2, CallFields
      <4>2. /\ clientConn'[calls[k].client] = "up" <=>
                  clientConn[calls[k].client] = "up" /\ calls[k].client \notin S
            /\ clientConn[calls[k].client] = "down" => clientConn'[calls[k].client] = "down"
            /\ bridgedTo' = bridgedTo
        BY <1>3, <4>1
      <4>. QED
        BY <2>1, <2>2, <4>1, <4>2 DEF callTimed
    <3>. QED
      BY <3>1, <3>2
  <2>3. CASE /\ calls[k].pending /\ calls[k].client \in S
             /\ calls'[k] = [calls[k] EXCEPT !.pending = FALSE, !.timer = FALSE]
    <3>1. calls[k] \in Call /\ calls[k].client \in Clients
      BY <2>0, <2>3, CallFields
    <3>2. /\ calls'[k].pending = FALSE /\ calls'[k].timer = FALSE
          /\ calls'[k].client = calls[k].client
      BY <2>3, <3>1 DEF Call
    <3>3. clientConn'[calls[k].client] = "down"
      <4>1. clientConn[calls[k].client] = "up"
        BY <2>1, <2>3 DEF callTimed
      <4>2. \A c \in Clients : clientConn[c] = "up" /\ c \in S => clientConn'[c] = "down"
        BY <1>3
      <4>. QED
        BY <2>3, <3>1, <4>1, <4>2
    <3>. QED
      BY <3>2, <3>3 DEF callTimed
  <2>. QED
    BY <1>3, <2>2, <2>3
<1>. QED
  BY <1>1, <1>2, <1>3 DEF Bridging, TypeOK, BridgeTypes, OtherTypes

-----------------------------------------------------------------------------
(* Every step keeps the invariant.                                          *)

LEMMA InitBridging == Init => Bridging
<1> SUFFICES ASSUME Init PROVE Bridging
  OBVIOUS
<1>1. TypeOK /\ RegistryExact
  BY DEF Init, TypeOK, RegistryExact
<1>2. BridgesIndexed /\ BridgesAlive
  BY DEF Init, BridgesIndexed, BridgesAlive
<1>3. callTimed(NoCall)
  BY DEF callTimed, NoCall
<1>4. CallsTimed
  BY <1>3 DEF Init, CallsTimed
<1>. QED
  BY <1>1, <1>2, <1>4 DEF Bridging

\* Clients leave for a reason of their own, of the node or of the access.
LEMMA ClientsLeaveBridging ==
    ASSUME Bridging, NEW S \in SUBSET Clients, disconnectClients(S), UNCHANGED nodeVars,
           access' = access, revocations' \in SUBSET Revocation
    PROVE  Bridging'
<1>1. OtherTypes' /\ RegistryExact'
  BY TypeParts DEF Bridging, OtherTypes, RegistryExact, nodeVars
<1>2. \A c \in Clients : clientConn[c] = "up" => nodeConn'[bridgedTo[c]] = "up"
  BY DEF Bridging, BridgesAlive, nodeVars
<1>. QED
  BY <1>1, <1>2, DisconnectBridging

LEMMA NodeConnectBridging ==
    ASSUME Bridging, NEW ns \in NodeSockets, NodeConnect(ns)
    PROVE  Bridging'
<1>1. /\ nodeConn[ns] = "new"
      /\ nodeConn' = [nodeConn EXCEPT ![ns] = "up"]
      /\ nodeSocketsByNodeId' = [nodeSocketsByNodeId EXCEPT ![NodeOf[ns]] = ns]
      /\ UNCHANGED <<bridgeVars, calls, dbVars>>
  BY DEF NodeConnect
<1>2. TypeOK'
  BY <1>1, ProxyAssumption DEF Bridging, TypeOK, bridgeVars, dbVars
<1>3. RegistryExact'
  BY <1>1, ProxyAssumption DEF Bridging, TypeOK, RegistryExact
<1>4. \A m \in NodeSockets : nodeConn[m] = "up" => nodeConn'[m] = "up"
  BY <1>1 DEF Bridging, TypeOK
<1>5. BridgesIndexed' /\ BridgesAlive'
  BY <1>1, <1>4 DEF Bridging, TypeOK, BridgesIndexed, BridgesAlive, bridgeVars
<1>6. CallsTimed'
  <2>1. \A k \in CallIds : calls[k].pending => calls[k].nodeSocket \in NodeSockets
    BY CallFields DEF Bridging, TypeOK
  <2>. QED
    BY <1>1, <1>4, <2>1 DEF Bridging, CallsTimed, callTimed, bridgeVars
<1>. QED
  BY <1>2, <1>3, <1>5, <1>6 DEF Bridging

\* The clients a lost control socket leaves connected are bridged to another one.
LEMMA NodeDisconnectBridging ==
    ASSUME Bridging, NEW ns \in NodeSockets, NodeDisconnect(ns)
    PROVE  Bridging'
<1> DEFINE S == sameTransport(clientsOf(ns))
<1>1. /\ nodeConn' = [nodeConn EXCEPT ![ns] = "down"]
      /\ nodeSocketsByNodeId' =
           [nodeSocketsByNodeId EXCEPT ![NodeOf[ns]] = IF isCurrent(ns) THEN None ELSE @]
      /\ disconnectClients(S) /\ UNCHANGED dbVars
  BY DEF NodeDisconnect
<1>2. S \in SUBSET Clients /\ proxySessions[ns] \subseteq S
  BY DEF sameTransport, clientsOf, Bridging, TypeOK
<1>3. OtherTypes'
  BY <1>1, TypeParts DEF Bridging, OtherTypes, dbVars
<1>4. RegistryExact'
  BY <1>1, ProxyAssumption DEF Bridging, TypeOK, RegistryExact
<1>5. \A c \in Clients : clientConn[c] = "up" /\ c \notin S => nodeConn'[bridgedTo[c]] = "up"
  <2> SUFFICES ASSUME NEW c \in Clients, clientConn[c] = "up", c \notin S
               PROVE  nodeConn'[bridgedTo[c]] = "up"
    OBVIOUS
  <2>1. bridgedTo[c] # None /\ nodeConn[bridgedTo[c]] = "up" /\ bridgedTo[c] # ns
    BY <1>2 DEF Bridging, BridgesAlive, BridgesIndexed
  <2>. QED
    BY <1>1, <2>1 DEF Bridging, TypeOK
<1> HIDE DEF S
<1>. QED
  BY <1>1, <1>2, <1>3, <1>4, <1>5, DisconnectBridging

LEMMA ClientAuthBridging ==
    ASSUME Bridging, NEW c \in Clients, ClientAuth(c)
    PROVE  Bridging'
<1>1. /\ clientConn[c] = "new" /\ clientConn' = [clientConn EXCEPT ![c] = "auth"]
      /\ UNCHANGED <<nodeVars, bridgedTo, proxySessions, clientsByNodeId, calls, dbVars>>
  BY DEF ClientAuth
<1>2. TypeOK' /\ RegistryExact'
  BY <1>1 DEF Bridging, TypeOK, RegistryExact, nodeVars, dbVars
<1>3. \A d \in Clients : /\ clientConn'[d] = "up" <=> clientConn[d] = "up"
                         /\ clientConn[d] = "down" => clientConn'[d] = "down"
  BY <1>1 DEF Bridging, TypeOK
<1>4. BridgesIndexed' /\ BridgesAlive'
  BY <1>1, <1>3 DEF Bridging, BridgesIndexed, BridgesAlive, nodeVars
<1>5. CallsTimed'
  <2>1. \A k \in CallIds : calls[k] # NoCall => calls[k].client \in Clients
    BY CallFields DEF Bridging, TypeOK
  <2>2. \A k \in CallIds : calls[k].pending => calls[k] # NoCall
    BY CallFields DEF Bridging, TypeOK
  <2>. QED
    BY <1>1, <1>3, <2>1, <2>2 DEF Bridging, CallsTimed, callTimed, nodeVars
<1>. QED
  BY <1>2, <1>4, <1>5 DEF Bridging

LEMMA ClientConnectBridging ==
    ASSUME Bridging, NEW c \in Clients, ClientConnect(c)
    PROVE  Bridging'
<1> DEFINE ns == nodeSocketsByNodeId[TargetOf[c]]
<1>1. /\ clientConn[c] = "auth" /\ nodeConn[ns] = "up" /\ ns # None
      /\ clientConn' = [clientConn EXCEPT ![c] = "up"]
      /\ bridgedTo' = [bridgedTo EXCEPT ![c] = ns]
      /\ proxySessions' = [proxySessions EXCEPT ![ns] = @ \cup {c}]
      /\ clientsByNodeId' = [clientsByNodeId EXCEPT ![TargetOf[c]] = @ \cup {c}]
      /\ UNCHANGED <<nodeVars, calls, dbVars>>
  BY DEF ClientConnect, nodeSocketUp
<1>2. ns \in NodeSockets /\ NodeOf[ns] = TargetOf[c] /\ TargetOf[c] \in Nodes
  BY <1>1, ProxyAssumption DEF Bridging, TypeOK, RegistryExact
<1> HIDE DEF ns
<1>3. TypeOK' /\ RegistryExact'
  BY <1>1, <1>2 DEF Bridging, TypeOK, RegistryExact, nodeVars, dbVars
<1>4. \A d \in Clients : /\ clientConn'[d] = IF d = c THEN "up" ELSE clientConn[d]
                         /\ bridgedTo'[d] = IF d = c THEN ns ELSE bridgedTo[d]
  BY <1>1 DEF Bridging, TypeOK
<1>5. BridgesAlive'
  BY <1>1, <1>2, <1>4, ProxyAssumption DEF Bridging, BridgesAlive, nodeVars
<1>6. /\ \A m \in NodeSockets :
            proxySessions'[m] = IF m = ns THEN proxySessions[m] \cup {c} ELSE proxySessions[m]
      /\ \A n \in Nodes :
            clientsByNodeId'[n] = IF n = TargetOf[c] THEN clientsByNodeId[n] \cup {c} ELSE clientsByNodeId[n]
  BY <1>1 DEF Bridging, TypeOK
<1>7. BridgesIndexed'
  <2>1. \A m \in NodeSockets :
          proxySessions'[m] = {d \in Clients : clientConn'[d] = "up" /\ bridgedTo'[d] = m}
    <3> TAKE m \in NodeSockets
    <3>1. proxySessions[m] = {d \in Clients : clientConn[d] = "up" /\ bridgedTo[d] = m}
      BY DEF Bridging, BridgesIndexed
    <3>2. \A d \in Clients :
            d \in proxySessions'[m] <=> clientConn'[d] = "up" /\ bridgedTo'[d] = m
      <4> TAKE d \in Clients
      <4>1. d \in proxySessions'[m] <=> d \in proxySessions[m] \/ (d = c /\ m = ns)
        BY <1>6
      <4>2. d \in proxySessions[m] <=> clientConn[d] = "up" /\ bridgedTo[d] = m
        BY <3>1
      <4>3. CASE d = c
        BY <1>1, <1>4, <4>1, <4>2, <4>3
      <4>4. CASE d # c
        BY <1>4, <4>1, <4>2, <4>4
      <4>. QED
        BY <4>3, <4>4
    <3>3. proxySessions'[m] \subseteq Clients
      BY <1>3 DEF TypeOK
    <3>. QED
      BY <3>2, <3>3
  <2>2. \A n \in Nodes :
          clientsByNodeId'[n] = {d \in Clients : clientConn'[d] = "up" /\ TargetOf[d] = n}
    <3> TAKE n \in Nodes
    <3>1. clientsByNodeId[n] = {d \in Clients : clientConn[d] = "up" /\ TargetOf[d] = n}
      BY DEF Bridging, BridgesIndexed
    <3>2. \A d \in Clients :
            d \in clientsByNodeId'[n] <=> clientConn'[d] = "up" /\ TargetOf[d] = n
      <4> TAKE d \in Clients
      <4>1. d \in clientsByNodeId'[n]
              <=> d \in clientsByNodeId[n] \/ (d = c /\ n = TargetOf[c])
        BY <1>6
      <4>2. d \in clientsByNodeId[n] <=> clientConn[d] = "up" /\ TargetOf[d] = n
        BY <3>1
      <4>3. clientConn'[d] = "up" <=> d = c \/ clientConn[d] = "up"
        BY <1>4
      <4>. QED
        BY <1>1, <4>1, <4>2, <4>3
    <3>3. clientsByNodeId'[n] \subseteq Clients
      BY <1>3 DEF TypeOK
    <3>. QED
      BY <3>2, <3>3
  <2>. QED
    BY <2>1, <2>2 DEF BridgesIndexed
<1>8. CallsTimed'
  <2>1. \A k \in CallIds : calls[k] # NoCall => calls[k].client \in Clients
    BY CallFields DEF Bridging, TypeOK
  <2>2. \A k \in CallIds : calls[k].pending => calls[k] # NoCall
    BY CallFields DEF Bridging, TypeOK
  <2>3. \A k \in CallIds : calls[k] # NoCall /\ (calls[k].pending \/ calls[k].acks = 0)
                              => calls[k].client # c
    BY <1>1 DEF Bridging, CallsTimed, callTimed
  <2>. QED
    BY <1>1, <1>4, <2>1, <2>2, <2>3 DEF Bridging, CallsTimed, callTimed, nodeVars
<1>. QED
  BY <1>3, <1>5, <1>7, <1>8 DEF Bridging

\* One call changes: it begins, or it is answered by the node or by its timer.
LEMMA CallBridging ==
    ASSUME Bridging, NEW k \in CallIds, NEW r \in Call, calls' = [calls EXCEPT ![k] = r],
           callTimed(r), UNCHANGED <<nodeVars, bridgeVars, dbVars>>
    PROVE  Bridging'
<1>1. TypeOK' /\ RegistryExact' /\ BridgesIndexed' /\ BridgesAlive'
  BY DEF Bridging, TypeOK, RegistryExact, BridgesIndexed, BridgesAlive, nodeVars, bridgeVars, dbVars
<1>2. \A j \in CallIds : calls'[j] = IF j = k THEN r ELSE calls[j]
  BY DEF Bridging, TypeOK
<1>3. CallsTimed'
  BY <1>2 DEF Bridging, CallsTimed, callTimed, nodeVars, bridgeVars
<1>. QED
  BY <1>1, <1>3 DEF Bridging

LEMMA ClientCallBridging ==
    ASSUME Bridging, NEW c \in Clients, NEW k \in CallIds, ClientCall(c, k)
    PROVE  Bridging'
<1> DEFINE r == [client |-> c, nodeSocket |-> bridgedTo[c], pending |-> TRUE, timer |-> TRUE, acks |-> 0]
<1>1. /\ calls' = [calls EXCEPT ![k] = r] /\ clientConn[c] = "up" /\ nodeConn[bridgedTo[c]] = "up"
      /\ UNCHANGED <<nodeVars, bridgeVars, dbVars>>
  BY DEF ClientCall
<1>2. r \in Call
  BY <1>1 DEF Bridging, TypeOK, BridgesAlive, Call
<1>3. callTimed(r)
  BY <1>1 DEF callTimed
<1> HIDE DEF r
<1>. QED
  BY <1>1, <1>2, <1>3, CallBridging

LEMMA AnsweredBridging ==
    ASSUME Bridging, NEW k \in CallIds, (\E ns \in NodeSockets : NodeReply(ns, k)) \/ CallTimeout(k)
    PROVE  Bridging' /\ calls[k].pending
<1> DEFINE r == [calls[k] EXCEPT !.pending = FALSE, !.timer = FALSE, !.acks = 1]
<1>1. /\ calls' = answered(k) /\ calls[k].pending
      /\ UNCHANGED <<nodeVars, bridgeVars, dbVars>>
  BY DEF NodeReply, CallTimeout, Bridging, CallsTimed, callTimed
<1>2. calls[k] \in Call /\ calls[k].acks = 0
  BY <1>1, CallFields DEF Bridging, TypeOK, CallsTimed, callTimed
<1>3. r \in Call /\ r.pending = FALSE /\ r.timer = FALSE /\ r.acks = 1
  BY <1>2 DEF Call
<1>4. calls' = [calls EXCEPT ![k] = r]
  <2>1. calls[k].acks + 1 = 1
    BY <1>2
  <2>2. calls' = [calls EXCEPT ![k] = [@ EXCEPT !.pending = FALSE, !.timer = FALSE,
                                                !.acks = calls[k].acks + 1]]
    BY <1>1, <1>2 DEF answered, Bridging, TypeOK, Call
  <2>. QED
    BY <2>1, <2>2 DEF Bridging, TypeOK
<1>5. callTimed(r)
  BY <1>3 DEF callTimed
<1> HIDE DEF r
<1>. QED
  BY <1>1, <1>3, <1>4, <1>5, CallBridging

LEMMA AccessBridging ==
    ASSUME Bridging,
           \/ \E u \in Users, n \in Nodes :
                 \/ GrantAccess(u, n)
                 \/ \E phase \in {"reread", "due"} : RevokeAccess(u, n, phase)
           \/ \E v \in revocations : RevokeStaleRead(v)
    PROVE  Bridging'
<1>1. UNCHANGED <<nodeVars, bridgeVars, calls>>
  BY DEF GrantAccess, RevokeAccess, RevokeStaleRead
<1>2. access' \in SUBSET (Users \X Nodes) /\ revocations' \in SUBSET Revocation
  <2>0. access \in SUBSET (Users \X Nodes) /\ revocations \in SUBSET Revocation
    BY DEF Bridging, TypeOK
  <2>1. ASSUME NEW u \in Users, NEW n \in Nodes, GrantAccess(u, n)
        PROVE  access' \in SUBSET (Users \X Nodes) /\ revocations' \in SUBSET Revocation
    BY <2>0, <2>1 DEF GrantAccess
  <2>2. ASSUME NEW u \in Users, NEW n \in Nodes, NEW phase \in {"reread", "due"},
               RevokeAccess(u, n, phase)
        PROVE  access' \in SUBSET (Users \X Nodes) /\ revocations' \in SUBSET Revocation
    BY <2>0, <2>2 DEF RevokeAccess, Revocation
  <2>3. ASSUME NEW v \in revocations, RevokeStaleRead(v)
        PROVE  access' \in SUBSET (Users \X Nodes) /\ revocations' \in SUBSET Revocation
    BY <2>0, <2>3 DEF RevokeStaleRead, Revocation
  <2>. QED
    BY <2>1, <2>2, <2>3
<1>. QED
  BY <1>1, <1>2
  DEF Bridging, TypeOK, RegistryExact, BridgesIndexed, BridgesAlive, CallsTimed, callTimed,
      nodeVars, bridgeVars

LEMMA NextBridging == Bridging /\ [Next]_vars => Bridging'
<1> SUFFICES ASSUME Bridging, [Next]_vars PROVE Bridging'
  OBVIOUS
<1>1. ASSUME NEW S \in SUBSET Clients, UNCHANGED nodeVars, disconnectClients(sameTransport(S)),
             access' = access, revocations' \in SUBSET Revocation
      PROVE  Bridging'
  BY <1>1, ClientsLeaveBridging DEF sameTransport
<1>2. ASSUME NEW ns \in NodeSockets, NEW c \in Clients, NodeCloses(ns, c)
      PROVE  Bridging'
  BY <1>1, <1>2 DEF NodeCloses, dbVars, Bridging, TypeOK
<1>3. ASSUME NEW c \in Clients, ClientRefused(c) \/ ClientDisconnect(c)
      PROVE  Bridging'
  BY <1>1, <1>3 DEF ClientRefused, ClientDisconnect, dbVars, Bridging, TypeOK
<1>4. ASSUME NEW v \in revocations, DisconnectNodeUser(v)
      PROVE  Bridging'
  BY <1>1, <1>4 DEF DisconnectNodeUser, Bridging, TypeOK, Revocation
<1>5. ASSUME UNCHANGED vars
      PROVE  Bridging'
  BY <1>5
  DEF vars, Bridging, TypeOK, RegistryExact, BridgesIndexed, BridgesAlive, CallsTimed, callTimed,
      nodeVars, bridgeVars, dbVars
<1>. QED
  BY <1>2, <1>3, <1>4, <1>5, NodeConnectBridging, NodeDisconnectBridging, ClientAuthBridging,
     ClientConnectBridging, ClientCallBridging, AnsweredBridging, AccessBridging
  DEF Next

LEMMA InvariantBridging == Spec => []Bridging
<1>. QED
  BY InitBridging, NextBridging, PTL DEF Spec

\* Every variable of the proxy always has its type; no call is acknowledged twice.
THEOREM ProxyTypeCorrect == Spec => []TypeOK
<1>1. Bridging => TypeOK
  BY DEF Bridging
<1>. QED
  BY <1>1, InvariantBridging, PTL

\* A connected client always has a live bridge to its own node, the indexes find it, and
\* a waiting call has a live end on both sides and a timer.
THEOREM BridgesCorrect == Spec => [](BridgesAlive /\ BridgesIndexed /\ CallsTimed)
<1>1. Bridging => BridgesAlive /\ BridgesIndexed /\ CallsTimed
  BY DEF Bridging
<1>. QED
  BY <1>1, InvariantBridging, PTL

-----------------------------------------------------------------------------
(* The teardown of a revoked user.                                          *)

LEMMA DisconnectNodeUserLeavesNone ==
    ASSUME Bridging, NEW v \in revocations, DisconnectNodeUser(v)
    PROVE  tornDown(v)' /\ revocations' = revocations \ {v}
<1> DEFINE S == sameTransport({c \in clientsByNodeId[v.node] : UserOf[c] = v.user})
<1>1. disconnectClients(S) /\ S \in SUBSET Clients /\ revocations' = revocations \ {v}
  BY DEF DisconnectNodeUser, sameTransport
<1>2. v.node \in Nodes
  BY DEF Bridging, TypeOK, Revocation
<1>3. \A c \in Clients : /\ UserOf[c] = v.user /\ TargetOf[c] = v.node
                         /\ clientConn[c] = "up"
                         => c \in S
  BY <1>2 DEF Bridging, BridgesIndexed, sameTransport
<1> HIDE DEF S
<1>4. \A c \in Clients : clientConn'[c] = "up" <=> clientConn[c] = "up" /\ c \notin S
  BY <1>1, DisconnectClients
<1>. QED
  BY <1>1, <1>3, <1>4 DEF tornDown

LEMMA NextLeavesNone == Bridging /\ [Next]_vars => [teardownLeavesNone]_vars
<1> SUFFICES ASSUME Bridging, Next, NEW v \in revocations, v.phase = "due", v \notin revocations'
             PROVE  tornDown(v)'
  BY DEF teardownLeavesNone
<1>1. CASE \E w \in revocations : DisconnectNodeUser(w)
  BY <1>1, DisconnectNodeUserLeavesNone
<1>2. ASSUME NEW w \in revocations, RevokeStaleRead(w)
      PROVE  FALSE
  BY <1>2 DEF RevokeStaleRead
<1>3. ASSUME NEW u \in Users, NEW n \in Nodes,
             GrantAccess(u, n) \/ \E phase \in {"reread", "due"} : RevokeAccess(u, n, phase)
      PROVE  FALSE
  BY <1>3 DEF GrantAccess, RevokeAccess
<1>. QED
  BY <1>1, <1>2, <1>3
  DEF Next, NodeConnect, NodeDisconnect, NodeReply, NodeCloses, ClientAuth, ClientConnect,
      ClientRefused, ClientDisconnect, ClientCall, CallTimeout, dbVars

\* When the teardown of a revoked user has run, no client of that user is bridged to that
\* node, however the clients share their transports.
THEOREM TeardownLeavesNone == Spec => TeardownComplete
<1>. QED
  BY InvariantBridging, NextLeavesNone, PTL DEF Spec, TeardownComplete

-----------------------------------------------------------------------------
(* The calls settle as SettleOnce promises (its safety).                    *)

LEMMA StatusOf ==
    ASSUME NEW call \in Call \cup {NoCall}
    PROVE  /\ call = NoCall => statusOf(call) = "idle"
           /\ call.pending  => statusOf(call) = "open"
           /\ call # NoCall /\ ~call.pending /\ call.acks = 1 => statusOf(call) = "settled"
           /\ call # NoCall /\ ~call.pending /\ call.acks = 0 => statusOf(call) = "dropped"
<1>1. call.pending \in BOOLEAN /\ (call.pending => call # NoCall)
  BY CallFields
<1>. QED
  BY <1>1 DEF statusOf

\* Giving up the calls of some clients is a Drop, or nothing when they had none.
LEMMA DisconnectDrops ==
    ASSUME Bridging, NEW S \in SUBSET Clients, disconnectClients(S)
    PROVE  (\E D \in SUBSET CallIds : SettledCalls!Drop(D)) \/ callStatus' = callStatus
<1> DEFINE D == {k \in CallIds : calls[k].pending /\ calls[k].client \in S}
<1>1. \A k \in CallIds : calls[k] \in Call \cup {NoCall} /\ callTimed(calls[k])
  BY DEF Bridging, TypeOK, CallsTimed
<1>2. \A k \in CallIds \ D : calls'[k] = calls[k]
  BY DisconnectClients
<1>3. \A k \in D : callStatus[k] = "open" /\ statusOf(calls'[k]) = "dropped"
  <2> TAKE k \in D
  <2>1. calls[k] \in Call /\ calls[k].acks = 0 /\ calls[k].pending
    BY <1>1, CallFields DEF callTimed
  <2>2. calls'[k] = [calls[k] EXCEPT !.pending = FALSE, !.timer = FALSE]
    BY DisconnectClients
  <2>3. calls'[k] \in Call /\ calls'[k].pending = FALSE /\ calls'[k].acks = 0
    BY <2>1, <2>2 DEF Call
  <2>4. calls'[k] # NoCall
    BY <2>3, ProxyAssumption DEF Call, NoCall
  <2>. QED
    BY <2>1, <2>3, <2>4, StatusOf DEF callStatus
<1>4. callStatus' = [k \in CallIds |-> IF k \in D THEN "dropped" ELSE callStatus[k]]
  BY <1>2, <1>3 DEF callStatus
<1>5. CASE D = {}
  BY <1>2, <1>5 DEF callStatus
<1>6. CASE D # {}
  <2>1. SettledCalls!Drop(D)
    BY <1>3, <1>4, <1>6 DEF SettledCalls!Drop
  <2>. QED
    BY <2>1
<1>. QED
  BY <1>5, <1>6

\* One call changes.
LEMMA OneCallStatus ==
    ASSUME Bridging, NEW k \in CallIds, NEW r \in Call, calls' = [calls EXCEPT ![k] = r]
    PROVE  callStatus' = [callStatus EXCEPT ![k] = statusOf(r)]
    BY DEF callStatus, Bridging, TypeOK

LEMMA ClientCallOpens ==
    ASSUME Bridging, NEW c \in Clients, NEW k \in CallIds, ClientCall(c, k)
    PROVE  SettledCalls!Open(k)
<1> DEFINE r == [client |-> c, nodeSocket |-> bridgedTo[c], pending |-> TRUE, timer |-> TRUE, acks |-> 0]
<1>1. calls' = [calls EXCEPT ![k] = r] /\ calls[k] = NoCall /\ r \in Call
  BY DEF ClientCall, Bridging, TypeOK, BridgesAlive, Call
<1>2. statusOf(r) = "open"
  BY <1>1, StatusOf
<1>3. callStatus[k] = "idle"
  BY <1>1, StatusOf DEF callStatus
<1> HIDE DEF r
<1>. QED
  BY <1>1, <1>2, <1>3, OneCallStatus DEF SettledCalls!Open

LEMMA AnsweredSettles ==
    ASSUME Bridging, NEW k \in CallIds, calls[k].pending, calls' = answered(k)
    PROVE  SettledCalls!Settle(k)
<1> DEFINE r == [calls[k] EXCEPT !.pending = FALSE, !.timer = FALSE, !.acks = 1]
<1>1. calls[k] \in Call /\ calls[k].acks = 0
  BY CallFields DEF Bridging, TypeOK, CallsTimed, callTimed
<1>2. calls' = [calls EXCEPT ![k] = r]
  <2>1. calls[k].acks + 1 = 1
    BY <1>1
  <2>2. calls' = [calls EXCEPT ![k] = [@ EXCEPT !.pending = FALSE, !.timer = FALSE,
                                                !.acks = calls[k].acks + 1]]
    BY <1>1 DEF answered, Bridging, TypeOK, Call
  <2>. QED
    BY <2>1, <2>2 DEF Bridging, TypeOK
<1>3. r \in Call /\ ~r.pending /\ r.acks = 1
  BY <1>1 DEF Call
<1>4. r # NoCall
  BY <1>3, ProxyAssumption DEF Call, NoCall
<1> HIDE DEF r
<1>5. statusOf(r) = "settled"
  BY <1>3, <1>4, StatusOf
<1>6. callStatus[k] = "open"
  BY <1>1, StatusOf DEF callStatus
<1>7. callStatus' = [callStatus EXCEPT ![k] = statusOf(r)]
  BY <1>2, <1>3, OneCallStatus
<1>. QED
  BY <1>5, <1>6, <1>7 DEF SettledCalls!Settle

LEMMA NextSettles == Bridging /\ [Next]_vars => [SettledCalls!Next]_callStatus
<1> SUFFICES ASSUME Bridging, [Next]_vars
             PROVE  SettledCalls!Next \/ callStatus' = callStatus
  OBVIOUS
<1>1. CASE UNCHANGED calls
  BY <1>1 DEF callStatus
<1>2. ASSUME NEW S \in SUBSET Clients, disconnectClients(sameTransport(S))
      PROVE  SettledCalls!Next \/ callStatus' = callStatus
  <2>1. sameTransport(S) \in SUBSET Clients
    BY DEF sameTransport
  <2>. QED
    BY <1>2, <2>1, DisconnectDrops DEF SettledCalls!Next
<1>3. ASSUME NEW ns \in NodeSockets, NodeDisconnect(ns)
      PROVE  SettledCalls!Next \/ callStatus' = callStatus
  <2>1. clientsOf(ns) \in SUBSET Clients
    BY ProxyAssumption DEF clientsOf, clientsOfCurrent, Bridging, TypeOK
  <2>. QED
    BY <1>2, <1>3, <2>1 DEF NodeDisconnect
<1>4. ASSUME NEW ns \in NodeSockets, NEW c \in Clients,
             NodeCloses(ns, c) \/ ClientRefused(c) \/ ClientDisconnect(c)
      PROVE  SettledCalls!Next \/ callStatus' = callStatus
  BY <1>2, <1>4 DEF NodeCloses, ClientRefused, ClientDisconnect
<1>5. ASSUME NEW v \in revocations, DisconnectNodeUser(v)
      PROVE  SettledCalls!Next \/ callStatus' = callStatus
  <2>1. {c \in clientsByNodeId[v.node] : UserOf[c] = v.user} \in SUBSET Clients
    BY DEF Bridging, TypeOK, Revocation
  <2>. QED
    BY <1>2, <1>5, <2>1 DEF DisconnectNodeUser
<1>6. ASSUME NEW c \in Clients, NEW k \in CallIds, ClientCall(c, k)
      PROVE  SettledCalls!Next
  BY <1>6, ClientCallOpens DEF SettledCalls!Next
<1>7. ASSUME NEW k \in CallIds, (\E ns \in NodeSockets : NodeReply(ns, k)) \/ CallTimeout(k)
      PROVE  SettledCalls!Next
  <2>1. calls' = answered(k) /\ calls[k].pending
    BY <1>7, AnsweredBridging DEF NodeReply, CallTimeout
  <2>. QED
    BY <2>1, AnsweredSettles DEF SettledCalls!Next
<1>8. ASSUME NEW c \in Clients, ClientRefused(c) \/ ClientDisconnect(c)
      PROVE  SettledCalls!Next \/ callStatus' = callStatus
  BY <1>2, <1>8 DEF ClientRefused, ClientDisconnect
<1>9. ASSUME NEW ns \in NodeSockets, NodeConnect(ns)
      PROVE  UNCHANGED calls
  BY <1>9 DEF NodeConnect
<1>10. ASSUME NEW c \in Clients, ClientAuth(c) \/ ClientConnect(c)
       PROVE  UNCHANGED calls
  BY <1>10 DEF ClientAuth, ClientConnect
<1>11. ASSUME NEW u \in Users, NEW n \in Nodes,
              GrantAccess(u, n) \/ \E phase \in {"reread", "due"} : RevokeAccess(u, n, phase)
       PROVE  UNCHANGED calls
  BY <1>11 DEF GrantAccess, RevokeAccess
<1>12. ASSUME NEW v \in revocations, RevokeStaleRead(v)
       PROVE  UNCHANGED calls
  BY <1>12 DEF RevokeStaleRead
<1>. QED
  BY <1>1, <1>3, <1>4, <1>5, <1>6, <1>7, <1>8, <1>9, <1>10, <1>11, <1>12 DEF Next, vars

\* NodeProxy implements the safety of SettleOnce: a call opens once, is settled or given
\* up at most once, and stays that way whatever its sockets do afterwards.
THEOREM CallsSettle == Spec => SettledCalls!Spec
<1>1. Init => SettledCalls!Init
  BY StatusOf DEF Init, SettledCalls!Init, callStatus
<1>. QED
  BY <1>1, InvariantBridging, NextSettles, PTL DEF Spec, SettledCalls!Spec

=============================================================================
