# Verification of virgo-fleet

virgo-fleet is a Node.js process between the browsers of its users and their nodes (home servers). It
signs users in, decides who may reach which node, relays browsers to nodes over Socket.IO or helps them
to a direct WebRTC channel, fetches pages from nodes, and looks after the nodes' names and certificates.

This directory models the part of it where steps of several actors meet: TLA+ modules, the TLC instances
that check them, and TLAPS proofs. Paths below are relative to `src/src/`.

    tlc -config WebrtcReconnect.cfg MCWebrtcSignal.tla     one of the runs listed below
    tlapm WebrtcSignalProofs.tla                           the proofs about one component

## The code, seen as a concurrent system

There is one thread. A handler of a socket event, a timer or an HTTP request runs without interruption
up to its next `await`, and everything else may run there. So **an action of a module is the code between
two awaits**; what a handler read before an await and uses after it is a variable. Events of
`utils/event_emitter.js` are synchronous calls and belong to the action that emits them. What the process
cannot see - a node, a browser, Socket.IO, PostgreSQL - is an external action, restricted to what the code
relies on.

Two facts of Socket.IO matter throughout, and are modelled where they bite:

- several sockets of one browser share a transport; `disconnect(true)` closes the transport, and the
  disconnect handlers of all its sockets run in the same step;
- a socket in its middlewares is not connected yet: `disconnect` ignores it, and it has no disconnect event.

### Inventory

| component | state | operations | what is hard | what makes it correct |
|---|---|---|---|---|
| WebRTC signalling, `utils/webrtc_signal.js` | sessions, three reverse indexes, pending resumes, signalling sockets, timers | requests, offers, answers, resumes from both ends, re-announcements, revokes, logouts | awaits inside requests and re-checks; node and browser coming back in any order; a restart that only the two ends remember | indexes agree with the sessions; no session outlives its user's access or login; nothing is left without a timer or an owner |
| Node proxy, `utils/node_proxy.js`, `utils/fleet_namespace.js` | bridged clients, per socket and per node; calls in flight | connect, event, acknowledged call, reply, close, revoke | a node on a new socket while its old one lingers; timeouts against late replies | a connected client has a live bridge; each call is answered once; a revoke leaves nobody bridged |
| Node assets, `utils/node_assets.js` | pending requests with three timers each | request, response, chunk, end, error, abort | awaited writes, messages lost with a connection, buffers at their cap | each promise settles once; what arrives is a beginning of what was sent; a failed chunk is not passed over, but for an end that overtakes it |
| Live sockets of sessions, `utils/session_sockets.js`, `utils/socket_auth.js` | sockets per session, remembered revocations | track, untrack, revoke, sweep | authentication awaits the session row; sockets that never connect | a deleted or expired session keeps no socket |
| Presence of nodes, `modules/node/index.js`, `modules/node/register.js` | socket, capabilities, updates, storage, UPS of each node | connect, register, report, disconnect, teardown | registration awaits; an old socket's disconnect after a new one's connect | whoever holds an entry of the registry sees it released when its socket goes; the code misses that for a socket that is filed late |
| Peering, `modules/node/index.js` | two inverse maps of machine ids, peer lists, and their rows | report, forget, restore | three copies of one relation | nodes are shown together exactly if they report one another |
| Notifications, `modules/node/index.js`, `services/push.js` | signatures on the node row, subscriptions | report, send | read, await, write | no news passes for told that nobody was told |
| Connectivity history, `services/data_service.js`, `utils/connectivity.js` | transitions | record, sweep, draw | two statements each | what is swept is never missed |
| Accounts, `services/data_service.js`, `controllers/auth.js`, `controllers/webauthn.js` | users, sessions, pending sign-ups, recovery codes, challenges | sign up, verify, sign in, second factor, change password | one-time things redeemed twice; a sign-in during a password change | a live session acts on its own account; a changed password ends the sessions there were; a deleted one is announced |
| Access, `services/data_service.js`, `modules/node/proxy.js`, `modules/group/*`, `modules/user/delete.js` | direct grants, groups, memberships, shares | invite, revoke, share, join, leave, delete | several rows changed one after another | nobody loses or keeps access by accident |
| Domains, `services/domain_service.js`, `modules/node/domain.js`, `modules/node/acme.js` | clusters, members, DNS records, challenges | claim, leave, sync, probe, present, clean up | two stores, one of them remote; count-then-write | names are not shared across owners; what a probe found is not taken back |
| Everything else: controllers, e-mail, schema, cryptography, wiring | - | - | - | not modelled, see below |

How they interact: a node's connection reaches the registry of `modules/node/index.js`, which the proxy,
the assets and the signalling read, and whose disconnect handler tears all three down, in that order of
code and in one step. A revoke (`node:revoke`, a group change, a group's deletion) changes rows, awaits, and
calls `revokeStaleNodeAccess`, which closes proxy clients and WebRTC sessions of a user on a node. A deleted
session row emits `sessions:revoked`, which closes WebRTC sessions and then the session's sockets.

`PROJECT.json` lists every component with its files, and the hazards with the lines where they bite.

## Modules

| module | models | proofs | instances |
|---|---|---|---|
| `WebrtcSignal` | WebRTC signalling, with the node registry and registration, access, logins and restarts as far as they reach it | `WebrtcSignalProofs` | `MCWebrtcSignal` |
| `NodeProxy` | Node proxy and the namespace middleware | `NodeProxyProofs` | `MCNodeProxy` |
| `NodeAssets` | Node assets | `NodeAssetsProofs` | `MCNodeAssets` |
| `SessionSockets` | Live sockets of sessions, with the session rows | `SessionSocketsProofs` | `MCSessionSockets` |
| `Accounts` | accounts, sign-in, second factors, passkeys, session rows | `AccountsProofs` | `MCAccounts` |
| `NodeAccess` | grants, groups, shares, deletions, and who is cut off | `NodeAccessProofs` | `MCNodeAccess` |
| `Domains` | clusters, their members, claims and departures | `DomainsProofs` | `MCDomains` |
| `NodePeering` | machine ids, peers, clusters of an inventory | `NodeReportsProofs` | `MCNodeReports` |
| `NodeNotices` | signatures, recipients, push subscriptions | `NodeReportsProofs` | `MCNodeReports` |
| `Connectivity` | transitions, the sweep, the segments | `NodeReportsProofs` | `MCNodeReports` |
| `Certificates` | ACME challenges and their weekly limit | `NodeReportsProofs` | `MCNodeReports` |
| `SettleOnce` | the abstract promise of a request to a node: opened once, settled once or given up, not open for ever | - | implemented by `NodeProxy` and `NodeAssets` |
| `SessionRows` | the abstract life of session rows: created once, lifted while they live, expired or deleted for good, announced only after that | - | implemented by `Accounts` and `SessionSockets` |

A definition named `...` with a comment that begins `Mutant:` stands before the definition it is a
plausible mistake of; it is used by no specification. With it in place of the original, the property named
for it in `PROJECT.json` is violated.

### WebrtcSignal

`sessions`, `sessionsByNodeId`, `sessionsByUserId`, `sessionsByClient`, `signalSocketsByNodeId` and
`pendingResumes` are the maps of the code under their names; `CLOSED` is the state of an id that is in no
map. `nodeSocketsByNodeId` is the registry. `nodeConn` and `clientConn` say how far a socket has come, each
value of `NodeSockets` and `Clients` being one connection; a reconnect is another value. `usedIds` are the
ids that `randomUUID` has returned: the two ends may still hold them after a restart, so announcements and
resumes name these.

`requests` holds handlers of `webrtc:session:request` between their awaits (`SessionRequest`,
`SessionRequestRead`, then one of `Granted`, `Dropped`, `Denied`, `Error`); `rechecks` the calls of
`recheckSessionAccess`; `revocations` an access change that is committed and whose teardown is still to come,
with its re-read of the access (`RevokeStaleRead`) or without. `registering` are nodes in `node:register`;
that a late `setNodeSocket` is fenced by nothing (`modules/node/register.js:69`) shows here only in what a
request waiting for the node finds. A timer is a Boolean of the session: a step that arms it sets it, and an
action that is enabled while it is set is its firing.

Left out, because they leave no trace in this state: relayed answers and candidates, messages to the ends,
rate limiting, the refusal of nodes without the capability. Left out although it is state: the deletion of
a node. Identical re-checks in flight are one element of a set; the second is the same read, and answers
the same or later.

### NodeProxy

`proxySessions`, `clientsByNodeId` and `calls` are `nodeSocket.data.proxySessions`, `clientsByNodeId` and
`nodeSocket.data.proxyCalls`; `bridgedTo` is the control socket that the closures of `bridgeClient` hold.
A client is bridged once, so it stands for its proxy session id. The middleware (`ClientAuth`) and the
connection handler (`ClientConnect`) are two actions, the awaits of the middleware lying between them. A
restart of the process is `Init` again. A node is filed with its connection: the late filing by
`node:register` is in `WebrtcSignal` and `NodeAssets`.

### NodeAssets

`pending` is `pendingHttpRequests` together with what became of the promise (`settles`); `writing` and
`failing` are chunks whose callback is awaited. The node is external: it sends a response, chunks numbered
from 0, at most `Window` of them unacknowledged, and an end at any time; over a new socket it goes on, and what
it had sent over the old one may be lost (`NodeLoses`). `proxyNodeHttp` refuses an offline node at once,
without a trace.

A node with a secret is filed when it connects, and any socket again by `node:register` (`NodeRegister`), after
several awaits and without a question whether it is still connected (`modules/node/register.js:45-70`). `filed`
says for each socket whether that came before or after it went. An entry filed late is released by
nobody: the disconnect handler of its socket has run, and that of the live socket it took the place of
finds that it is not the current one (`modules/node/index.js:349`). `PendingOnline` says that this is the only
way in which a request outlasts its node; the timers end it even so (`RequestsSettleOnce`).

`handleHttpEnd` asks neither whether every chunk came nor whether every callback has returned. What
`DeliveredWhole` does promise is that success means every chunk *handled* before the end, and a document within
its cap. Two things it does not: a document whose last chunks were lost with a socket resolves cut short, since
no gap shows; and an end that overtakes the awaited rejection of a chunk (the history `overtaken`) resolves
what there is.

### SessionSockets

`socketsBySessionId` and `revokedAtBySessionId` are the maps of the code; `expiresAtBySessionId` has the
same keys as the first and is not a variable. `row` is the session row, deleted by `DestroySessions`;
`due` holds deletions whose `sessions:revoked` is still to be emitted, and the history `announced` the sessions it
was emitted for: by the handler that deleted them, and by the sweep for those that have expired, whose rows may
still be there (`utils/session_sockets.js:63-71`). Two handlers may delete, and announce, the same row (`destroySessions` finds and then deletes). A socket reads its row
(`ReadSession`), is tracked (`Track`), passes the rest of its middlewares (`Admit` or `Deny`) and dies with
its transport (`CloseConn`). The five minutes for which a revocation is remembered are an assumption of the
model, `retained`: a read of a session row is answered within them. Without it a socket that waited longer
would be tracked for a session that is gone.

### Accounts

The tables keep their names, a row being `new`, `live` or `gone`; recovery codes that are not used up are part
of their user. `calls` are handlers, `next` the statement that follows the await they are in; `Signup`, `Login`,
`MfaVerify` and the like start one, and its further steps are the actions named after the functions of
`data_service.js`. The transactions of passkeys and of `deleteUser` are two steps each, with the row locks
that make others wait (`locked`, `disabling`) and the victim that PostgreSQL picks when two of them wait for each
other (`DeadlockVictim`). `announced` collects what `sessions:revoked` named; what happens then is
`SessionSockets` and `WebrtcSignal`. `SessionSockets` has its own, simpler rows in place of this module; that both
implement `SessionRows` (`RowsProtocol`, under the mapping `rowState`) is what ties them together; no handler
of `Accounts` announces because time is over. `condemned` is a history: the sessions there were when the password changed.

An expired sign-up is treated as absent, since every query passes over it. A failure of the database between two
statements of one handler is not modelled. What a user types is right or wrong, by choice. Three things the
code allows, and no property denies: a sign-in that compared the old password creates its session after the
password change; two requests with one recovery code, or one challenge, both pass; and
`SatisfiedEnrolled` speaks of the user, not of who holds the session.

That there is one account per address is the unique index alone, and part of the inductive invariant only.
What can go wrong is what a handler does with an address it holds over its awaits: the account it then finds may
be a follower of the one it began with. `ActsOnOwnAccount` says that this happens only once the session is gone;
then it does, and a password change, for one, goes on with the follower.

### NodeAccess

`grants`, `members` and `shares` are the tables `NodeAccess`, `UserGroup` and `GroupNodeAccess`. A node is one
*registration* of a `nodeId`: after a deletion the same device is another element of `Nodes`. Handlers read their
lists (`ListGroupMembers`, `ListGroupNodes`, `CollapseRead`, `UserDelete`), change the rows, and then walk the
pairs of `revokeStaleNodeAccess` (`EnforceRead`, `EnforceCut`), with an await between any two of these.
`bridged` stands for the live sessions of `NodeProxy` and `WebrtcSignal`: a session opens together with its
check, because the time between the two is the subject of those modules.

Two histories make the promise of a revoke exact. `due` is what a handler was called to examine; `missed` are
the pairs that lost their access by a change whose handler could not know of them: a member or a share added after
it read its lists, a direct grant that `collapseDirectAdminsIntoGroup` removes although the user has
left the group since, a group that goes with the account that created it, for which
`revokeStaleNodeAccess` is not called, and a node that is deleted. `LostAccessCutOff` holds for all others,
and `missed` is the list of the gaps.

The deletion of a node cuts its users off by the disconnection of its socket alone (`DisconnectNode`,
`UnregisterNodes`): bridged proxy clients are closed, but an established WebRTC session is kept for the grace
time of a node that may come back (`utils/webrtc_signal.js:465-476`), and nothing at all happens if the node is
offline. So any of the sessions may end in this step, and any may go on (`endsSome`); see Findings. An account that
is deleted is cut off from all nodes by the end of its login sessions (`ownSessionsEnd`).

Not modelled: a statement of `deleteNode` that fails, group names, and the refreshes of inventories as such.
`AffectedRefreshed` compares what each account is shown (the nodes it reaches, and the admins of those it owns)
with the list computed before the deletion of another account. Who is shown a *group* of the deleted user is not
in that comparison: the owner of a node that was shared with the group and who is not in the group is not
refreshed.

### Domains

`clusters` and `members` are the tables `Cluster` and `ClusterMember`; an unused row id is `None`. A claim is
`NodeDomainClaim`, `FindCluster`, `Available`, then leaving (`LeaveMembership`, `LeaveCount`, `LeaveDestroy`),
`ProbeAndSave`, `Join` and the records (`SyncRead`, `SyncRecords`); `then` says what a departure is part of.
`held` says whether the member row a handler read still exists, which it loses with the row. The targets are
`lan` and `public`; a probe answers either way.
The socket of a deleted node stays connected for some awaits, so that a claim may begin, or go on, for a node
that has no row; the cluster that it creates has no owner. `moved` is a history: nodes that were registered while
a claim of theirs was in flight. Such a node may have another owner by the time it joins, and is the exception in
`ClusterOfOwner`.

A records are abstracted to the target of the cluster; queries that only read are joined with the statement that
uses them; the clusters of an account that goes are released in one step (`ReleaseOwned`), where the code awaits one after
the other; the timer of a reprobe (`ScheduledReprobe`) may fire for any node at any time. What the code allows:

- a claim leaves the old cluster before it joins the new one, and a failure in between leaves the node without;
- `leaveCluster` counts the members that remain and then destroys the cluster: a node that joined in between
  loses its membership by the cascade;
- a claim by a member of a cluster that has vanished creates the cluster again and does not join it;
- a cluster whose owner is null is taken for ever;
- a node's A records may be stale or doubled, and the challenges of its old name stay when it takes another.

### NodePeering, NodeNotices, Connectivity and Certificates

Four small modules about what nodes report, which share no state. `MCNodeReports` composes them by choosing
one for each behaviour.

`NodePeering`: `machineIdByNodeId`, `nodeIdByMachineId` and `peersByNodeId` are the maps, `machineIds` and
`peerLists` the columns. The transactions (`SetPeeringClear`, `SetNodePeering`, `RemovePeerRead`,
`RemoveNodePeer`) overlap; `RestorePeering` is a restart, which reads the rows in any order.
`buildClusters` is the union of trees of the code, checked against `connected`. Waits for locks are abstracted. Two
rows may hold one machine id after two transactions that overlap; and a report between `forgetNodePeering` and
the disconnect brings the entries of a deleted node back. Neither breaks the properties.

`NodeNotices`: the signature is read, compared, written, and then the recipients are found and told. `told`
counts news as told when it was sent, or when the handler failed after it had written the row, since the code
then never retries; it only grows, so that news which went and came back is not asked for again. Two overlapping reports may push the same news twice, and a refused endpoint
is removed by its address even if a browser has just saved it anew. The flag `pushEnabled`, read by the browser only,
is left out.

`Connectivity`: `events` is the table, a set of rows with the ids `eventIds` counts, and `written` all that was
ever written, against which the segments are compared. Events of one instant are read in the order of insertion, and two recordings that overlap may leave
the last recorded state wrong until the next transition. Left out: the online that `node:register` shows without
recording it, and the time between the two queries that the segments are drawn from, which are one step.

`Certificates`: `acmeChallenges` are the rows, `recent` those of the last week. The limit counts rows that
exist, and a cleanup deletes them; it does not bound the certificates of a week. A TXT record left without a row
by a failure is not modelled, the DNS service being external.

## What the runs check

All runs check for deadlock unless noted. Each takes from a few seconds to three minutes with two workers.

| run | checks | shows |
|---|---|---|
| `webrtc_requests` | `TypeOK`, `SessionsMatchClients`, `LoginsEnforced`, `CapHeld` | two users, a node that registers, two requests each against a cap of one, reads that throw: no session beyond the cap, of a revoked login, or of another user |
| `webrtc_reconnect` | `IndexesExact`, `AccessEnforced`, `RequestsEnforced`, `ResumesHalfOpen` | two browsers of a user and two sockets of a node: all orders of resume, announcement, revoke and restart |
| `webrtc_liveness` | `ClientGoneReaped`, `RevokedUserCutOff` | a browser that is gone, and a user without access, lose their session in the end |
| `webrtc_stale_node` | `OrphanedByNodeTimed` **(violated)** | see Findings |
| `proxy` | `TypeOK`, `BridgesAlive`, `TeardownComplete`, `CallsSettleOnce` | a browser with pages of two nodes on one transport, a second browser, a node on a second socket, a call in flight |
| `proxy_revoked` | `BridgesEnforced` **(violated)** | see Findings |
| `assets` | `TypeOK`, `ChunksInOrder`, `PendingOnline`, `DeliveredWhole`, `RequestsSettleOnce` | a streamed asset and a document over the cap, two chunks each and both in flight at once, with losses, late registrations and browsers that leave: what counts as delivered, and which requests outlast their node |
| `sessions` | `SessionsCutOff`, `ExpiredCutOff`, `DeadUntracked`, `RowsProtocol` | three sockets on two transports of one session, revoked or expired at any step, deleted by handlers that overlap |
| `accounts` | `ActsOnOwnAccount`, `SatisfiedEnrolled`, `PasskeyFlagHonest`, `DeletedAnnounced`, `ChangedPasswordSignsOut`, `RowsProtocol` | two handlers at any of their awaits: a live session acts on its own account, no full session without a second factor, no deleted session unannounced or brought back, none that survives a password change |
| `access` | `TypeOK`, `OwnerKeepsGrant`, `LostAccessCutOff`, `AffectedRefreshed` | grants, groups, shares and deletions, two in flight: owners keep their nodes, who loses access other than by a node's deletion is cut off, who is affected is found |
| `domains` | `TypeOK`, `ClusterOfOwner`, `PublicStays` | two owners, nodes and names, two handlers in flight: names are not shared across owners, a public name stays public |
| `reports` | `ClustersCorrect`, `NewsTold`, `SegmentsCorrect`, `IssuanceBounded` | what nodes report: who is shown together, what passes for told, what a sweep may drop, what the weekly limit bounds |

`CallsSettleOnce` and `RequestsSettleOnce` are `SettleOnce!FairSpec` under the refinement mappings
`callStatus` and `requestStatus`: the refinement is checked with its liveness. `RowsProtocol` is `SessionRows!Spec`
under `rowState`, a safety property in both runs that check it. The type invariants of `SessionSockets`, `Accounts` and the
four modules of `reports` are in no run: each is part of an inductive invariant below.

**Bounds.** Sockets, ids and requests are used once, so their number bounds a behaviour; two of each are
enough for every pair of an old and a new one, of two concurrent handlers, or of two users to meet, and the
properties speak of at most two at a time. `MaxRevocations` and `MaxDue` bound the changes whose teardown is
still to come; with two, in the WebRTC runs, a change overtakes another. `MaxSessions` is 1, so that the
second request meets the cap. `Cap` is one chunk and the document has two; a document within the cap takes
the steps of a streamed asset, without the browser. The proxy has one call: a call reads and writes nothing
of another but through its client and socket, of which there are several. Signalling sockets that share
a transport are left to the proofs, which hold for any `ConnOf`. None of these numbers limits a theorem.

In `accounts`, `access` and `domains`, two handlers are in flight at once, each of any kind and at any
statement; that is every pair the properties are about. Row ids are used once in the first two, so that two
users, two sessions or one node bound a behaviour: in `accounts` the second user is the account that takes the
address of the first, and there are two challenges, to enrol a passkey and then sign in with it. In `domains` ids are free again once nobody holds them, and behaviours have no
end but for accounts: `MaxDeleted` bounds how many of them go, so that an owner is left to go on with.
In `reports`, `MaxReports` is three reports and removals of two machine ids among three nodes, enough for an id
to move twice; `MaxPeers` is one peer per report, which makes chains of three. `MaxTime` and `MaxEvents` are an end
of time beyond twice the `Retention`, with `Window` as long as that, and three transitions: one before,
one at, and one inside the window. `IssuanceLimit` is 1, for two presents at once to meet it.

Symmetry is used in `webrtc_requests`, `accounts`, `access`, `domains` and `reports`, over ids that no constant
and no definition tells apart; none of them checks liveness (`PublicStays` is a property of single steps).
Machine ids and nodes of `reports` are symmetric because `buildClusters` gives its trees only as the sets they are;
the four parts use the same model values, since a behaviour is of one part, and one set of permutations serves all.

**Deadlock.** The runs `assets`, `accounts`, `access`, `domains` and `reports` say `CHECK_DEADLOCK FALSE`:
they come to states where every id, or the bound on reports, deletions or time, is used up and no handler is in
flight, and nothing is left to happen in the instance.

**Fairness.** `WebrtcSignal`: an armed timer fires unless it is cancelled, and the continuation after a
database read runs; nothing is assumed of browsers, nodes or users. `NodeProxy`: the timeout of a call
fires. `NodeAssets`: the maximum timer of a request fires. `SessionSockets`: the sweep's interval fires, a
deletion's handler resumes, and a transport that is being closed closes. All are timers and continuations of
the event loop, and each is weak fairness of an action that stays enabled until it or its cancellation
happens. `SettleOnce` asks that an open request does not stay open; the refinement shows it from the timers
alone.

## Findings

- **An established session of a node that reconnects and drops again may have no grace timer**
  (`webrtc_stale_node`). The comment at `utils/webrtc_signal.js:462-464` says that the session is kept for
  a grace period in which the node is expected to reconnect. When a node opens socket B, loses A and then loses
  B before it announces its sessions, the loop at line 468 passes the session by, since it is bound to A;
  the disconnect of A armed nothing, since B was online. It stays until the browser leaves or a later
  announcement takes it up.
- **A revoke can fall between the access check and the bridge** (`proxy_revoked`). The comment at
  `utils/node_proxy.js:172-175` says what the teardown prevents; a client whose access was read before the
  deletion and which connects after the teardown is bridged until it disconnects. `TeardownComplete` is what
  does hold: whoever was bridged when the teardown ran is disconnected by it.

Three more disagreements came up, which the models allow and no run is spent on:

- **The deletion of a node does not tear its WebRTC sessions down.** The comment at `utils/webrtc_signal.js:487-489`
  lists "node delete" among the revokes that do; `deleteNode` never calls that function, and what it does call,
  `disconnectNode`, keeps established sessions for the grace time (`missed` in `NodeAccess`).
- **Requests to a node whose socket drops are not always released immediately**, as the comment at
  `utils/node_assets.js:53-57` has it: a socket filed after it went is not the current one's, and when that one
  drops nobody fails its requests (the exception in `PendingOnline`).
- **Turning passkeys off may leave one behind.** The comment at `services/data_service.js:554-555` says that every
  credential goes; an enrolment that commits between the deletion and the commit leaves its credential, with
  the flag off (`PasskeyFlagHonest` says the other direction).

## What is proved

For every value of the constants under the assumptions named in the modules (functions from sockets to nodes,
users and logins; sockets of one transport carry one cookie; the peering nodes and the calls of `Certificates` are finitely many; `None` is nothing else, not even a cluster in `Domains` or a
state of a session in `Accounts`; `randomUUID` returns one of finitely many ids):

| theorem | establishes |
|---|---|
| `WebrtcSignalProofs!TypeCorrect` | `TypeOK` |
| `WebrtcSignalProofs!IndexesCorrect`, `SessionsMatch` | `IndexesExact` and `SignalSocketsExact`; `SessionsMatchClients` |
| `WebrtcSignalProofs!ResumesCorrect` | `ResumesHalfOpen` |
| `WebrtcSignalProofs!AccessIsEnforced`, `RequestsAreEnforced` | `AccessEnforced`; `RequestsEnforced`; both when no read throws |
| `WebrtcSignalProofs!LoginsAreEnforced`, `CapIsHeld` | `LoginsEnforced`, and the action property `CapHeld` |
| `NodeProxyProofs!ProxyTypeCorrect`, `BridgesCorrect` | `TypeOK`; `BridgesAlive`, `BridgesIndexed`, `CallsTimed` |
| `NodeProxyProofs!TeardownLeavesNone` | the action property `TeardownComplete` |
| `NodeProxyProofs!CallsSettle` | `Spec` implements `SettleOnce!Spec` |
| `NodeAssetsProofs!AssetsTypeCorrect`, `TimersCorrect`, `PendingAreOnline`, `ChunksCorrect` | `TypeOK`, `TimersMatch`, `PendingOnline`, `ChunksInOrder` |
| `NodeAssetsProofs!SuccessIsWhole` | `DeliveredWhole` |
| `NodeAssetsProofs!RequestsSettle` | `Spec` implements `SettleOnce!Spec` |
| `SessionSocketsProofs!SessionsTypeCorrect`, `LiveSocketsTracked`, `SessionsAreCutOff` | `TypeOK`, `LiveTracked`, `SessionsCutOff` |
| `SessionSocketsProofs!RowsKeepProtocol`, `AccountsProofs!SessionsKeepProtocol` | `RowsProtocol`: `Spec` implements `SessionRows!Spec` |
| `AccountsProofs!AccountsTypeCorrect`, `ActsOnOwn`, `SatisfiedAreEnrolled` | `TypeOK`, `ActsOnOwnAccount`, `SatisfiedEnrolled` |
| `AccountsProofs!DeletionsAreAnnounced`, `ChangesSignOut`, `FlagsAreHonest` | `DeletedAnnounced`, `ChangedPasswordSignsOut`, `PasskeyFlagHonest` |
| `NodeAccessProofs!AccessTypeCorrect`, `OwnersKeepGrants`, `LostAccessIsCutOff`, `AffectedAreFound` | `TypeOK`, `OwnerKeepsGrant`, `LostAccessCutOff`, `AffectedRefreshed` |
| `DomainsProofs!DomainsTypeCorrect`, `ClustersStayOwned`, `PublicIsKept` | `TypeOK`, `ClusterOfOwner`, and the action property `PublicStays` |
| `NodeReportsProofs!PeeringTypeCorrect`, `MachinesAreKnown`, `LinksAreReported` | types; `MachinesKnown`; the links of an inventory are reported ones |
| `NodeReportsProofs!ClustersAreCorrect` | `ClustersCorrect`: `buildClusters` puts together exactly what is connected |
| `NodeReportsProofs!NoticesTypeCorrect`, `NewsIsTold` | types; `NewsTold` |
| `NodeReportsProofs!RowsAreKept`, `SegmentsAreCorrect` | the invariant `Recorded`, with the types; `SegmentsCorrect` |
| `NodeReportsProofs!CertificatesTypeCorrect`, `IssuanceIsBounded` | types; `IssuanceBounded` |

Each rests on one inductive invariant, proved by a lemma per operation:

- `Bookkeeping` (WebrtcSignal). The handlers update the record of every id they find in an index, so types
  follow only together with `IndexesExact`; a new id must collide with nothing live or pending, hence
  `IdsUsed`. `Guarded` adds what requests in flight have read: `AccessEnforced` alone is not inductive,
  because an allowed request may open a session after the access is gone - unless a teardown is still to
  come, or its socket is down (`RequestsEnforced`), which a socket never comes back from
  (`RequestsConnected`). The condition on reads that throw is needed: a re-check that throws leaves the
  session as it is. `LoggedIn` adds that no socket of a revoked login is connected; a session keeps its client
  or goes to one that is connected (`SessionsPassedOn`), by a resume or below the cap, which gives both
  `LoginsEnforced` and `CapHeld`.
- `Bridging` (NodeProxy). A client is connected exactly while it is in both indexes, and its bridge's socket
  belongs to its node (`RegistryExact`); with that, a teardown by socket, by node or by user finds all and
  only the clients it is for.
- `Tracking` (NodeAssets). `nextExpectedSeq` is the number of chunks taken, except for a document that was
  just rejected (`ChunksAligned`); with that, accepting only the expected chunk keeps the prefix. `Delivering`
  adds that an acknowledgement is of a chunk that was written, and that what was handled and not taken is a rejection
  still awaited or was overtaken by the end (`accounted`).
- `CutOff` (SessionSockets). `SessionsCutOff` speaks of connected sockets only. Inductive is: authenticated
  sockets with an open transport are tracked (`AuthenticatedTracked`), a session with tracked sockets has not been
  cut off (`TrackedHold`), and the revocation of a session that a socket has read, but not yet tracked, is
  remembered (`FoundRemembered`). What is due is gone, and what was announced
  is gone or has expired (`RowsEnded`), which the refinement needs.
- `Enrolling` (Accounts). A session is lifted several awaits after the check, so a handler has to carry it: what it
  read of its user and its session stays true while they live, since no row is used twice and no second factor
  is taken back (`CallsTrusted`, `RowsKept`). That a session's account is the one found by its address
  (`ActsOnOwn`) needs the unique index, which is part of `RowsKnown`, and the cascade that takes a session
  with its account. `SignedOut` adds that a deletion has read every session of its user,
  because a session is created under a lock it holds; `DevicesHeld` that an enrolment has its authenticator to
  itself between its two statements, and that only one call at a time deletes the credentials of a user. `IdsEnded`,
  for the refinement: the ids a handler holds are not those of sessions to come, and are gone when it comes to
  announce them.
- `Granting` (NodeAccess). `LostAccessCutOff` asks for a handler that is going to cut the pair off; that it
  will find the pair depends on what it holds. So a handler in flight holds what its next steps need
  (`Shaped`), everything it is `due` to examine is still among its lists or has been read as accessible
  (`DueCovered`), and none is about to take the owner's grant (`OwnerSpared`, `Owned`). `AffectedAreFound`
  needs the types only: it is a statement about the rows of one state.
- `Claiming` (Domains). The comparison of owners in `Available` is several awaits old when `Join` runs. What a
  handler has found stays true as long as the rows last (`SeenKnown`, `IntoNamed`, `IntoOwned`), unless its node
  has no row or was registered under the claim; ids are reused, and a cluster a handler holds
  is not. `PublicIsKept` follows step by step: a save writes what differs from what was read, and nothing
  reads `public` and computes `lan`.
- `Known` (NodePeering). `MachinesKnown` with the types is inductive: each of a report, a forgetting and a
  restore takes the old entry out before or as it puts the new one in. `ClustersCorrect` is then a statement about one
  state. Its half "what is connected is together" holds because no link leads out of the union of trees that the
  fold over the links ends with; the other half because each union joins two trees with a link between them.
- `Heard` (NodeNotices). That the row's signature is heard of is not enough: a handler compares with the signature it
  read, which an overlapping one may have replaced, so that one has to be heard of too.
- `Recorded` (Connectivity). Ids follow time (`Ordered`), so the row of the greatest id up to an instant tells the
  state at it, and `Kept` says that this row is in the table for each instant of the retention. A sweep removes by what
  it found some awaits earlier: `Seeded` says that its seed still tells the state at its cutoff, since a row written
  meanwhile is later than the cutoff. From `Kept` the walk over the events in the window gives each of
  its segments the state that the full history has, and collapsing keeps that, instant by instant.
- `Bounded` (Certificates). `IssuanceBounded` counts rows; inductive is the sum of the rows of the week and the handlers
  that have found room and not written yet.

The four refinement theorems map each record to the status of `SettleOnce`, or each row to that of `SessionRows`, and show
for each action which abstract step it is.

The library's induction theorems take an operator as a parameter, which the provers cannot instantiate. Where a
statement is about a fold over a finite set or a sequence (`buildClusters`, `walked`, `collapsed`), the proof
takes the least number of steps for which it fails (`LeastNumber`) and shows that there is none. No module with a proof has a
`RECURSIVE` operator.

**Only model-checked:** the liveness properties (`ClientGoneReaped`, `RevokedUserCutOff`, `ExpiredCutOff`,
`DeadUntracked`, and the fairness half of `CallsSettleOnce` and `RequestsSettleOnce`), since fairness rests on
`ENABLED`, which the prover does not treat. Every safety property that a passing run checks is a theorem.

## Not modelled

- HTTP controllers, e-mail, migrations, cryptography and encodings, the clients of Cloudflare and Web Push,
  start-up and configuration: calls of libraries without a state of their own in which steps could meet.
- The caches of what a node reports (`capabilities`, updates, storage, UPS) and the broadcasts of inventories: they
  are written and cleared synchronously and shown; the registry of sockets among them is modelled. Plugins load
  in a `setImmediate`, and a socket that connects before gets no handlers.
- The late `setNodeSocket` of a registration, except in `WebrtcSignal` and `NodeAssets`: in the other modules a
  socket is filed with its connection.
- The limit of events per socket (`utils/socket_rate_limit.js`): a fixed window counted in one synchronous
  function; the HTTP limiter is a library.
- A records at the DNS service and their ids, which a claim and a departure write one by one.
- The failure of a single statement in the middle of a handler, except in `NodeNotices`, `WebrtcSignal` and the
  restarts of `Domains`, which stop a handler anywhere. Nothing is assumed of fairness elsewhere, so a handler of
  `Accounts` or `NodeAccess` may also stay for ever where it is; the two properties of either that name
  a handler in flight say nothing of the time after a crash.

## Plan

What would come next:

1. `NodeRegistry`: `node:register` with its late `setNodeSocket` as one module that `NodeProxy`, `NodeAssets` and
   `WebrtcSignal` share, the caches of a node, and the deletion of a node in `WebrtcSignal`.
2. The A records of `Domains`, as a second store that the rows are checked against.
3. An abstract specification of revocations between `NodeAccess` and the two modules that cut sessions off,
   `NodeProxy` and `WebrtcSignal`, as `SessionRows` is between `Accounts` and `SessionSockets`.
