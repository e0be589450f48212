---------------------------- MODULE Connectivity ----------------------------
(***************************************************************************)
(* The connectivity of one node: transitions recorded as its socket comes  *)
(* and goes, events older than the retention pruned                        *)
(* (services/data_service.js), and the segments drawn of what is left      *)
(* (utils/connectivity.js).  Two recordings may overlap; a restart loses   *)
(* the socket without a record.  The table is a set of rows; those of one  *)
(* instant are read in the order in which they were written.               *)
(***************************************************************************)
EXTENDS Integers, Sequences, FiniteSetsExt, SequencesExt

CONSTANTS
    Window,                 \* CONNECTIVITY_WINDOW_MS of modules/node/proxy.js
    Retention,              \* CONNECTIVITY_RETENTION_MS
    Recordings,             \* recordings in flight
    MaxTime,                \* bound: the end of time
    MaxEvents               \* bound: events written before another transition

ASSUME ConnectivityAssumption == Window \in Nat \ {0} /\ Retention \in Nat /\ Window <= Retention

VARIABLES
    clock,
    isOnline,               \* whether the node has a socket
    events,                 \* the table of NodeConnectivityEvent
    eventIds,               \* the last id it has given
    written,                \* history: all rows that were ever in it
    recordings,
    pruning                 \* what a sweep holds: its cutoff and the id it keeps

connectivityVars == <<clock, isOnline, events, eventIds, written, recordings, pruning>>

NoRecording == [step |-> "idle", online |-> FALSE]
NoPruning == [cutoff |-> 0, keeps |-> 0]

ConnectivityInit ==
    /\ clock = Window /\ isOnline = FALSE
    /\ events = {} /\ written = {} /\ eventIds = 0
    /\ recordings = [r \in Recordings |-> NoRecording]
    /\ pruning = NoPruning

\* The newest of some rows, as ORDER BY createdAt has them.
isAfter(e, f) == e.at > f.at \/ (e.at = f.at /\ e.id > f.id)
newest(rows) == CHOOSE e \in rows : \A f \in rows \ {e} : isAfter(e, f)

\* handleNodePresence: the socket comes or goes, and the transition is recorded.
NodePresence(r) ==
    /\ recordings[r].step = "idle" /\ eventIds < MaxEvents
    /\ isOnline' = ~isOnline
    /\ recordings' = [recordings EXCEPT ![r] = [step |-> "find", online |-> ~isOnline]]
    /\ UNCHANGED <<clock, events, eventIds, written, pruning>>

\* Only what differs from the last event is written.
FindLastEvent(r) ==
    /\ recordings[r].step = "find"
    /\ recordings' =
        [recordings EXCEPT ![r] =
            IF events # {} /\ newest(events).online = recordings[r].online
            THEN NoRecording ELSE [@ EXCEPT !.step = "create"]]
    /\ UNCHANGED <<clock, isOnline, events, eventIds, written, pruning>>

RecordConnectivityEvent(r) ==
    LET event == [online |-> recordings[r].online, at |-> clock, id |-> eventIds + 1]
    IN  /\ recordings[r].step = "create"
        /\ events' = events \cup {event} /\ written' = written \cup {event}
        /\ eventIds' = eventIds + 1
        /\ recordings' = [recordings EXCEPT ![r] = NoRecording]
        /\ UNCHANGED <<clock, isOnline, pruning>>

\* pruneConnectivityEvents finds the seed, of the greatest id at or before the cutoff ...
FindSeed ==
    LET cutoff == clock - Retention
        old == {e \in events : e.at <= cutoff}
    IN  /\ pruning = NoPruning /\ old # {}
        /\ pruning' = [cutoff |-> cutoff, keeps |-> Max({e.id : e \in old})]
        /\ UNCHANGED <<clock, isOnline, events, eventIds, written, recordings>>

\* Mutant: the seed goes too.
survivesYoung(e) == e.at > pruning.cutoff

survives(e) == e.at > pruning.cutoff \/ e.id = pruning.keeps

\* ... and removes what it supersedes.
PruneConnectivityEvents ==
    /\ pruning # NoPruning
    /\ events' = {e \in events : survives(e)}
    /\ pruning' = NoPruning
    /\ UNCHANGED <<clock, isOnline, eventIds, written, recordings>>

ConnectivityRestart ==
    /\ isOnline' = FALSE
    /\ recordings' = [r \in Recordings |-> NoRecording] /\ pruning' = NoPruning
    /\ UNCHANGED <<clock, events, eventIds, written>>

Tick ==
    /\ clock < MaxTime
    /\ clock' = clock + 1
    /\ UNCHANGED <<isOnline, events, eventIds, written, recordings, pruning>>

ConnectivityNext ==
    \/ FindSeed \/ PruneConnectivityEvents \/ ConnectivityRestart \/ Tick
    \/ \E r \in Recordings : NodePresence(r) \/ FindLastEvent(r) \/ RecordConnectivityEvent(r)

ConnectivitySpec == ConnectivityInit /\ [][ConnectivityNext]_connectivityVars

-----------------------------------------------------------------------------
(* The segments of the window that ends now.                                *)

States == {"online", "offline", "unknown"}
stateOf(online) == IF online THEN "online" ELSE "offline"
windowStart == clock - Window
inWindow(rows) == {e \in rows : e.at > windowStart /\ e.at <= clock}
upTo(t, rows) == {e \in rows : e.at <= t}

segment(state, from, to) == [online |-> state, startMs |-> from, endMs |-> to]

\* The state that the newest of some rows leaves the node in.
stateAfter(rows) == IF rows = {} THEN "unknown" ELSE stateOf(newest(rows).online)

\* One event: it closes the segment that is open, if that has any length.
closesAt(e, acc) ==
    [segments |-> IF e.at > acc.cursor
                  THEN Append(acc.segments, segment(acc.state, acc.cursor, e.at)) ELSE acc.segments,
     cursor |-> e.at, state |-> stateOf(e.online)]

collapsed(merged, s) ==
    IF merged # <<>> /\ Last(merged).online = s.online
    THEN [merged EXCEPT ![Len(merged)].endMs = s.endMs] ELSE Append(merged, s)

walked ==
    MapThenFoldSet(closesAt,
                   [segments |-> <<>>, cursor |-> windowStart,
                    state |-> stateAfter(upTo(windowStart, events))],
                   LAMBDA e : e, newest, inWindow(events))

\* Without a transition in the window the live presence is the state.
segmentsOfEvents ==
    LET state == IF inWindow(events) = {} THEN stateOf(isOnline) ELSE walked.state
    IN  IF walked.cursor < clock
        THEN Append(walked.segments, segment(state, walked.cursor, clock))
        ELSE walked.segments

buildConnectivitySegments ==
    IF events = {} THEN <<segment("unknown", windowStart, clock)>>
    ELSE FoldLeft(collapsed, <<>>, segmentsOfEvents)

\* The state at an instant of the window, by all that was ever written.
stateAt(t) ==
    IF written # {} /\ inWindow(written) = {} THEN stateOf(isOnline)
    ELSE stateAfter(upTo(t, written))

\* The segments cover the window without gap or overlap, two neighbours differ, and each instant
\* has the state that the full history gives it: what is pruned is never missed.
\* utils/connectivity.js:5-18, the comment on pruneConnectivityEvents.
SegmentsCorrect ==
    LET segments == buildConnectivitySegments
    IN  /\ segments # <<>>
        /\ segments[1].startMs = windowStart /\ Last(segments).endMs = clock
        /\ \A i \in 1..(Len(segments) - 1) :
            /\ segments[i].endMs = segments[i + 1].startMs
            /\ segments[i].online # segments[i + 1].online
        /\ \A i \in 1..Len(segments) :
            /\ segments[i].startMs < segments[i].endMs
            /\ \A t \in segments[i].startMs..(segments[i].endMs - 1) :
                segments[i].online = stateAt(t)
=============================================================================
