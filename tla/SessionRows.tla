----------------------------- MODULE SessionRows -----------------------------
(***************************************************************************)
(* What the accounts promise the sockets of a session, and the sockets     *)
(* rely on: a row is created once and never comes back, only a session     *)
(* that lives is lifted by a second factor, and sessions:revoked names a   *)
(* session only when its row is deleted or its time is over, be it more    *)
(* than once.  Accounts and SessionSockets implement it.                   *)
(***************************************************************************)
CONSTANT Ids

VARIABLES
    row,
    expired,                \* the sessions whose time is over
    announced               \* the sessions that a sessions:revoked named

Init ==
    /\ row = [s \in Ids |-> "new"]
    /\ expired = {}
    /\ announced = {}

Create(s, state) ==
    /\ row[s] = "new"
    /\ row' = [row EXCEPT ![s] = state]
    /\ UNCHANGED <<expired, announced>>

Lift(s) ==
    /\ row[s] = "gated"
    /\ row' = [row EXCEPT ![s] = "satisfied"]
    /\ UNCHANGED <<expired, announced>>

\* Handlers that overlap may delete a row twice.
Destroy(S) ==
    /\ \A s \in S : row[s] # "new"
    /\ row' = [s \in Ids |-> IF s \in S THEN "gone" ELSE row[s]]
    /\ UNCHANGED <<expired, announced>>

Expire(s) ==
    /\ row[s] # "new"
    /\ expired' = expired \cup {s}
    /\ UNCHANGED <<row, announced>>

Announce(S) ==
    /\ \A s \in S : row[s] = "gone" \/ s \in expired
    /\ announced' = announced \cup S
    /\ UNCHANGED <<row, expired>>

Next ==
    \/ \E S \in SUBSET Ids : Announce(S) \/ Destroy(S)
    \/ \E s \in Ids, state \in {"gated", "satisfied"} : Create(s, state)
    \/ \E s \in Ids : Lift(s) \/ Expire(s)

Spec == Init /\ [][Next]_<<row, expired, announced>>

=============================================================================
