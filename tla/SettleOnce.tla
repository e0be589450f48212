----------------------------- MODULE SettleOnce -----------------------------
(***************************************************************************)
(* What virgo-fleet promises of every request it sends to a node and waits *)
(* for: it is settled once, by an answer or by a timeout, or given up when *)
(* nobody waits for it any more, and it does not stay open for ever.       *)
(* NodeProxy (calls) and NodeAssets (HTTP requests) implement it.          *)
(***************************************************************************)
CONSTANT Ids

VARIABLE status

Init == status = [i \in Ids |-> "idle"]

Open(i) ==
    /\ status[i] = "idle"
    /\ status' = [status EXCEPT ![i] = "open"]

Settle(i) ==
    /\ status[i] = "open"
    /\ status' = [status EXCEPT ![i] = "settled"]

\* Given up: several at once when a socket takes them along.
Drop(S) ==
    /\ S # {}
    /\ \A i \in S : status[i] = "open"
    /\ status' = [i \in Ids |-> IF i \in S THEN "dropped" ELSE status[i]]

\* Settled together, when the node they all wait for is lost.
SettleAll(S) ==
    /\ S # {}
    /\ \A i \in S : status[i] = "open"
    /\ status' = [i \in Ids |-> IF i \in S THEN "settled" ELSE status[i]]

Next ==
    \/ \E i \in Ids : Open(i) \/ Settle(i)
    \/ \E S \in SUBSET Ids : Drop(S) \/ SettleAll(S)

Closing(i) == status[i] = "open" /\ Next /\ status'[i] # "open"

Spec == Init /\ [][Next]_status

FairSpec == Spec /\ \A i \in Ids : WF_status(Closing(i))

=============================================================================
