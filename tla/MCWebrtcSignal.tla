--------------------------- MODULE MCWebrtcSignal ---------------------------
(***************************************************************************)
(* Small instances of WebrtcSignal.                                        *)
(*   Home*: every socket belongs to node n1 and user u1, c1 and c2 being   *)
(*          signed in by different fleet sessions (two browsers).          *)
(*   Away*: c2 is another user's browser on the same node.                 *)
(***************************************************************************)
EXTENDS WebrtcSignal, TLC

CONSTANTS n1, u1, u2, l1, l2, ns1, ns2, c1, c2

HomeNodeOf   == [ns \in NodeSockets |-> n1]
HomeTargetOf == [c \in Clients |-> n1]
HomeUserOf   == [c \in Clients |-> u1]
HomeLoginOf  == [c \in Clients |-> IF c = c1 THEN l1 ELSE l2]
OwnConn      == [c \in Clients |-> c]

AwayUserOf   == [c \in Clients |-> IF c = c1 THEN u1 ELSE u2]

IdSymmetry == Permutations(SessionIds) \cup Permutations(Slots)
=============================================================================
