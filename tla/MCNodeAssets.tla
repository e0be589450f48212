---------------------------- MODULE MCNodeAssets ----------------------------
(***************************************************************************)
(* A small instance of NodeAssets: a streamed asset r1 and a document r2,  *)
(* of two chunks each.                                                     *)
(***************************************************************************)
EXTENDS NodeAssets

CONSTANTS n1, r1, r2

OneNodeOf   == [ns \in NodeSockets |-> n1]
OneTargetOf == [r \in Requests |-> n1]

Documents == {r2} \cap Requests
TwoChunks == [r \in Requests |-> 2]
=============================================================================
