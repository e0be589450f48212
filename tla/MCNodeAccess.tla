---------------------------- MODULE MCNodeAccess ----------------------------
(***************************************************************************)
(* A small instance of NodeAccess: one node, a group to reach it by,       *)
(* an owner and another user, two handlers in flight.                      *)
(***************************************************************************)
EXTENDS NodeAccess, TLC

RowSymmetry == Permutations(Users) \cup Permutations(Groups) \cup Permutations(Calls)
=============================================================================
