----------------------------- MODULE MCDomains -----------------------------
(***************************************************************************)
(* A small instance of Domains: two handlers in flight for two nodes.      *)
(***************************************************************************)
EXTENDS Domains, TLC

RowSymmetry ==
    Permutations(Users) \cup Permutations(Nodes) \cup Permutations(Names)
        \cup Permutations(Clusters) \cup Permutations(Calls)
=============================================================================
