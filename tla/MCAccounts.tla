----------------------------- MODULE MCAccounts -----------------------------
(***************************************************************************)
(* A small instance of Accounts: one address, an account and the one that  *)
(* follows it, and two handlers in flight.                                 *)
(***************************************************************************)
EXTENDS Accounts, TLC

RowSymmetry ==
    Permutations(Calls) \cup Permutations(Sessions) \cup Permutations(Users) \cup Permutations(Links)
        \cup Permutations(Challenges)
=============================================================================
