----------------------------- MODULE MCAccounts -----------------------------
(* Module Accounts with interchangeable requests and first administrators.  *)
EXTENDS Accounts, TLC

Symmetry == Permutations(Requests) \cup Permutations(FirstAdmins)
=============================================================================
