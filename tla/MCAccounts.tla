----------------------------- MODULE MCAccounts -----------------------------
(* TLC instance of Accounts.                                                 *)
EXTENDS Accounts, TLC

\* Requests, sessions and tokens differ in nothing but their names.
Symmetry ==
  Permutations(Requests) \cup Permutations(Sessions) \cup Permutations(Tokens)

=============================================================================
