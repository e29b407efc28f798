----------------------------- MODULE MCAccounts -----------------------------
(* Instances of Accounts for TLC. *)
EXTENDS Accounts, TLC

Symmetric == Permutations(Users) \cup Permutations(Emails)
             \cup Permutations(CodeIds) \cup Permutations(Requests)

=============================================================================
