----------------------------- MODULE MCAccounts -----------------------------
(* Instances of Accounts for TLC. *)
EXTENDS Accounts, TLC

Symmetry == Permutations(Names) \union Permutations(Nicks) \union Permutations(Workers)
=============================================================================
