----------------------------- MODULE MCAccounts -----------------------------
(* Accounts on a small instance: two workers, two addresses. *)
EXTENDS Accounts, TLC

Symmetry == Permutations(Workers) \cup Permutations(UserIds) \cup Permutations(InviteIds)
=============================================================================
