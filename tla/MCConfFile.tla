----------------------------- MODULE MCConfFile -----------------------------
(* ConfFile on a small instance. *)
EXTENDS ConfFile, TLC

Symmetry == Permutations(Workers) \cup Permutations(Peers)
=============================================================================
