-------------------------- MODULE MCPeerLifecycle --------------------------
(***************************************************************************)
(* Small instances of PeerLifecycle for TLC. The sets of ids and keys      *)
(* bound the peers ever created and the keys ever generated.               *)
(***************************************************************************)
EXTENDS PeerLifecycle, TLC

\* The free addresses of the subnet 0..3 are 2 (automatic) and 3 (by hand
\* only); 4 lies outside. In 0..4, addresses 2 and 3 are automatic.
MCManualIps == {3, 4}

\* Ids, keys and workers are only ever compared with each other.
MCSymmetry == Permutations(Ids) \cup Permutations(Keys) \cup Permutations(Workers)
=============================================================================
