---------------------------- MODULE MCPeerSetup ----------------------------
(***************************************************************************)
(* Small instances of PeerSetup for TLC. The sets of ids and keys bound    *)
(* the peers ever created and the keys ever generated.                     *)
(***************************************************************************)
EXTENDS PeerSetup, TLC

\* Ids, keys, sessions and workers are only ever compared with each other.
MCSymmetry == Permutations(Ids) \cup Permutations(Keys)
                \cup Permutations(Sessions) \cup Permutations(Workers)
=============================================================================
