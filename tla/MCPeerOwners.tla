---------------------------- MODULE MCPeerOwners ----------------------------
(* Small instances of PeerOwners for TLC. *)
EXTENDS PeerOwners, TLC

\* The last address of the subnet, which is given by hand only.
MCManualIps == {Broadcast}

MCSymmetry == Permutations(Ids) \cup Permutations(Keys) \cup Permutations(Workers)
                \cup Permutations(Users)
=============================================================================
