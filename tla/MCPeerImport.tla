---------------------------- MODULE MCPeerImport ----------------------------
(***************************************************************************)
(* Small instances of PeerImport for TLC.                                  *)
(***************************************************************************)
EXTENDS PeerImport, FiniteSets, TLC

MCManualIps == {3}

\* Files of at most two peers with different keys; 2 is the address the next
\* create would be given.
MCLegacies == {L \in SUBSET [key : Keys, ip : {2, 3}] :
                 Cardinality(L) <= 2 /\ \A e, f \in L : e.key = f.key => e = f}

MCSymmetry == Permutations(Ids) \cup Permutations(Keys)
=============================================================================
