----------------------------- MODULE MCIpAlloc -----------------------------
(***************************************************************************)
(* IpAlloc with addresses of three bits: every subnet of 1 to 8 addresses, *)
(* given by its first address or by the server's, as an imported           *)
(* [Interface] section does.                                               *)
(***************************************************************************)
EXTENDS IpAlloc, TLC

R(a, l) == [addr |-> a, len |-> l]

MCSubnets == {n \in Range : n.addr - First(n) <= 1}

\* One address; a wide range, with host bits; two addresses; both.
MCImported == {{R(2, 3)}, {R(5, 1)}, {R(2, 3), R(3, 3)}, {R(6, 3), R(4, 2)}}

MCHostRanges == {R(3, 3), R(2, 2)}
MCManualIps  == {1, 4}

Symmetry == Permutations(Keys)
=============================================================================
