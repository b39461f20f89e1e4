----------------------------- MODULE MCConfText -----------------------------
(***************************************************************************)
(* All texts of a few lines, and small tables to rebuild them from.        *)
(***************************************************************************)
EXTENDS ConfText

CONSTANTS n1, n2, n3, k1, k2, a1

MCRow1 == Peer(k1, a1, n1)
MCRow2 == Peer(k2, a1, n2)
MCRow3 == Peer(k2, a1, n3)
MCTables == {<<>>, <<MCRow1>>, <<MCRow2, MCRow1>>, <<MCRow3>>}

\* n3 is a name like "[Phone]".
MCNameLines == [n \in {n1, n2, n3} |->
                  IF n = n3 THEN <<CommentedHeader>> ELSE <<Comment(n)>>]
=============================================================================
