---------------------------- MODULE PeerRegistry ----------------------------
(***************************************************************************)
(* What the PeerConfig table promises, whatever the requests do to it: a   *)
(* peer gets its id, its first key and its address together, keeps the     *)
(* address until it is deleted, and neither the id of a deleted peer nor a *)
(* key that was once replaced or deleted is ever stored again.             *)
(*                                                                         *)
(* PeerLifecycle, where the table is changed by the interleaved steps of   *)
(* several web workers that hold stale copies of its rows, implements it.  *)
(***************************************************************************)
EXTENDS Naturals

CONSTANTS
  Ids,        \* the UUIDs peers can be given
  Keys,       \* the public keys that can be generated
  Addresses   \* the tunnel addresses a peer can have

VARIABLES
  peers,      \* the table, a set of rows
  born,       \* every id that was ever inserted
  spent       \* every key that was ever stored

vars == <<peers, born, spent>>

Row == [id : Ids, key : Keys, ip : Addresses]

Init == peers = {} /\ born = {} /\ spent = {}

Add == \E r \in Row :
         /\ r.id \notin born
         /\ r.key \notin spent
         /\ peers' = peers \cup {r}
         /\ born' = born \cup {r.id}
         /\ spent' = spent \cup {r.key}

Rekey == \E r \in peers, k \in Keys \ spent :
           /\ peers' = (peers \ {r}) \cup {[r EXCEPT !.key = k]}
           /\ spent' = spent \cup {k}
           /\ born' = born

Drop == \E r \in peers :
          /\ peers' = peers \ {r}
          /\ UNCHANGED <<born, spent>>

Next == Add \/ Rekey \/ Drop

Spec == Init /\ [][Next]_vars

\* With the import command: a key that once left the table may come back, from
\* the conf file, as a new peer. Never twice, and never to an existing peer.
Return == \E r \in Row :
            /\ r.id \notin born
            /\ r.key \in spent /\ \A s \in peers : s.key # r.key
            /\ peers' = peers \cup {r}
            /\ born' = born \cup {r.id}
            /\ spent' = spent

\* And a peer may be moved to another address.
Move == \E r \in peers, a \in Addresses :
          /\ peers' = (peers \ {r}) \cup {[r EXCEPT !.ip = a]}
          /\ UNCHANGED <<born, spent>>

ReturningSpec == Init /\ [][Next \/ Return \/ Move]_vars

\* No two rows of PeerConfig share an id or a key (models.py's primary_key
\* and unique=True), and the table holds no id or key that was never issued.
RowsIdentified ==
  /\ \A r, s \in peers : r.id = s.id \/ r.key = s.key => r = s
  /\ \A r \in peers : r.id \in born /\ r.key \in spent
=============================================================================
