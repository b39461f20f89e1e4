---------------------------- MODULE OwnedRegistry ----------------------------
(***************************************************************************)
(* What the tables of users and peers promise together: a peer is added    *)
(* for a user who exists, and goes with its owner in one step. No peer is  *)
(* ever without an owner, none outlives the owner, and none comes back.    *)
(* The peers are those of PeerRegistry, but that an administrator may move *)
(* one to another address and give it to another user.                     *)
(*                                                                         *)
(* PeerOwners, where a user's deletion, the services and the admin site    *)
(* interleave and each knows the tables from earlier reads, implements it. *)
(***************************************************************************)
EXTENDS PeerRegistry

CONSTANTS
  Users,      \* the users of the start
  NoUser      \* the owner of an id that was never used

VARIABLES
  users,      \* those who are left
  owner       \* of every id that was ever inserted

ownedVars == <<vars, users, owner>>

OwnedInit == Init /\ users = Users /\ owner = [i \in Ids |-> NoUser]

\* A new peer, for a user who exists.
Enrol ==
  /\ Add
  /\ \E u \in users : owner' = [i \in Ids |-> IF i \in born' \ born THEN u ELSE owner[i]]
  /\ users' = users

Change == (Rekey \/ Drop \/ Move) /\ UNCHANGED <<users, owner>>

Give ==
  /\ \E r \in peers, u \in users : owner' = [owner EXCEPT ![r.id] = u]
  /\ UNCHANGED <<vars, users>>

\* A user leaves, with all peers the user has at that moment.
Leave ==
  /\ \E u \in users : /\ users' = users \ {u}
                      /\ peers' = {r \in peers : owner[r.id] # u}
  /\ UNCHANGED <<born, spent, owner>>

OwnedNext == Enrol \/ Change \/ Give \/ Leave

OwnedSpec == OwnedInit /\ [][OwnedNext]_ownedVars
=============================================================================
