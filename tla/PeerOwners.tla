----------------------------- MODULE PeerOwners -----------------------------
(***************************************************************************)
(* The peers of PeerLifecycle and the users who own them. An administrator *)
(* who deletes a user deletes the user's peers one after the other, each   *)
(* with its own sync of file and interface, and then the user; the foreign *)
(* key of PeerConfig cascades, so that whatever peers the user has by then *)
(* leave the table without a sync. Beside the application's views there is *)
(* the Django admin site, whose pages change the two tables and nothing    *)
(* else. Who may do all this, and the mail, is the subject of Accounts.    *)
(***************************************************************************)
EXTENDS PeerLifecycle

CONSTANTS
  Users,       \* the primary keys of users
  NoUser

ASSUME NoUserAssumption == NoUser \notin Users

VARIABLES
  users,       \* the users that exist
  owner,       \* the owner column: of every id ever inserted
  by,          \* whose create request a worker has
  job          \* the deletion of a user that a worker has

ownVars == <<users, owner, by, job>>
allVars == <<vars, ownVars>>

-----------------------------------------------------------------------------
(* Data *)

Job == [user : Users \cup {NoUser},
        todo : SUBSET Row,          \* peers listed and not yet deleted
        list : SUBSET Ids]          \* all that were listed

NoJob == [user |-> NoUser, todo |-> {}, list |-> {}]

PeersOf(u) == {r \in peers : owner[r.id] = u}

OwnersInit ==
  /\ Init
  /\ users = Users /\ owner = [i \in Ids |-> NoUser]
  /\ by = [w \in Workers |-> NoUser] /\ job = [w \in Workers |-> NoJob]

\* History of a table change by a transaction of w outside the services.
Changed(w) == IF peers' = peers THEN stale' = stale ELSE TableChanged(w)

Free(w) == pc[w] = "idle" /\ job[w] = NoJob

-----------------------------------------------------------------------------
(* The three services, for the users who exist *)

\* PeerCreateView: for the user who is logged in.
OwnerCreate(w) ==
  /\ Free(w) /\ CreateLoad(w)
  /\ \E u \in users : by' = [by EXCEPT ![w] = u]
  /\ UNCHANGED <<users, owner, job>>

\* Mutant: the foreign key is not enforced.
OwnerInsertAnyway(w) ==
  /\ CreateInsert(w)
  /\ owner' = [owner EXCEPT ![req'[w].id] = by[w]]
  /\ by' = [by EXCEPT ![w] = NoUser]
  /\ UNCHANGED <<users, job>>

\* The row is inserted with its owner, ...
OwnerInsert(w) ==
  /\ by[w] \in users /\ CreateInsert(w)
  /\ owner' = [owner EXCEPT ![req'[w].id] = by[w]]
  /\ by' = [by EXCEPT ![w] = NoUser]
  /\ UNCHANGED <<users, job>>

\* ... which raises IntegrityError if the user is gone; the view answers so.
OwnerInsertFails(w) ==
  /\ pc[w] = "insert" /\ by[w] \notin users
  /\ Finish(w)
  /\ raced' = [raced EXCEPT ![w] = {}]
  /\ by' = [by EXCEPT ![w] = NoUser]
  /\ UNCHANGED <<dbVars, conf, wgVars, issued, stale, rekeyed, users, owner, job>>

OwnerLoad(w) == Free(w) /\ (RegenLoad(w) \/ DeleteLoad(w)) /\ UNCHANGED ownVars

\* The request may end here, without an address.
Keeping(w) ==
  /\ by' = IF pc'[w] = "idle" THEN [by EXCEPT ![w] = NoUser] ELSE by
  /\ UNCHANGED <<users, owner, job>>

OwnerAllocate(w) == AllocatePeerIp(w) /\ Keeping(w)

\* The other steps do not concern the owner.
OwnerSteps(w) ==
  /\ \/ CreateStamp(w) \/ RegenSave(w) \/ DeleteRow(w)
     \/ RemovePeer(w) \/ SetPeer(w)
     \/ BuildServerConf(w) \/ AtomicWrite(w) \/ SyncconfRead(w) \/ SyncconfApply(w)
  /\ UNCHANGED ownVars

-----------------------------------------------------------------------------
(* AdminUserDeleteView.post *)

\* Mutant: only the first peer of the user is looked at.
OneOf(u) == IF PeersOf(u) = {} THEN {} ELSE {CHOOSE r \in PeersOf(u) : TRUE}

\* user_to_delete.peer_configs.all()
ToDelete(u) == PeersOf(u)

\* The user is loaded, mailed, and the peers listed.
UserDeleteLoad(w) ==
  /\ Free(w)
  /\ \E u \in users :
       job' = [job EXCEPT ![w] = [user |-> u, todo |-> ToDelete(u),
                                  list |-> {r.id : r \in PeersOf(u)}]]
  /\ UNCHANGED <<vars, users, owner, by>>

\* delete_peer of the next peer, as it was when it was listed.
UserDeleteNext(w) ==
  /\ pc[w] = "idle"
  /\ \E r \in job[w].todo :
       /\ req' = [req EXCEPT ![w] = [NoReq EXCEPT !.op = "delete",
                                       !.id = r.id, !.old = r.key, !.ip = r.ip]]
       /\ job' = [job EXCEPT ![w].todo = job[w].todo \ {r}]
  /\ Goto(w, "drop")
  /\ UNCHANGED <<dbVars, conf, wgVars, histVars, users, owner, by>>

\* Mutant: nothing cascades.
Nothing(u) == {}

\* The peers that go with the user: all there are, whenever they came.
Swept(u) == PeersOf(u)

\* user.delete()
Cascade(w, u) ==
  /\ users' = users \ {u}
  /\ peers' = peers \ Swept(u)
  /\ Changed(w)
  /\ UNCHANGED <<born, spent, conf, wgVars, pc, req, issued, raced, rekeyed, owner, by>>

UserDeleteDone(w) ==
  /\ pc[w] = "idle" /\ job[w] # NoJob /\ job[w].todo = {}
  /\ Cascade(w, job[w].user)
  /\ job' = [job EXCEPT ![w] = NoJob]

UserDelete(w) == UserDeleteLoad(w) \/ UserDeleteNext(w) \/ UserDeleteDone(w)

-----------------------------------------------------------------------------
(* The Django admin site: each page is one transaction *)

\* A user is deleted, with the peers.
SiteDeleteUser(w) == Free(w) /\ (\E u \in users : Cascade(w, u)) /\ job' = job

\* A peer is deleted.
SiteDeletePeer(w) ==
  /\ Free(w)
  /\ \E r \in peers : peers' = peers \ {r}
  /\ TableChanged(w)
  /\ UNCHANGED <<born, spent, conf, wgVars, pc, req, issued, raced, rekeyed, ownVars>>

\* A peer's address is edited, here to another one of the subnet (the form takes
\* any text); id and key are read-only fields.
SiteEditPeer(w) ==
  /\ Free(w)
  /\ \E r \in peers, a \in ManualIps \cap Subnet :
       /\ a # r.ip
       /\ peers' = (peers \ {r}) \cup {[r EXCEPT !.ip = a]}
       /\ raced' = RacedBy(w, a)
  /\ TableChanged(w)
  /\ UNCHANGED <<born, spent, conf, wgVars, pc, req, issued, rekeyed, ownVars>>

\* A peer is given to another user.
SiteEditOwner(w) ==
  /\ Free(w)
  /\ \E r \in peers, u \in users : owner' = [owner EXCEPT ![r.id] = u]
  /\ UNCHANGED <<vars, users, by, job>>

Site(w) == SiteDeleteUser(w) \/ SiteDeletePeer(w) \/ SiteEditPeer(w) \/ SiteEditOwner(w)

-----------------------------------------------------------------------------
(* Faults *)

\* A failure in a try block of a service is logged and the loop goes on.
OwnerStepFails(w) == StepFails(w) /\ UNCHANGED ownVars

\* The worker dies: in a service, or in the loop between two services.
OwnerAbort(w) ==
  /\ \/ Abort(w)
     \/ pc[w] = "idle" /\ job[w] # NoJob /\ UNCHANGED vars
  /\ by' = [by EXCEPT ![w] = NoUser] /\ job' = [job EXCEPT ![w] = NoJob]
  /\ UNCHANGED <<users, owner>>

OwnerDumpFails(w) == DumpFails(w) /\ Keeping(w)

OwnerHost == Host /\ UNCHANGED ownVars

-----------------------------------------------------------------------------
(* Specifications *)

OwnerBegin(w) == OwnerCreate(w) \/ OwnerLoad(w) \/ UserDeleteLoad(w)

OwnerContinue(w) ==
  \/ OwnerAllocate(w) \/ OwnerInsert(w) \/ OwnerInsertFails(w) \/ OwnerSteps(w)
  \/ UserDeleteNext(w) \/ UserDeleteDone(w)

OwnerFault(w) == OwnerDumpFails(w) \/ OwnerStepFails(w) \/ OwnerAbort(w)

OwnerWork == \E w \in Workers : OwnerBegin(w) \/ OwnerContinue(w)

OwnersNext ==
  OwnerWork \/ OwnerHost \/ \E w \in Workers : Site(w) \/ OwnerFault(w)

\* Every fault, and the admin site.
OwnersSpec == OwnersInit /\ [][OwnersNext]_allVars

\* Nothing fails, the admin site is not used, and a worker that has begun a
\* request goes on with it.
OwnersFairSpec ==
  /\ OwnersInit /\ [][OwnerWork]_allVars
  /\ \A w \in Workers : WF_allVars(OwnerContinue(w))

-----------------------------------------------------------------------------
(* Properties *)

OwnersTypeOK ==
  /\ TypeOK
  /\ users \subseteq Users /\ owner \in [Ids -> Users \cup {NoUser}]
  /\ by \in [Workers -> Users \cup {NoUser}] /\ job \in [Workers -> Job]
  /\ \A r \in peers : owner[r.id] \in users

\* Users and peers seen through OwnedRegistry: a create for a user who is
\* deleted meanwhile adds nothing, a regenerate or delete of a peer that went
\* with its owner brings nothing back, and of two deletions of one user the
\* second does nothing, although each acts on what it read before.
Owned == INSTANCE OwnedRegistry WITH Addresses <- Subnet

ImplementsOwned == Owned!OwnedSpec

\* When an administrator deletes a user, the only peers that leave the table
\* without a sync of file and interface are those the user was given after
\* the list was read: every listed one went through delete_peer, whatever
\* failed in it (views.py:415-419).
CascadeOnlyUnlisted ==
  [][\A w \in Workers : UserDeleteDone(w) =>
        \A r \in peers \ peers' : r.id \notin job[w].list]_allVars

\* The peers of deleted users are taken off the interface (views.py:415
\* "Delete peers properly to sync with WireGuard"): when no user is left and
\* every request has ended, it has no peer. Not one whose user created it while
\* the administrator deleted the user.
DeletedUsersPeersLeave ==
  users = {} /\ AtRest /\ (\A w \in Workers : job[w] = NoJob) => live = {}
=============================================================================
