-------------------------- MODULE PeerOwnersProofs --------------------------
(***************************************************************************)
(* Theorems about PeerOwners: users, the peers they own and the admin      *)
(* site, for any number of workers, users, peers and addresses. Most steps *)
(* are steps of PeerLifecycle, whose lemmas are taken as they are.         *)
(***************************************************************************)
EXTENDS PeerOwners, PeerLifecycleProofs

(***************************************************************************)
(* The steps that PeerLifecycle does not have.                             *)
(***************************************************************************)
Sweep(w) == pc[w] = "idle" /\ \E u : Cascade(w, u)

OwnStep(w) ==
  OwnerInsertFails(w) \/ UserDeleteNext(w) \/ Sweep(w) \/ SiteDeletePeer(w) \/ SiteEditPeer(w)

LEMMA StepKinds == [OwnersNext]_allVars => [Next]_vars \/ \E w \in Workers : OwnStep(w)
<1> SUFFICES ASSUME [OwnersNext]_allVars
             PROVE  [Next]_vars \/ \E w \in Workers : OwnStep(w)
  OBVIOUS
<1>1. ASSUME NEW w \in Workers, OwnerBegin(w) PROVE [Next]_vars
  BY <1>1 DEF OwnerBegin, OwnerCreate, OwnerLoad, UserDeleteLoad, Next, Work, Begin
<1>2. ASSUME NEW w \in Workers, OwnerContinue(w) PROVE [Next]_vars \/ OwnStep(w)
  <2>1. CASE OwnerAllocate(w) \/ OwnerInsert(w) \/ OwnerSteps(w)
    BY <2>1 DEF OwnerAllocate, OwnerInsert, OwnerSteps, Next, Work, Continue
  <2>2. CASE UserDeleteDone(w)
    BY <2>2 DEF UserDeleteDone, OwnStep, Sweep
  <2> QED BY <1>2, <2>1, <2>2 DEF OwnerContinue, OwnStep
<1>3. ASSUME NEW w \in Workers, OwnerFault(w) PROVE [Next]_vars
  BY <1>3 DEF OwnerFault, OwnerDumpFails, OwnerStepFails, OwnerAbort, Next
<1>4. ASSUME NEW w \in Workers, Site(w) PROVE [Next]_vars \/ OwnStep(w)
  BY <1>4 DEF Site, SiteDeleteUser, SiteEditOwner, Free, OwnStep, Sweep
<1>5. OwnerHost => [Next]_vars
  BY DEF OwnerHost, Next
<1>6. UNCHANGED allVars => [Next]_vars
  BY DEF allVars
<1> QED BY <1>1, <1>2, <1>3, <1>4, <1>5, <1>6 DEF OwnersNext, OwnerWork

-----------------------------------------------------------------------------
(***************************************************************************)
(* Type correctness. The rows a deletion has listed were in the table.     *)
(***************************************************************************)
OwnersOK ==
  /\ users \subseteq Users /\ owner \in [Ids -> Users \cup {NoUser}]
  /\ by \in [Workers -> Users \cup {NoUser}] /\ job \in [Workers -> Job]
  /\ \A r \in peers : owner[r.id] \in users
  /\ \A w \in Workers : \A r \in job[w].todo : r.key \in spent

OwnersInv == TypeInv /\ OwnersOK

LEMMA OwnersInitInv == OwnersInit => OwnersInv
<1> SUFFICES ASSUME OwnersInit PROVE OwnersInv
  OBVIOUS
<1>1. TypeInv
  BY InitType DEF OwnersInit
<1>2. OwnersOK
  BY DEF OwnersInit, Init, OwnersOK, Job, NoJob
<1> QED BY <1>1, <1>2 DEF OwnersInv

\* A deleted row, or one with another address, is all the admin site makes of
\* the table.
LEMMA OwnTypeStep ==
  ASSUME OwnersInv, NEW w \in Workers, OwnStep(w) PROVE TypeInv'
<1>a. TypeInv /\ TypeOK /\ KeysSpent /\ \A v \in Workers : Control(v) /\ Memory(v)
  BY DEF OwnersInv, TypeInv
<1> USE DEF dbVars, wgVars, histVars, Goto, Finish
<1>1. ASSUME UNCHANGED <<born, spent, conf, wgUp, live, pc, req, issued, rekeyed>>,
             peers' \subseteq Row, \A r \in peers' : r.key \in spent,
             stale' \subseteq Workers, raced' \in [Workers -> SUBSET Subnet]
      PROVE  TypeInv'
  BY <1>a, <1>1 DEF TypeInv, TypeOK, KeysSpent, Control, Memory
<1>2. stale \subseteq Workers /\ (stale \cup Syncing) \ {w} \subseteq Workers
  BY <1>a DEF TypeOK, Syncing
<1>3. CASE OwnerInsertFails(w)
  <2>1. req'[w] = NoReq /\ pc'[w] = "idle"
    BY <1>a, <1>3 DEF OwnerInsertFails, TypeOK
  <2>2. \A v \in Workers \ {w} : req'[v] = req[v] /\ pc'[v] = pc[v]
    BY <1>a, <1>3 DEF OwnerInsertFails, TypeOK
  <2>3. UNCHANGED <<issued, spent>>
    BY <1>3 DEF OwnerInsertFails
  <2>4. ASSUME NEW v \in Workers PROVE (Control(v) /\ Memory(v))'
    <3>1. CASE v = w
      BY <2>1, <3>1 DEF Control, Memory, NoReq
    <3>2. CASE v # w
      BY <1>a, <2>2, <2>3, <3>2 DEF Control, Memory
    <3> QED BY <3>1, <3>2
  <2>5. NoReq \in Request
    BY DEF NoReq, Request
  <2>6. TypeOK' /\ KeysSpent'
    BY <1>a, <1>3, <2>5 DEF OwnerInsertFails, TypeOK, KeysSpent, Labels
  <2> QED BY <2>4, <2>6 DEF TypeInv
<1>4. CASE UserDeleteNext(w)
  <2>1. PICK r \in job[w].todo :
          req' = [req EXCEPT ![w] = [NoReq EXCEPT !.op = "delete",
                                       !.id = r.id, !.old = r.key, !.ip = r.ip]]
    BY <1>4 DEF UserDeleteNext
  <2>2. r \in Row /\ r.key \in spent
    BY <2>1 DEF OwnersInv, OwnersOK, Job
  <2>3. r.id \in Ids /\ r.ip \in Subnet /\ r.key \in Keys
    BY <2>2 DEF Row
  <2> DEFINE q == [NoReq EXCEPT !.op = "delete", !.id = r.id, !.old = r.key, !.ip = r.ip]
  <2>4. /\ q \in Request /\ q.op = "delete" /\ q.id = r.id /\ q.old = r.key /\ q.ip = r.ip
        /\ q.key = NoKey
    BY <2>3 DEF NoReq, Request
  <2>5. req' = [req EXCEPT ![w] = q]
    BY <2>1
  <2> HIDE DEF q
  <2>6. /\ req'[w] = q /\ pc'[w] = "drop"
        /\ \A v \in Workers \ {w} : req'[v] = req[v] /\ pc'[v] = pc[v]
    BY <1>a, <1>4, <2>5 DEF UserDeleteNext, TypeOK
  <2>7. UNCHANGED <<issued, spent>>
    BY <1>4 DEF UserDeleteNext
  <2>8. \A v \in Workers : (Control(v) /\ Memory(v))'
    BY <1>a, <2>2, <2>3, <2>4, <2>6, <2>7 DEF Control, Memory
  <2>9. TypeOK' /\ KeysSpent'
    BY <1>a, <1>4, <2>4, <2>5 DEF UserDeleteNext, TypeOK, KeysSpent, Labels
  <2> QED BY <2>8, <2>9 DEF TypeInv
<1>5. CASE Sweep(w) \/ SiteDeletePeer(w)
  <2>1. peers' \subseteq peers /\ UNCHANGED <<born, spent, conf, wgUp, live, pc, req, issued, raced, rekeyed>>
    BY <1>5 DEF Sweep, Cascade, SiteDeletePeer
  <2>2. stale' \subseteq Workers
    BY <1>2, <1>5 DEF Sweep, Cascade, Changed, SiteDeletePeer, TableChanged
  <2> QED BY <1>a, <1>1, <2>1, <2>2 DEF TypeOK, KeysSpent
<1>6. CASE SiteEditPeer(w)
  <2>1. PICK r \in peers, a \in ManualIps \cap Subnet :
          peers' = (peers \ {r}) \cup {[r EXCEPT !.ip = a]} /\ raced' = RacedBy(w, a)
    BY <1>6 DEF SiteEditPeer
  <2>2. r \in Row /\ r.key \in spent
    BY <1>a DEF TypeOK, KeysSpent
  <2>3. [r EXCEPT !.ip = a] \in Row /\ [r EXCEPT !.ip = a].key = r.key
    BY <2>2 DEF Row
  <2>4. raced' \in [Workers -> SUBSET Subnet]
    BY <1>a, <2>1 DEF RacedBy, TypeOK
  <2>5. UNCHANGED <<born, spent, conf, wgUp, live, pc, req, issued, rekeyed>> /\ stale' \subseteq Workers
    BY <1>2, <1>6 DEF SiteEditPeer, TableChanged
  <2> QED BY <1>a, <1>1, <2>1, <2>2, <2>3, <2>4, <2>5 DEF TypeOK, KeysSpent
<1> QED BY <1>3, <1>4, <1>5, <1>6 DEF OwnStep

\* Every step but one leaves the table only rows it had, perhaps changed.
OldRows ==
  /\ born' = born /\ spent \subseteq spent'
  /\ \A r \in peers' : \E s \in peers : s.id = r.id

LEMMA ServiceRows ==
  ASSUME TypeInv, NEW w \in Workers, NEW dump,
         \/ CreateLoad(w) \/ RegenLoad(w) \/ DeleteLoad(w) \/ Allocate(w, dump)
         \/ CreateStamp(w) \/ RegenSave(w) \/ DeleteRow(w)
         \/ RemovePeer(w) \/ SetPeer(w) \/ BuildServerConf(w) \/ AtomicWrite(w)
         \/ SyncconfRead(w) \/ SyncconfApply(w) \/ StepFails(w) \/ Abort(w)
  PROVE  OldRows
<1>1. CASE UNCHANGED <<peers, born, spent>>
  BY <1>1 DEF OldRows
<1>2. CASE RegenSave(w)
  <2>1. CASE UNCHANGED <<peers, spent>>
    BY <1>2, <2>1 DEF RegenSave, OldRows
  <2>2. ASSUME NEW r \in peers, peers' = (peers \ {r}) \cup {[r EXCEPT !.key = req[w].key]},
               spent' = spent \cup {req[w].key}
        PROVE  OldRows
    <3>1. [r EXCEPT !.key = req[w].key].id = r.id
      BY DEF TypeInv, TypeOK, Row
    <3> QED BY <1>2, <2>2, <3>1 DEF RegenSave, OldRows
  <2> QED BY <1>2, <2>1, <2>2 DEF RegenSave
<1>3. CASE DeleteRow(w)
  BY <1>3 DEF DeleteRow, OldRows
<1>4. CASE \/ CreateLoad(w) \/ RegenLoad(w) \/ DeleteLoad(w) \/ Allocate(w, dump)
           \/ CreateStamp(w) \/ RemovePeer(w) \/ SetPeer(w)
  BY <1>1, <1>4 DEF CreateLoad, RegenLoad, DeleteLoad, Allocate, CreateStamp, RemovePeer,
     SetPeer, dbVars
<1>5. CASE \/ BuildServerConf(w) \/ AtomicWrite(w) \/ SyncconfRead(w) \/ SyncconfApply(w)
           \/ StepFails(w) \/ Abort(w)
  BY <1>1, <1>5 DEF BuildServerConf, AtomicWrite, SyncconfRead, SyncconfApply, StepFails,
     Abort, dbVars
<1> QED BY <1>2, <1>3, <1>4, <1>5

LEMMA OwnRows ==
  ASSUME TypeInv, NEW w \in Workers, OwnStep(w) PROVE OldRows
<1>1. CASE OwnerInsertFails(w) \/ UserDeleteNext(w)
  BY <1>1 DEF OwnerInsertFails, UserDeleteNext, OldRows, dbVars
<1>2. CASE Sweep(w) \/ SiteDeletePeer(w)
  BY <1>2 DEF Sweep, Cascade, SiteDeletePeer, OldRows
<1>3. CASE SiteEditPeer(w)
  <2>1. PICK r \in peers, a \in ManualIps \cap Subnet :
          peers' = (peers \ {r}) \cup {[r EXCEPT !.ip = a]}
    BY <1>3 DEF SiteEditPeer
  <2>2. [r EXCEPT !.ip = a].id = r.id
    BY DEF TypeInv, TypeOK, Row
  <2> QED BY <1>3, <2>1, <2>2 DEF SiteEditPeer, OldRows
<1> QED BY <1>1, <1>2, <1>3 DEF OwnStep

\* What most steps leave alone: users, owners and deletions under way.
Apart == UNCHANGED <<users, owner, job>> /\ by' \in [Workers -> Users \cup {NoUser}]

LEMMA ApartKept == ASSUME OwnersInv, OldRows, Apart PROVE OwnersOK'
<1>1. ASSUME NEW r \in peers' PROVE owner[r.id] \in users
  BY DEF OldRows, OwnersInv, OwnersOK
<1>2. UNCHANGED <<users, owner, job>> /\ by' \in [Workers -> Users \cup {NoUser}]
  BY DEF Apart
<1>3. spent \subseteq spent'
  BY DEF OldRows
<1> QED BY <1>1, <1>2, <1>3 DEF OwnersInv, OwnersOK

LEMMA OwnersOKStep == OwnersInv /\ [OwnersNext]_allVars => OwnersOK'
<1> SUFFICES ASSUME OwnersInv, [OwnersNext]_allVars PROVE OwnersOK'
  OBVIOUS
<1>a. TypeInv /\ OwnersOK /\ NoUser \in Users \cup {NoUser}
  BY DEF OwnersInv
<1>b. /\ users \subseteq Users /\ owner \in [Ids -> Users \cup {NoUser}]
      /\ by \in [Workers -> Users \cup {NoUser}] /\ job \in [Workers -> Job]
  BY <1>a DEF OwnersOK
<1>1. ASSUME NEW w \in Workers, OwnerCreate(w) \/ OwnerLoad(w) PROVE OwnersOK'
  <2>1. OldRows
    BY <1>1, <1>a, ServiceRows DEF OwnerCreate, OwnerLoad
  <2>2. Apart
    BY <1>1, <1>b DEF OwnerCreate, OwnerLoad, ownVars, Apart
  <2> QED BY <2>1, <2>2, ApartKept
<1>2. ASSUME NEW w \in Workers, OwnerAllocate(w) \/ OwnerDumpFails(w) PROVE OwnersOK'
  <2>1. OldRows
    BY <1>2, <1>a, ServiceRows DEF OwnerAllocate, OwnerDumpFails, AllocatePeerIp, DumpFails
  <2>2. Apart
    BY <1>2, <1>b DEF OwnerAllocate, OwnerDumpFails, Keeping, Apart
  <2> QED BY <2>1, <2>2, ApartKept
<1>3. ASSUME NEW w \in Workers, OwnerSteps(w) \/ OwnerStepFails(w) PROVE OwnersOK'
  <2>1. OldRows
    BY <1>3, <1>a, ServiceRows DEF OwnerSteps, OwnerStepFails
  <2>2. Apart
    BY <1>3, <1>b DEF OwnerSteps, OwnerStepFails, ownVars, Apart
  <2> QED BY <2>1, <2>2, ApartKept
<1>4. ASSUME NEW w \in Workers, OwnerInsert(w) PROVE OwnersOK'
  <2>1. PICK i \in Ids \ born :
          /\ peers' = peers \cup {[id |-> i, key |-> req[w].key, ip |-> req[w].ip]}
          /\ req' = [req EXCEPT ![w].id = i]
    BY <1>4 DEF OwnerInsert, CreateInsert
  <2>2. req'[w].id = i
    BY <1>a, <2>1 DEF TypeInv, TypeOK, Request
  <2>3. PICK r : r = [id |-> i, key |-> req[w].key, ip |-> req[w].ip]
    OBVIOUS
  <2>4. /\ owner' = [owner EXCEPT ![i] = by[w]] /\ by[w] \in users
        /\ by' = [by EXCEPT ![w] = NoUser] /\ UNCHANGED <<users, job>>
        /\ spent \subseteq spent'
    BY <1>4, <2>2 DEF OwnerInsert, CreateInsert
  <2>5. ASSUME NEW s \in peers' PROVE owner'[s.id] \in users
    <3>1. s \in peers \/ s.id = i
      BY <2>1, <2>3
    <3>2. s \in peers => s.id \in Ids
      BY <1>a DEF TypeInv, TypeOK, Row
    <3> QED BY <1>a, <1>b, <2>4, <3>1, <3>2 DEF OwnersOK
  <2> QED BY <1>a, <1>b, <2>4, <2>5 DEF OwnersOK
<1>5. ASSUME NEW w \in Workers, OwnerInsertFails(w) \/ SiteDeletePeer(w) \/ SiteEditPeer(w)
      PROVE  OwnersOK'
  <2>1. OldRows
    BY <1>5, <1>a, OwnRows DEF OwnStep
  <2>2. Apart
    BY <1>5, <1>b DEF OwnerInsertFails, SiteDeletePeer, SiteEditPeer, ownVars, Apart
  <2> QED BY <2>1, <2>2, ApartKept
<1>6. ASSUME NEW w \in Workers, UserDeleteLoad(w) PROVE OwnersOK'
  <2>1. PICK u \in users :
          job' = [job EXCEPT ![w] = [user |-> u, todo |-> ToDelete(u),
                                     list |-> {r.id : r \in PeersOf(u)}]]
    BY <1>6 DEF UserDeleteLoad
  <2> DEFINE j == [user |-> u, todo |-> ToDelete(u), list |-> {r.id : r \in PeersOf(u)}]
  <2>2. j \in Job /\ j.todo \subseteq peers
    BY <1>a, <1>b DEF ToDelete, PeersOf, TypeInv, TypeOK, Row, Job
  <2>3. job' = [job EXCEPT ![w] = j]
    BY <2>1
  <2> HIDE DEF j
  <2>4. UNCHANGED <<peers, spent, users, owner, by>>
    BY <1>6 DEF UserDeleteLoad, vars, dbVars
  <2>5. ASSUME NEW v \in Workers, NEW r \in job'[v].todo PROVE r.key \in spent
    BY <1>a, <1>b, <2>2, <2>3 DEF OwnersOK, TypeInv, KeysSpent
  <2> QED BY <1>a, <1>b, <2>2, <2>3, <2>4, <2>5 DEF OwnersOK
<1>7. ASSUME NEW w \in Workers, UserDeleteNext(w) PROVE OwnersOK'
  <2>1. PICK r \in job[w].todo : job' = [job EXCEPT ![w].todo = @ \ {r}]
    BY <1>7 DEF UserDeleteNext
  <2>2. job' \in [Workers -> Job] /\ \A v \in Workers : job'[v].todo \subseteq job[v].todo
    BY <1>b, <2>1 DEF Job
  <2>3. UNCHANGED <<peers, spent, users, owner, by>>
    BY <1>7 DEF UserDeleteNext, dbVars
  <2> QED BY <1>a, <2>2, <2>3 DEF OwnersOK
<1>8. ASSUME NEW w \in Workers, NEW u, Cascade(w, u),
             job' = job \/ job' = [job EXCEPT ![w] = NoJob]
      PROVE  OwnersOK'
  <2>1. /\ users' = users \ {u} /\ peers' = peers \ {r \in peers : owner[r.id] = u}
        /\ UNCHANGED <<owner, by, spent>>
    BY <1>8 DEF Cascade, Swept, PeersOf
  <2>2. NoJob \in Job /\ NoJob.todo = {}
    BY DEF NoJob, Job
  <2>3. job' \in [Workers -> Job] /\ \A v \in Workers : job'[v].todo \subseteq job[v].todo
    BY <1>b, <1>8, <2>2
  <2> QED BY <1>a, <2>1, <2>3 DEF OwnersOK
<1>9. ASSUME NEW w \in Workers, SiteEditOwner(w) PROVE OwnersOK'
  <2>1. PICK r \in peers, u \in users : owner' = [owner EXCEPT ![r.id] = u]
    BY <1>9 DEF SiteEditOwner
  <2>2. UNCHANGED <<peers, spent, users, by, job>>
    BY <1>9 DEF SiteEditOwner, vars, dbVars
  <2>3. \A s \in peers : s.id \in Ids
    BY <1>a DEF TypeInv, TypeOK, Row
  <2>4. \A s \in peers : owner'[s.id] \in users
    BY <1>a, <1>b, <2>1, <2>3 DEF OwnersOK
  <2>5. owner' \in [Ids -> Users \cup {NoUser}]
    BY <1>b, <2>1
  <2> QED BY <1>a, <2>2, <2>4, <2>5 DEF OwnersOK
<1>10. ASSUME NEW w \in Workers, OwnerAbort(w) PROVE OwnersOK'
  <2>1. OldRows
    BY <1>10, <1>a, ServiceRows DEF OwnerAbort, OldRows, vars, dbVars
  <2>2. NoJob \in Job /\ NoJob.todo = {}
    BY DEF NoJob, Job
  <2>3. /\ UNCHANGED <<users, owner>> /\ by' = [by EXCEPT ![w] = NoUser]
        /\ job' = [job EXCEPT ![w] = NoJob]
    BY <1>10 DEF OwnerAbort
  <2>4. job' \in [Workers -> Job] /\ \A v \in Workers : job'[v].todo \subseteq job[v].todo
    BY <1>b, <2>2, <2>3
  <2>5. by' \in [Workers -> Users \cup {NoUser}]
    BY <1>b, <2>3
  <2> QED BY <1>a, <2>1, <2>3, <2>4, <2>5 DEF OldRows, OwnersOK
<1>11. CASE OwnerHost \/ UNCHANGED allVars
  <2>1. OldRows
    BY <1>11 DEF OwnerHost, Host, WgDown, WgUp, allVars, vars, dbVars, OldRows
  <2>2. Apart
    BY <1>11, <1>b DEF OwnerHost, allVars, ownVars, Apart
  <2> QED BY <2>1, <2>2, ApartKept
<1> QED
  BY <1>1, <1>2, <1>3, <1>4, <1>5, <1>6, <1>7, <1>8, <1>9, <1>10, <1>11
     DEF OwnersNext, OwnerWork, OwnerBegin, OwnerContinue, UserDeleteDone, Site, SiteDeleteUser,
         OwnerFault

LEMMA OwnersStep == OwnersInv /\ [OwnersNext]_allVars => OwnersInv'
<1> SUFFICES ASSUME OwnersInv, [OwnersNext]_allVars PROVE OwnersInv'
  OBVIOUS
<1>1. TypeInv'
  BY StepKinds, TypeStep, OwnTypeStep DEF OwnersInv
<1> QED BY <1>1, OwnersOKStep DEF OwnersInv

\* Every value has its type, and every peer has an owner who exists: neither a
\* create that began before its user was deleted nor an edit in the admin site
\* leaves a peer without one (models.py, on_delete=CASCADE).
THEOREM OwnersTypeCorrect == OwnersSpec => []OwnersTypeOK
<1>1. OwnersInv => OwnersTypeOK
  BY DEF OwnersInv, OwnersOK, TypeInv, OwnersTypeOK
<1> QED BY <1>1, OwnersInitInv, OwnersStep, PTL DEF OwnersSpec

-----------------------------------------------------------------------------
(***************************************************************************)
(* Synchronisation and allocation, with the deletion of users and the      *)
(* admin site changing the table as well.                                  *)
(***************************************************************************)
LEMMA OwnSyncStep ==
  ASSUME OwnersInv, SyncInv, NEW w \in Workers, OwnStep(w) PROVE SyncInv'
<1> SUFFICES ASSUME NEW v \in Workers PROVE Fresh(v)'
  BY DEF SyncInv
<1>a. req \in [Workers -> Request] /\ pc \in [Workers -> Labels] /\ Fresh(v)
  BY DEF OwnersInv, TypeInv, TypeOK, SyncInv
<1>1. CASE OwnerInsertFails(w) \/ UserDeleteNext(w)
  BY <1>1, <1>a, FreshKept
     DEF OwnerInsertFails, UserDeleteNext, Finish, Goto, dbVars, wgVars, histVars
<1>2. CASE Sweep(w) \/ SiteDeletePeer(w) \/ SiteEditPeer(w)
  <2>1. UNCHANGED <<conf, pc, req>> /\ pc[w] = "idle"
    BY <1>2 DEF Sweep, Cascade, SiteDeletePeer, SiteEditPeer, Free
  <2>2. UNCHANGED <<peers, stale>> \/ TableChanged(w)
    BY <1>2 DEF Sweep, Cascade, Changed, SiteDeletePeer, SiteEditPeer
  <2>3. CASE v = w
    BY <2>1, <2>3 DEF Fresh
  <2>4. CASE v # w
    <3>1. CASE UNCHANGED <<peers, stale>>
      BY <1>a, <2>1, <3>1, FreshKept
    <3>2. CASE TableChanged(w)
      BY <2>1, <2>4, <3>2, OthersStale DEF TableChanged
    <3> QED BY <2>2, <3>1, <3>2
  <2> QED BY <2>3, <2>4
<1> QED BY <1>1, <1>2 DEF OwnStep

\* A sync that nobody disturbs brings table, file and interface to agreement,
\* also after users were deleted with their peers and addresses edited in the
\* admin site, which syncs nothing (services.py:287-293).
THEOREM OwnersSyncRepairs == OwnersSpec => SyncConverges
<1>1. OwnersInit => SyncInv
  BY InitSync DEF OwnersInit
<1>2. OwnersInv /\ SyncInv /\ [OwnersNext]_allVars => SyncInv'
  BY StepKinds, SyncStep, OwnSyncStep DEF OwnersInv
<1>3. SyncInv /\ [OwnersNext]_allVars =>
        [\A w \in Workers : pc[w] = "apply" /\ w \notin stale /\ SyncconfApply(w) => InSync']_vars
  BY UndisturbedSync
<1> QED
  BY <1>1, <1>2, <1>3, OwnersInitInv, OwnersStep, PTL DEF OwnersSpec, SyncConverges

LEMMA OwnRaceStep ==
  ASSUME OwnersInv, RaceInv, NEW w \in Workers, OwnStep(w) PROVE RaceInv'
<1> SUFFICES ASSUME NEW v \in Workers PROVE Covered(v)'
  BY DEF RaceInv
<1>a. /\ req \in [Workers -> Request] /\ pc \in [Workers -> Labels]
      /\ raced \in [Workers -> SUBSET Subnet] /\ Covered(v)
  BY DEF OwnersInv, TypeInv, TypeOK, RaceInv
<1>1. CASE OwnerInsertFails(w) \/ UserDeleteNext(w)
  BY <1>1, <1>a, CoverKept
     DEF OwnerInsertFails, UserDeleteNext, Finish, Goto, DbIps, dbVars, wgVars, histVars
<1>2. CASE Sweep(w) \/ SiteDeletePeer(w)
  <2>1. peers' \subseteq peers /\ UNCHANGED <<pc, req, raced>>
    BY <1>2 DEF Sweep, Cascade, SiteDeletePeer
  <2> QED BY <1>a, <2>1, CoverKept DEF DbIps
<1>3. CASE SiteEditPeer(w)
  <2>1. PICK r \in peers, a \in ManualIps \cap Subnet :
          peers' = (peers \ {r}) \cup {[r EXCEPT !.ip = a]} /\ raced' = RacedBy(w, a)
    BY <1>3 DEF SiteEditPeer
  <2>2. r \in Row
    BY DEF OwnersInv, TypeInv, TypeOK
  <2>3. [r EXCEPT !.ip = a].ip = a
    BY <2>2 DEF Row
  <2>4. DbIps' \subseteq DbIps \cup {a}
    BY <2>1, <2>3 DEF DbIps
  <2>5. UNCHANGED <<pc, req>> /\ pc[w] = "idle"
    BY <1>3 DEF SiteEditPeer, Free
  <2>6. pc[v] \in {"alloc", "insert"} => raced'[v] = raced[v] \cup {a}
    BY <2>1, <2>5 DEF RacedBy
  <2> QED BY <1>a, <2>4, <2>5, <2>6 DEF Covered
<1> QED BY <1>1, <1>2, <1>3 DEF OwnStep

\* An address is inserted twice only if the other row got it between this
\* request's read of the table and its insert, from another request or from the
\* admin site (services.py:133-195).
THEOREM OwnersRaceGuarded == OwnersSpec => []DuplicateOnlyByRace
<1>1. OwnersInit => RaceInv
  BY InitRace DEF OwnersInit
<1>2. OwnersInv /\ RaceInv /\ [OwnersNext]_allVars => RaceInv'
  BY StepKinds, RaceStep, OwnRaceStep DEF OwnersInv
<1>3. RaceInv => DuplicateOnlyByRace
  BY DEF RaceInv, Covered, DuplicateOnlyByRace
<1> QED BY <1>1, <1>2, <1>3, OwnersInitInv, OwnersStep, PTL DEF OwnersSpec

-----------------------------------------------------------------------------
(***************************************************************************)
(* The two tables. What PeerLifecycle shows of ids and keys holds beside   *)
(* the admin site, which changes neither; of addresses it does not hold.   *)
(***************************************************************************)
LEMMA OwnKeyStep ==
  ASSUME OwnersInv, KeyInv, NEW w \in Workers, OwnStep(w) PROVE KeyInv'
<1>a. /\ req \in [Workers -> Request] /\ pc \in [Workers -> Labels] /\ peers \subseteq Row
      /\ Registered
  BY DEF OwnersInv, TypeInv, TypeOK, KeyInv
<1>1. CASE OwnerInsertFails(w)
  BY <1>1, <1>a, KeyKept DEF OwnerInsertFails, Finish, Goto, KeepsKey
<1>2. CASE UserDeleteNext(w)
  <2>1. /\ UNCHANGED dbVars
        /\ req'[w].op = "delete" /\ req'[w].key = NoKey /\ pc'[w] = "drop"
        /\ \A v \in Workers \ {w} : req'[v] = req[v] /\ pc'[v] = pc[v]
    BY <1>2, <1>a DEF UserDeleteNext, Goto, NoReq
  <2>2. Registered' /\ \A v \in Workers : OwnKey(v)'
    BY <1>a, <2>1 DEF KeyInv, Registered, OwnKey, dbVars
  <2> QED BY <2>2 DEF KeyInv
<1>3. ASSUME UNCHANGED <<born, spent, pc, req>>, Registered' PROVE KeyInv'
  BY <1>3 DEF KeyInv, OwnKey
<1>4. CASE Sweep(w) \/ SiteDeletePeer(w)
  <2>1. peers' \subseteq peers /\ UNCHANGED <<born, spent, pc, req>>
    BY <1>4 DEF Sweep, Cascade, SiteDeletePeer
  <2> QED BY <1>a, <1>3, <2>1 DEF Registered
<1>5. CASE SiteEditPeer(w)
  <2>1. PICK r \in peers, a \in ManualIps \cap Subnet :
          peers' = (peers \ {r}) \cup {[r EXCEPT !.ip = a]}
    BY <1>5 DEF SiteEditPeer
  <2>2. PICK s : s = [r EXCEPT !.ip = a]
    OBVIOUS
  <2>3. s.id = r.id /\ s.key = r.key /\ peers' = (peers \ {r}) \cup {s}
    BY <1>a, <2>1, <2>2 DEF Row
  <2>4. UNCHANGED <<born, spent, pc, req>>
    BY <1>5 DEF SiteEditPeer
  <2> QED BY <1>a, <1>3, <2>3, <2>4 DEF Registered
<1> QED BY <1>1, <1>2, <1>4, <1>5 DEF OwnStep

LEMMA InitKeys == OwnersInit => KeyInv
  BY InitRegistryInv DEF OwnersInit, RegistryInv

LEMMA OwnersKeyStep == OwnersInv /\ KeyInv /\ [OwnersNext]_allVars => KeyInv'
  BY StepKinds, KeyStep, OwnKeyStep DEF OwnersInv

\* Ids and keys identify the rows of the table also when users are deleted and
\* rows edited in the admin site between the steps of a regenerate or a delete
\* (services.py:264, admin.py:13).
THEOREM OwnersRowsIdentified == OwnersSpec => []Registry!RowsIdentified
<1>1. KeyInv => Registry!RowsIdentified
  BY DEF KeyInv, Registered, Registry!RowsIdentified
<1> QED BY <1>1, OwnersInitInv, OwnersStep, InitKeys, OwnersKeyStep, PTL DEF OwnersSpec

\* Steps that insert no row and leave users and owners alone.
LEMMA OwnedChange ==
  ASSUME TypeInv, KeyInv, [Next]_vars, OldRows, UNCHANGED <<users, owner>>
  PROVE  [Owned!OwnedNext]_Owned!ownedVars
<1>1. [Registry!Next]_Registry!vars
  BY RegistryNext
<1>2. ~Registry!Add
  BY DEF OldRows, Registry!Add
<1>3. Registry!Rekey => Owned!Rekey
  BY DEF Registry!Rekey, Owned!Rekey
<1>4. Registry!Drop => Owned!Drop
  BY DEF Registry!Drop, Owned!Drop
<1>5. UNCHANGED Registry!vars => UNCHANGED Owned!ownedVars
  BY DEF Registry!vars, Owned!ownedVars, Owned!vars
<1> QED
  BY <1>1, <1>2, <1>3, <1>4, <1>5 DEF Registry!Next, Owned!OwnedNext, Owned!Change

LEMMA OwnedStep ==
  OwnersInv /\ KeyInv /\ [OwnersNext]_allVars => [Owned!OwnedNext]_Owned!ownedVars
<1> SUFFICES ASSUME OwnersInv, KeyInv, [OwnersNext]_allVars
             PROVE  [Owned!OwnedNext]_Owned!ownedVars
  OBVIOUS
<1>a. /\ TypeInv /\ peers \subseteq Row /\ owner \in [Ids -> Users \cup {NoUser}]
      /\ \A r \in peers : owner[r.id] \in users
  BY DEF OwnersInv, OwnersOK, TypeInv, TypeOK
<1>1. ASSUME NEW w \in Workers,
             \/ OwnerCreate(w) \/ OwnerLoad(w) \/ OwnerAllocate(w) \/ OwnerDumpFails(w)
             \/ OwnerSteps(w) \/ OwnerStepFails(w)
      PROVE  [Owned!OwnedNext]_Owned!ownedVars
  <2>1. OldRows
    BY <1>1, <1>a, ServiceRows
       DEF OwnerCreate, OwnerLoad, OwnerAllocate, OwnerDumpFails, OwnerSteps, OwnerStepFails,
           AllocatePeerIp, DumpFails
  <2>2. UNCHANGED <<users, owner>>
    BY <1>1 DEF OwnerCreate, OwnerLoad, OwnerAllocate, OwnerDumpFails, OwnerSteps,
       OwnerStepFails, Keeping, ownVars
  <2>3. Next
    BY <1>1 DEF OwnerCreate, OwnerLoad, OwnerAllocate, OwnerDumpFails, OwnerSteps,
       OwnerStepFails, Next, Work, Begin, Continue
  <2> QED BY <1>a, <2>1, <2>2, <2>3, OwnedChange
<1>2. ASSUME NEW w \in Workers, OwnerInsert(w) PROVE Owned!Enrol
  <2>1. CreateInsert(w) /\ by[w] \in users /\ users' = users
    BY <1>2 DEF OwnerInsert
  <2>2. PICK i \in Ids \ born : born' = born \cup {i} /\ req' = [req EXCEPT ![w].id = i]
    BY <2>1 DEF CreateInsert
  <2>3. Registry!Add
    <3>1. [Registry!Next]_Registry!vars
      BY <1>a, <2>1, RegistryNext DEF Next, Work, Continue
    <3>2. born' # born
      BY <2>2
    <3> QED
      BY <3>1, <3>2 DEF Registry!Next, Registry!Rekey, Registry!Drop, Registry!vars
  <2>4. Owned!Add
    BY <2>3 DEF Registry!Add, Owned!Add, Registry!Row, Owned!Row
  <2>5. req'[w].id = i
    BY <1>a, <2>2 DEF TypeInv, TypeOK, Request
  <2>6. owner' = [owner EXCEPT ![i] = by[w]]
    BY <1>2, <2>5 DEF OwnerInsert
  <2>7. owner' = [j \in Ids |-> IF j \in born' \ born THEN by[w] ELSE owner[j]]
    BY <1>a, <2>2, <2>6
  <2> QED BY <2>1, <2>4, <2>7 DEF Owned!Enrol
<1>3. ASSUME NEW w \in Workers, NEW u, Cascade(w, u)
      PROVE  Owned!Leave \/ UNCHANGED Owned!ownedVars
  <2>1. /\ users' = users \ {u} /\ peers' = {r \in peers : owner[r.id] # u}
        /\ UNCHANGED <<born, spent, owner>>
    BY <1>3 DEF Cascade, Swept, PeersOf
  <2>2. CASE u \in users
    BY <2>1, <2>2 DEF Owned!Leave
  <2>3. CASE u \notin users
    <3>1. users' = users /\ peers' = peers
      BY <1>a, <2>1, <2>3
    <3> QED BY <2>1, <3>1 DEF Owned!ownedVars, Owned!vars
  <2> QED BY <2>2, <2>3
<1>4. ASSUME NEW w \in Workers, SiteDeletePeer(w) PROVE Owned!Change
  BY <1>4 DEF SiteDeletePeer, ownVars, Owned!Change, Owned!Drop
<1>5. ASSUME NEW w \in Workers, SiteEditPeer(w) PROVE Owned!Change
  BY <1>5 DEF SiteEditPeer, ownVars, Owned!Change, Owned!Move
<1>6. ASSUME NEW w \in Workers, SiteEditOwner(w) PROVE Owned!Give
  BY <1>6 DEF SiteEditOwner, vars, dbVars, Owned!Give, Owned!vars
<1>7. ASSUME UNCHANGED <<peers, born, spent, users, owner>> PROVE UNCHANGED Owned!ownedVars
  BY <1>7 DEF Owned!ownedVars, Owned!vars
<1>8. ASSUME NEW w \in Workers,
             \/ OwnerInsertFails(w) \/ UserDeleteLoad(w) \/ UserDeleteNext(w) \/ OwnerAbort(w)
      PROVE  UNCHANGED Owned!ownedVars
  BY <1>7, <1>8 DEF OwnerInsertFails, UserDeleteLoad, UserDeleteNext, OwnerAbort, Abort,
     vars, dbVars
<1>9. CASE OwnerHost \/ UNCHANGED allVars
  BY <1>7, <1>9 DEF OwnerHost, Host, WgDown, WgUp, allVars, ownVars, vars, dbVars
<1> QED
  BY <1>1, <1>2, <1>3, <1>4, <1>5, <1>6, <1>8, <1>9
     DEF OwnersNext, OwnerWork, OwnerBegin, OwnerContinue, UserDeleteDone, Site, SiteDeleteUser,
         OwnerFault, Owned!OwnedNext

\* The requests, the deletions and the admin site, each acting on what it read
\* before, implement the abstract pair of tables: a peer enters it for a user
\* who exists and leaves it with its owner in one step (services.py:195-202,
\* views.py:416-419).
THEOREM OwnersImplementOwned == OwnersSpec => ImplementsOwned
<1>1. OwnersInit => Owned!OwnedInit
  BY DEF OwnersInit, Init, Owned!OwnedInit, Owned!Init
<1> QED
  BY <1>1, OwnersInitInv, OwnersStep, InitKeys, OwnersKeyStep, OwnedStep, PTL
     DEF OwnersSpec, ImplementsOwned, Owned!OwnedSpec

-----------------------------------------------------------------------------
(***************************************************************************)
(* The deletion of a user. A listed peer is still to be deleted, is being  *)
(* deleted, or is gone; its id is used up, so that it stays gone.          *)
(***************************************************************************)
Listed(w) ==
  \A i \in job[w].list :
    /\ i \in born
    /\ \/ \E r \in job[w].todo : r.id = i
       \/ pc[w] = "drop" /\ req[w].id = i
       \/ \A r \in peers : r.id # i

ListInv == (\A r \in peers : r.id \in born) /\ \A w \in Workers : Listed(w)

LEMMA InitList == OwnersInit => ListInv
  BY DEF OwnersInit, Init, ListInv, Listed, NoJob

\* A step of w that is not the one at "drop", and lists nothing.
Elsewhere(w) ==
  /\ pc[w] # "drop" /\ job' = job
  /\ \A v \in Workers \ {w} : pc'[v] = pc[v] /\ req'[v] = req[v]

LEMMA ListKept ==
  ASSUME ListInv, NEW w \in Workers, Elsewhere(w), born \subseteq born',
         \A r \in peers' : r.id \in born' /\ (r.id \in born => \E s \in peers : s.id = r.id)
  PROVE  ListInv'
<1> SUFFICES ASSUME NEW v \in Workers PROVE Listed(v)'
  BY DEF ListInv
<1>1. Listed(v) /\ job'[v] = job[v]
  BY DEF ListInv, Elsewhere
<1>2. pc[v] = "drop" => pc'[v] = "drop" /\ req'[v] = req[v]
  BY DEF Elsewhere
<1> QED BY <1>1, <1>2 DEF Listed

LEMMA ListOld ==
  ASSUME ListInv, NEW w \in Workers, Elsewhere(w), OldRows PROVE ListInv'
<1>1. /\ born \subseteq born'
      /\ \A r \in peers' : r.id \in born' /\ (r.id \in born => \E s \in peers : s.id = r.id)
  BY DEF ListInv, OldRows
<1> QED BY <1>1, ListKept

\* The worker at "drop" goes on, by deleting the row.
LEMMA ListDrop == ASSUME OwnersInv, ListInv, NEW w \in Workers, DeleteRow(w), job' = job
                  PROVE  ListInv'
<1>1. /\ peers' = {r \in peers : r.id # req[w].id} /\ born' = born
      /\ \A v \in Workers \ {w} : pc'[v] = pc[v] /\ req'[v] = req[v]
  BY DEF DeleteRow, Goto, OwnersInv, TypeInv, TypeOK
<1>2. ASSUME NEW v \in Workers PROVE Listed(v)'
  BY <1>1 DEF ListInv, Listed
<1> QED BY <1>1, <1>2 DEF ListInv

LEMMA ListServices ==
  ASSUME OwnersInv, ListInv, NEW w \in Workers, NEW dump, job' = job,
         \/ CreateLoad(w) \/ RegenLoad(w) \/ DeleteLoad(w) \/ Allocate(w, dump)
         \/ CreateStamp(w) \/ RegenSave(w) \/ DeleteRow(w)
         \/ RemovePeer(w) \/ SetPeer(w) \/ BuildServerConf(w) \/ AtomicWrite(w)
         \/ SyncconfRead(w) \/ SyncconfApply(w) \/ StepFails(w)
  PROVE  ListInv'
<1> USE DEF Goto, Finish, dbVars, wgVars, histVars
<1>a. TypeInv /\ req \in [Workers -> Request] /\ pc \in [Workers -> Labels]
  BY DEF OwnersInv, TypeInv, TypeOK
<1>1. OldRows
  BY <1>a, ServiceRows
<1>2. CASE DeleteRow(w)
  BY <1>2, ListDrop
<1>3. CASE \/ CreateLoad(w) \/ RegenLoad(w) \/ DeleteLoad(w) \/ Allocate(w, dump)
           \/ CreateStamp(w) \/ RegenSave(w) \/ RemovePeer(w) \/ SetPeer(w)
  <2>1. Elsewhere(w)
    BY <1>3, <1>a DEF CreateLoad, RegenLoad, DeleteLoad, Allocate, CreateStamp, RegenSave,
       RemovePeer, SetPeer, Elsewhere
  <2> QED BY <1>1, <2>1, ListOld
<1>4. CASE \/ BuildServerConf(w) \/ AtomicWrite(w) \/ SyncconfRead(w) \/ SyncconfApply(w)
           \/ StepFails(w)
  <2>1. Elsewhere(w)
    BY <1>4, <1>a DEF BuildServerConf, AtomicWrite, SyncconfRead, SyncconfApply, StepFails,
       InTry, Elsewhere
  <2> QED BY <1>1, <2>1, ListOld
<1> QED BY <1>2, <1>3, <1>4

LEMMA ListStep == OwnersInv /\ ListInv /\ [OwnersNext]_allVars => ListInv'
<1> SUFFICES ASSUME OwnersInv, ListInv, [OwnersNext]_allVars PROVE ListInv'
  OBVIOUS
<1>a. /\ TypeInv /\ req \in [Workers -> Request] /\ pc \in [Workers -> Labels]
      /\ job \in [Workers -> Job]
  BY DEF OwnersInv, OwnersOK, TypeInv, TypeOK
<1>b. (\A r \in peers : r.id \in born) /\ \A v \in Workers : Listed(v)
  BY DEF ListInv
<1>1. ASSUME NEW w \in Workers,
             \/ OwnerCreate(w) \/ OwnerLoad(w) \/ OwnerAllocate(w) \/ OwnerDumpFails(w)
             \/ OwnerSteps(w) \/ OwnerStepFails(w)
      PROVE  ListInv'
  BY <1>1, ListServices
     DEF OwnerCreate, OwnerLoad, OwnerAllocate, AllocatePeerIp, OwnerDumpFails, DumpFails,
         OwnerSteps, OwnerStepFails, Keeping, ownVars
<1>2. ASSUME NEW w \in Workers, OwnerInsert(w) PROVE ListInv'
  <2>1. PICK i \in Ids \ born :
          /\ peers' = peers \cup {[id |-> i, key |-> req[w].key, ip |-> req[w].ip]}
          /\ born' = born \cup {i}
    BY <1>2 DEF OwnerInsert, CreateInsert
  <2>2. Elsewhere(w)
    BY <1>2, <1>a DEF OwnerInsert, CreateInsert, Goto, Elsewhere
  <2>3. \A r \in peers' : r.id \in born' /\ (r.id \in born => \E s \in peers : s.id = r.id)
    BY <1>b, <2>1
  <2> QED BY <2>1, <2>2, <2>3, ListKept
<1>3. ASSUME NEW w \in Workers, OwnerInsertFails(w) \/ SiteDeletePeer(w) \/ SiteEditPeer(w)
      PROVE  ListInv'
  <2>1. Elsewhere(w)
    BY <1>3, <1>a DEF OwnerInsertFails, SiteDeletePeer, SiteEditPeer, Free, Finish, Goto, ownVars,
       Elsewhere
  <2> QED BY <1>3, <1>a, <2>1, OwnRows, ListOld DEF OwnStep
<1>4. ASSUME NEW w \in Workers, UserDeleteLoad(w) PROVE ListInv'
  <2>1. PICK u :
          job' = [job EXCEPT ![w] = [user |-> u, todo |-> ToDelete(u),
                                     list |-> {r.id : r \in PeersOf(u)}]]
    BY <1>4 DEF UserDeleteLoad
  <2>2. UNCHANGED <<peers, born, pc, req>>
    BY <1>4 DEF UserDeleteLoad, vars, dbVars
  <2>3. Listed(w)'
    BY <1>a, <1>b, <2>1, <2>2 DEF Listed, ToDelete, PeersOf
  <2>4. ASSUME NEW v \in Workers \ {w} PROVE Listed(v)'
    BY <1>a, <1>b, <2>1, <2>2 DEF Listed
  <2> QED BY <1>b, <2>2, <2>3, <2>4 DEF ListInv
<1>5. ASSUME NEW w \in Workers, UserDeleteNext(w) PROVE ListInv'
  <2>1. PICK r \in job[w].todo :
          /\ req' = [req EXCEPT ![w] = [NoReq EXCEPT !.op = "delete",
                                          !.id = r.id, !.old = r.key, !.ip = r.ip]]
          /\ job' = [job EXCEPT ![w].todo = @ \ {r}]
    BY <1>5 DEF UserDeleteNext
  <2>2. /\ UNCHANGED <<peers, born>> /\ pc[w] = "idle" /\ pc'[w] = "drop"
        /\ req'[w].id = r.id
        /\ \A v \in Workers \ {w} : pc'[v] = pc[v] /\ req'[v] = req[v] /\ job'[v] = job[v]
    BY <1>5, <1>a, <2>1 DEF UserDeleteNext, Goto, NoReq, dbVars
  <2>3. job'[w].todo = job[w].todo \ {r} /\ job'[w].list = job[w].list
    BY <1>a, <2>1 DEF Job
  <2>4. Listed(w)'
    BY <1>b, <2>2, <2>3 DEF Listed
  <2>5. ASSUME NEW v \in Workers \ {w} PROVE Listed(v)'
    BY <1>b, <2>2 DEF Listed
  <2> QED BY <1>b, <2>2, <2>4, <2>5 DEF ListInv
<1>6. ASSUME NEW w \in Workers, NEW u, Cascade(w, u),
             job' = job \/ job' = [job EXCEPT ![w] = NoJob]
      PROVE  ListInv'
  <2>1. peers' \subseteq peers /\ UNCHANGED <<born, pc, req>>
    BY <1>6 DEF Cascade
  <2>2. ASSUME NEW v \in Workers PROVE job'[v] = job[v] \/ job'[v].list = {}
    BY <1>6, <1>a DEF NoJob
  <2>3. ASSUME NEW v \in Workers PROVE Listed(v)'
    BY <1>b, <2>1, <2>2 DEF Listed
  <2> QED BY <1>b, <2>1, <2>3 DEF ListInv
<1>7. ASSUME NEW w \in Workers, OwnerAbort(w) PROVE ListInv'
  <2>1. OldRows
    BY <1>7, <1>a, ServiceRows DEF OwnerAbort, OldRows, vars, dbVars
  <2>2. /\ job'[w].list = {}
        /\ \A v \in Workers \ {w} : pc'[v] = pc[v] /\ req'[v] = req[v] /\ job'[v] = job[v]
    BY <1>7, <1>a DEF OwnerAbort, Abort, Finish, Goto, NoJob, vars
  <2>3. ASSUME NEW v \in Workers PROVE Listed(v)'
    BY <1>b, <2>1, <2>2 DEF Listed, OldRows
  <2> QED BY <1>b, <2>1, <2>3 DEF ListInv, OldRows
<1>8. ASSUME NEW w \in Workers, SiteEditOwner(w) PROVE ListInv'
  BY <1>8, <1>b DEF SiteEditOwner, ListInv, Listed, vars, dbVars
<1>9. CASE OwnerHost \/ UNCHANGED allVars
  <2>1. UNCHANGED <<peers, born, pc, req, job>>
    BY <1>9 DEF OwnerHost, Host, WgDown, WgUp, allVars, ownVars, vars, dbVars
  <2> QED BY <1>b, <2>1 DEF ListInv, Listed
<1> QED
  BY <1>1, <1>2, <1>3, <1>4, <1>5, <1>6, <1>7, <1>8, <1>9
     DEF OwnersNext, OwnerWork, OwnerBegin, OwnerContinue, UserDeleteDone, Site, SiteDeleteUser,
         OwnerFault

\* Every peer on the list of a deletion has left the table through delete_peer
\* by the time the user is deleted, whatever failed, and whatever others did to
\* the table, its owners and its addresses meanwhile (views.py:415-419).
THEOREM ListedGoFirst == OwnersSpec => CascadeOnlyUnlisted
<1>1. ListInv /\ [OwnersNext]_allVars =>
        [\A w \in Workers : UserDeleteDone(w) =>
           \A r \in peers \ peers' : r.id \notin job[w].list]_allVars
  BY DEF ListInv, Listed, UserDeleteDone
<1> QED
  BY <1>1, InitList, ListStep, OwnersInitInv, OwnersStep, PTL DEF OwnersSpec, CascadeOnlyUnlisted

-----------------------------------------------------------------------------
(***************************************************************************)
(* One worker, no fault, and nobody in the admin site.                     *)
(***************************************************************************)
LEMMA SoloOwnStep ==
  OwnersInv /\ RaceInv /\ SoloInv /\ [OwnerWork]_allVars => SoloInv'
<1> SUFFICES ASSUME OwnersInv, RaceInv, SoloInv, [OwnerWork]_allVars PROVE SoloInv'
  OBVIOUS
<1>1. CASE [Next]_vars
  BY <1>1, SoloStep DEF OwnersInv
<1>2. ASSUME peers' \subseteq peers, raced' = raced PROVE SoloInv'
  BY <1>2 DEF SoloInv, UniqueIps
<1>3. ASSUME NEW w \in Workers, OwnerInsertFails(w) PROVE SoloInv'
  <2>1. peers' = peers /\ raced' = [raced EXCEPT ![w] = {}]
    BY <1>3 DEF OwnerInsertFails, dbVars
  <2>2. raced \in [Workers -> SUBSET Subnet]
    BY DEF OwnersInv, TypeInv, TypeOK
  <2> QED BY <2>1, <2>2 DEF SoloInv, UniqueIps
<1>4. ASSUME NEW w \in Workers, UserDeleteNext(w) \/ UserDeleteDone(w) PROVE SoloInv'
  BY <1>2, <1>4 DEF UserDeleteNext, UserDeleteDone, Cascade, dbVars, histVars
<1>5. \/ [Next]_vars
      \/ \E w \in Workers : OwnerInsertFails(w) \/ UserDeleteNext(w) \/ UserDeleteDone(w)
  BY DEF OwnerWork, OwnerBegin, OwnerCreate, OwnerLoad, UserDeleteLoad, OwnerContinue,
     OwnerAllocate, OwnerInsert, OwnerSteps, Next, Work, Begin, Continue, allVars
<1> QED BY <1>1, <1>3, <1>4, <1>5

\* Between requests a place has what the table has, except for peers whose key
\* was regenerated since the last sync.
Settled == {r \in peers : r.id \notin rekeyed}

Drifting(place) ==
  /\ {EntryOf(r) : r \in Settled} \subseteq place
  /\ \A e \in place : e \in Entries \/ e.ip \in {r.ip : r \in peers \ Settled}

\* Nothing was stored that the places have not been told ...
Calm == \A w \in Workers : pc[w] \in {"idle", "alloc", "insert", "drop"}

\* ... and here they have just been told everything.
Told == \E w \in Workers : pc[w] \in {"stamp", "save"}

\* A worker that deletes a user does nothing else, and has listed every peer
\* the user has.
Deleting(w) ==
  job[w] # NoJob => /\ req[w].op \in {"none", "delete"}
                    /\ \A r \in PeersOf(job[w].user) : r.id \in job[w].list

DriftInv ==
  OneWorker =>
    /\ stale = {}
    /\ Calm => Drifting(conf) /\ Drifting(live)
    /\ Told => conf = Entries /\ live = Entries /\ rekeyed = {}
    /\ \A w \in Workers : Deleting(w)

LEMMA InitDrift == OwnersInit => DriftInv
  BY DEF OwnersInit, Init, DriftInv, Drifting, Settled, Entries, Told, Deleting

\* Without two peers of one address the kernel has no choice.
LEMMA OneRouting ==
  ASSUME UniqueIps, NEW R \in Routings(Entries) PROVE R = Entries
<1>1. \A e, f \in Entries : e.ip = f.ip => e = f
  BY DEF UniqueIps, Entries, EntryOf
<1> QED BY <1>1 DEF Routings

LEMMA InStepNoDrift ==
  ASSUME rekeyed = {}, NEW place, place = Entries PROVE Drifting(place)
  BY DEF Drifting, Settled, Entries

\* The new key of a regenerated peer is the one thing the places do not know.
LEMMA RegenDrifts ==
  ASSUME TypeInv, NEW w \in Workers, RegenSave(w), rekeyed = {}, NEW place, place = Entries
  PROVE  Drifting(place)'
<1>1. CASE UNCHANGED <<peers, rekeyed>>
  BY <1>1 DEF Drifting, Settled, Entries
<1>2. ASSUME NEW r \in peers, peers' = (peers \ {r}) \cup {[r EXCEPT !.key = req[w].key]},
             rekeyed' = rekeyed \cup {r.id}
      PROVE  Drifting(place)'
  <2>1. PICK s : s = [r EXCEPT !.key = req[w].key]
    OBVIOUS
  <2>2. s.id = r.id /\ s.ip = r.ip /\ s \in peers' /\ peers' = (peers \ {r}) \cup {s}
    BY <1>2, <2>1 DEF TypeInv, TypeOK, Row
  <2>3. Settled' \subseteq peers /\ s \in peers' \ Settled'
    BY <1>2, <2>2 DEF Settled
  <2>4. {EntryOf(t) : t \in Settled'} \subseteq place
    BY <2>3 DEF Entries
  <2>5. ASSUME NEW e \in place PROVE e \in Entries' \/ e.ip \in {t.ip : t \in peers' \ Settled'}
    <3>1. PICK t \in peers : e = EntryOf(t)
      BY DEF Entries
    <3>2. CASE t = r
      BY <2>2, <2>3, <3>1, <3>2 DEF EntryOf
    <3>3. CASE t # r
      BY <2>2, <3>1, <3>3 DEF Entries
    <3> QED BY <3>2, <3>3
  <2> QED BY <2>4, <2>5 DEF Drifting
<1> QED BY <1>1, <1>2 DEF RegenSave

LEMMA DriftKept ==
  ASSUME OneWorker, DriftInv, NEW w \in Workers, UNCHANGED <<peers, conf, live, rekeyed>>,
         stale' = {}, Deleting(w)',
         pc'[w] \in {"idle", "alloc", "insert", "drop"} =>
           pc[w] \in {"idle", "alloc", "insert", "drop"},
         pc'[w] \notin {"stamp", "save"}
  PROVE  DriftInv'
<1>1. \A v \in Workers : v = w
  BY DEF OneWorker
<1>2. ~Told' /\ (Calm' => Calm) /\ \A v \in Workers : Deleting(v)'
  BY <1>1 DEF Told, Calm
<1> QED BY <1>2 DEF DriftInv, Drifting, Settled, Entries

\* Under way to the next sync nothing is claimed.
LEMMA DriftUnderWay ==
  ASSUME OneWorker, NEW w \in Workers, stale' = {}, Deleting(w)',
         pc'[w] \in {"set", "remove", "build", "write", "read", "apply"}
  PROVE  DriftInv'
<1>1. \A v \in Workers : v = w
  BY DEF OneWorker
<1>2. ~Told' /\ ~Calm' /\ \A v \in Workers : Deleting(v)'
  BY <1>1 DEF Told, Calm
<1> QED BY <1>2 DEF DriftInv

LEMMA DriftApply ==
  ASSUME OwnersInv, SyncInv, SoloInv, DriftInv, OneWorker, NEW w \in Workers,
         SyncconfApply(w), Deleting(w)'
  PROVE  DriftInv'
<1>1. \A v \in Workers : v = w
  BY DEF OneWorker
<1>2. /\ pc[w] = "apply" /\ stale = {} /\ stale' = {} /\ rekeyed' = {} /\ UNCHANGED <<peers, conf>>
  BY DEF SyncconfApply, DriftInv, dbVars
<1>3. req[w].snap = Entries /\ conf = Entries /\ Entries' = Entries
  BY <1>2 DEF SyncInv, Fresh, Entries
<1>4. live' = Entries
  BY <1>3, OneRouting DEF SyncconfApply, Synced, SoloInv
<1>5. Drifting(conf)' /\ Drifting(live)'
  <2>1. Settled' = peers' /\ conf' = Entries' /\ live' = Entries'
    BY <1>2, <1>3, <1>4 DEF Settled
  <2> QED BY <2>1 DEF Drifting, Entries
<1>6. \A v \in Workers : Deleting(v)'
  BY <1>1
<1> QED BY <1>2, <1>3, <1>4, <1>5, <1>6 DEF DriftInv

LEMMA DriftStep ==
  OwnersInv /\ ListInv /\ SyncInv /\ SoloInv /\ DriftInv /\ [OwnerWork]_allVars => DriftInv'
<1> SUFFICES ASSUME OwnersInv, ListInv, SyncInv, SoloInv, DriftInv, [OwnerWork]_allVars, OneWorker
             PROVE  DriftInv'
  BY DEF DriftInv
<1> USE DEF Goto, Finish, dbVars, wgVars, histVars
<1>a. /\ req \in [Workers -> Request] /\ pc \in [Workers -> Labels]
      /\ job \in [Workers -> Job] /\ \A v \in Workers : Control(v) /\ req[v] \in Request
  BY DEF OwnersInv, OwnersOK, TypeInv, TypeOK
<1>b. stale = {} /\ \A v \in Workers : Deleting(v) /\ Syncing \ {v} = {}
  BY DEF DriftInv, OneWorker, Syncing
<1>c. ASSUME NEW w \in Workers, TableChanged(w) PROVE stale' = {}
  BY <1>b, <1>c DEF TableChanged
<1>d. ASSUME NEW w \in Workers, req[w].op \notin {"none", "delete"}, job' = job PROVE Deleting(w)'
  BY <1>b, <1>d DEF Deleting
<1>e. ASSUME NEW w \in Workers, peers' \subseteq peers, UNCHANGED ownVars,
             req'[w].op \in {"none", req[w].op}
      PROVE  Deleting(w)'
  BY <1>b, <1>e DEF Deleting, PeersOf, ownVars
<1>1. ASSUME NEW w \in Workers, OwnerCreate(w) \/ OwnerLoad(w) PROVE DriftInv'
  <2>1. Deleting(w)'
    BY <1>1 DEF OwnerCreate, OwnerLoad, Free, ownVars, Deleting
  <2>2. /\ UNCHANGED <<peers, conf, live, rekeyed, stale>> /\ pc[w] = "idle"
        /\ pc'[w] \in {"alloc", "remove", "drop"}
    BY <1>1, <1>a DEF OwnerCreate, OwnerLoad, CreateLoad, RegenLoad, DeleteLoad
  <2> QED BY <1>b, <2>1, <2>2, DriftKept
<1>2. ASSUME NEW w \in Workers, OwnerAllocate(w) \/ OwnerInsertFails(w) PROVE DriftInv'
  <2>1. /\ UNCHANGED <<peers, conf, live, rekeyed, stale, job>> /\ pc[w] \in {"alloc", "insert"}
        /\ pc'[w] \in {"insert", "idle"}
    BY <1>2, <1>a
       DEF OwnerAllocate, AllocatePeerIp, Allocate, Keeping, OwnerInsertFails
  <2>2. req[w].op \notin {"none", "delete"}
    BY <1>a, <2>1 DEF Control, SyncLabels
  <2> QED BY <1>b, <1>d, <2>1, <2>2, DriftKept
<1>3. ASSUME NEW w \in Workers, OwnerInsert(w) PROVE DriftInv'
  <2>1. pc[w] = "insert" /\ pc'[w] = "set" /\ TableChanged(w) /\ job' = job
    BY <1>3, <1>a DEF OwnerInsert, CreateInsert
  <2>2. req[w].op \notin {"none", "delete"}
    BY <1>a, <2>1 DEF Control, SyncLabels
  <2> QED BY <1>c, <1>d, <2>1, <2>2, DriftUnderWay
<1>4. ASSUME NEW w \in Workers, UNCHANGED ownVars, CreateStamp(w) PROVE DriftInv'
  <2>1. /\ UNCHANGED <<peers, conf, live, rekeyed, stale>> /\ pc[w] = "stamp" /\ pc'[w] = "idle"
        /\ req'[w].op = "none"
    BY <1>4, <1>a DEF CreateStamp, NoReq
  <2>2. Deleting(w)'
    BY <1>4, <1>e, <2>1
  <2>3. conf = Entries /\ live = Entries /\ rekeyed = {}
    BY <2>1 DEF DriftInv, Told
  <2>4. Drifting(conf) /\ Drifting(live)
    BY <2>3, InStepNoDrift
  <2>5. Drifting(conf)' /\ Drifting(live)'
    BY <2>1, <2>4 DEF Drifting, Settled, Entries
  <2>6. ~Told' /\ \A v \in Workers : Deleting(v)'
    BY <2>1, <2>2 DEF Told, OneWorker
  <2> QED BY <1>b, <2>1, <2>5, <2>6 DEF DriftInv
<1>5. ASSUME NEW w \in Workers, UNCHANGED ownVars, RegenSave(w) PROVE DriftInv'
  <2>1. /\ UNCHANGED <<conf, live>> /\ pc[w] = "save" /\ pc'[w] = "idle"
        /\ req'[w].op = "none" /\ stale' = {}
    BY <1>5, <1>a, <1>b, <1>c DEF RegenSave, NoReq
  <2>2. Deleting(w)'
    <3>1. req[w].op \notin {"none", "delete"}
      BY <1>a, <2>1 DEF Control, SyncLabels
    <3> QED BY <1>5, <1>d, <3>1 DEF ownVars
  <2>3. conf = Entries /\ live = Entries /\ rekeyed = {}
    BY <2>1 DEF DriftInv, Told
  <2>4. Drifting(conf)' /\ Drifting(live)'
    <3>1. PICK p : p = Entries
      OBVIOUS
    <3>2. Drifting(p)'
      BY <1>5, <2>3, <3>1, RegenDrifts DEF OwnersInv
    <3> QED BY <2>1, <2>3, <3>1, <3>2 DEF Drifting
  <2>5. ~Told' /\ \A v \in Workers : Deleting(v)'
    BY <2>1, <2>2 DEF Told, OneWorker
  <2> QED BY <2>1, <2>4, <2>5 DEF DriftInv
<1>6. ASSUME NEW w \in Workers, UNCHANGED ownVars,
             \/ DeleteRow(w) \/ RemovePeer(w) \/ SetPeer(w)
             \/ BuildServerConf(w) \/ AtomicWrite(w) \/ SyncconfRead(w)
      PROVE  DriftInv'
  <2>1. /\ peers' \subseteq peers /\ req'[w].op = req[w].op /\ stale' = {}
        /\ pc'[w] \in {"set", "remove", "build", "write", "read", "apply"}
    BY <1>6, <1>a, <1>b, <1>c
       DEF DeleteRow, RemovePeer, SetPeer, BuildServerConf, AtomicWrite, SyncconfRead, Request
  <2> QED BY <1>6, <1>e, <2>1, DriftUnderWay
<1>7. ASSUME NEW w \in Workers, UNCHANGED ownVars, SyncconfApply(w) PROVE DriftInv'
  <2>1. peers' = peers /\ req'[w].op \in {"none", req[w].op}
    BY <1>7, <1>a DEF SyncconfApply, NoReq, Request
  <2> QED BY <1>7, <1>e, <2>1, DriftApply
<1>8. ASSUME NEW w \in Workers, UserDeleteLoad(w) PROVE DriftInv'
  <2>1. pc[w] = "idle" /\ UNCHANGED <<peers, conf, live, rekeyed, stale, pc, req, owner>>
    BY <1>8 DEF UserDeleteLoad, Free, vars
  <2>2. PICK u \in users :
          job' = [job EXCEPT ![w] = [user |-> u, todo |-> ToDelete(u),
                                     list |-> {r.id : r \in PeersOf(u)}]]
    BY <1>8 DEF UserDeleteLoad
  <2>3. job'[w].user = u /\ job'[w].list = {r.id : r \in PeersOf(u)}
    BY <1>a, <2>2
  <2>4. req'[w].op = "none"
    BY <1>a, <2>1 DEF Control
  <2>5. Deleting(w)'
    BY <2>1, <2>3, <2>4 DEF Deleting, PeersOf
  <2> QED BY <1>b, <2>1, <2>5, DriftKept
<1>9. ASSUME NEW w \in Workers, UserDeleteNext(w) PROVE DriftInv'
  <2>1. /\ UNCHANGED <<peers, conf, live, rekeyed, stale, owner>> /\ pc[w] = "idle"
        /\ pc'[w] = "drop" /\ req'[w].op = "delete"
    BY <1>9, <1>a DEF UserDeleteNext, NoReq
  <2>2. PICK r \in job[w].todo : job' = [job EXCEPT ![w].todo = @ \ {r}]
    BY <1>9 DEF UserDeleteNext
  <2>3. job[w] # NoJob /\ job'[w].user = job[w].user /\ job'[w].list = job[w].list
    BY <1>a, <2>2 DEF Job, NoJob
  <2>4. Deleting(w)'
    BY <1>b, <2>1, <2>3 DEF Deleting, PeersOf
  <2> QED BY <1>b, <2>1, <2>4, DriftKept
<1>10. ASSUME NEW w \in Workers, UserDeleteDone(w) PROVE DriftInv'
  <2>1. /\ pc[w] = "idle" /\ job[w] # NoJob /\ job[w].todo = {}
        /\ peers' = peers \ PeersOf(job[w].user)
        /\ UNCHANGED <<conf, live, rekeyed, pc, req>> /\ Changed(w)
        /\ job' = [job EXCEPT ![w] = NoJob]
    BY <1>10 DEF UserDeleteDone, Cascade, Swept
  <2>2. \A r \in PeersOf(job[w].user) : r.id \in job[w].list
    BY <1>b, <2>1 DEF Deleting
  <2>3. \A i \in job[w].list : \A r \in peers : r.id # i
    BY <2>1 DEF ListInv, Listed
  <2>4. peers' = peers
    BY <2>1, <2>2, <2>3 DEF PeersOf
  <2>5. stale' = {} /\ Deleting(w)'
    BY <1>a, <1>b, <2>1, <2>4 DEF Changed, Deleting
  <2> QED BY <2>1, <2>4, <2>5, DriftKept
<1>11. CASE UNCHANGED allVars
  BY <1>11 DEF allVars, ownVars, vars, DriftInv, Drifting, Settled, Entries, Calm, Told, Deleting,
     PeersOf
<1> QED
  BY <1>1, <1>2, <1>3, <1>4, <1>5, <1>6, <1>7, <1>8, <1>9, <1>10, <1>11
     DEF OwnerWork, OwnerBegin, OwnerContinue, OwnerSteps

SerialInv == OwnersInv /\ ListInv /\ SyncInv /\ RaceInv /\ SoloInv /\ DriftInv

LEMMA SerialStep == SerialInv /\ [OwnerWork]_allVars => SerialInv'
<1> SUFFICES ASSUME SerialInv, [OwnerWork]_allVars PROVE SerialInv'
  OBVIOUS
<1>1. [OwnersNext]_allVars
  BY DEF OwnersNext
<1>2. OwnersInv' /\ ListInv' /\ SoloInv' /\ DriftInv'
  BY <1>1, OwnersStep, ListStep, SoloOwnStep, DriftStep DEF SerialInv
<1>3. SyncInv' /\ RaceInv'
  BY <1>1, StepKinds, SyncStep, OwnSyncStep, RaceStep, OwnRaceStep DEF SerialInv, OwnersInv
<1> QED BY <1>2, <1>3 DEF SerialInv

LEMMA InitSerial == OwnersInit => SerialInv
  BY OwnersInitInv, InitList, InitSync, InitRace, InitSolo, InitDrift DEF OwnersInit, SerialInv

\* With one worker no two peers have the same address, users who own them may
\* be deleted meanwhile or not (services.py:119-120).
THEOREM OwnersUniqueIpsAlone == OwnersFairSpec => [](OneWorker => UniqueIps)
<1>1. SerialInv => (OneWorker => UniqueIps)
  BY DEF SerialInv, SoloInv
<1> QED BY <1>1, InitSerial, SerialStep, PTL DEF OwnersFairSpec

\* With one worker, and while nothing fails, conf file and interface hold between
\* requests exactly the table's peers, but for those whose key was regenerated
\* after the last sync (README:206-208): the cascade of a user's deletion, which
\* syncs nothing, then has nothing left to sweep.
THEOREM DriftIsFromRegenerate == OwnersFairSpec => [](OneWorker => DriftOnlyFromRegenerate)
<1>1. SerialInv => (OneWorker => DriftOnlyFromRegenerate)
  <2> SUFFICES ASSUME DriftInv, OneWorker, AtRest PROVE DriftOnlyFromRegenerate
    BY DEF SerialInv, DriftOnlyFromRegenerate
  <2>1. Drifting(conf) /\ Drifting(live)
    BY DEF DriftInv, AtRest, Calm
  <2> QED BY <2>1 DEF DriftOnlyFromRegenerate, Drifting, Settled
<1> QED BY <1>1, InitSerial, SerialStep, PTL DEF OwnersFairSpec
=============================================================================
