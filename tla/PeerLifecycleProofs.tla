------------------------ MODULE PeerLifecycleProofs ------------------------
(***************************************************************************)
(* Theorems about PeerLifecycle, for any number of workers, peers, keys    *)
(* and addresses, under every fault of its specification.                  *)
(***************************************************************************)
EXTENDS PeerLifecycle, TLAPS

(***************************************************************************)
(* Type correctness. It needs to know where each kind of request can be,   *)
(* and what it has in memory there.                                        *)
(***************************************************************************)
SyncLabels == {"build", "write", "read", "apply"}

Control(w) ==
  /\ pc[w] = "idle" <=> req[w].op = "none"
  /\ pc[w] = "idle" => req[w] = NoReq
  /\ req[w].op = "create" => pc[w] \in {"alloc", "insert", "set", "stamp"} \cup SyncLabels
  /\ req[w].op = "regenerate" => pc[w] \in {"remove", "set", "save"} \cup SyncLabels
  /\ req[w].op = "delete" => pc[w] \in {"drop", "remove"} \cup SyncLabels

Memory(w) ==
  /\ pc[w] \notin {"idle", "alloc"} => req[w].ip \in Subnet
  /\ IF req[w].op \in {"create", "regenerate"} THEN req[w].key \in issued
                                                 ELSE req[w].key = NoKey
  /\ IF req[w].op \in {"regenerate", "delete"} THEN req[w].old \in spent /\ req[w].id \in Ids
                                                 ELSE req[w].old = NoKey

\* The keys of the table were stored in it.
KeysSpent == \A r \in peers : r.key \in spent

TypeInv == TypeOK /\ KeysSpent /\ \A w \in Workers : Control(w) /\ Memory(w)

LEMMA InitType == Init => TypeInv
  BY NullAssumption DEF Init, TypeInv, TypeOK, KeysSpent, Control, Memory, NoReq, Request, Labels

LEMMA RoutingsWithin == ASSUME NEW C, NEW R \in Routings(C) PROVE R \subseteq C
  BY DEF Routings

\* allocate_peer_ip answers addresses of the subnet only.
LEMMA AcceptedInSubnet ==
  ASSUME NEW w, NEW taken PROVE Accepted(w, taken) \subseteq Subnet
<1>1. AutoAddrs \subseteq Subnet
  BY BroadcastAssumption DEF AutoAddrs, Subnet
<1> QED BY <1>1 DEF Accepted, LowestFree

LEMMA TypeStep == TypeInv /\ [Next]_vars => TypeInv'
<1> SUFFICES ASSUME TypeInv, [Next]_vars PROVE TypeInv'
  OBVIOUS
<1> USE NullAssumption DEF TypeInv, TypeOK, KeysSpent, Control, Memory, SyncLabels, NoReq,
        Request, Labels, Goto, Finish, dbVars, wgVars, histVars
<1>1. ASSUME NEW w \in Workers, CreateLoad(w) PROVE TypeInv'
  <2>1. DbIps \subseteq Subnet
    BY DEF DbIps, Row
  <2>2. PICK k \in Keys \ issued, ip \in ManualIps \cup {NoAddr} :
          /\ req' = [req EXCEPT ![w] = [NoReq EXCEPT !.op = "create", !.key = k,
                                                     !.ip = ip, !.used = DbIps]]
          /\ issued' = issued \cup {k}
    BY <1>1 DEF CreateLoad
  <2>3. req' \in [Workers -> Request]
    BY <2>1, <2>2
  <2>4. TypeOK' /\ KeysSpent'
    BY <1>1, <2>2, <2>3 DEF CreateLoad
  <2>5. ASSUME NEW v \in Workers PROVE Control(v)' /\ Memory(v)'
    BY <1>1, <2>2, <2>5 DEF CreateLoad
  <2> QED BY <2>4, <2>5
<1>2. ASSUME NEW w \in Workers, NEW dump, Allocate(w, dump) PROVE TypeInv'
  <2>1. CASE /\ Accepted(w, Taken(w, dump)) = {}
             /\ Finish(w)
             /\ raced' = [raced EXCEPT ![w] = {}]
    BY <1>2, <2>1 DEF Allocate
  <2>2. ASSUME NEW a \in Accepted(w, Taken(w, dump)),
               req' = [req EXCEPT ![w] = [@ EXCEPT !.ip = a, !.used = {}]],
               Goto(w, "insert"), raced' = raced
        PROVE TypeInv'
    <3>1. a \in Subnet
      BY <2>2, AcceptedInSubnet
    <3>2. req' \in [Workers -> Request]
      <4>1. req[w] \in Request
        OBVIOUS
      <4>2. [req[w] EXCEPT !.ip = a, !.used = {}] \in Request
        BY <3>1, <4>1
      <4> QED BY <2>2, <4>2
    <3>3. TypeOK' /\ KeysSpent'
      BY <1>2, <2>2, <3>2 DEF Allocate
    <3>4. ASSUME NEW v \in Workers PROVE Control(v)' /\ Memory(v)'
      <4>1. UNCHANGED <<issued, spent>> /\ pc[w] = "alloc" /\ req[w].op = "create"
        BY <1>2 DEF Allocate
      <4>2. CASE v = w
        <5>1. req[w] \in Request
          OBVIOUS
        <5>2. req'[w] = [req[w] EXCEPT !.ip = a, !.used = {}] /\ pc'[w] = "insert"
          BY <2>2
        <5>3. /\ req'[w].op = "create" /\ req'[w].key = req[w].key
              /\ req'[w].old = req[w].old /\ req'[w].ip = a
          BY <4>1, <5>1, <5>2
        <5> QED BY <3>1, <4>1, <4>2, <5>2, <5>3
      <4>3. CASE v # w
        <5>1. req'[v] = req[v] /\ pc'[v] = pc[v]
          BY <2>2, <4>3
        <5> QED BY <4>1, <5>1
      <4> QED BY <4>2, <4>3
    <3> QED BY <3>3, <3>4
  <2> QED BY <1>2, <2>1, <2>2 DEF Allocate
<1>3. ASSUME NEW w \in Workers, CreateInsert(w) PROVE TypeInv'
  <2>1. PICK i \in Ids \ born :
          /\ peers' = peers \cup {[id |-> i, key |-> req[w].key, ip |-> req[w].ip]}
          /\ born' = born \cup {i}
          /\ req' = [req EXCEPT ![w].id = i]
    BY <1>3 DEF CreateInsert
  <2>2. req[w].op = "create" /\ req[w].key \in issued /\ req[w].ip \in Subnet
    BY <1>3 DEF CreateInsert
  <2>3. peers' \subseteq Row
    BY <2>1, <2>2 DEF Row
  <2>4. raced' \in [Workers -> SUBSET Subnet] /\ stale' \subseteq Workers
    BY <1>3, <2>2 DEF CreateInsert, RacedBy, TableChanged, Syncing
  <2>5. req' \in [Workers -> Request]
    BY <2>1, SMTT(30)
  <2>6. TypeOK' /\ KeysSpent'
    <3>1. born' \subseteq Ids /\ spent' \subseteq issued /\ issued' = issued
      BY <1>3, <2>1, <2>2 DEF CreateInsert
    <3>2. KeysSpent'
      BY <1>3, <2>1 DEF CreateInsert
    <3> QED BY <1>3, <2>3, <2>4, <2>5, <3>1, <3>2 DEF CreateInsert
  <2>7. ASSUME NEW v \in Workers PROVE Control(v)' /\ Memory(v)'
    BY <1>3, <2>1, <2>7 DEF CreateInsert
  <2> QED BY <2>6, <2>7
<1>4. ASSUME NEW w \in Workers, CreateStamp(w) PROVE TypeInv'
  BY <1>4 DEF CreateStamp
<1>5. ASSUME NEW w \in Workers, RegenLoad(w) PROVE TypeInv'
  <2>1. PICK r \in peers, k \in Keys \ issued :
          /\ req' = [req EXCEPT ![w] = [NoReq EXCEPT !.op = "regenerate",
                       !.id = r.id, !.old = r.key, !.ip = r.ip, !.key = k]]
          /\ issued' = issued \cup {k}
    BY <1>5 DEF RegenLoad
  <2>2. r.id \in Ids /\ r.key \in spent /\ r.ip \in Subnet
    BY DEF Row
  <2>3. TypeOK' /\ KeysSpent'
    BY <1>5, <2>1, <2>2 DEF RegenLoad
  <2>4. ASSUME NEW v \in Workers PROVE Control(v)' /\ Memory(v)'
    BY <1>5, <2>1, <2>2, <2>4 DEF RegenLoad
  <2> QED BY <2>3, <2>4
<1>6. ASSUME NEW w \in Workers, RegenSave(w) PROVE TypeInv'
  BY <1>6 DEF RegenSave, TableChanged, Syncing, Row
<1>7. ASSUME NEW w \in Workers, DeleteLoad(w) PROVE TypeInv'
  <2>1. PICK r \in peers :
          req' = [req EXCEPT ![w] = [NoReq EXCEPT !.op = "delete",
                                       !.id = r.id, !.old = r.key, !.ip = r.ip]]
    BY <1>7 DEF DeleteLoad
  <2>2. r.id \in Ids /\ r.key \in spent /\ r.ip \in Subnet
    BY DEF Row
  <2>3. TypeOK' /\ KeysSpent'
    BY <1>7, <2>1, <2>2 DEF DeleteLoad
  <2>4. ASSUME NEW v \in Workers PROVE Control(v)' /\ Memory(v)'
    BY <1>7, <2>1, <2>2, <2>4 DEF DeleteLoad
  <2> QED BY <2>3, <2>4
<1>8. ASSUME NEW w \in Workers, DeleteRow(w) PROVE TypeInv'
  BY <1>8 DEF DeleteRow, TableChanged, Syncing, Row
<1>9. ASSUME NEW w \in Workers, RemovePeer(w) PROVE TypeInv'
  BY <1>9 DEF RemovePeer
<1>10. ASSUME NEW w \in Workers, SetPeer(w) PROVE TypeInv'
  BY <1>10 DEF SetPeer, Entry
<1>11. ASSUME NEW w \in Workers, BuildServerConf(w) PROVE TypeInv'
  BY <1>11 DEF BuildServerConf, ServerConf, Entries, EntryOf, Row, Entry
<1>12. ASSUME NEW w \in Workers, AtomicWrite(w) PROVE TypeInv'
  BY <1>12 DEF AtomicWrite, Syncing
<1>13. ASSUME NEW w \in Workers, SyncconfRead(w) PROVE TypeInv'
  BY <1>13 DEF SyncconfRead
<1>14. ASSUME NEW w \in Workers, SyncconfApply(w) PROVE TypeInv'
  <2>1. live' \subseteq Entry
    BY <1>14, RoutingsWithin DEF SyncconfApply, Synced
  <2>2. CASE req[w].op = "delete"
    BY <1>14, <2>1, <2>2 DEF SyncconfApply
  <2>3. CASE req[w].op # "delete"
    <3>1. /\ req' = [req EXCEPT ![w].snap = {}]
          /\ Goto(w, IF req[w].op = "create" THEN "stamp" ELSE "save")
      BY <1>14, <2>3 DEF SyncconfApply
    <3>2. TypeOK' /\ KeysSpent'
      BY <1>14, <2>1, <3>1, SMTT(30) DEF SyncconfApply
    <3>3. ASSUME NEW v \in Workers PROVE Control(v)' /\ Memory(v)'
      <4>1. CASE v = w
        BY <1>14, <2>3, <3>1, <4>1 DEF SyncconfApply
      <4>2. CASE v # w
        BY <1>14, <3>1, <4>2 DEF SyncconfApply
      <4> QED BY <4>1, <4>2
    <3> QED BY <3>2, <3>3
  <2> QED BY <2>2, <2>3
<1>15. ASSUME NEW w \in Workers, StepFails(w) PROVE TypeInv'
  <2>1. CASE req[w].op = "regenerate"
    BY <1>15, <2>1 DEF StepFails, InTry
  <2>2. CASE req[w].op # "regenerate"
    BY <1>15, <2>2 DEF StepFails, InTry
  <2> QED BY <2>1, <2>2
<1>16. ASSUME NEW w \in Workers, Abort(w) PROVE TypeInv'
  BY <1>16 DEF Abort
<1>17. ASSUME Host PROVE TypeInv'
  <2>1. live' \subseteq Entry /\ wgUp' \in BOOLEAN
    BY <1>17, RoutingsWithin DEF Host, WgDown, WgUp
  <2>2. UNCHANGED <<peers, born, spent, conf, pc, req, issued, raced, stale, rekeyed>>
    BY <1>17 DEF Host, WgDown, WgUp
  <2>3. \A v \in Workers : Control(v)' /\ Memory(v)'
    BY <2>2
  <2>4. TypeOK' /\ KeysSpent'
    BY <2>1, <2>2
  <2> QED BY <2>3, <2>4
<1>18. CASE UNCHANGED vars
  BY <1>18 DEF vars
<1> QED
  BY <1>1, <1>2, <1>3, <1>4, <1>5, <1>6, <1>7, <1>8, <1>9, <1>10, <1>11, <1>12, <1>13,
     <1>14, <1>15, <1>16, <1>17, <1>18
     DEF Next, Work, Begin, Continue, AllocatePeerIp, DumpFails

\* Every value the program keeps has its type, in every interleaving and after
\* every fault: in particular only addresses of the subnet are ever stored,
\* written to the conf file or routed (services.py:151).
THEOREM TypeCorrect == Spec => []TypeOK
<1>1. TypeInv => TypeOK
  BY DEF TypeInv
<1> QED BY <1>1, InitType, TypeStep, PTL DEF Spec

-----------------------------------------------------------------------------
(***************************************************************************)
(* Address allocation. What a worker has read from the table and what      *)
(* others have inserted since then cover the table.                        *)
(***************************************************************************)
Covered(w) ==
  /\ pc[w] = "alloc" => DbIps \subseteq req[w].used \cup raced[w]
  /\ pc[w] = "insert" => req[w].ip \in raced[w] \/ req[w].ip \notin DbIps

RaceInv == \A w \in Workers : Covered(w)

LEMMA InitRace == Init => RaceInv
  BY DEF Init, RaceInv, Covered

\* A step that adds no address to the table, and brings no worker to the
\* allocation, keeps the cover.
LEMMA CoverKept ==
  ASSUME NEW v \in Workers, Covered(v), DbIps' \subseteq DbIps,
         pc'[v] \in {"alloc", "insert"} =>
           pc'[v] = pc[v] /\ req'[v] = req[v] /\ raced'[v] = raced[v]
  PROVE  Covered(v)'
  BY DEF Covered

LEMMA RaceStep == TypeInv /\ RaceInv /\ [Next]_vars => RaceInv'
<1> SUFFICES ASSUME TypeInv, RaceInv, [Next]_vars, NEW v \in Workers PROVE Covered(v)'
  BY DEF RaceInv
<1> USE DEF TypeInv, TypeOK, Goto, Finish, dbVars, wgVars, histVars
<1>0. Covered(v) /\ Control(v)
  BY DEF RaceInv
<1>1. ASSUME NEW w \in Workers, CreateLoad(w) PROVE Covered(v)'
  <2>1. peers' = peers /\ raced' = raced
    BY <1>1 DEF CreateLoad
  <2>2. CASE v = w
    <3>1. pc'[v] = "alloc" /\ req'[v].used = DbIps
      BY <1>1, <2>2 DEF CreateLoad, NoReq
    <3> QED BY <2>1, <3>1 DEF Covered, DbIps
  <2>3. CASE v # w
    BY <1>0, <1>1, <2>1, <2>3, CoverKept DEF CreateLoad, DbIps
  <2> QED BY <2>2, <2>3
<1>2. ASSUME NEW w \in Workers, NEW dump, Allocate(w, dump) PROVE Covered(v)'
  <2>1. peers' = peers
    BY <1>2 DEF Allocate
  <2>2. CASE v # w
    BY <1>0, <1>2, <2>1, <2>2, CoverKept DEF Allocate, DbIps
  <2>3. CASE v = w
    <3>1. CASE Finish(w)
      BY <2>3, <3>1 DEF Covered
    <3>2. ASSUME NEW a \in Accepted(w, Taken(w, dump)),
                 req' = [req EXCEPT ![w] = [@ EXCEPT !.ip = a, !.used = {}]],
                 Goto(w, "insert"), raced' = raced
          PROVE Covered(v)'
      <4>1. a \notin req[w].used
        BY DEF Accepted, LowestFree, Taken
      <4>2. req'[w].ip = a /\ pc'[w] = "insert"
        <5>1. req[w] \in Request
          OBVIOUS
        <5> QED BY <3>2, <5>1 DEF Request
      <4>3. a \in DbIps => a \in raced[w]
        BY <1>0, <1>2, <2>3, <4>1 DEF Covered, Allocate
      <4> QED BY <2>1, <2>3, <3>2, <4>2, <4>3 DEF Covered, DbIps
    <3> QED BY <1>2, <3>1, <3>2 DEF Allocate
  <2> QED BY <2>2, <2>3
<1>3. ASSUME NEW w \in Workers, CreateInsert(w) PROVE Covered(v)'
  <2>1. CASE v = w
    BY <1>3, <2>1 DEF CreateInsert, Covered
  <2>2. CASE v # w
    <3>1. pc'[v] = pc[v] /\ req'[v] = req[v]
      BY <1>3, <2>2 DEF CreateInsert
    <3>2. DbIps' \subseteq DbIps \cup {req[w].ip}
      BY <1>3 DEF CreateInsert, DbIps
    <3>3. pc[v] \in {"alloc", "insert"} => raced'[v] = raced[v] \cup {req[w].ip}
      BY <1>3, <2>2 DEF CreateInsert, RacedBy
    <3> QED BY <1>0, <3>1, <3>2, <3>3 DEF Covered
  <2> QED BY <2>1, <2>2
<1>4. ASSUME NEW w \in Workers, RegenSave(w) PROVE Covered(v)'
  <2>1. DbIps' \subseteq DbIps
    BY <1>4 DEF RegenSave, DbIps, Row
  <2> QED BY <1>0, <1>4, <2>1, CoverKept DEF RegenSave
<1>5. ASSUME NEW w \in Workers, DeleteRow(w) PROVE Covered(v)'
  <2>1. DbIps' \subseteq DbIps
    BY <1>5 DEF DeleteRow, DbIps
  <2> QED BY <1>0, <1>5, <2>1, CoverKept DEF DeleteRow
<1>6. ASSUME NEW w \in Workers, Abort(w) PROVE Covered(v)'
  BY <1>0, <1>6, CoverKept DEF Abort, DbIps
<1>7. ASSUME NEW w \in Workers, CreateStamp(w) \/ StepFails(w) PROVE Covered(v)'
  BY <1>0, <1>7, CoverKept DEF CreateStamp, StepFails, DbIps
<1>8. ASSUME NEW w \in Workers, RegenLoad(w) \/ DeleteLoad(w) PROVE Covered(v)'
  BY <1>0, <1>8, CoverKept DEF RegenLoad, DeleteLoad, DbIps
<1>9. ASSUME NEW w \in Workers, RemovePeer(w) \/ SetPeer(w) PROVE Covered(v)'
  BY <1>0, <1>9, CoverKept DEF RemovePeer, SetPeer, DbIps
<1>10. ASSUME NEW w \in Workers, BuildServerConf(w) \/ AtomicWrite(w) \/ SyncconfRead(w)
       PROVE Covered(v)'
  BY <1>0, <1>10, CoverKept DEF BuildServerConf, AtomicWrite, SyncconfRead, DbIps
<1>11. ASSUME NEW w \in Workers, SyncconfApply(w) PROVE Covered(v)'
  BY <1>0, <1>11, CoverKept DEF SyncconfApply, DbIps
<1>12. CASE Host
  BY <1>0, <1>12, CoverKept DEF Host, WgDown, WgUp, DbIps
<1>13. CASE UNCHANGED vars
  BY <1>0, <1>13, CoverKept DEF vars, DbIps
<1> QED
  BY <1>1, <1>2, <1>3, <1>4, <1>5, <1>6, <1>7, <1>8, <1>9, <1>10, <1>11, <1>12, <1>13
     DEF Next, Work, Begin, Continue, AllocatePeerIp, DumpFails

\* An address is inserted twice only if the other row was inserted between
\* this request's read of the table and its insert (services.py:133-195).
THEOREM RaceGuarded == Spec => []DuplicateOnlyByRace
<1>1. RaceInv => DuplicateOnlyByRace
  BY DEF RaceInv, Covered, DuplicateOnlyByRace
<1> QED BY <1>1, InitType, TypeStep, InitRace, RaceStep, PTL DEF Spec

-----------------------------------------------------------------------------
(***************************************************************************)
(* One worker is never raced, so it never stores an address twice.         *)
(***************************************************************************)
OneWorker == \A v, w \in Workers : v = w

SoloInv == OneWorker => UniqueIps /\ \A w \in Workers : raced[w] = {}

LEMMA InitSolo == Init => SoloInv
  BY DEF Init, SoloInv, UniqueIps

LEMMA SoloStep == TypeInv /\ RaceInv /\ SoloInv /\ [Next]_vars => SoloInv'
<1> SUFFICES ASSUME TypeInv, RaceInv, SoloInv, [Next]_vars, OneWorker
             PROVE  UniqueIps' /\ \A w \in Workers : raced'[w] = {}
  BY DEF SoloInv
<1> USE DEF TypeInv, TypeOK, dbVars, wgVars, histVars
<1>0. UniqueIps /\ \A w \in Workers : raced[w] = {}
  BY DEF SoloInv
<1>1. ASSUME NEW w \in Workers, CreateInsert(w)
      PROVE  UniqueIps' /\ \A v \in Workers : raced'[v] = {}
  <2>1. req[w].ip \notin DbIps
    BY <1>0, <1>1 DEF RaceInv, Covered, CreateInsert
  <2>2. PICK i \in Ids :
          peers' = peers \cup {[id |-> i, key |-> req[w].key, ip |-> req[w].ip]}
    BY <1>1 DEF CreateInsert
  <2>3. UniqueIps'
    BY <1>0, <2>1, <2>2 DEF UniqueIps, DbIps
  <2>4. \A v \in Workers : raced'[v] = {}
    BY <1>1 DEF CreateInsert, RacedBy, OneWorker
  <2> QED BY <2>3, <2>4
<1>2. ASSUME NEW w \in Workers, RegenSave(w)
      PROVE  UniqueIps' /\ \A v \in Workers : raced'[v] = {}
  <2>1. UniqueIps'
    BY <1>0, <1>2 DEF RegenSave, UniqueIps, Row
  <2> QED BY <1>0, <1>2, <2>1 DEF RegenSave
<1>3. ASSUME NEW w \in Workers, DeleteRow(w)
      PROVE  UniqueIps' /\ \A v \in Workers : raced'[v] = {}
  BY <1>0, <1>3 DEF DeleteRow, UniqueIps
<1>4. ASSUME NEW w \in Workers, NEW dump, Allocate(w, dump) \/ Abort(w)
      PROVE  UniqueIps' /\ \A v \in Workers : raced'[v] = {}
  BY <1>0, <1>4 DEF Allocate, Abort, UniqueIps
<1>5. CASE UNCHANGED <<peers, raced>>
  BY <1>0, <1>5 DEF UniqueIps
<1>6. ASSUME NEW w \in Workers,
             CreateLoad(w) \/ RegenLoad(w) \/ DeleteLoad(w) \/ CreateStamp(w) \/ StepFails(w)
      PROVE  UNCHANGED <<peers, raced>>
  BY <1>6 DEF CreateLoad, RegenLoad, DeleteLoad, CreateStamp, StepFails
<1>7. ASSUME NEW w \in Workers,
             \/ RemovePeer(w) \/ SetPeer(w) \/ BuildServerConf(w) \/ AtomicWrite(w)
             \/ SyncconfRead(w) \/ SyncconfApply(w)
      PROVE  UNCHANGED <<peers, raced>>
  BY <1>7 DEF RemovePeer, SetPeer, BuildServerConf, AtomicWrite, SyncconfRead, SyncconfApply
<1>8. CASE Host \/ UNCHANGED vars
  BY <1>5, <1>8 DEF Host, WgDown, WgUp, vars
<1> QED
  BY <1>1, <1>2, <1>3, <1>4, <1>5, <1>6, <1>7, <1>8
     DEF Next, Work, Begin, Continue, AllocatePeerIp, DumpFails

\* With a single worker no two peers ever have the same address, whatever
\* fails: it is the concurrency of the workers alone (docker-entrypoint.sh:
\* --workers) that breaks the promise of services.py:119-120.
THEOREM UniqueIpsAlone == Spec => [](OneWorker => UniqueIps)
<1>1. SoloInv => (OneWorker => UniqueIps)
  BY DEF SoloInv
<1> QED BY <1>1, InitType, TypeStep, InitRace, RaceStep, InitSolo, SoloStep, PTL DEF Spec

-----------------------------------------------------------------------------
(***************************************************************************)
(* The table. A key a request has generated and not yet stored is new to   *)
(* the table and no other request's; a loaded row's id keeps its address.  *)
(***************************************************************************)
Registered ==
  /\ \A r, s \in peers : r.id = s.id \/ r.key = s.key => r = s
  /\ \A r \in peers : r.id \in born /\ r.key \in spent

OwnKey(w) ==
  /\ \A v \in Workers \ {w} : req[w].key # NoKey => req[v].key # req[w].key
  /\ pc[w] \in {"alloc", "insert"} \/ req[w].op = "regenerate" => req[w].key \notin spent

LoadedRow(w) ==
  /\ req[w].id # NoId => /\ req[w].id \in born
                         /\ \A r \in peers : r.id = req[w].id => r.ip = req[w].ip
  /\ pc[w] = "alloc" => req[w].id = NoId

KeyInv == Registered /\ \A w \in Workers : OwnKey(w)

RegistryInv == KeyInv /\ \A w \in Workers : LoadedRow(w)

LEMMA InitRegistryInv == Init => RegistryInv
  BY DEF Init, RegistryInv, KeyInv, Registered, OwnKey, LoadedRow, NoReq

\* What most steps leave of a request: nothing, or its key.
KeepsKey(w) ==
  \/ req'[w] = NoReq /\ pc'[w] = "idle"
  \/ /\ req'[w].op = req[w].op /\ req'[w].key = req[w].key
     /\ pc'[w] = "alloc" => pc[w] = "alloc"
     /\ pc'[w] = "insert" => pc[w] \in {"alloc", "insert"}

LEMMA OwnKeyKept ==
  ASSUME KeyInv, spent' = spent, \A w \in Workers : KeepsKey(w)
  PROVE  \A w \in Workers : OwnKey(w)'
<1> USE DEF KeyInv, KeepsKey
<1> TAKE w \in Workers
<1>1. \A v \in Workers : req'[v].key \in {NoKey, req[v].key}
  BY DEF NoReq
<1>2. req'[w].key # NoKey => \A v \in Workers \ {w} : req'[v].key # req'[w].key
  BY <1>1 DEF OwnKey
<1>3. pc'[w] \in {"alloc", "insert"} \/ req'[w].op = "regenerate" => req'[w].key \notin spent'
  BY DEF OwnKey, NoReq
<1> QED BY <1>2, <1>3 DEF OwnKey

LEMMA KeyKept ==
  ASSUME KeyInv, UNCHANGED dbVars, \A w \in Workers : KeepsKey(w) PROVE KeyInv'
<1>1. Registered'
  BY DEF KeyInv, Registered, dbVars
<1> QED BY <1>1, OwnKeyKept DEF KeyInv, dbVars

LEMMA KeyStep == TypeInv /\ KeyInv /\ [Next]_vars => KeyInv'
<1> SUFFICES ASSUME TypeInv, KeyInv, [Next]_vars PROVE KeyInv'
  OBVIOUS
<1> USE DEF Goto, Finish, dbVars, wgVars, histVars
<1>a. /\ req \in [Workers -> Request] /\ pc \in [Workers -> Labels]
      /\ spent \subseteq issued /\ issued \subseteq Keys
      /\ peers \subseteq Row
  BY DEF TypeInv, TypeOK
<1>b. \A v \in Workers : req[v] \in Request /\ Control(v) /\ Memory(v)
  BY <1>a DEF TypeInv
<1>c. Registered /\ \A v \in Workers : OwnKey(v)
  BY DEF KeyInv
<1>1. ASSUME NEW w \in Workers, CreateLoad(w) PROVE KeyInv'
  <2>1. PICK k \in Keys \ issued : req'[w].key = k /\ req'[w].op = "create"
    BY <1>1, <1>a DEF CreateLoad, NoReq
  <2>2. \A v \in Workers \ {w} : req'[v] = req[v] /\ pc'[v] = pc[v]
    BY <1>1, <1>a DEF CreateLoad
  <2>3. UNCHANGED dbVars
    BY <1>1 DEF CreateLoad
  <2>4. \A v \in Workers : req[v].key # k
    BY <1>b, NullAssumption DEF Memory
  <2>5. ASSUME NEW v \in Workers PROVE OwnKey(v)'
    BY <1>a, <1>c, <2>1, <2>2, <2>3, <2>4 DEF OwnKey
  <2> QED BY <1>c, <2>3, <2>5 DEF KeyInv, Registered
<1>2. ASSUME NEW w \in Workers, NEW dump, Allocate(w, dump) PROVE KeyInv'
  <2>1. UNCHANGED dbVars /\ \A v \in Workers \ {w} : KeepsKey(v)
    BY <1>2, <1>a DEF Allocate, KeepsKey
  <2>2. CASE Finish(w)
    BY <1>a, <2>1, <2>2, KeyKept DEF KeepsKey
  <2>3. ASSUME NEW a, req' = [req EXCEPT ![w] = [@ EXCEPT !.ip = a, !.used = {}]],
               Goto(w, "insert")
        PROVE  KeepsKey(w)
    <3>1. req'[w].op = req[w].op /\ req'[w].key = req[w].key /\ pc'[w] = "insert"
      BY <1>a, <1>b, <2>3 DEF Request
    <3>2. pc[w] = "alloc"
      BY <1>2 DEF Allocate
    <3> QED BY <3>1, <3>2 DEF KeepsKey
  <2> QED BY <1>2, <2>1, <2>2, <2>3, KeyKept DEF Allocate
<1>3. ASSUME NEW w \in Workers, CreateInsert(w) PROVE KeyInv'
  <2>1. PICK i \in Ids \ born :
          /\ peers' = peers \cup {[id |-> i, key |-> req[w].key, ip |-> req[w].ip]}
          /\ born' = born \cup {i}
          /\ req' = [req EXCEPT ![w].id = i]
    BY <1>3 DEF CreateInsert
  <2>2. /\ spent' = spent \cup {req[w].key} /\ pc' = [pc EXCEPT ![w] = "set"]
        /\ pc[w] = "insert"
    BY <1>3 DEF CreateInsert
  <2>3. req[w].op = "create" /\ req[w].key # NoKey /\ req[w].key \notin spent
    <3>1. req[w].op \in {"none", "create", "regenerate", "delete"}
      BY <1>b DEF Request
    <3>2. req[w].op = "create"
      BY <1>b, <2>2, <3>1 DEF Control, SyncLabels
    <3>3. req[w].key \in issued
      BY <1>b, <3>2 DEF Memory
    <3> QED BY <1>a, <1>c, <2>2, <3>2, <3>3, NullAssumption DEF OwnKey
  <2>4. Registered'
    BY <1>c, <2>1, <2>2, <2>3 DEF Registered
  <2>5. req'[w].key = req[w].key /\ req'[w].op = req[w].op /\ pc'[w] = "set"
    BY <1>a, <1>b, <2>1, <2>2 DEF Request
  <2>6. \A v \in Workers \ {w} : req'[v] = req[v] /\ pc'[v] = pc[v]
    BY <1>a, <2>1, <2>2
  <2>7. ASSUME NEW v \in Workers PROVE OwnKey(v)'
    BY <1>c, <2>2, <2>3, <2>5, <2>6 DEF OwnKey
  <2> QED BY <2>4, <2>7 DEF KeyInv
<1>4. ASSUME NEW w \in Workers, CreateStamp(w) \/ Abort(w) PROVE KeyInv'
  BY <1>4, <1>a, KeyKept DEF CreateStamp, Abort, KeepsKey
<1>5. ASSUME NEW w \in Workers, RegenLoad(w) PROVE KeyInv'
  <2>1. PICK r \in peers, k \in Keys \ issued :
          req' = [req EXCEPT ![w] = [NoReq EXCEPT !.op = "regenerate",
                    !.id = r.id, !.old = r.key, !.ip = r.ip, !.key = k]]
    BY <1>5 DEF RegenLoad
  <2>2. req'[w].key = k
    BY <1>a, <2>1 DEF NoReq
  <2>3. /\ UNCHANGED dbVars /\ pc'[w] = "remove"
        /\ \A v \in Workers \ {w} : req'[v] = req[v] /\ pc'[v] = pc[v]
    BY <1>5, <1>a, <2>1 DEF RegenLoad
  <2>4. \A v \in Workers : req[v].key # k
    BY <1>b, NullAssumption DEF Memory
  <2>5. ASSUME NEW v \in Workers PROVE OwnKey(v)'
    BY <1>a, <1>c, <2>2, <2>3, <2>4 DEF OwnKey
  <2> QED BY <1>c, <2>3, <2>5 DEF KeyInv, Registered
<1>6. ASSUME NEW w \in Workers, RegenSave(w) PROVE KeyInv'
  <2>1. /\ req' = [req EXCEPT ![w] = NoReq] /\ pc' = [pc EXCEPT ![w] = "idle"]
        /\ born' = born /\ pc[w] = "save"
    BY <1>6 DEF RegenSave
  <2>2. CASE UNCHANGED <<peers, spent>>
    <3>1. \A v \in Workers : KeepsKey(v)
      BY <1>a, <2>1 DEF KeepsKey
    <3> QED BY <2>1, <2>2, <3>1, KeyKept
  <2>3. ASSUME NEW r \in peers, r.id = req[w].id,
               peers' = (peers \ {r}) \cup {[r EXCEPT !.key = req[w].key]},
               spent' = spent \cup {req[w].key}
        PROVE  KeyInv'
    <3>1. PICK s : s = [r EXCEPT !.key = req[w].key]
      OBVIOUS
    <3>2. r \in Row /\ req[w].key # NoKey /\ req[w].key \notin spent
      <4>1. req[w].op \in {"none", "create", "regenerate", "delete"}
        BY <1>b DEF Request
      <4>2. req[w].op = "regenerate"
        BY <1>b, <2>1, <4>1 DEF Control, SyncLabels
      <4>3. req[w].key \in issued
        BY <1>b, <4>2 DEF Memory
      <4> QED BY <1>a, <1>c, <4>2, <4>3, NullAssumption DEF OwnKey
    <3>3. s.id = r.id /\ s.key = req[w].key
      BY <3>1, <3>2 DEF Row
    <3>4. peers' = (peers \ {r}) \cup {s}
      BY <2>3, <3>1
    <3>5. Registered'
      BY <1>c, <2>1, <2>3, <3>2, <3>3, <3>4 DEF Registered
    <3>6. \A v \in Workers \ {w} : req'[v] = req[v] /\ pc'[v] = pc[v]
      BY <1>a, <2>1
    <3>7. req'[w].key = NoKey /\ req'[w].op = "none" /\ pc'[w] = "idle"
      BY <1>a, <2>1 DEF NoReq
    <3>8. ASSUME NEW v \in Workers PROVE OwnKey(v)'
      BY <1>c, <2>3, <3>2, <3>6, <3>7 DEF OwnKey
    <3> QED BY <3>5, <3>8 DEF KeyInv
  <2> QED BY <1>6, <2>2, <2>3 DEF RegenSave
<1>7. ASSUME NEW w \in Workers, DeleteLoad(w) PROVE KeyInv'
  <2>1. PICK r \in peers :
          req' = [req EXCEPT ![w] = [NoReq EXCEPT !.op = "delete",
                                       !.id = r.id, !.old = r.key, !.ip = r.ip]]
    BY <1>7 DEF DeleteLoad
  <2>2. req'[w].key = NoKey /\ req'[w].op = "delete"
    BY <1>a, <2>1 DEF NoReq
  <2>3. /\ UNCHANGED dbVars /\ pc'[w] = "drop"
        /\ \A v \in Workers \ {w} : req'[v] = req[v] /\ pc'[v] = pc[v]
    BY <1>7, <1>a, <2>1 DEF DeleteLoad
  <2>4. ASSUME NEW v \in Workers PROVE OwnKey(v)'
    BY <1>c, <2>2, <2>3 DEF OwnKey
  <2> QED BY <1>c, <2>3, <2>4 DEF KeyInv, Registered
<1>8. ASSUME NEW w \in Workers, DeleteRow(w) PROVE KeyInv'
  BY <1>8, <1>a, <1>c DEF DeleteRow, KeyInv, Registered, OwnKey
<1>9. ASSUME NEW w \in Workers, RemovePeer(w) \/ SetPeer(w) PROVE KeyInv'
  BY <1>9, <1>a, KeyKept DEF RemovePeer, SetPeer, KeepsKey
<1>10. ASSUME NEW w \in Workers, BuildServerConf(w) \/ AtomicWrite(w) \/ SyncconfRead(w)
       PROVE KeyInv'
  <2>1. \A v \in Workers : KeepsKey(v)
    BY <1>10, <1>a, <1>b DEF BuildServerConf, AtomicWrite, SyncconfRead, KeepsKey, Request
  <2> QED BY <1>10, <2>1, KeyKept DEF BuildServerConf, AtomicWrite, SyncconfRead
<1>11. ASSUME NEW w \in Workers, SyncconfApply(w) \/ StepFails(w) PROVE KeyInv'
  <2>1. CASE SyncconfApply(w)
    <3>1. \A v \in Workers : KeepsKey(v)
      BY <2>1, <1>a, <1>b DEF SyncconfApply, KeepsKey, Request
    <3> QED BY <2>1, <3>1, KeyKept DEF SyncconfApply
  <2>2. CASE StepFails(w)
    <3>1. \A v \in Workers : KeepsKey(v)
      BY <2>2, <1>a, <1>b DEF StepFails, KeepsKey, Request
    <3> QED BY <2>2, <3>1, KeyKept DEF StepFails
  <2> QED BY <1>11, <2>1, <2>2
<1>12. CASE Host \/ UNCHANGED vars
  BY <1>12, KeyKept DEF Host, WgDown, WgUp, vars, KeepsKey
<1> QED
  BY <1>1, <1>2, <1>3, <1>4, <1>5, <1>6, <1>7, <1>8, <1>9, <1>10, <1>11, <1>12
     DEF Next, Work, Begin, Continue, AllocatePeerIp, DumpFails

\* And of the row it has loaded.
KeepsRow(w) ==
  \/ req'[w] = NoReq /\ pc'[w] = "idle"
  \/ /\ req'[w].id = req[w].id
     /\ req[w].id # NoId => req'[w].ip = req[w].ip
     /\ pc'[w] = "alloc" => pc[w] = "alloc"

LEMMA LoadedKept ==
  ASSUME UNCHANGED <<peers, born>>, NEW w \in Workers, LoadedRow(w), KeepsRow(w)
  PROVE  LoadedRow(w)'
  BY DEF KeepsRow, LoadedRow, NoReq

LEMMA LoadedStep ==
  TypeInv /\ RegistryInv /\ [Next]_vars => \A w \in Workers : LoadedRow(w)'
<1> SUFFICES ASSUME TypeInv, RegistryInv, [Next]_vars PROVE \A v \in Workers : LoadedRow(v)'
  OBVIOUS
<1> USE DEF Goto, Finish, dbVars, wgVars, histVars
<1>a. req \in [Workers -> Request] /\ pc \in [Workers -> Labels] /\ peers \subseteq Row
  BY DEF TypeInv, TypeOK
<1>b. \A v \in Workers : req[v] \in Request
  BY <1>a
<1>c. Registered /\ \A v \in Workers : LoadedRow(v)
  BY DEF RegistryInv, KeyInv
<1>1. ASSUME NEW w \in Workers, CreateLoad(w) PROVE \A v \in Workers : LoadedRow(v)'
  <2>1. UNCHANGED dbVars /\ \A v \in Workers \ {w} : KeepsRow(v)
    BY <1>1, <1>a DEF CreateLoad, KeepsRow
  <2>2. req'[w].id = NoId
    BY <1>1, <1>a DEF CreateLoad, NoReq
  <2> QED BY <1>c, <2>1, <2>2, LoadedKept DEF LoadedRow
<1>2. ASSUME NEW w \in Workers, NEW dump, Allocate(w, dump)
      PROVE  \A v \in Workers : LoadedRow(v)'
  <2>1. UNCHANGED dbVars /\ \A v \in Workers \ {w} : KeepsRow(v)
    BY <1>2, <1>a DEF Allocate, KeepsRow
  <2>2. CASE Finish(w)
    BY <1>a, <1>c, <2>1, <2>2, LoadedKept DEF KeepsRow
  <2>3. ASSUME NEW a, req' = [req EXCEPT ![w] = [@ EXCEPT !.ip = a, !.used = {}]],
               Goto(w, "insert")
        PROVE  KeepsRow(w)
    <3>1. req'[w].id = req[w].id /\ pc'[w] = "insert"
      BY <1>a, <1>b, <2>3 DEF Request
    <3>2. pc[w] = "alloc" /\ req[w].id = NoId
      BY <1>2, <1>c DEF Allocate, LoadedRow
    <3> QED BY <3>1, <3>2 DEF KeepsRow
  <2> QED BY <1>2, <1>c, <2>1, <2>2, <2>3, LoadedKept DEF Allocate
<1>3. ASSUME NEW w \in Workers, CreateInsert(w) PROVE \A v \in Workers : LoadedRow(v)'
  <2>1. PICK i \in Ids \ born :
          /\ peers' = peers \cup {[id |-> i, key |-> req[w].key, ip |-> req[w].ip]}
          /\ born' = born \cup {i}
          /\ req' = [req EXCEPT ![w].id = i]
    BY <1>3 DEF CreateInsert
  <2>2. req'[w].id = i /\ req'[w].ip = req[w].ip /\ pc'[w] = "set"
    BY <1>3, <1>a, <1>b, <2>1 DEF CreateInsert, Request
  <2>3. \A v \in Workers \ {w} : req'[v] = req[v] /\ pc'[v] = pc[v]
    BY <1>3, <1>a, <2>1 DEF CreateInsert
  <2> QED BY <1>c, <2>1, <2>2, <2>3 DEF LoadedRow, Registered
<1>4. ASSUME NEW w \in Workers, CreateStamp(w) \/ Abort(w)
      PROVE  \A v \in Workers : LoadedRow(v)'
  BY <1>4, <1>a, <1>c, LoadedKept DEF CreateStamp, Abort, KeepsRow
<1>5. ASSUME NEW w \in Workers, RegenLoad(w) \/ DeleteLoad(w)
      PROVE  \A v \in Workers : LoadedRow(v)'
  <2>1. UNCHANGED dbVars /\ \A v \in Workers \ {w} : KeepsRow(v)
    BY <1>5, <1>a DEF RegenLoad, DeleteLoad, KeepsRow
  <2>2. RegenLoad(w) => \E r \in peers : req'[w].id = r.id /\ req'[w].ip = r.ip
    BY <1>a DEF RegenLoad, NoReq
  <2>3. DeleteLoad(w) => \E r \in peers : req'[w].id = r.id /\ req'[w].ip = r.ip
    BY <1>a DEF DeleteLoad, NoReq
  <2>4. pc'[w] # "alloc"
    BY <1>5, <1>a DEF RegenLoad, DeleteLoad
  <2>5. LoadedRow(w)'
    BY <1>5, <1>c, <2>1, <2>2, <2>3, <2>4 DEF LoadedRow, Registered
  <2> QED BY <1>c, <2>1, <2>5, LoadedKept
<1>6. ASSUME NEW w \in Workers, RegenSave(w) PROVE \A v \in Workers : LoadedRow(v)'
  <2>1. born' = born /\ \A v \in Workers : KeepsRow(v)
    BY <1>6, <1>a DEF RegenSave, KeepsRow
  <2>2. CASE peers' = peers
    BY <1>c, <2>1, <2>2, LoadedKept
  <2>3. ASSUME NEW r \in peers, peers' = (peers \ {r}) \cup {[r EXCEPT !.key = req[w].key]}
        PROVE  \A v \in Workers : LoadedRow(v)'
    <3>1. PICK s : s = [r EXCEPT !.key = req[w].key]
      OBVIOUS
    <3>2. s.id = r.id /\ s.ip = r.ip
      BY <1>a, <3>1 DEF Row
    <3>3. peers' = (peers \ {r}) \cup {s}
      BY <2>3, <3>1
    <3> QED BY <1>c, <2>1, <3>2, <3>3 DEF LoadedRow, KeepsRow, NoReq
  <2> QED BY <1>6, <2>2, <2>3 DEF RegenSave
<1>7. ASSUME NEW w \in Workers, DeleteRow(w) PROVE \A v \in Workers : LoadedRow(v)'
  BY <1>7, <1>a, <1>c DEF DeleteRow, LoadedRow
<1>8. ASSUME NEW w \in Workers,
             \/ RemovePeer(w) \/ SetPeer(w) \/ BuildServerConf(w) \/ AtomicWrite(w)
             \/ SyncconfRead(w)
      PROVE  \A v \in Workers : LoadedRow(v)'
  <2>1. \A v \in Workers : KeepsRow(v)
    BY <1>8, <1>a, <1>b DEF RemovePeer, SetPeer, BuildServerConf, AtomicWrite, SyncconfRead,
       KeepsRow, Request
  <2>2. UNCHANGED dbVars
    BY <1>8 DEF RemovePeer, SetPeer, BuildServerConf, AtomicWrite, SyncconfRead
  <2> QED BY <1>c, <2>1, <2>2, LoadedKept
<1>9. ASSUME NEW w \in Workers, SyncconfApply(w) \/ StepFails(w)
      PROVE  \A v \in Workers : LoadedRow(v)'
  <2>1. SyncconfApply(w) => \A v \in Workers : KeepsRow(v)
    BY <1>a, <1>b DEF SyncconfApply, KeepsRow, Request
  <2>2. StepFails(w) => \A v \in Workers : KeepsRow(v)
    BY <1>a, <1>b DEF StepFails, KeepsRow, Request
  <2>3. UNCHANGED dbVars
    BY <1>9 DEF SyncconfApply, StepFails
  <2> QED BY <1>9, <1>c, <2>1, <2>2, <2>3, LoadedKept
<1>10. CASE Host \/ UNCHANGED vars
  BY <1>10, <1>c, LoadedKept DEF Host, WgDown, WgUp, vars, KeepsRow
<1> QED
  BY <1>1, <1>2, <1>3, <1>4, <1>5, <1>6, <1>7, <1>8, <1>9, <1>10
     DEF Next, Work, Begin, Continue, AllocatePeerIp, DumpFails

LEMMA RegistryStep == TypeInv /\ RegistryInv /\ [Next]_vars => RegistryInv'
  BY KeyStep, LoadedStep DEF RegistryInv

\* The table identifies its rows by id and by key, and holds nothing that was
\* not inserted: a save of a row that another request deleted or re-keyed
\* meanwhile neither brings the row back nor splits it (services.py:214-218, 264).
THEOREM RowsStayIdentified == Spec => []Registry!RowsIdentified
<1>1. RegistryInv => Registry!RowsIdentified
  BY DEF RegistryInv, KeyInv, Registered, Registry!RowsIdentified
<1> QED BY <1>1, InitType, TypeStep, InitRegistryInv, RegistryStep, PTL DEF Spec

LEMMA RegistryNext ==
  TypeInv /\ KeyInv /\ [Next]_vars => [Registry!Next]_Registry!vars
<1> SUFFICES ASSUME TypeInv, KeyInv, [Next]_vars PROVE [Registry!Next]_Registry!vars
  OBVIOUS
<1> USE DEF Goto, Finish, dbVars, wgVars, histVars
<1>a. req \in [Workers -> Request] /\ peers \subseteq Row /\ spent \subseteq issued /\ issued \subseteq Keys
  BY DEF TypeInv, TypeOK
<1>b. \A v \in Workers : req[v] \in Request /\ Control(v) /\ Memory(v) /\ OwnKey(v)
  BY <1>a DEF TypeInv, KeyInv
<1>1. ASSUME NEW w \in Workers, CreateInsert(w) PROVE Registry!Add
  <2>1. PICK i \in Ids \ born :
          /\ peers' = peers \cup {[id |-> i, key |-> req[w].key, ip |-> req[w].ip]}
          /\ born' = born \cup {i}
    BY <1>1 DEF CreateInsert
  <2>2. pc[w] = "insert" /\ spent' = spent \cup {req[w].key}
    BY <1>1 DEF CreateInsert
  <2>3. req[w].op = "create"
    BY <1>b, <2>2 DEF Control, Request, SyncLabels
  <2>4. req[w].key \in Keys \ spent /\ req[w].ip \in Subnet
    BY <1>a, <1>b, <2>2, <2>3 DEF Memory, OwnKey
  <2>5. PICK r : r = [id |-> i, key |-> req[w].key, ip |-> req[w].ip]
    OBVIOUS
  <2>6. r \in Registry!Row /\ r.id = i /\ r.key = req[w].key
    BY <2>4, <2>5 DEF Registry!Row
  <2> QED BY <2>1, <2>2, <2>4, <2>5, <2>6 DEF Registry!Add
<1>2. ASSUME NEW w \in Workers, RegenSave(w) PROVE Registry!Rekey \/ UNCHANGED Registry!vars
  <2>1. born' = born /\ pc[w] = "save"
    BY <1>2 DEF RegenSave
  <2>2. CASE UNCHANGED <<peers, spent>>
    BY <2>1, <2>2 DEF Registry!vars
  <2>3. ASSUME NEW r \in peers, r.id = req[w].id,
               peers' = (peers \ {r}) \cup {[r EXCEPT !.key = req[w].key]},
               spent' = spent \cup {req[w].key}
        PROVE  Registry!Rekey
    <3>1. req[w].op = "regenerate"
      BY <1>b, <2>1 DEF Control, Request, SyncLabels
    <3>2. req[w].key \in Keys \ spent
      BY <1>a, <1>b, <3>1 DEF Memory, OwnKey
    <3> QED BY <2>1, <2>3, <3>2 DEF Registry!Rekey
  <2> QED BY <1>2, <2>2, <2>3 DEF RegenSave
<1>3. ASSUME NEW w \in Workers, DeleteRow(w) PROVE Registry!Drop \/ UNCHANGED Registry!vars
  <2>1. peers' = {r \in peers : r.id # req[w].id} /\ UNCHANGED <<born, spent>>
    BY <1>3 DEF DeleteRow
  <2>2. CASE \A r \in peers : r.id # req[w].id
    BY <2>1, <2>2 DEF Registry!vars
  <2>3. ASSUME NEW r \in peers, r.id = req[w].id PROVE Registry!Drop
    <3>1. peers' = peers \ {r}
      BY <2>1, <2>3 DEF KeyInv, Registered
    <3> QED BY <2>1, <3>1 DEF Registry!Drop
  <2> QED BY <2>2, <2>3
<1>4. CASE UNCHANGED dbVars
  BY <1>4 DEF Registry!vars
<1>5. ASSUME NEW w \in Workers, NEW dump,
             \/ CreateLoad(w) \/ RegenLoad(w) \/ DeleteLoad(w) \/ Allocate(w, dump)
             \/ CreateStamp(w) \/ StepFails(w) \/ Abort(w)
      PROVE  UNCHANGED dbVars
  BY <1>5 DEF CreateLoad, RegenLoad, DeleteLoad, Allocate, CreateStamp, StepFails, Abort
<1>6. ASSUME NEW w \in Workers,
             \/ RemovePeer(w) \/ SetPeer(w) \/ BuildServerConf(w) \/ AtomicWrite(w)
             \/ SyncconfRead(w) \/ SyncconfApply(w)
      PROVE  UNCHANGED dbVars
  BY <1>6 DEF RemovePeer, SetPeer, BuildServerConf, AtomicWrite, SyncconfRead, SyncconfApply
<1>7. CASE Host \/ UNCHANGED vars
  BY <1>4, <1>7 DEF Host, WgDown, WgUp, vars
<1> QED
  BY <1>1, <1>2, <1>3, <1>4, <1>5, <1>6, <1>7
     DEF Next, Work, Begin, Continue, AllocatePeerIp, DumpFails, Registry!Next

\* The services implement the abstract table: every step on it, by a worker
\* that knows it only from earlier reads, is one insertion of a new peer with
\* a new key, one replacement of a key by a new one, or one deletion.
THEOREM TableImplementsRegistry == Spec => ImplementsRegistry
<1>1. Init => Registry!Init
  BY DEF Init, Registry!Init
<1> QED
  BY <1>1, InitType, TypeStep, InitRegistryInv, RegistryStep, RegistryNext, PTL
     DEF RegistryInv, Spec, ImplementsRegistry, Registry!Spec

-----------------------------------------------------------------------------
(***************************************************************************)
(* Synchronisation. Until its conf text is stale, a worker holds, has      *)
(* written and has read back the table's entries.                          *)
(***************************************************************************)
Fresh(w) ==
  w \notin stale => /\ pc[w] \in {"write", "apply"} => req[w].snap = Entries
                    /\ pc[w] \in {"read", "apply"} => conf = Entries

SyncInv == \A w \in Workers : Fresh(w)

LEMMA InitSync == Init => SyncInv
  BY DEF Init, SyncInv, Fresh

\* A step that changes neither table nor file, and takes a worker no further
\* in its sync and out of no staleness, keeps its text fresh.
LEMMA FreshKept ==
  ASSUME NEW v \in Workers, Fresh(v), UNCHANGED <<peers, conf>>,
         pc'[v] \in {"write", "read", "apply"} =>
           pc'[v] = pc[v] /\ req'[v] = req[v] /\ (v \in stale => v \in stale')
  PROVE  Fresh(v)'
  BY DEF Fresh, Entries

\* A step that makes every other worker's text stale keeps the others' claims.
LEMMA OthersStale ==
  ASSUME NEW v \in Workers, NEW w, v # w, pc'[v] = pc[v],
         Syncing \ {w} \subseteq stale'
  PROVE  Fresh(v)'
  BY DEF Fresh, Syncing

LEMMA SyncStep == TypeInv /\ SyncInv /\ [Next]_vars => SyncInv'
<1> SUFFICES ASSUME TypeInv, SyncInv, [Next]_vars, NEW v \in Workers PROVE Fresh(v)'
  BY DEF SyncInv
<1> USE DEF Goto, Finish, dbVars, wgVars, histVars
<1>a. req \in [Workers -> Request] /\ pc \in [Workers -> Labels]
  BY DEF TypeInv, TypeOK
<1>b. Fresh(v)
  BY DEF SyncInv
<1>1. ASSUME NEW w \in Workers, CreateInsert(w) PROVE Fresh(v)'
  <2>1. CASE v = w
    BY <1>1, <1>a, <2>1 DEF CreateInsert, Fresh
  <2>2. CASE v # w
    BY <1>1, <1>a, <2>2, OthersStale DEF CreateInsert, TableChanged
  <2> QED BY <2>1, <2>2
<1>2. ASSUME NEW w \in Workers, RegenSave(w) PROVE Fresh(v)'
  <2>1. CASE UNCHANGED <<peers, stale>>
    BY <1>2, <1>a, <1>b, <2>1, FreshKept DEF RegenSave
  <2>2. CASE TableChanged(w)
    <3>1. CASE v = w
      BY <1>2, <1>a, <3>1 DEF RegenSave, Fresh
    <3>2. CASE v # w
      BY <1>2, <1>a, <2>2, <3>2, OthersStale DEF RegenSave, TableChanged
    <3> QED BY <3>1, <3>2
  <2> QED BY <1>2, <2>1, <2>2 DEF RegenSave
<1>3. ASSUME NEW w \in Workers, DeleteRow(w) PROVE Fresh(v)'
  <2>1. CASE UNCHANGED <<peers, stale>>
    BY <1>3, <1>a, <1>b, <2>1, FreshKept DEF DeleteRow
  <2>2. CASE TableChanged(w)
    <3>1. CASE v = w
      BY <1>3, <1>a, <3>1 DEF DeleteRow, Fresh
    <3>2. CASE v # w
      BY <1>3, <1>a, <2>2, <3>2, OthersStale DEF DeleteRow, TableChanged
    <3> QED BY <3>1, <3>2
  <2> QED BY <1>3, <2>1, <2>2 DEF DeleteRow
<1>4. ASSUME NEW w \in Workers, BuildServerConf(w) PROVE Fresh(v)'
  <2>1. CASE v = w
    <3>1. req'[v].snap = Entries /\ pc'[v] = "write" /\ peers' = peers
      BY <1>4, <1>a, <2>1 DEF BuildServerConf, ServerConf, Request
    <3> QED BY <3>1 DEF Fresh, Entries
  <2>2. CASE v # w
    BY <1>4, <1>a, <1>b, <2>2, FreshKept DEF BuildServerConf
  <2> QED BY <2>1, <2>2
<1>5. ASSUME NEW w \in Workers, AtomicWrite(w) PROVE Fresh(v)'
  <2>1. CASE v = w
    BY <1>5, <1>a, <1>b, <2>1 DEF AtomicWrite, Fresh, Entries
  <2>2. CASE v # w
    BY <1>5, <1>a, <2>2, OthersStale DEF AtomicWrite
  <2> QED BY <2>1, <2>2
<1>6. ASSUME NEW w \in Workers, SyncconfRead(w) PROVE Fresh(v)'
  <2>1. CASE v = w
    <3>1. /\ req'[v].snap = conf /\ pc'[v] = "apply" /\ pc[v] = "read"
          /\ UNCHANGED <<peers, conf, stale>>
      BY <1>6, <1>a, <2>1 DEF SyncconfRead, Request
    <3> QED BY <1>b, <3>1 DEF Fresh, Entries
  <2>2. CASE v # w
    BY <1>6, <1>a, <1>b, <2>2, FreshKept DEF SyncconfRead
  <2> QED BY <2>1, <2>2
<1>7. ASSUME NEW w \in Workers, SyncconfApply(w) PROVE Fresh(v)'
  BY <1>7, <1>a, <1>b, FreshKept DEF SyncconfApply
<1>8. ASSUME NEW w \in Workers, RemovePeer(w) \/ SetPeer(w) PROVE Fresh(v)'
  BY <1>8, <1>a, <1>b, FreshKept DEF RemovePeer, SetPeer
<1>9. ASSUME NEW w \in Workers, CreateLoad(w) \/ RegenLoad(w) \/ DeleteLoad(w) PROVE Fresh(v)'
  BY <1>9, <1>a, <1>b, FreshKept DEF CreateLoad, RegenLoad, DeleteLoad
<1>10. ASSUME NEW w \in Workers, NEW dump, Allocate(w, dump) PROVE Fresh(v)'
  BY <1>10, <1>a, <1>b, FreshKept DEF Allocate
<1>11. ASSUME NEW w \in Workers, CreateStamp(w) \/ StepFails(w) \/ Abort(w) PROVE Fresh(v)'
  BY <1>11, <1>a, <1>b, FreshKept DEF CreateStamp, StepFails, Abort
<1>12. CASE Host \/ UNCHANGED vars
  BY <1>12, <1>b, FreshKept DEF Host, WgDown, WgUp, vars
<1> QED
  BY <1>1, <1>2, <1>3, <1>4, <1>5, <1>6, <1>7, <1>8, <1>9, <1>10, <1>11, <1>12
     DEF Next, Work, Begin, Continue, AllocatePeerIp, DumpFails

\* The kernel is given what the worker read, which is what the table has.
LEMMA UndisturbedSync ==
  ASSUME SyncInv
  PROVE  [\A w \in Workers : pc[w] = "apply" /\ w \notin stale /\ SyncconfApply(w) => InSync']_vars
<1> SUFFICES ASSUME NEW w \in Workers, pc[w] = "apply", w \notin stale, SyncconfApply(w)
             PROVE  InSync'
  OBVIOUS
<1>1. req[w].snap = Entries /\ conf = Entries
  BY DEF SyncInv, Fresh
<1>2. UNCHANGED <<peers, conf>> /\ live' \in Routings(Entries)
  BY <1>1 DEF SyncconfApply, Synced, dbVars
<1> QED BY <1>1, <1>2 DEF InSync, Entries

\* An undisturbed _sync_conf_file brings table, conf file and interface to
\* agreement from whatever state it finds them in (services.py:287-293).
THEOREM SyncRepairs == Spec => SyncConverges
  BY InitType, TypeStep, InitSync, SyncStep, UndisturbedSync, PTL DEF Spec, SyncConverges

-----------------------------------------------------------------------------
(***************************************************************************)
(* Addresses and keys. A key that is paired with no address yet is seen    *)
(* nowhere, and every key seen was issued.                                 *)
(***************************************************************************)
Bound(S) ==
  /\ \A e, f \in S : e.key = f.key => e.ip = f.ip
  /\ \A e \in S : e.key \in issued
  /\ \A w \in Workers : pc[w] = "alloc" => \A e \in S : e.key # req[w].key

BindInv == Bound(Sightings)

LEMMA InitBind == Init => BindInv
  BY DEF Init, BindInv, Bound, Sightings, Entries, Held, NoReq

LEMMA SightingsKept ==
  ASSUME NEW S, NEW w \in Workers,
         Sightings \subseteq S, Entries' \subseteq S, conf' \subseteq S, live' \subseteq S,
         req'[w].snap \subseteq S, Held(w)' \subseteq S,
         \A v \in Workers \ {w} : req'[v] = req[v] /\ pc'[v] = pc[v]
  PROVE  Sightings' \subseteq S
<1> SUFFICES ASSUME NEW v \in Workers PROVE (req[v].snap \cup Held(v))' \subseteq S
  BY DEF Sightings
<1>1. CASE v = w
  BY <1>1
<1>2. CASE v # w
  BY <1>2 DEF Sightings, Held
<1> QED BY <1>1, <1>2

\* The pairs that a step may show: those seen before, and one with a key that
\* is new or that a request kept to itself until now.
Shows(k, a) ==
  /\ k \in issued' /\ (k \notin issued \/ \E w \in Workers : pc[w] = "alloc" /\ req[w].key = k)
  /\ Sightings' \subseteq Sightings \cup {[key |-> k, ip |-> a]}
  /\ \A v \in Workers : pc'[v] = "alloc" => req'[v].key # k

Discreet ==
  /\ issued \subseteq issued'
  /\ \A v \in Workers : pc'[v] = "alloc" =>
       \/ pc[v] = "alloc" /\ req'[v].key = req[v].key
       \/ req'[v].key \notin issued
  /\ Sightings' \subseteq Sightings \/ \E k, a : Shows(k, a)

LEMMA NothingShown ==
  ASSUME Sightings' \subseteq Sightings, issued \subseteq issued',
         \A v \in Workers : pc'[v] = "alloc" => pc[v] = "alloc" /\ req'[v].key = req[v].key
  PROVE  Discreet
  BY DEF Discreet

LEMMA PairShown ==
  ASSUME NEW k \in issued', NEW a,
         k \notin issued \/ \E w \in Workers : pc[w] = "alloc" /\ req[w].key = k,
         Sightings' \subseteq Sightings \cup {[key |-> k, ip |-> a]},
         issued \subseteq issued',
         \A v \in Workers : pc'[v] = "alloc" =>
           pc[v] = "alloc" /\ req'[v].key = req[v].key /\ req[v].key # k
  PROVE  Discreet
<1>1. Shows(k, a)
  BY DEF Shows
<1> QED BY <1>1 DEF Discreet

LEMMA DiscreetStep == TypeInv /\ RegistryInv /\ [Next]_vars => Discreet
<1> SUFFICES ASSUME TypeInv, RegistryInv, [Next]_vars PROVE Discreet
  OBVIOUS
<1> USE DEF Goto, Finish, dbVars, wgVars, histVars
<1>a. /\ req \in [Workers -> Request] /\ pc \in [Workers -> Labels]
      /\ peers \subseteq Row /\ issued \subseteq Keys /\ spent \subseteq issued
  BY DEF TypeInv, TypeOK
<1>b. \A v \in Workers : req[v] \in Request /\ Control(v) /\ Memory(v) /\ OwnKey(v) /\ LoadedRow(v)
  BY <1>a DEF TypeInv, RegistryInv, KeyInv
<1>c. /\ Entries \subseteq Sightings /\ conf \subseteq Sightings /\ live \subseteq Sightings
      /\ \A v \in Workers : req[v].snap \subseteq Sightings /\ Held(v) \subseteq Sightings
  BY DEF Sightings
<1>d. ASSUME NEW w \in Workers, req'[w] = NoReq, pc'[w] = "idle"
      PROVE  req'[w].snap = {} /\ Held(w)' = {}
  BY <1>d DEF Held, NoReq
<1>e. ASSUME NEW w \in Workers, pc[w] # "alloc", req'[w].key = req[w].key,
             req'[w].old = req[w].old, req'[w].ip = req[w].ip
      PROVE  Held(w)' \subseteq Held(w)
  BY <1>e DEF Held
<1>1. ASSUME NEW w \in Workers, CreateLoad(w) PROVE Discreet
  <2>1. PICK k \in Keys \ issued :
          /\ req'[w].key = k /\ req'[w].snap = {} /\ issued' = issued \cup {k}
    BY <1>1, <1>a DEF CreateLoad, NoReq
  <2>2. /\ \A v \in Workers \ {w} : req'[v] = req[v] /\ pc'[v] = pc[v]
        /\ pc'[w] = "alloc" /\ UNCHANGED <<peers, conf, live>>
    BY <1>1, <1>a DEF CreateLoad
  <2>3. Sightings' \subseteq Sightings
    BY <1>c, <2>1, <2>2, SightingsKept DEF Held, Entries
  <2> QED BY <2>1, <2>2, <2>3 DEF Discreet
<1>2. ASSUME NEW w \in Workers, NEW dump, Allocate(w, dump) PROVE Discreet
  <2>1. /\ \A v \in Workers \ {w} : req'[v] = req[v] /\ pc'[v] = pc[v]
        /\ UNCHANGED <<peers, conf, live, issued>> /\ pc[w] = "alloc"
    BY <1>2, <1>a DEF Allocate
  <2>2. CASE Finish(w)
    <3>1. Sightings' \subseteq Sightings
      BY <1>a, <1>c, <1>d, <2>1, <2>2, SightingsKept DEF Entries
    <3> QED BY <1>a, <2>1, <2>2, <3>1, NothingShown
  <2>3. ASSUME NEW a, req' = [req EXCEPT ![w] = [@ EXCEPT !.ip = a, !.used = {}]],
               Goto(w, "insert")
        PROVE  Discreet
    <3>1. /\ req'[w].key = req[w].key /\ req'[w].old = req[w].old /\ req'[w].ip = a
          /\ req'[w].snap = req[w].snap /\ pc'[w] = "insert"
      BY <1>a, <1>b, <2>3 DEF Request
    <3>2. req[w].op = "create"
      BY <1>b, <2>1 DEF Control, Request, SyncLabels
    <3>3. req[w].old = NoKey /\ req[w].key \in issued
      BY <1>b, <3>2 DEF Memory
    <3> DEFINE S == Sightings \cup {[key |-> req[w].key, ip |-> a]}
    <3>4. Held(w)' \subseteq S
      BY <3>1, <3>3 DEF Held
    <3>5. Sightings' \subseteq S
      BY <1>c, <2>1, <3>1, <3>4, SightingsKept DEF Entries
    <3>6. \A v \in Workers : pc'[v] = "alloc" =>
            pc[v] = "alloc" /\ req'[v].key = req[v].key /\ req[v].key # req[w].key
      BY <1>a, <1>b, <2>1, <3>1, <3>3, NullAssumption DEF OwnKey
    <3> QED BY <2>1, <3>3, <3>5, <3>6, PairShown
  <2> QED BY <1>2, <2>2, <2>3 DEF Allocate
<1>3. ASSUME NEW w \in Workers, CreateInsert(w) PROVE Discreet
  <2>1. PICK i \in Ids \ born :
          /\ peers' = peers \cup {[id |-> i, key |-> req[w].key, ip |-> req[w].ip]}
          /\ req' = [req EXCEPT ![w].id = i]
    BY <1>3 DEF CreateInsert
  <2>2. /\ \A v \in Workers \ {w} : req'[v] = req[v] /\ pc'[v] = pc[v]
        /\ UNCHANGED <<conf, live, issued>> /\ pc[w] = "insert" /\ pc'[w] = "set"
    BY <1>3, <1>a DEF CreateInsert
  <2>3. /\ req'[w].key = req[w].key /\ req'[w].old = req[w].old
        /\ req'[w].ip = req[w].ip /\ req'[w].snap = req[w].snap
    BY <1>a, <1>b, <2>1 DEF Request
  <2>4. req[w].op = "create"
    BY <1>b, <2>2 DEF Control, Request, SyncLabels
  <2>5. req[w].key # NoKey
    BY <1>a, <1>b, <2>4, NullAssumption DEF Memory
  <2>6. [key |-> req[w].key, ip |-> req[w].ip] \in Held(w)
    BY <2>2, <2>5 DEF Held
  <2>7. Entries' \subseteq Entries \cup {[key |-> req[w].key, ip |-> req[w].ip]}
    BY <2>1 DEF Entries, EntryOf
  <2>8. Sightings' \subseteq Sightings
    BY <1>c, <1>e, <2>2, <2>3, <2>6, <2>7, SightingsKept
  <2> QED BY <2>2, <2>8, NothingShown
<1>4. ASSUME NEW w \in Workers, CreateStamp(w) \/ Abort(w) PROVE Discreet
  <2>1. /\ \A v \in Workers \ {w} : req'[v] = req[v] /\ pc'[v] = pc[v]
        /\ UNCHANGED <<peers, conf, live, issued>> /\ req'[w] = NoReq /\ pc'[w] = "idle"
    BY <1>4, <1>a DEF CreateStamp, Abort
  <2>2. Sightings' \subseteq Sightings
    BY <1>c, <1>d, <2>1, SightingsKept DEF Entries
  <2> QED BY <2>1, <2>2, NothingShown
<1>5. ASSUME NEW w \in Workers, RegenLoad(w) PROVE Discreet
  <2>1. PICK r \in peers, k \in Keys \ issued :
          /\ req' = [req EXCEPT ![w] = [NoReq EXCEPT !.op = "regenerate",
                       !.id = r.id, !.old = r.key, !.ip = r.ip, !.key = k]]
          /\ issued' = issued \cup {k}
    BY <1>5 DEF RegenLoad
  <2>2. /\ req'[w].key = k /\ req'[w].old = r.key /\ req'[w].ip = r.ip
        /\ req'[w].snap = {}
    BY <1>a, <2>1 DEF NoReq
  <2>3. /\ \A v \in Workers \ {w} : req'[v] = req[v] /\ pc'[v] = pc[v]
        /\ UNCHANGED <<peers, conf, live>> /\ pc'[w] = "remove"
    BY <1>5, <1>a, <2>1 DEF RegenLoad
  <2>4. [key |-> r.key, ip |-> r.ip] \in Sightings
    BY <1>c DEF Entries, EntryOf
  <2> DEFINE S == Sightings \cup {[key |-> k, ip |-> r.ip]}
  <2>5. Held(w)' \subseteq S
    BY <2>2, <2>4 DEF Held
  <2>6. Sightings' \subseteq S
    BY <1>c, <2>2, <2>3, <2>5, SightingsKept DEF Entries
  <2>7. \A v \in Workers : req[v].key # k
    BY <1>b, <2>1, NullAssumption DEF Memory
  <2> QED BY <2>1, <2>3, <2>6, <2>7, PairShown
<1>6. ASSUME NEW w \in Workers, RegenSave(w) PROVE Discreet
  <2>1. /\ \A v \in Workers \ {w} : req'[v] = req[v] /\ pc'[v] = pc[v]
        /\ UNCHANGED <<conf, live, issued>> /\ req'[w] = NoReq /\ pc'[w] = "idle"
        /\ pc[w] = "save"
    BY <1>6, <1>a DEF RegenSave
  <2>2. Entries' \subseteq Sightings
    <3>1. CASE UNCHANGED peers
      BY <1>c, <3>1 DEF Entries
    <3>2. ASSUME NEW r \in peers, r.id = req[w].id,
                 peers' = (peers \ {r}) \cup {[r EXCEPT !.key = req[w].key]}
          PROVE  Entries' \subseteq Sightings
      <4>1. req[w].op = "regenerate"
        BY <1>b, <2>1 DEF Control, Request, SyncLabels
      <4>2. req[w].id \in Ids /\ req[w].key \in issued
        BY <1>b, <4>1 DEF Memory
      <4>3. r.ip = req[w].ip
        BY <1>b, <3>2, <4>2, NullAssumption DEF LoadedRow
      <4>4. [key |-> req[w].key, ip |-> r.ip] \in Sightings
        BY <1>a, <1>c, <2>1, <4>2, <4>3, NullAssumption DEF Held
      <4>5. EntryOf([r EXCEPT !.key = req[w].key]) = [key |-> req[w].key, ip |-> r.ip]
        BY <1>a DEF Row, EntryOf
      <4>6. Entries' \subseteq Entries \cup {[key |-> req[w].key, ip |-> r.ip]}
        BY <3>2, <4>5 DEF Entries
      <4> QED BY <1>c, <4>4, <4>6
    <3> QED BY <1>6, <3>1, <3>2 DEF RegenSave
  <2>3. Sightings' \subseteq Sightings
    BY <1>c, <1>d, <2>1, <2>2, SightingsKept
  <2> QED BY <2>1, <2>3, NothingShown
<1>7. ASSUME NEW w \in Workers, DeleteLoad(w) PROVE Discreet
  <2>1. PICK r \in peers :
          req' = [req EXCEPT ![w] = [NoReq EXCEPT !.op = "delete",
                                       !.id = r.id, !.old = r.key, !.ip = r.ip]]
    BY <1>7 DEF DeleteLoad
  <2>2. /\ req'[w].key = NoKey /\ req'[w].old = r.key /\ req'[w].ip = r.ip
        /\ req'[w].snap = {}
    BY <1>a, <2>1 DEF NoReq
  <2>3. /\ \A v \in Workers \ {w} : req'[v] = req[v] /\ pc'[v] = pc[v]
        /\ UNCHANGED <<peers, conf, live, issued>> /\ pc'[w] = "drop"
    BY <1>7, <1>a, <2>1 DEF DeleteLoad
  <2>4. [key |-> r.key, ip |-> r.ip] \in Sightings
    BY <1>c DEF Entries, EntryOf
  <2>5. Held(w)' \subseteq Sightings
    BY <2>2, <2>4 DEF Held
  <2>6. Sightings' \subseteq Sightings
    BY <1>c, <2>2, <2>3, <2>5, SightingsKept DEF Entries
  <2> QED BY <2>3, <2>6, NothingShown
<1>8. ASSUME NEW w \in Workers, DeleteRow(w) PROVE Discreet
  <2>1. /\ \A v \in Workers \ {w} : req'[v] = req[v] /\ pc'[v] = pc[v]
        /\ UNCHANGED <<conf, live, issued, req>> /\ pc[w] = "drop" /\ pc'[w] = "remove"
    BY <1>8, <1>a DEF DeleteRow
  <2>2. Entries' \subseteq Entries
    BY <1>8 DEF DeleteRow, Entries
  <2>3. Sightings' \subseteq Sightings
    BY <1>c, <1>e, <2>1, <2>2, SightingsKept
  <2> QED BY <2>1, <2>3, NothingShown
<1>9. ASSUME NEW w \in Workers, RemovePeer(w) PROVE Discreet
  <2>1. /\ \A v \in Workers \ {w} : req'[v] = req[v] /\ pc'[v] = pc[v]
        /\ UNCHANGED <<peers, conf, issued, req>> /\ live' \subseteq live
        /\ pc[w] = "remove" /\ pc'[w] \in {"set", "build"}
    BY <1>9, <1>a DEF RemovePeer
  <2>2. Sightings' \subseteq Sightings
    BY <1>c, <1>e, <2>1, SightingsKept DEF Entries
  <2> QED BY <2>1, <2>2, NothingShown
<1>10. ASSUME NEW w \in Workers, SetPeer(w) PROVE Discreet
  <2>1. /\ \A v \in Workers \ {w} : req'[v] = req[v] /\ pc'[v] = pc[v]
        /\ UNCHANGED <<peers, conf, issued, req>> /\ pc[w] = "set" /\ pc'[w] = "build"
        /\ live' \subseteq live \cup {[key |-> req[w].key, ip |-> req[w].ip]}
    BY <1>10, <1>a DEF SetPeer
  <2>2. req[w].op \in {"create", "regenerate"}
    BY <1>b, <2>1 DEF Control, Request, SyncLabels
  <2>3. req[w].key # NoKey
    BY <1>a, <1>b, <2>2, NullAssumption DEF Memory
  <2>4. [key |-> req[w].key, ip |-> req[w].ip] \in Held(w)
    BY <2>1, <2>3 DEF Held
  <2>5. Sightings' \subseteq Sightings
    BY <1>c, <1>e, <2>1, <2>4, SightingsKept DEF Entries
  <2> QED BY <2>1, <2>5, NothingShown
<1>11. ASSUME NEW w \in Workers, BuildServerConf(w) PROVE Discreet
  <2>1. /\ \A v \in Workers \ {w} : req'[v] = req[v] /\ pc'[v] = pc[v]
        /\ UNCHANGED <<peers, conf, live, issued>> /\ pc[w] = "build" /\ pc'[w] = "write"
    BY <1>11, <1>a DEF BuildServerConf
  <2>2. /\ req'[w].key = req[w].key /\ req'[w].old = req[w].old
        /\ req'[w].ip = req[w].ip /\ req'[w].snap = Entries
    BY <1>11, <1>a, <1>b DEF BuildServerConf, ServerConf, Request
  <2>3. Sightings' \subseteq Sightings
    BY <1>c, <1>e, <2>1, <2>2, SightingsKept DEF Entries
  <2> QED BY <2>1, <2>3, NothingShown
<1>12. ASSUME NEW w \in Workers, AtomicWrite(w) PROVE Discreet
  <2>1. /\ \A v \in Workers \ {w} : req'[v] = req[v] /\ pc'[v] = pc[v]
        /\ UNCHANGED <<peers, live, issued, req>> /\ conf' = req[w].snap
        /\ pc[w] = "write" /\ pc'[w] = "read"
    BY <1>12, <1>a DEF AtomicWrite
  <2>2. Sightings' \subseteq Sightings
    BY <1>c, <1>e, <2>1, SightingsKept DEF Entries
  <2> QED BY <2>1, <2>2, NothingShown
<1>13. ASSUME NEW w \in Workers, SyncconfRead(w) PROVE Discreet
  <2>1. /\ \A v \in Workers \ {w} : req'[v] = req[v] /\ pc'[v] = pc[v]
        /\ UNCHANGED <<peers, conf, live, issued>> /\ pc[w] = "read" /\ pc'[w] = "apply"
    BY <1>13, <1>a DEF SyncconfRead
  <2>2. /\ req'[w].key = req[w].key /\ req'[w].old = req[w].old
        /\ req'[w].ip = req[w].ip /\ req'[w].snap = conf
    BY <1>13, <1>a, <1>b DEF SyncconfRead, Request
  <2>3. Sightings' \subseteq Sightings
    BY <1>c, <1>e, <2>1, <2>2, SightingsKept DEF Entries
  <2> QED BY <2>1, <2>3, NothingShown
<1>14. ASSUME NEW w \in Workers, SyncconfApply(w) PROVE Discreet
  <2>1. /\ \A v \in Workers \ {w} : req'[v] = req[v] /\ pc'[v] = pc[v]
        /\ UNCHANGED <<peers, conf, issued>> /\ pc[w] = "apply"
        /\ pc'[w] \in {"idle", "stamp", "save"}
    BY <1>14, <1>a DEF SyncconfApply
  <2>2. live' \subseteq req[w].snap
    BY <1>14, RoutingsWithin DEF SyncconfApply, Synced
  <2>3. CASE Finish(w)
    <3>1. Sightings' \subseteq Sightings
      BY <1>a, <1>c, <1>d, <2>1, <2>2, <2>3, SightingsKept DEF Entries
    <3> QED BY <2>1, <3>1, NothingShown
  <2>4. CASE req' = [req EXCEPT ![w].snap = {}]
    <3>1. /\ req'[w].key = req[w].key /\ req'[w].old = req[w].old
          /\ req'[w].ip = req[w].ip /\ req'[w].snap = {}
      BY <1>a, <1>b, <2>4 DEF Request
    <3>2. Sightings' \subseteq Sightings
      BY <1>c, <1>e, <2>1, <2>2, <3>1, SightingsKept DEF Entries
    <3> QED BY <2>1, <3>2, NothingShown
  <2> QED BY <1>14, <2>3, <2>4 DEF SyncconfApply
<1>15. ASSUME NEW w \in Workers, StepFails(w) PROVE Discreet
  <2>1. /\ \A v \in Workers \ {w} : req'[v] = req[v] /\ pc'[v] = pc[v]
        /\ UNCHANGED <<peers, conf, live, issued>> /\ pc[w] # "alloc"
        /\ pc'[w] \in {"idle", "save"}
    BY <1>15, <1>a DEF StepFails, InTry
  <2>2. CASE Finish(w)
    <3>1. Sightings' \subseteq Sightings
      BY <1>a, <1>c, <1>d, <2>1, <2>2, SightingsKept DEF Entries
    <3> QED BY <2>1, <3>1, NothingShown
  <2>3. CASE req' = [req EXCEPT ![w].snap = {}]
    <3>1. /\ req'[w].key = req[w].key /\ req'[w].old = req[w].old
          /\ req'[w].ip = req[w].ip /\ req'[w].snap = {}
      BY <1>a, <1>b, <2>3 DEF Request
    <3>2. Sightings' \subseteq Sightings
      BY <1>c, <1>e, <2>1, <3>1, SightingsKept DEF Entries
    <3> QED BY <2>1, <3>2, NothingShown
  <2> QED BY <1>15, <2>2, <2>3 DEF StepFails
<1>16. CASE Host \/ UNCHANGED vars
  <2>1. UNCHANGED <<peers, conf, issued, req, pc>>
    BY <1>16 DEF Host, WgDown, WgUp, vars
  <2>2. live' \subseteq live \cup conf
    BY <1>16, RoutingsWithin DEF Host, WgDown, WgUp, vars
  <2>3. Sightings' \subseteq Sightings
    BY <2>1, <2>2 DEF Sightings, Entries, Held
  <2> QED BY <2>1, <2>3, NothingShown
<1> QED
  BY <1>1, <1>2, <1>3, <1>4, <1>5, <1>6, <1>7, <1>8, <1>9, <1>10, <1>11, <1>12, <1>13,
     <1>14, <1>15, <1>16
     DEF Next, Work, Begin, Continue, AllocatePeerIp, DumpFails

\* Such a step keeps the binding, also with pairs seen elsewhere.
LEMMA BoundKept ==
  ASSUME NEW S, Bound(Sightings \cup S), Discreet PROVE Bound(Sightings \cup S)'
<1>1. \A e \in Sightings \cup S : e.key \in issued
  BY DEF Bound
<1>2. ASSUME Sightings' \subseteq Sightings PROVE Bound(Sightings \cup S)'
  BY <1>1, <1>2 DEF Bound, Discreet
<1>3. ASSUME NEW k, NEW a, Shows(k, a) PROVE Bound(Sightings \cup S)'
  <2>1. \A e \in Sightings \cup S : e.key # k
    BY <1>3 DEF Bound, Shows
  <2>2. Sightings' \cup S \subseteq Sightings \cup S \cup {[key |-> k, ip |-> a]}
    BY <1>3 DEF Shows
  <2>3. \A e, f \in Sightings' \cup S : e.key = f.key => e.ip = f.ip
    BY <2>1, <2>2 DEF Bound
  <2>4. issued \subseteq issued' /\ k \in issued'
    BY <1>3 DEF Discreet, Shows
  <2>5. \A e \in Sightings' \cup S : e.key \in issued'
    BY <1>1, <2>2, <2>4
  <2>6. ASSUME NEW v \in Workers, pc'[v] = "alloc"
        PROVE  \A e \in Sightings' \cup S : e.key # req'[v].key
    BY <1>1, <1>3, <2>2, <2>6 DEF Bound, Discreet, Shows
  <2> QED BY <2>3, <2>5, <2>6 DEF Bound
<1> QED BY <1>2, <1>3 DEF Discreet

LEMMA BindStep == TypeInv /\ RegistryInv /\ BindInv /\ [Next]_vars => BindInv'
<1> SUFFICES ASSUME TypeInv, RegistryInv, BindInv, [Next]_vars PROVE BindInv'
  OBVIOUS
<1>1. Bound(Sightings \cup {})'
  BY DiscreetStep, BoundKept DEF BindInv
<1> QED BY <1>1 DEF BindInv

\* A key has one address, in the table, the conf file, the interface and the
\* memory of every worker, whatever was stale, failed or restarted
\* (services.py:195-218, 253-264).
THEOREM OneAddressPerKey == Spec => []AddressBinding
<1>1. BindInv => AddressBinding
  BY DEF BindInv, Bound, AddressBinding
<1> QED
  BY <1>1, InitType, TypeStep, InitRegistryInv, RegistryStep, InitBind, BindStep, PTL DEF Spec
=============================================================================
