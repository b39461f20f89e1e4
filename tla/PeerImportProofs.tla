-------------------------- MODULE PeerImportProofs --------------------------
(***************************************************************************)
(* Theorems about PeerImport: the command beside any number of workers,    *)
(* with any hand-made conf file, under every fault. A step of a worker is  *)
(* a step of PeerLifecycle, so that the lemmas about those steps are taken *)
(* from PeerLifecycleProofs.                                               *)
(***************************************************************************)
EXTENDS PeerImport, PeerLifecycleProofs

(***************************************************************************)
(* What the command holds, and what it was read from. A key a request has  *)
(* generated and not yet stored is in no file, so that the command cannot  *)
(* store it first; and no text has two entries for one key. As long as     *)
(* nobody has edited the file, a row the command has found has the address *)
(* of the entry it was found for, whatever becomes of its key.             *)
(***************************************************************************)
Handling == {"insert", "update"}

Cargo == (imp.todo \ {NoEntry}) \cup {e \in {imp.entry} : imp.at \in Handling}

CommandOK ==
  /\ imp \in Command
  /\ imp.at \notin Handling => imp.entry = NoEntry
  /\ imp.at \in Handling => imp.entry \in Entry
  /\ imp.at = "update" => imp.force

Texts  == {conf} \cup {req[w].snap : w \in Workers}
OnFile == conf \cup UNION {req[w].snap : w \in Workers}

OneEntry(S) == \A e, f \in S : e.key = f.key => e = f

Unsaved(w) == pc[w] \in {"alloc", "insert"} \/ req[w].op = "regenerate"

NotOnFile ==
  \A w \in Workers : Unsaved(w) => \A e \in OnFile \cup Cargo : e.key # req[w].key

FilesInv ==
  /\ \A T \in Texts \cup {Cargo} : OneEntry(T)
  /\ \A e \in OnFile \cup Cargo : e.key \in issued
  /\ NotOnFile

FoundOK ==
  imp.at = "update" => /\ imp.found \in born
                       /\ \A r \in peers : r.id = imp.found => r.ip = imp.entry.ip

BoundInv == RegistryInv /\ Bound(Sightings \cup Cargo) /\ FoundOK

ImportInv ==
  /\ TypeInv /\ CommandOK /\ KeyInv /\ FilesInv /\ edits \in Nat
  /\ edits = 0 => BoundInv

LEMMA ImportInitInv == ImportInit => ImportInv
<1> SUFFICES ASSUME ImportInit PROVE ImportInv
  OBVIOUS
<1>1. PICK L \in Legacies :
        conf = L /\ live \in Routings(L) /\ issued = {e.key : e \in L}
  BY DEF ImportInit
<1>2. L \subseteq Entry /\ OneEntry(L)
  BY LegacyAssumption DEF OneEntry
<1>3. live \subseteq L
  BY <1>1, RoutingsWithin
<1>4. issued \subseteq Keys
  BY <1>1, <1>2 DEF Entry
<1>5. TypeInv
  BY <1>1, <1>2, <1>3, <1>4, NullAssumption
     DEF ImportInit, TypeInv, TypeOK, KeysSpent, Control, Memory, NoReq, Request, Labels
<1>6. CommandOK /\ Cargo = {} /\ FoundOK
  BY DEF ImportInit, CommandOK, Command, NoCommand, Cargo, Handling, FoundOK
<1>7. RegistryInv /\ KeyInv
  BY DEF ImportInit, RegistryInv, KeyInv, Registered, OwnKey, LoadedRow, NoReq
<1>8. Sightings \cup Cargo \subseteq L /\ OnFile \cup Cargo \subseteq L
  BY <1>1, <1>3, <1>6 DEF ImportInit, Sightings, Entries, Held, NoReq, OnFile
<1>9. Bound(Sightings \cup Cargo)
  BY <1>1, <1>2, <1>8 DEF Bound, ImportInit, OneEntry
<1>10. FilesInv
  <2>1. ASSUME NEW T \in Texts \cup {Cargo} PROVE T \subseteq L
    BY <1>8, <2>1 DEF Texts, OnFile
  <2>2. NotOnFile
    BY DEF ImportInit, NotOnFile, Unsaved, NoReq
  <2> QED BY <1>1, <1>2, <1>8, <2>1, <2>2 DEF FilesInv, OneEntry
<1> QED BY <1>5, <1>6, <1>7, <1>9, <1>10 DEF ImportInv, BoundInv, ImportInit

\* A step of a worker brings to the file, and to the texts in memory, only what
\* they had or the table has; a key it comes to hold unsaved is a new one.
SavedOnly ==
  /\ Texts' \subseteq Texts \cup {Entries, {}}
  /\ \A w \in Workers : Unsaved(w)' => \/ Unsaved(w) /\ req'[w].key = req[w].key
                                       \/ req'[w].key \notin issued

LEMMA FileKept ==
  ASSUME NEW w \in Workers, \A v \in Workers \ {w} : req'[v] = req[v] /\ pc'[v] = pc[v],
         conf' \in Texts \cup {Entries, {}}, req'[w].snap \in Texts \cup {Entries, {}},
         Unsaved(w)' => \/ Unsaved(w) /\ req'[w].key = req[w].key
                        \/ req'[w].key \notin issued
  PROVE  SavedOnly
<1>1. ASSUME NEW v \in Workers PROVE req'[v].snap \in Texts \cup {Entries, {}}
  <2>1. req[v].snap \in Texts
    BY DEF Texts
  <2> QED BY <2>1
<1>2. Texts' \subseteq Texts \cup {Entries, {}}
  BY <1>1 DEF Texts
<1>3. ASSUME NEW v \in Workers, Unsaved(v)'
      PROVE  \/ Unsaved(v) /\ req'[v].key = req[v].key
             \/ req'[v].key \notin issued
  BY <1>3 DEF Unsaved
<1> QED BY <1>2, <1>3 DEF SavedOnly

LEMMA SavedStep == TypeInv /\ [Next]_vars => SavedOnly
<1> SUFFICES ASSUME TypeInv, [Next]_vars PROVE SavedOnly
  OBVIOUS
<1> USE DEF Goto, Finish, dbVars, wgVars, histVars
<1>a. req \in [Workers -> Request] /\ pc \in [Workers -> Labels]
  BY DEF TypeInv, TypeOK
<1>b. \A v \in Workers : req[v] \in Request /\ Control(v) /\ Memory(v)
  BY <1>a DEF TypeInv
<1>c. conf \in Texts /\ \A v \in Workers : req[v].snap \in Texts
  BY DEF Texts
<1>1. ASSUME NEW w \in Workers, CreateLoad(w) \/ RegenLoad(w) PROVE SavedOnly
  <2>1. req'[w].key \in Keys \ issued /\ req'[w].snap = {}
    <3>1. CASE CreateLoad(w)
      BY <3>1, <1>a DEF CreateLoad, NoReq
    <3>2. CASE RegenLoad(w)
      BY <3>2, <1>a DEF RegenLoad, NoReq
    <3> QED BY <1>1, <3>1, <3>2
  <2>2. conf' = conf /\ \A v \in Workers \ {w} : req'[v] = req[v] /\ pc'[v] = pc[v]
    BY <1>1, <1>a DEF CreateLoad, RegenLoad
  <2> QED BY <1>c, <2>1, <2>2, FileKept
<1>2. ASSUME NEW w \in Workers, req' = [req EXCEPT ![w] = NoReq],
             pc' = [pc EXCEPT ![w] = "idle"], conf' = conf
      PROVE  SavedOnly
  <2>1. req'[w] = NoReq /\ pc'[w] = "idle"
    BY <1>2, <1>a
  <2>2. req'[w].snap = {} /\ ~Unsaved(w)'
    BY <2>1 DEF Unsaved, NoReq
  <2>3. \A v \in Workers \ {w} : req'[v] = req[v] /\ pc'[v] = pc[v]
    BY <1>2, <1>a
  <2> QED BY <1>2, <1>c, <2>2, <2>3, FileKept
<1>3. ASSUME NEW w \in Workers, NEW dump, Allocate(w, dump) PROVE SavedOnly
  <2>1. conf' = conf /\ pc[w] = "alloc"
    BY <1>3 DEF Allocate
  <2>2. ASSUME NEW a, req' = [req EXCEPT ![w] = [@ EXCEPT !.ip = a, !.used = {}]],
               Goto(w, "insert")
        PROVE  SavedOnly
    <3>1. req'[w].key = req[w].key /\ req'[w].snap = req[w].snap
      BY <1>a, <1>b, <2>2 DEF Request
    <3>2. \A v \in Workers \ {w} : req'[v] = req[v] /\ pc'[v] = pc[v]
      BY <1>a, <2>2
    <3> QED BY <1>c, <2>1, <3>1, <3>2, FileKept DEF Unsaved
  <2> QED BY <1>2, <1>3, <2>1, <2>2 DEF Allocate
<1>4. ASSUME NEW w \in Workers, CreateInsert(w) PROVE SavedOnly
  <2>1. /\ req'[w].key = req[w].key /\ req'[w].snap = req[w].snap
        /\ conf' = conf /\ pc[w] = "insert"
    BY <1>4, <1>a, <1>b DEF CreateInsert, Request
  <2>2. \A v \in Workers \ {w} : req'[v] = req[v] /\ pc'[v] = pc[v]
    BY <1>4, <1>a DEF CreateInsert
  <2> QED BY <1>c, <2>1, <2>2, FileKept DEF Unsaved
<1>5. ASSUME NEW w \in Workers, CreateStamp(w) \/ RegenSave(w) \/ Abort(w) PROVE SavedOnly
  BY <1>2, <1>5 DEF CreateStamp, RegenSave, Abort
<1>6. ASSUME NEW w \in Workers, DeleteLoad(w) PROVE SavedOnly
  <2>1. PICK r \in peers :
          req' = [req EXCEPT ![w] = [NoReq EXCEPT !.op = "delete",
                                       !.id = r.id, !.old = r.key, !.ip = r.ip]]
    BY <1>6 DEF DeleteLoad
  <2>2. req'[w].op = "delete" /\ req'[w].snap = {} /\ pc'[w] = "drop" /\ conf' = conf
    BY <1>6, <1>a, <2>1 DEF DeleteLoad, NoReq
  <2>3. \A v \in Workers \ {w} : req'[v] = req[v] /\ pc'[v] = pc[v]
    BY <1>6, <1>a, <2>1 DEF DeleteLoad
  <2> QED BY <1>c, <2>2, <2>3, FileKept DEF Unsaved
<1>7. ASSUME NEW w \in Workers,
             \/ DeleteRow(w) \/ RemovePeer(w) \/ SetPeer(w)
             \/ BuildServerConf(w) \/ AtomicWrite(w) \/ SyncconfRead(w)
      PROVE  SavedOnly
  <2>1. /\ req'[w].key = req[w].key /\ req'[w].op = req[w].op
        /\ pc'[w] \in {"remove", "set", "build", "write", "read", "apply"}
        /\ req'[w].snap \in Texts \cup {Entries} /\ conf' \in Texts
    BY <1>7, <1>a, <1>b, <1>c
       DEF DeleteRow, RemovePeer, SetPeer, BuildServerConf, ServerConf, AtomicWrite,
           SyncconfRead, Request
  <2>2. \A v \in Workers \ {w} : req'[v] = req[v] /\ pc'[v] = pc[v]
    BY <1>7, <1>a
       DEF DeleteRow, RemovePeer, SetPeer, BuildServerConf, AtomicWrite, SyncconfRead
  <2> QED BY <2>1, <2>2, FileKept DEF Unsaved
<1>8. ASSUME NEW w \in Workers, NEW l \in {"stamp", "save"}, req' = [req EXCEPT ![w].snap = {}],
             pc' = [pc EXCEPT ![w] = l], conf' = conf
      PROVE  SavedOnly
  <2>1. /\ req'[w].key = req[w].key /\ req'[w].op = req[w].op /\ req'[w].snap = {}
        /\ pc'[w] = l
    BY <1>8, <1>a, <1>b DEF Request
  <2>2. \A v \in Workers \ {w} : req'[v] = req[v] /\ pc'[v] = pc[v]
    BY <1>8, <1>a
  <2> QED BY <1>c, <1>8, <2>1, <2>2, FileKept DEF Unsaved
<1>9. ASSUME NEW w \in Workers, SyncconfApply(w) \/ StepFails(w) PROVE SavedOnly
  <2>1. conf' = conf
    BY <1>9 DEF SyncconfApply, StepFails
  <2>2. \/ Finish(w)
        \/ \E l \in {"stamp", "save"} : req' = [req EXCEPT ![w].snap = {}] /\ Goto(w, l)
    BY <1>9 DEF SyncconfApply, StepFails
  <2> QED BY <1>2, <1>8, <2>1, <2>2
<1>10. CASE Host \/ UNCHANGED vars
  <2>1. UNCHANGED <<conf, pc, req>>
    BY <1>10 DEF Host, WgDown, WgUp, vars
  <2> QED BY <2>1 DEF SavedOnly, Texts, Unsaved
<1> QED
  BY <1>1, <1>3, <1>4, <1>5, <1>6, <1>7, <1>9, <1>10
     DEF Next, Work, Begin, Continue, AllocatePeerIp, DumpFails

\* A row stays with its address, and ids come back for no other row.
LEMMA RowsKept ==
  ASSUME TypeInv, KeyInv, [Next]_vars
  PROVE  /\ born \subseteq born'
         /\ \A r \in peers' : r.id \in born => \E s \in peers : s.id = r.id /\ s.ip = r.ip
<1>1. [Registry!Next]_Registry!vars
  BY RegistryNext
<1>2. CASE Registry!Add
  BY <1>2 DEF Registry!Add
<1>3. CASE Registry!Rekey
  <2>1. PICK r \in peers, k \in Keys \ spent :
          peers' = (peers \ {r}) \cup {[r EXCEPT !.key = k]} /\ born' = born
    BY <1>3 DEF Registry!Rekey
  <2>2. [r EXCEPT !.key = k].id = r.id /\ [r EXCEPT !.key = k].ip = r.ip
    BY DEF TypeInv, TypeOK, Row
  <2> QED BY <2>1, <2>2
<1>4. CASE Registry!Drop \/ UNCHANGED Registry!vars
  BY <1>4 DEF Registry!Drop, Registry!vars
<1> QED BY <1>1, <1>2, <1>3, <1>4 DEF Registry!Next

LEMMA IssuedGrows == [Next]_vars => issued \subseteq issued'
<1> SUFFICES ASSUME [Next]_vars PROVE issued \subseteq issued'
  OBVIOUS
<1>1. ASSUME NEW w \in Workers, CreateLoad(w) \/ RegenLoad(w) PROVE issued \subseteq issued'
  BY <1>1 DEF CreateLoad, RegenLoad
<1>2. ASSUME NEW w \in Workers, NEW dump,
             \/ DeleteLoad(w) \/ Allocate(w, dump) \/ CreateInsert(w) \/ CreateStamp(w)
             \/ RegenSave(w) \/ DeleteRow(w)
      PROVE  issued' = issued
  BY <1>2
     DEF DeleteLoad, Allocate, CreateInsert, CreateStamp, RegenSave, DeleteRow, histVars
<1>3. ASSUME NEW w \in Workers,
             \/ RemovePeer(w) \/ SetPeer(w) \/ BuildServerConf(w) \/ AtomicWrite(w)
             \/ SyncconfRead(w) \/ SyncconfApply(w) \/ StepFails(w) \/ Abort(w)
      PROVE  issued' = issued
  BY <1>3
     DEF RemovePeer, SetPeer, BuildServerConf, AtomicWrite, SyncconfRead, SyncconfApply,
         StepFails, Abort, histVars
<1>4. CASE Host \/ UNCHANGED vars
  BY <1>4 DEF Host, WgDown, WgUp, vars, histVars
<1> QED
  BY <1>1, <1>2, <1>3, <1>4 DEF Next, Work, Begin, Continue, AllocatePeerIp, DumpFails

\* What the workers write, and what the command takes from the file, are texts
\* with one entry for each key, and with no key that is still to be stored.
LEMMA FilesStep ==
  ASSUME TypeInv, KeyInv, FilesInv, [Next]_vars, Cargo' \subseteq Cargo \/ Cargo' \subseteq conf
  PROVE  FilesInv'
<1>1. SavedOnly /\ issued \subseteq issued'
  BY SavedStep, IssuedGrows
<1>2. OneEntry(Entries)
  BY DEF KeyInv, Registered, OneEntry, Entries, EntryOf
<1>3. \A e \in Entries : e.key \in spent /\ e.key \in issued
  BY DEF TypeInv, TypeOK, KeysSpent, Entries, EntryOf
<1>4. Cargo' \subseteq OnFile \cup Cargo
  BY DEF OnFile
<1>5. OnFile' \subseteq OnFile \cup Entries
  <2>1. SUFFICES ASSUME NEW T \in Texts' PROVE T \subseteq OnFile \cup Entries
    BY DEF OnFile, Texts
  <2>2. CASE T \in Texts
    BY <2>2 DEF OnFile, Texts
  <2> QED BY <1>1, <2>2 DEF SavedOnly
<1>6. \A T \in Texts' \cup {Cargo'} : OneEntry(T)
  <2>1. OneEntry(conf) /\ OneEntry(Cargo) /\ OneEntry({})
    BY DEF FilesInv, Texts, OneEntry
  <2>2. OneEntry(Cargo')
    BY <2>1 DEF OneEntry
  <2> QED BY <1>1, <1>2, <2>1, <2>2 DEF FilesInv, SavedOnly
<1>7. \A e \in OnFile' \cup Cargo' : e.key \in issued /\ e.key \in issued'
  BY <1>1, <1>3, <1>4, <1>5 DEF FilesInv
<1>8. NotOnFile'
  <2>1. SUFFICES ASSUME NEW w \in Workers, Unsaved(w)', NEW e \in (OnFile \cup Cargo)'
                 PROVE  e.key # req'[w].key
    BY DEF NotOnFile
  <2>2. CASE req'[w].key \notin issued
    BY <1>7, <2>2
  <2>3. CASE Unsaved(w) /\ req'[w].key = req[w].key
    <3>1. req[w].key \notin spent
      BY <2>3 DEF KeyInv, OwnKey, Unsaved
    <3> QED BY <1>3, <1>4, <1>5, <2>3, <3>1 DEF FilesInv, NotOnFile
  <2> QED BY <1>1, <2>1, <2>2, <2>3 DEF SavedOnly
<1> QED BY <1>6, <1>7, <1>8 DEF FilesInv, OneEntry, Texts

\* A step of a worker, or a step of the command that leaves the web's state
\* alone and holds nothing but what it held or the file has.
LEMMA WebStep ==
  ASSUME ImportInv, [Next]_vars, CommandOK', edits' = edits,
         \/ imp' = imp
         \/ /\ UNCHANGED vars
            /\ Cargo' \subseteq Cargo \/ Cargo' \subseteq conf
            /\ edits = 0 => FoundOK'
  PROVE  ImportInv'
<1>1. TypeInv' /\ KeyInv'
  BY TypeStep, KeyStep DEF ImportInv
<1>2. Cargo' \subseteq Cargo \/ Cargo' \subseteq conf
  BY DEF Cargo
<1>3. FilesInv'
  BY <1>2, FilesStep DEF ImportInv
<1>4. ASSUME edits = 0 PROVE BoundInv'
  <2>1. BoundInv
    BY <1>4 DEF ImportInv
  <2>2. RegistryInv' /\ Discreet
    BY <2>1, RegistryStep, DiscreetStep DEF ImportInv, BoundInv
  <2>3. Bound(Sightings \cup Cargo)'
    <3>1. PICK C : C = Cargo
      OBVIOUS
    <3>2. CASE imp' = imp
      <4>1. Bound(Sightings \cup C)'
        BY <2>1, <2>2, <3>1, BoundKept DEF BoundInv
      <4> QED BY <3>1, <3>2, <4>1 DEF Bound, Cargo
    <3>3. CASE UNCHANGED vars
      <4>1. Sightings' = Sightings
        BY <3>3 DEF vars, dbVars, wgVars, Sightings, Entries, Held
      <4>2. Cargo' \subseteq Cargo \cup Sightings
        BY <1>2 DEF Sightings
      <4> QED BY <2>1, <3>3, <4>1, <4>2 DEF BoundInv, Bound, vars, histVars
    <3> QED BY <3>2, <3>3
  <2>4. FoundOK'
    <3>1. CASE imp' = imp
      BY <2>1, <3>1, RowsKept DEF ImportInv, BoundInv, FoundOK
    <3> QED BY <1>4, <3>1
  <2> QED BY <2>2, <2>3, <2>4 DEF BoundInv
<1> QED BY <1>1, <1>3, <1>4 DEF ImportInv

LEMMA InsertStep == ASSUME ImportInv, ImportInsert PROVE ImportInv'
<1>a. /\ imp.at = "insert" /\ imp.entry \in Entry /\ imp.entry \in Cargo
      /\ \A r \in peers : r.key # imp.entry.key
  BY DEF ImportInsert, Matched, ImportInv, CommandOK, Handling, Cargo
<1>b. imp.entry.key \in Keys /\ imp.entry.ip \in Subnet /\ imp.entry.key \in issued
  BY <1>a DEF Entry, ImportInv, FilesInv
<1>c. TypeInv /\ TypeOK /\ KeysSpent /\ \A v \in Workers : Control(v) /\ Memory(v)
  BY DEF ImportInv, TypeInv
<1>1. PICK i \in Ids \ born :
        /\ peers' = peers \cup {[id |-> i, key |-> imp.entry.key, ip |-> imp.entry.ip]}
        /\ born' = born \cup {i}
  BY DEF ImportInsert
<1>2. PICK r : r = [id |-> i, key |-> imp.entry.key, ip |-> imp.entry.ip]
  OBVIOUS
<1>3. r \in Row /\ r.id = i /\ r.key = imp.entry.key /\ r.ip = imp.entry.ip
  BY <1>b, <1>2 DEF Row
<1>4. /\ peers' = peers \cup {r} /\ spent' = spent \cup {r.key}
      /\ UNCHANGED <<conf, wgUp, live, pc, req, issued, rekeyed, edits>>
      /\ stale' \subseteq stale \cup Workers
      /\ raced' = RacedBy(Importer, r.ip)
  BY <1>1, <1>2, <1>3 DEF ImportInsert, wgVars, TableChanged, Syncing
<1>5. TypeInv'
  <2>1. raced' \in [Workers -> SUBSET Subnet]
    BY <1>b, <1>c, <1>3, <1>4 DEF RacedBy, TypeOK
  <2>2. TypeOK' /\ KeysSpent'
    BY <1>b, <1>c, <1>1, <1>3, <1>4, <2>1 DEF TypeOK, KeysSpent
  <2>3. \A v \in Workers : (Control(v) /\ Memory(v))'
    BY <1>c, <1>4 DEF Control, Memory
  <2> QED BY <2>2, <2>3 DEF TypeInv
<1>6. CommandOK' /\ FoundOK' /\ Cargo' \subseteq Cargo
  BY <1>a DEF ImportInsert, Handled, ImportInv, CommandOK, Command, Handling, Cargo, FoundOK
<1>7. KeyInv'
  <2>1. Registered /\ \A v \in Workers : OwnKey(v)
    BY DEF ImportInv, KeyInv
  <2>2. Registered'
    BY <1>a, <1>1, <1>3, <1>4, <2>1 DEF Registered
  <2>3. ASSUME NEW v \in Workers PROVE OwnKey(v)'
    <3>1. Unsaved(v) => req[v].key # r.key
      BY <1>a, <1>3 DEF ImportInv, FilesInv, NotOnFile
    <3> QED BY <1>4, <2>1, <3>1 DEF OwnKey, Unsaved
  <2> QED BY <2>2, <2>3 DEF KeyInv
<1>8. FilesInv'
  <2>1. Texts' = Texts /\ OnFile' = OnFile
    BY <1>4 DEF Texts, OnFile
  <2>2. NotOnFile'
    BY <1>4, <1>6, <2>1 DEF ImportInv, FilesInv, NotOnFile, Unsaved
  <2> QED BY <1>4, <1>6, <2>1, <2>2 DEF ImportInv, FilesInv, OneEntry
<1>9. ASSUME edits = 0 PROVE BoundInv'
  <2>1. BoundInv
    BY <1>9 DEF ImportInv
  <2>2. ASSUME NEW v \in Workers PROVE LoadedRow(v)'
    BY <1>1, <1>3, <1>4, <2>1 DEF LoadedRow, BoundInv, RegistryInv
  <2>3. EntryOf(r) = imp.entry
    BY <1>a, <1>3 DEF EntryOf, Entry
  <2>4. Entries' \subseteq Entries \cup Cargo
    BY <1>a, <1>4, <2>3 DEF Entries
  <2>5. (Sightings \cup Cargo)' \subseteq Sightings \cup Cargo
    BY <1>4, <1>6, <2>4 DEF Sightings, Held
  <2>6. Bound(Sightings \cup Cargo)'
    BY <1>4, <2>1, <2>5 DEF BoundInv, Bound
  <2> QED BY <1>6, <1>7, <2>2, <2>6 DEF BoundInv, RegistryInv
<1> QED BY <1>4, <1>5, <1>6, <1>7, <1>8, <1>9 DEF ImportInv

\* From a file that nobody edited a forced update rewrites the address that the
\* row has.
LEMMA UpdateWritesNothing == ASSUME ImportInv, ImportUpdate, edits = 0 PROVE peers' = peers
<1>1. CASE UNCHANGED peers
  BY <1>1
<1>2. ASSUME NEW r \in peers, r.id = imp.found, peers' = (peers \ {r}) \cup {Updated(r)}
      PROVE  peers' = peers
  <2>1. r \in Row
    BY DEF ImportInv, TypeInv, TypeOK
  <2>2. r.ip = imp.entry.ip
    BY <1>2 DEF ImportUpdate, ImportInv, BoundInv, FoundOK
  <2>3. Updated(r) = r
    BY <2>1, <2>2 DEF Updated, Row
  <2> QED BY <1>2, <2>3
<1> QED BY <1>1, <1>2 DEF ImportUpdate

\* Else it moves the row, which keeps its id and its key.
LEMMA UpdateMoves ==
  ASSUME ImportInv, ImportUpdate
  PROVE  \/ peers' = peers
         \/ \E r \in peers, s \in Row :
              /\ peers' = (peers \ {r}) \cup {s}
              /\ s.id = r.id /\ s.key = r.key /\ s = [r EXCEPT !.ip = s.ip]
              /\ s.key = imp.entry.key => s.ip = imp.entry.ip
<1>1. ASSUME NEW r \in peers, peers' = (peers \ {r}) \cup {Updated(r)}
      PROVE  \E s \in Row : /\ peers' = (peers \ {r}) \cup {s}
                            /\ s.id = r.id /\ s.key = r.key /\ s = [r EXCEPT !.ip = s.ip]
                            /\ s.key = imp.entry.key => s.ip = imp.entry.ip
  <2>1. r \in Row /\ imp.entry.ip \in Subnet
    BY DEF ImportUpdate, ImportInv, TypeInv, TypeOK, CommandOK, Handling, Entry
  <2>2. PICK s : s = Updated(r)
    OBVIOUS
  <2>3. s \in Row /\ s.id = r.id /\ s.key = r.key /\ s.ip = imp.entry.ip
    BY <2>1, <2>2 DEF Updated, Row
  <2>4. s = [r EXCEPT !.ip = s.ip]
    BY <2>2, <2>3 DEF Updated
  <2> QED BY <1>1, <2>2, <2>3, <2>4
<1> QED BY <1>1 DEF ImportUpdate

\* Between two entries the command holds no entry and no row.
LEMMA HandlesNone ==
  ASSUME imp' \in Command, imp'.at \notin Handling, imp'.entry = NoEntry
  PROVE  CommandOK' /\ FoundOK' /\ Cargo' = imp'.todo \ {NoEntry}
<1>1. imp'.at # "update"
  BY DEF Handling
<1>2. Cargo' = imp'.todo \ {NoEntry}
  BY DEF Cargo
<1> QED BY <1>1, <1>2 DEF CommandOK, FoundOK

LEMMA Stopped ==
  ASSUME Ends PROVE CommandOK' /\ FoundOK' /\ Cargo' = {}
<1>1. NoCommand \in Command /\ NoCommand.at = "off" /\ NoCommand.entry = NoEntry
      /\ NoCommand.todo = {}
  BY DEF NoCommand, Command
<1>2. imp' = NoCommand /\ imp'.at \notin Handling
  BY <1>1 DEF Ends, Handling
<1> QED BY <1>1, <1>2, HandlesNone

LEMMA UpdateStep == ASSUME ImportInv, ImportUpdate PROVE ImportInv'
<1>1. /\ UNCHANGED <<born, spent, conf, wgUp, live, pc, req, issued, raced, rekeyed, edits>>
      /\ stale' \subseteq stale \cup Workers
  BY DEF ImportUpdate, wgVars, TableChanged, Syncing
<1>2. CommandOK' /\ FoundOK' /\ Cargo' \subseteq Cargo
  <2>1. CASE Handled
    <3>1. /\ imp' \in Command /\ imp'.at = "next" /\ imp'.entry = NoEntry
          /\ imp'.todo = imp.todo
      BY <2>1 DEF Handled, ImportInv, CommandOK, Command
    <3> QED BY <3>1, HandlesNone DEF Handling, Cargo
  <2>2. CASE Ends
    BY <2>2, Stopped
  <2> QED BY <2>1, <2>2 DEF ImportUpdate
<1>3. peers' \subseteq Row /\ KeysSpent' /\ Registered'
  <2>1. peers \subseteq Row /\ KeysSpent /\ Registered
    BY DEF ImportInv, TypeInv, TypeOK, KeyInv
  <2>2. CASE peers' = peers
    BY <1>1, <2>1, <2>2 DEF KeysSpent, Registered
  <2>3. ASSUME NEW r \in peers, NEW s \in Row, peers' = (peers \ {r}) \cup {s},
               s.id = r.id, s.key = r.key
        PROVE  peers' \subseteq Row /\ KeysSpent' /\ Registered'
    <3>1. KeysSpent' /\ peers' \subseteq Row
      BY <1>1, <2>1, <2>3 DEF KeysSpent
    <3>2. \A q \in peers \ {r} : q.id # s.id /\ q.key # s.key
      BY <2>1, <2>3 DEF Registered
    <3>3. \A p, q \in peers' : p.id = q.id \/ p.key = q.key => p = q
      BY <2>1, <2>3, <3>2 DEF Registered
    <3>4. \A p \in peers' : p.id \in born' /\ p.key \in spent'
      BY <1>1, <2>1, <2>3 DEF Registered
    <3> QED BY <3>1, <3>3, <3>4 DEF Registered
  <2> QED BY <2>2, <2>3, UpdateMoves
<1>4. TypeInv'
  BY <1>1, <1>3 DEF ImportInv, TypeInv, TypeOK, Control, Memory
<1>5. KeyInv'
  BY <1>1, <1>3 DEF ImportInv, KeyInv, OwnKey
<1>6. FilesInv'
  <2>1. Texts' = Texts /\ OnFile' = OnFile
    BY <1>1 DEF Texts, OnFile
  <2>2. NotOnFile'
    BY <1>1, <1>2, <2>1 DEF ImportInv, FilesInv, NotOnFile, Unsaved
  <2> QED BY <1>1, <1>2, <2>1, <2>2 DEF ImportInv, FilesInv, OneEntry
<1>7. ASSUME edits = 0 PROVE BoundInv'
  <2>1. BoundInv /\ peers' = peers
    BY <1>7, UpdateWritesNothing DEF ImportInv
  <2>2. RegistryInv'
    BY <1>1, <1>5, <2>1 DEF BoundInv, RegistryInv, LoadedRow
  <2>3. Sightings' = Sightings
    BY <1>1, <2>1 DEF Sightings, Entries, Held
  <2>4. Bound(Sightings \cup Cargo)'
    BY <1>1, <1>2, <2>1, <2>3 DEF BoundInv, Bound
  <2> QED BY <1>2, <2>2, <2>4 DEF BoundInv
<1> QED BY <1>1, <1>2, <1>4, <1>5, <1>6, <1>7 DEF ImportInv

\* Nor has a file edited by hand a key that a request is about to store: it is
\* new, and the host's administrator has not seen it anywhere.
LEMMA HostEditStep == ASSUME ImportInv, HostEdits PROVE ImportInv'
<1>1. PICK F \in Legacies \ {conf} :
        /\ \A e \in F : e.key \in spent \cup {f.key : f \in conf} \cup (Keys \ issued)
        /\ conf' = F
        /\ issued' = issued \cup {e.key : e \in F}
  BY DEF HostEdits
<1>2. /\ UNCHANGED <<peers, born, spent, wgUp, live, pc, req, raced, rekeyed, imp>>
      /\ stale' \subseteq stale \cup Workers /\ edits' = edits + 1
  BY DEF HostEdits, dbVars, wgVars, TableChanged, Syncing
<1>3. F \subseteq Entry /\ OneEntry(F)
  BY <1>1, LegacyAssumption DEF OneEntry
<1>4. TypeInv'
  <2>1. issued \subseteq issued' /\ issued' \subseteq Keys
    BY <1>1, <1>3 DEF ImportInv, TypeInv, TypeOK, Entry
  <2>2. TypeOK' /\ KeysSpent'
    BY <1>1, <1>2, <1>3, <2>1 DEF ImportInv, TypeInv, TypeOK, KeysSpent
  <2>3. ASSUME NEW w \in Workers PROVE Control(w)' /\ Memory(w)'
    BY <1>2, <2>1 DEF ImportInv, TypeInv, Control, Memory
  <2> QED BY <2>2, <2>3 DEF TypeInv
<1>5. KeyInv'
  BY <1>2 DEF ImportInv, KeyInv, Registered, OwnKey
<1>6. CommandOK' /\ Cargo' = Cargo
  BY <1>2 DEF ImportInv, CommandOK, Cargo
<1>7. ASSUME NEW w \in Workers, Unsaved(w)
      PROVE  /\ req[w].key \in issued /\ req[w].key \notin spent
             /\ \A e \in conf : e.key # req[w].key
  <2>1. req[w].op \in {"create", "regenerate"}
    BY <1>7 DEF ImportInv, TypeInv, TypeOK, Control, Request, SyncLabels, Unsaved
  <2>2. req[w].key \in issued
    BY <2>1 DEF ImportInv, TypeInv, Memory
  <2>3. req[w].key \notin spent
    BY <1>7 DEF ImportInv, KeyInv, OwnKey, Unsaved
  <2> QED BY <1>7, <2>2, <2>3 DEF ImportInv, FilesInv, NotOnFile, OnFile
<1>8. FilesInv'
  <2>1. Texts' \subseteq Texts \cup {F} /\ OnFile' \subseteq OnFile \cup F
    BY <1>1, <1>2 DEF Texts, OnFile
  <2>2. ASSUME NEW w \in Workers, Unsaved(w)', NEW e \in (OnFile \cup Cargo)'
        PROVE  e.key # req'[w].key
    <3>1. Unsaved(w) /\ req'[w].key = req[w].key
      BY <1>2, <2>2 DEF Unsaved
    <3>2. CASE e \in OnFile \cup Cargo
      BY <3>1, <3>2 DEF ImportInv, FilesInv, NotOnFile
    <3>3. CASE e \in F
      BY <1>1, <1>7, <3>1, <3>3
    <3> QED BY <1>6, <2>1, <2>2, <3>2, <3>3
  <2>3. \A T \in Texts' \cup {Cargo'} : OneEntry(T)
    BY <1>3, <1>6, <2>1 DEF ImportInv, FilesInv
  <2>4. \A e \in OnFile' \cup Cargo' : e.key \in issued'
    BY <1>1, <1>6, <2>1 DEF ImportInv, FilesInv
  <2>5. NotOnFile'
    BY <2>2 DEF NotOnFile
  <2> QED BY <2>3, <2>4, <2>5 DEF FilesInv, OneEntry
<1>9. edits' \in Nat /\ edits' # 0
  BY <1>2 DEF ImportInv
<1> QED BY <1>4, <1>5, <1>6, <1>8, <1>9 DEF ImportInv

\* The other steps of the command change nothing of the web's state.
LEMMA ReadStep ==
  ASSUME ImportInv,
         ImportParse \/ ImportInterface \/ ImportLookup \/ ImportDone \/ ImportDies
  PROVE  /\ UNCHANGED vars /\ edits' = edits /\ CommandOK'
         /\ Cargo' \subseteq Cargo \/ Cargo' \subseteq conf
         /\ edits = 0 => FoundOK'
<1>a. CommandOK /\ conf \subseteq Entry
  BY DEF ImportInv, TypeInv, TypeOK
<1>1. UNCHANGED vars /\ edits' = edits
  BY DEF ImportParse, ImportInterface, ImportLookup, ImportDone, ImportDies
<1>2. CASE ImportParse
  <2>1. PICK force \in BOOLEAN, lacking \in SUBSET {NoEntry} :
          imp' = [NoCommand EXCEPT !.at = "interface", !.force = force,
                                   !.todo = conf \cup lacking]
    BY <1>2 DEF ImportParse
  <2>2. PICK T \in SUBSET (Entry \cup {NoEntry}) :
          T = conf \cup lacking /\ T \ {NoEntry} \subseteq conf
    BY <1>a
  <2>3. imp' \in Command /\ imp'.at = "interface" /\ imp'.entry = NoEntry /\ imp'.todo = T
    BY <2>1, <2>2 DEF NoCommand, Command
  <2> QED BY <1>1, <2>2, <2>3, HandlesNone DEF Handling
<1>3. CASE ImportInterface
  <2>1. imp.at = "interface" /\ imp' = [imp EXCEPT !.at = "next"]
    BY <1>3 DEF ImportInterface
  <2>2. /\ imp' \in Command /\ imp'.at = "next" /\ imp'.entry = NoEntry
        /\ imp'.todo = imp.todo
    BY <1>a, <2>1 DEF CommandOK, Command, Handling
  <2> QED BY <1>1, <2>2, HandlesNone DEF Handling, Cargo
<1>4. CASE ImportDone \/ ImportDies
  BY <1>1, <1>4, Stopped DEF ImportDone, ImportDies
<1>5. CASE ImportLookup
  <2>0. imp.at = "next"
    BY <1>5 DEF ImportLookup
  <2>1. CASE imp' = [imp EXCEPT !.todo = @ \ {NoEntry}]
    <3>1. /\ imp' \in Command /\ imp'.at = "next" /\ imp'.entry = NoEntry
          /\ imp'.todo \subseteq imp.todo
      BY <1>a, <2>0, <2>1 DEF CommandOK, Command, Handling
    <3> QED BY <1>1, <3>1, HandlesNone DEF Handling, Cargo
  <2> DEFINE Takes(e) ==
               \/ imp' = [imp EXCEPT !.todo = @ \ {e}]
               \/ imp.force /\ \E r \in Matched(e) :
                    imp' = [imp EXCEPT !.todo = @ \ {e}, !.at = "update",
                                       !.entry = e, !.found = r.id]
               \/ imp' = [imp EXCEPT !.todo = @ \ {e}, !.at = "insert", !.entry = e]
  <2>2. ASSUME NEW e \in imp.todo \ {NoEntry}, Takes(e)
        PROVE  /\ CommandOK' /\ Cargo' \subseteq Cargo
               /\ edits = 0 => FoundOK'
    <3>0. e \in Entry /\ e \in Cargo
      BY <1>a DEF CommandOK, Command, Cargo
    <3>1. CASE imp' = [imp EXCEPT !.todo = @ \ {e}]
      <4>1. /\ imp' \in Command /\ imp'.at = "next" /\ imp'.entry = NoEntry
            /\ imp'.todo \subseteq imp.todo
        BY <1>a, <2>0, <3>1 DEF CommandOK, Command, Handling
      <4> QED BY <4>1, HandlesNone DEF Handling, Cargo
    <3>2. CASE imp' = [imp EXCEPT !.todo = @ \ {e}, !.at = "insert", !.entry = e]
      <4>1. /\ imp' \in Command /\ imp'.at = "insert" /\ imp'.entry = e
            /\ imp'.todo \subseteq imp.todo
        BY <1>a, <3>0, <3>2 DEF CommandOK, Command
      <4>2. Cargo' \subseteq Cargo
        BY <3>0, <4>1 DEF Cargo
      <4> QED BY <3>0, <4>1, <4>2 DEF CommandOK, Handling, FoundOK
    <3>3. ASSUME NEW r \in Matched(e), imp.force,
                 imp' = [imp EXCEPT !.todo = @ \ {e}, !.at = "update",
                                    !.entry = e, !.found = r.id]
          PROVE  CommandOK' /\ Cargo' \subseteq Cargo /\ (edits = 0 => FoundOK')
      <4>1. r \in peers /\ r.key = e.key /\ r.id \in born /\ r.id \in Ids
        BY DEF Matched, ImportInv, TypeInv, TypeOK, Row, KeyInv, Registered
      <4>2. /\ imp'.at = "update" /\ imp'.entry = e /\ imp'.found = r.id
            /\ imp'.todo \subseteq imp.todo /\ imp'.force
        BY <1>a, <3>3 DEF CommandOK, Command
      <4>3. CommandOK'
        BY <1>a, <3>0, <3>3, <4>1, <4>2 DEF CommandOK, Command, Handling
      <4>4. Cargo' \subseteq Cargo
        BY <3>0, <4>2 DEF Cargo
      <4>5. ASSUME edits = 0 PROVE FoundOK'
        <5>1. EntryOf(r) \in Sightings
          BY <4>1 DEF Sightings, Entries
        <5>2. r.ip = e.ip
          BY <3>0, <4>1, <4>5, <5>1 DEF ImportInv, BoundInv, Bound, EntryOf
        <5>3. \A s \in peers : s.id = r.id => s = r
          BY <4>1 DEF ImportInv, KeyInv, Registered
        <5> QED BY <1>1, <4>1, <4>2, <5>2, <5>3 DEF FoundOK, vars, dbVars
      <4> QED BY <4>3, <4>4, <4>5
    <3> QED BY <2>2, <3>1, <3>2, <3>3
  <2>3. \/ imp' = [imp EXCEPT !.todo = @ \ {NoEntry}]
        \/ \E e \in imp.todo \ {NoEntry} : Takes(e)
    BY <1>5, Zenon DEF ImportLookup
  <2> HIDE DEF Takes
  <2> QED BY <1>1, <2>1, <2>2, <2>3
<1> QED BY <1>1, <1>2, <1>3, <1>4, <1>5

LEMMA ImportStep == ImportInv /\ [ImportNext]_allVars => ImportInv'
<1> SUFFICES ASSUME ImportInv, [ImportNext]_allVars PROVE ImportInv'
  OBVIOUS
<1>1. CASE ImportParse \/ ImportInterface \/ ImportLookup \/ ImportDone \/ ImportDies
  BY <1>1, ReadStep, WebStep
<1>2. CASE ImportInsert
  BY <1>2, InsertStep
<1>3. CASE ImportUpdate
  BY <1>3, UpdateStep
<1>4. CASE HostEdits
  BY <1>4, HostEditStep
<1>5. CASE Web(Next) \/ UNCHANGED allVars
  <2>1. imp' = imp /\ edits' = edits /\ [Next]_vars
    BY <1>5 DEF Web, allVars, impVars
  <2>2. CommandOK'
    BY <2>1 DEF ImportInv, CommandOK
  <2> QED BY <2>1, <2>2, WebStep
<1> QED BY <1>1, <1>2, <1>3, <1>4, <1>5 DEF ImportNext, Import

\* With the command too a key has one address in every place, in the entries
\* the command has read among them, whatever the workers did to table and file
\* since it read them (import_wg_config.py:365-434), until somebody edits the
\* file by hand.
THEOREM ImportBinds == ImportSpec => []ImportKeepsBinding
<1>1. ImportInv => ImportKeepsBinding
  <2> SUFFICES ASSUME ImportInv, edits = 0,
                      NEW e \in (Sightings \cup imp.todo \cup {imp.entry}) \ {NoEntry},
                      NEW f \in (Sightings \cup imp.todo \cup {imp.entry}) \ {NoEntry},
                      e.key = f.key
               PROVE  e.ip = f.ip
    BY DEF ImportKeepsBinding
  <2>1. imp.entry # NoEntry => imp.entry \in Cargo
    BY DEF ImportInv, CommandOK, Cargo
  <2>2. e \in Sightings \cup Cargo /\ f \in Sightings \cup Cargo
    BY <2>1 DEF Cargo
  <2> QED BY <2>2 DEF ImportInv, BoundInv, Bound
<1> QED BY <1>1, ImportInitInv, ImportStep, PTL DEF ImportSpec

-----------------------------------------------------------------------------
(***************************************************************************)
(* Adoption. As long as nobody else changes table or file, what the file   *)
(* has is in the table or still to be handled.                             *)
(***************************************************************************)
Adopted(e) == \E r \in peers : r.key = e.key /\ (r.ip = e.ip \/ (edits > 0 /\ ~imp.force))

AdoptInv ==
  imp.at # "off" /\ ~disturbed =>
    /\ \A e \in conf : e \in Cargo \/ Adopted(e)
    /\ Cargo \subseteq conf
    /\ imp.at = "update" => \E r \in peers : r.id = imp.found /\ r.key = imp.entry.key

\* As long as nobody has edited the file, a row with the key of an entry that
\* the command holds has its address.
LEMMA MatchedIsEntry ==
  ASSUME ImportInv, NEW e \in Cargo, NEW r \in Matched(e), edits = 0 PROVE r.ip = e.ip
<1>1. EntryOf(r) \in Sightings /\ EntryOf(r).key = e.key /\ EntryOf(r).ip = r.ip
  BY DEF Matched, Sightings, Entries, EntryOf
<1> QED BY <1>1 DEF ImportInv, BoundInv, Bound

LEMMA AdoptLookup == ASSUME ImportInv, AdoptInv, ImportLookup PROVE AdoptInv'
<1>1. UNCHANGED <<peers, conf, disturbed, edits>>
  BY DEF ImportLookup, vars, dbVars
<1>2. imp \in Command /\ imp.at = "next" /\ Cargo = imp.todo \ {NoEntry}
  BY DEF ImportLookup, ImportInv, CommandOK, Cargo, Handling
<1>3. CASE imp' = [imp EXCEPT !.todo = @ \ {NoEntry}]
  <2>1. /\ imp'.at = "next" /\ imp'.todo = imp.todo \ {NoEntry}
        /\ imp'.force = imp.force /\ imp'.entry = imp.entry
    BY <1>2, <1>3 DEF Command
  <2>2. Cargo' = Cargo
    BY <1>2, <2>1 DEF Cargo, Handling
  <2> QED BY <1>1, <1>2, <2>1, <2>2 DEF AdoptInv, Adopted
<1>4. ASSUME NEW e \in imp.todo \ {NoEntry}, Matched(e) # {}, ~imp.force,
             imp' = [imp EXCEPT !.todo = @ \ {e}]
      PROVE  AdoptInv'
  <2>1. /\ imp'.at = "next" /\ imp'.todo = imp.todo \ {e}
        /\ imp'.force = imp.force /\ imp'.entry = imp.entry
    BY <1>2, <1>4 DEF Command
  <2>2. Cargo' = Cargo \ {e}
    BY <1>2, <2>1 DEF Cargo, Handling
  <2>3. PICK r \in Matched(e) : TRUE
    BY <1>4
  <2>4. Adopted(e)
    <3>1. edits = 0 => r.ip = e.ip
      BY <1>2, MatchedIsEntry
    <3> QED BY <1>4, <3>1 DEF Adopted, Matched, ImportInv
  <2> QED BY <1>1, <1>2, <2>1, <2>2, <2>4 DEF AdoptInv, Adopted
<1>5. ASSUME NEW e \in imp.todo \ {NoEntry},
             imp' = [imp EXCEPT !.todo = @ \ {e}, !.at = "insert", !.entry = e]
      PROVE  AdoptInv'
  <2>1. /\ imp'.at = "insert" /\ imp'.entry = e /\ imp'.todo = imp.todo \ {e}
        /\ imp'.force = imp.force
    BY <1>2, <1>5 DEF Command
  <2>2. Cargo' = Cargo
    BY <1>2, <2>1 DEF Cargo, Handling
  <2> QED BY <1>1, <1>2, <2>1, <2>2 DEF AdoptInv, Adopted
<1>6. ASSUME NEW e \in imp.todo \ {NoEntry}, NEW r \in Matched(e),
             imp' = [imp EXCEPT !.todo = @ \ {e}, !.at = "update", !.entry = e, !.found = r.id]
      PROVE  AdoptInv'
  <2>1. /\ imp'.at = "update" /\ imp'.entry = e /\ imp'.found = r.id
        /\ imp'.todo = imp.todo \ {e} /\ imp'.force = imp.force
    BY <1>2, <1>6 DEF Command
  <2>2. Cargo' = Cargo
    BY <1>2, <2>1 DEF Cargo, Handling
  <2>3. r \in peers /\ r.key = e.key
    BY DEF Matched
  <2> QED BY <1>1, <1>2, <2>1, <2>2, <2>3 DEF AdoptInv, Adopted
<1> QED BY <1>3, <1>4, <1>5, <1>6 DEF ImportLookup

\* What the command stores is an entry of the file: the row of no other entry
\* loses its key, nor its address.
LEMMA AdoptInsert == ASSUME ImportInv, AdoptInv, ImportInsert PROVE AdoptInv'
<1>1. PICK i :
        peers' = peers \cup {[id |-> i, key |-> imp.entry.key, ip |-> imp.entry.ip]}
  BY DEF ImportInsert
<1>2. /\ imp.at = "insert" /\ imp \in Command
      /\ UNCHANGED <<conf, disturbed, edits>> /\ Handled
  BY DEF ImportInsert, ImportInv, CommandOK
<1>3. PICK r : r = [id |-> i, key |-> imp.entry.key, ip |-> imp.entry.ip]
  OBVIOUS
<1>4. r \in peers' /\ r.key = imp.entry.key /\ r.ip = imp.entry.ip /\ peers \subseteq peers'
  BY <1>1, <1>3
<1>5. imp'.at = "next" /\ imp'.todo = imp.todo /\ imp'.force = imp.force
  BY <1>2 DEF Handled, Command
<1>6. Cargo \subseteq Cargo' \cup {imp.entry} /\ Cargo' \subseteq Cargo
  BY <1>5 DEF Cargo, Handling
<1> QED BY <1>2, <1>4, <1>5, <1>6 DEF AdoptInv, Adopted

LEMMA AdoptUpdate == ASSUME ImportInv, AdoptInv, ImportUpdate PROVE AdoptInv'
<1>a. imp \in Command /\ imp.at = "update" /\ imp.force /\ imp.entry \in Cargo
  BY DEF ImportUpdate, ImportInv, CommandOK, Handling, Cargo
<1>1. CASE Ends
  BY <1>1 DEF Ends, NoCommand, AdoptInv
<1>2. ASSUME NEW r \in peers, r.id = imp.found, peers' = (peers \ {r}) \cup {Updated(r)},
             Handled, disturbed' = disturbed
      PROVE  AdoptInv'
  <2> SUFFICES ASSUME ~disturbed
               PROVE  /\ \A e \in conf' : e \in Cargo' \/ Adopted(e)'
                      /\ Cargo' \subseteq conf'
                      /\ imp'.at # "update"
    BY <1>2 DEF AdoptInv
  <2>1. UNCHANGED <<conf, edits>>
    BY DEF ImportUpdate
  <2>2. imp'.at = "next" /\ imp'.todo = imp.todo /\ imp'.force = imp.force
    BY <1>a, <1>2 DEF Handled, Command
  <2>3. Cargo \subseteq Cargo' \cup {imp.entry} /\ Cargo' \subseteq Cargo
    BY <2>2 DEF Cargo, Handling
  <2>4. /\ \A e \in conf : e \in Cargo \/ Adopted(e)
        /\ Cargo \subseteq conf
    BY <1>a DEF AdoptInv
  <2>5. r.key = imp.entry.key
    <3>1. PICK q \in peers : q.id = imp.found /\ q.key = imp.entry.key
      BY <1>a DEF AdoptInv
    <3> QED BY <1>2, <3>1 DEF ImportInv, KeyInv, Registered
  <2>6. PICK s : s = Updated(r)
    OBVIOUS
  <2>7. s \in peers' /\ s.key = imp.entry.key /\ s.ip = imp.entry.ip
    <3>1. r \in Row
      BY DEF ImportInv, TypeInv, TypeOK
    <3> QED BY <1>2, <2>5, <2>6, <3>1 DEF Updated, Row
  <2>8. ASSUME NEW e \in conf PROVE e \in Cargo' \/ Adopted(e)'
    <3>1. CASE e = imp.entry
      BY <2>7, <3>1 DEF Adopted
    <3>2. CASE e # imp.entry
      <4>1. e.key # imp.entry.key
        BY <1>a, <2>4, <3>2 DEF ImportInv, FilesInv, Texts, OneEntry
      <4>2. \A q \in peers : q.key = e.key => q \in peers'
        BY <1>2, <2>5, <4>1
      <4> QED BY <2>1, <2>2, <2>3, <2>4, <3>2, <4>2 DEF Adopted
    <3> QED BY <3>1, <3>2
  <2> QED BY <2>1, <2>2, <2>3, <2>4, <2>8
<1> QED BY <1>1, <1>2 DEF ImportUpdate

LEMMA AdoptStep == ImportInv /\ AdoptInv /\ [ImportNext]_allVars => AdoptInv'
<1> SUFFICES ASSUME ImportInv, AdoptInv, [ImportNext]_allVars PROVE AdoptInv'
  OBVIOUS
<1>a. imp \in Command
  BY DEF ImportInv, CommandOK
<1>1. CASE ImportParse
  <2>1. PICK force \in BOOLEAN, lacking \in SUBSET {NoEntry} :
          imp' = [NoCommand EXCEPT !.at = "interface", !.force = force,
                                   !.todo = conf \cup lacking]
    BY <1>1 DEF ImportParse
  <2>2. /\ imp'.todo = conf \cup lacking /\ conf' = conf /\ imp'.at = "interface"
        /\ conf \subseteq Entry
    BY <1>1, <2>1 DEF ImportParse, NoCommand, vars, ImportInv, TypeInv, TypeOK
  <2>3. Cargo' = conf
    BY <2>2, NoEntryAssumption DEF Cargo, Handling
  <2> QED BY <2>2, <2>3 DEF AdoptInv
<1>2. CASE ImportInterface
  <2>1. /\ imp'.todo = imp.todo /\ imp.at = "interface" /\ imp'.at = "next"
        /\ imp'.entry = imp.entry /\ imp'.force = imp.force
    BY <1>2, <1>a DEF ImportInterface, Command
  <2>2. UNCHANGED <<peers, conf, disturbed, edits>>
    BY <1>2 DEF ImportInterface, vars, dbVars
  <2>3. Cargo' = Cargo
    BY <2>1 DEF Cargo, Handling
  <2> QED BY <2>1, <2>2, <2>3 DEF AdoptInv, Adopted
<1>3. CASE ImportLookup
  BY <1>3, AdoptLookup
<1>4. CASE ImportInsert
  BY <1>4, AdoptInsert
<1>5. CASE ImportUpdate
  BY <1>5, AdoptUpdate
<1>6. CASE ImportDone \/ ImportDies
  BY <1>6 DEF ImportDone, ImportDies, Ends, NoCommand, AdoptInv
<1>7. CASE HostEdits
  BY <1>7 DEF HostEdits, AdoptInv
<1>8. CASE Web(Next)
  <2>1. /\ imp' = imp /\ edits' = edits
        /\ disturbed' = (imp.at # "off" /\ (disturbed \/ peers' # peers \/ conf' # conf))
    BY <1>8 DEF Web
  <2>2. ASSUME imp.at # "off", ~disturbed'
        PROVE  peers' = peers /\ conf' = conf /\ ~disturbed
    <3>1. ~(imp.at # "off" /\ (disturbed \/ peers' # peers \/ conf' # conf))
      BY <2>1, <2>2
    <3> QED BY <2>2, <3>1
  <2> QED BY <2>1, <2>2 DEF AdoptInv, Cargo, Adopted
<1>9. CASE UNCHANGED allVars
  BY <1>9 DEF allVars, impVars, vars, dbVars, AdoptInv, Cargo, Adopted
<1> QED
  BY <1>1, <1>2, <1>3, <1>4, <1>5, <1>6, <1>7, <1>8, <1>9 DEF ImportNext, Import

\* An import during which nobody else changed table or file leaves every peer
\* of the file in the table, forced or not, whatever the table had before and
\* whatever key, address or row was there: the next sync disconnects nobody
\* (import_wg_config.py:445-453). An address that somebody edited by hand is in
\* the table too if the import was forced.
THEOREM ImportAdoptsAll == ImportSpec => ImportAdopts
<1>1. ImportInit => AdoptInv
  BY DEF ImportInit, NoCommand, AdoptInv
<1>2. ImportInv /\ AdoptInv /\ [ImportNext]_allVars =>
        [ImportDone /\ ~disturbed =>
           \A e \in conf : \E r \in peers :
             r.key = e.key /\ (r.ip = e.ip \/ (edits > 0 /\ ~imp.force))]_allVars
  <2> SUFFICES ASSUME ImportInv, AdoptInv, ImportDone, ~disturbed, NEW e \in conf
               PROVE  Adopted(e)
    BY DEF Adopted
  <2>1. imp.at = "next" /\ imp.todo = {}
    BY DEF ImportDone
  <2>2. Cargo = {}
    BY <2>1 DEF Cargo, Handling
  <2> QED BY <2>1, <2>2 DEF AdoptInv
<1> QED
  BY <1>1, <1>2, ImportInitInv, ImportStep, AdoptStep, PTL DEF ImportSpec, ImportAdopts

-----------------------------------------------------------------------------
(***************************************************************************)
(* What follows for the promises of PeerLifecycle.                         *)
(***************************************************************************)

\* In any step but a forced update a row that stays keeps its address.
LEMMA RowsStay ==
  ASSUME ImportInv, [ImportNext]_allVars,
         NEW r \in peers, NEW s \in peers', r.id = s.id, r.ip # s.ip
  PROVE  ImportUpdate
<1>1. CASE [Next]_vars
  <2>1. PICK q \in peers : q.id = s.id /\ q.ip = s.ip
    BY <1>1, RowsKept DEF ImportInv, KeyInv, Registered
  <2> QED BY <2>1 DEF ImportInv, KeyInv, Registered
<1>2. CASE ImportInsert
  <2>1. PICK i \in Ids \ born :
          peers' = peers \cup {[id |-> i, key |-> imp.entry.key, ip |-> imp.entry.ip]}
    BY <1>2 DEF ImportInsert
  <2>2. s \in peers
    BY <2>1 DEF ImportInv, KeyInv, Registered
  <2> QED BY <2>2 DEF ImportInv, KeyInv, Registered
<1>3. CASE HostEdits
  BY <1>3 DEF HostEdits, dbVars, ImportInv, KeyInv, Registered
<1>4. CASE ImportParse \/ ImportInterface \/ ImportLookup \/ ImportDone \/ ImportDies
  BY <1>1, <1>4 DEF ImportParse, ImportInterface, ImportLookup, ImportDone, ImportDies
<1> QED BY <1>1, <1>2, <1>3, <1>4 DEF ImportNext, Import, Web, allVars

\* An address changes by a forced update only, and by that only if the file was
\* edited by hand: what the command reads from a file the program wrote, and
\* saves to a row it found some statements earlier, is the address the row has
\* (import_wg_config.py:371-416).
THEOREM ForceMovesEdited == ImportSpec => MovedOnlyByEdit
<1>1. ImportInv /\ [ImportNext]_allVars =>
        [\A r \in peers, s \in peers' :
           r.id = s.id /\ r.ip # s.ip => edits > 0 /\ imp.force /\ imp.at = "update"]_allVars
  <2> SUFFICES ASSUME ImportInv, [ImportNext]_allVars,
                      NEW r \in peers, NEW s \in peers', r.id = s.id, r.ip # s.ip
               PROVE  edits > 0 /\ imp.force /\ imp.at = "update"
    OBVIOUS
  <2>1. ImportUpdate
    BY RowsStay
  <2>2. imp.at = "update" /\ imp.force
    BY <2>1 DEF ImportUpdate, ImportInv, CommandOK
  <2>3. peers' # peers
    BY DEF ImportInv, KeyInv, Registered
  <2>4. edits # 0
    BY <2>1, <2>3, UpdateWritesNothing
  <2> QED BY <2>2, <2>4 DEF ImportInv
<1> QED BY <1>1, ImportInitInv, ImportStep, PTL DEF ImportSpec, MovedOnlyByEdit

\* A sync that nobody disturbs, the command and an edit of the file included,
\* still brings table, file and interface to agreement (services.py:287-293).
THEOREM SyncRepairsBesideImport == ImportSpec => SyncConverges
<1>1. ImportInit => SyncInv
  BY DEF ImportInit, SyncInv, Fresh
<1>2. ImportInv /\ SyncInv /\ [ImportNext]_allVars => SyncInv'
  <2> SUFFICES ASSUME ImportInv, SyncInv, [ImportNext]_allVars PROVE SyncInv'
    OBVIOUS
  <2>1. CASE [Next]_vars
    BY <2>1, SyncStep DEF ImportInv
  <2>2. ASSUME UNCHANGED <<pc, req>>, TableChanged(Importer), NEW v \in Workers
        PROVE  Fresh(v)'
    <3>1. v # Importer /\ Syncing \ {Importer} \subseteq stale'
      BY <2>2, ImporterAssumption DEF TableChanged
    <3> QED BY <2>2, <3>1, OthersStale
  <2>3. CASE ImportInsert \/ HostEdits
    BY <2>2, <2>3 DEF ImportInsert, HostEdits, SyncInv
  <2>4. CASE ImportUpdate
    <3>1. CASE TableChanged(Importer)
      BY <2>2, <2>4, <3>1 DEF ImportUpdate, SyncInv
    <3>2. CASE UNCHANGED <<peers, stale>>
      BY <2>4, <3>2 DEF ImportUpdate, SyncInv, Fresh, Entries
    <3> QED BY <2>4, <3>1, <3>2 DEF ImportUpdate
  <2>5. CASE ImportParse \/ ImportInterface \/ ImportLookup \/ ImportDone \/ ImportDies
    BY <2>1, <2>5 DEF ImportParse, ImportInterface, ImportLookup, ImportDone, ImportDies
  <2> QED BY <2>1, <2>3, <2>4, <2>5 DEF ImportNext, Import, Web, allVars
<1>3. SyncInv /\ [ImportNext]_allVars =>
        [\A w \in Workers : pc[w] = "apply" /\ w \notin stale /\ SyncconfApply(w) => InSync']_vars
  BY UndisturbedSync
<1> QED
  BY <1>1, <1>2, <1>3, ImportInitInv, ImportStep, PTL DEF ImportSpec, SyncConverges

LEMMA ReturningStep ==
  ImportInv /\ [ImportNext]_allVars => [Registry!Next \/ Registry!Return \/ Registry!Move]_Registry!vars
<1> SUFFICES ASSUME ImportInv, [ImportNext]_allVars
             PROVE  [Registry!Next \/ Registry!Return \/ Registry!Move]_Registry!vars
  OBVIOUS
<1>1. ASSUME [Next]_vars PROVE [Registry!Next]_Registry!vars
  BY <1>1, RegistryNext DEF ImportInv
<1>2. CASE Web(Next)
  BY <1>1, <1>2 DEF Web
<1>3. CASE ImportInsert
  <2>1. PICK i \in Ids \ born :
          /\ peers' = peers \cup {[id |-> i, key |-> imp.entry.key, ip |-> imp.entry.ip]}
          /\ born' = born \cup {i}
    BY <1>3 DEF ImportInsert
  <2>2. PICK r : r = [id |-> i, key |-> imp.entry.key, ip |-> imp.entry.ip]
    OBVIOUS
  <2>3. imp.entry \in Entry /\ \A s \in peers : s.key # imp.entry.key
    BY <1>3 DEF ImportInsert, Matched, ImportInv, CommandOK, Handling
  <2>4. /\ r \in Registry!Row /\ r.id = i /\ r.id \notin born
        /\ r.key = imp.entry.key /\ \A s \in peers : s.key # r.key
    BY <2>2, <2>3 DEF Entry, Registry!Row
  <2>5. /\ peers' = peers \cup {r} /\ born' = born \cup {r.id}
        /\ spent' = spent \cup {r.key}
    BY <1>3, <2>1, <2>2, <2>4 DEF ImportInsert
  <2>6. CASE r.key \in spent
    BY <2>4, <2>5, <2>6 DEF Registry!Return
  <2>7. CASE r.key \notin spent
    BY <2>4, <2>5, <2>7 DEF Registry!Next, Registry!Add
  <2> QED BY <2>6, <2>7
<1>4. CASE ImportUpdate
  <2>1. UNCHANGED <<born, spent>>
    BY <1>4 DEF ImportUpdate
  <2>2. CASE peers' = peers
    BY <2>1, <2>2 DEF Registry!vars
  <2>3. ASSUME NEW r \in peers, NEW s \in Row,
               peers' = (peers \ {r}) \cup {s}, s = [r EXCEPT !.ip = s.ip]
        PROVE  Registry!Move
    <3>1. PICK a \in Subnet : a = s.ip
      BY DEF Row
    <3>2. peers' = (peers \ {r}) \cup {[r EXCEPT !.ip = a]}
      BY <2>3, <3>1
    <3> QED BY <2>1, <3>2 DEF Registry!Move
  <2> QED BY <1>4, <2>2, <2>3, UpdateMoves
<1>5. CASE HostEdits
  BY <1>5 DEF HostEdits, dbVars, Registry!vars
<1>6. CASE \/ ImportParse \/ ImportInterface \/ ImportLookup \/ ImportDone \/ ImportDies
           \/ UNCHANGED allVars
  BY <1>1, <1>6
     DEF ImportParse, ImportInterface, ImportLookup, ImportDone, ImportDies, allVars
<1> QED BY <1>2, <1>3, <1>4, <1>5, <1>6 DEF ImportNext, Import

\* The command and the services together implement the abstract table to which
\* a key may return and in which a peer may move, whatever the file was edited
\* to: the command saves entries read before, into rows found before, and never
\* gives a row another key, a key a second row, or a row an id that was used
\* (import_wg_config.py:389-430).
THEOREM ImportImplementsReturning == ImportSpec => ImportKeepsRegistry
<1>1. ImportInit => Registry!Init
  BY DEF ImportInit, Registry!Init
<1> QED
  BY <1>1, ImportInitInv, ImportStep, ReturningStep, PTL
     DEF ImportSpec, ImportKeepsRegistry, Registry!ReturningSpec

\* Beside the command ids and keys identify the rows, each at any moment: what
\* it inserts it looked up some statements before (import_wg_config.py:389-422).
THEOREM ImportRowsIdentified == ImportSpec => []Registry!RowsIdentified
<1>1. ImportInv => Registry!RowsIdentified
  BY DEF ImportInv, KeyInv, Registered, Registry!RowsIdentified
<1> QED BY <1>1, ImportInitInv, ImportStep, PTL DEF ImportSpec
=============================================================================
