--------------------------- MODULE PeerLifecycle ---------------------------
(***************************************************************************)
(* The life of WireGuard peers in wgadminui: the three services that       *)
(* create, regenerate and delete a peer (wireguard/services.py), as the    *)
(* gunicorn workers run them for concurrent requests, over the three       *)
(* places a peer is recorded in:                                           *)
(*                                                                         *)
(*   peers   the PeerConfig table (SQLite, autocommit)                     *)
(*   conf    the [Peer] sections of the interface's conf file              *)
(*   live    the routes of the running interface: which key owns which     *)
(*           address (the kernel gives an address to one peer at most)     *)
(*                                                                         *)
(* A worker's request is a sequence of steps, one for each access to one   *)
(* of these three; between two steps any other worker may take its own.    *)
(* What a request has read or computed is kept in req[w].                  *)
(***************************************************************************)
EXTENDS Naturals

CONSTANTS
  Workers,     \* the gunicorn worker processes
  Ids,         \* the UUIDs a new PeerConfig row can be given
  Keys,        \* the public keys generate_keypair can produce
  Broadcast,   \* the last address of the interface's subnet, the first is 0
  ManualIps,   \* the addresses a user may type into the create form
  NoId, NoKey, NoAddr

ASSUME BroadcastAssumption == Broadcast \in Nat /\ Broadcast >= 3
ASSUME NullAssumption ==
  NoId \notin Ids /\ NoKey \notin Keys /\ NoAddr \notin 0..Broadcast

VARIABLES
  peers,       \* the PeerConfig table: a set of rows
  conf,        \* the conf file: a set of entries
  wgUp,        \* the interface is up
  live,        \* its routes: a set of entries
  pc,          \* where each worker is in its request
  req,         \* what the request has read or computed
  \* History: what happened, never read by the program.
  born,        \* ids that were ever inserted
  spent,       \* keys that were ever stored in the table
  issued,      \* keys that were ever generated
  raced,       \* addresses others inserted since a worker read the table
  stale,       \* workers whose conf text no longer is what is stored
  rekeyed      \* peers whose key changed since the last complete sync

dbVars   == <<peers, born, spent>>
wgVars   == <<wgUp, live>>
histVars == <<issued, raced, stale, rekeyed>>
vars     == <<dbVars, conf, wgVars, pc, req, histVars>>

-----------------------------------------------------------------------------
(* Data *)

Subnet    == 0..Broadcast
AutoAddrs == 2..(Broadcast - 1)     \* not .0, not the server's .1, not the last

Row   == [id : Ids, key : Keys, ip : Subnet]
Entry == [key : Keys, ip : Subnet]

EntryOf(r) == [key |-> r.key, ip |-> r.ip]

\* The [Peer] sections and the addresses the table stands for.
Entries == {EntryOf(r) : r \in peers}
DbIps   == {r.ip : r \in peers}
LiveIps == {e.ip : e \in live}

\* The routes the kernel can end up with when it is given the peers in C:
\* every address is routed, to the peer of C that was configured last.
Routings(C) == {R \in SUBSET C :
                  /\ \A e, f \in R : e.ip = f.ip => e = f
                  /\ \A e \in C : \E f \in R : f.ip = e.ip}

Request == [op   : {"none", "create", "regenerate", "delete"},
            id   : Ids \cup {NoId},
            key  : Keys \cup {NoKey},      \* the key the request generated
            old  : Keys \cup {NoKey},      \* the key the loaded row had
            ip   : Subnet \cup ManualIps \cup {NoAddr},
            used : SUBSET Subnet,          \* addresses read from the table
            snap : SUBSET Entry]           \* the conf text in memory

NoReq == [op |-> "none", id |-> NoId, key |-> NoKey, old |-> NoKey,
          ip |-> NoAddr, used |-> {}, snap |-> {}]

Labels == {"idle", "alloc", "insert", "drop", "remove", "set",
           "build", "write", "read", "apply", "stamp", "save"}

\* The steps inside the try blocks of the three services.
InTry == {"remove", "set", "build", "write", "read", "apply", "stamp"}

Syncing == {w \in Workers : pc[w] \in {"write", "read", "apply"}}

Init ==
  /\ peers = {} /\ conf = {} /\ live = {} /\ wgUp = TRUE
  /\ pc = [w \in Workers |-> "idle"]
  /\ req = [w \in Workers |-> NoReq]
  /\ born = {} /\ spent = {} /\ issued = {}
  /\ raced = [w \in Workers |-> {}]
  /\ stale = {} /\ rekeyed = {}

Goto(w, l) == pc' = [pc EXCEPT ![w] = l]

\* The request ends and its memory is gone.
Finish(w) == Goto(w, "idle") /\ req' = [req EXCEPT ![w] = NoReq]

\* History of a table change by w: conf texts other workers hold are stale.
TableChanged(w) == stale' = (stale \cup Syncing) \ {w}

-----------------------------------------------------------------------------
(* create_peer *)

\* A request to create a peer, with or without an address of the user's: a
\* keypair is generated and the used addresses are read from the table.
CreateLoad(w) ==
  /\ pc[w] = "idle"
  /\ \E k \in Keys \ issued, ip \in ManualIps \cup {NoAddr} :
       /\ req' = [req EXCEPT ![w] = [NoReq EXCEPT !.op = "create", !.key = k,
                                                  !.ip = ip, !.used = DbIps]]
       /\ issued' = issued \cup {k}
  /\ Goto(w, "alloc")
  /\ UNCHANGED <<dbVars, conf, wgVars, raced, stale, rekeyed>>

\* Mutant: only the live addresses are gathered, not those of the table.
TakenLiveOnly(w, dump) == dump

\* The used addresses: those read from the table and those of show_dump.
Taken(w, dump) == req[w].used \cup dump

LowestFree(taken) == {a \in AutoAddrs \ taken : \A b \in AutoAddrs \ taken : a <= b}

\* Mutants: the user's address is not looked up in the subnet, or not among
\* the used ones.
AcceptedAnywhere(w, taken) ==
  IF req[w].ip = NoAddr THEN LowestFree(taken) ELSE {req[w].ip} \ taken
AcceptedUnchecked(w, taken) ==
  IF req[w].ip = NoAddr THEN LowestFree(taken) ELSE {req[w].ip} \cap Subnet

\* The address allocate_peer_ip answers, as a set that is empty when it raises
\* ValueError: the user's if it is in the subnet and free; without one, the
\* lowest free address.
Accepted(w, taken) ==
  IF req[w].ip = NoAddr THEN LowestFree(taken) ELSE {req[w].ip} \cap (Subnet \ taken)

\* allocate_peer_ip, given the addresses show_dump returned. A ValueError ends
\* the request.
Allocate(w, dump) ==
  /\ pc[w] = "alloc"
  /\ \/ \E a \in Accepted(w, Taken(w, dump)) :
          /\ req' = [req EXCEPT ![w] = [@ EXCEPT !.ip = a, !.used = {}]]
          /\ Goto(w, "insert")
          /\ raced' = raced
     \/ /\ Accepted(w, Taken(w, dump)) = {}
        /\ Finish(w)
        /\ raced' = [raced EXCEPT ![w] = {}]
  /\ UNCHANGED <<dbVars, conf, wgVars, issued, stale, rekeyed>>

AllocatePeerIp(w) == Allocate(w, LiveIps)

\* History of the insertion of address a by w: who is between reading the
\* table and inserting has been raced.
RacedBy(w, a) == [v \in Workers |-> IF v # w /\ pc[v] \in {"alloc", "insert"}
                                    THEN raced[v] \cup {a} ELSE {}]

\* Mutant: a collision is noticed at the insert and another address stored,
\* but the address allocated first is the one set on the interface.
InsertElsewhere(w) ==
  /\ pc[w] = "insert"
  /\ \E i \in Ids \ born, a \in Subnet :
       /\ IF req[w].ip \in DbIps THEN a \notin DbIps ELSE a = req[w].ip
       /\ peers' = peers \cup {[id |-> i, key |-> req[w].key, ip |-> a]}
       /\ born' = born \cup {i}
       /\ req' = [req EXCEPT ![w].id = i]
       /\ raced' = RacedBy(w, a)
  /\ spent' = spent \cup {req[w].key}
  /\ TableChanged(w)
  /\ Goto(w, "set")
  /\ UNCHANGED <<conf, wgVars, issued, rekeyed>>

\* PeerConfig.objects.create: a row with a fresh id. Nothing in the table
\* forbids two rows with one address.
CreateInsert(w) ==
  /\ pc[w] = "insert"
  /\ \E i \in Ids \ born :
       /\ peers' = peers \cup {[id |-> i, key |-> req[w].key, ip |-> req[w].ip]}
       /\ born' = born \cup {i}
       /\ req' = [req EXCEPT ![w].id = i]
  /\ spent' = spent \cup {req[w].key}
  /\ raced' = RacedBy(w, req[w].ip)
  /\ TableChanged(w)
  /\ Goto(w, "set")
  /\ UNCHANGED <<conf, wgVars, issued, rekeyed>>

\* last_sync_at is saved with update_fields, so no other column of the row
\* changes; if the row is gone the save fails and the error is logged.
CreateStamp(w) ==
  /\ pc[w] = "stamp"
  /\ Finish(w)
  /\ UNCHANGED <<dbVars, conf, wgVars, histVars>>

-----------------------------------------------------------------------------
(* regenerate_peer_keypair *)

\* The view loads the row; the service generates the new keypair.
RegenLoad(w) ==
  /\ pc[w] = "idle"
  /\ \E r \in peers, k \in Keys \ issued :
       /\ req' = [req EXCEPT ![w] = [NoReq EXCEPT !.op = "regenerate",
                    !.id = r.id, !.old = r.key, !.ip = r.ip, !.key = k]]
       /\ issued' = issued \cup {k}
  /\ Goto(w, "remove")
  /\ UNCHANGED <<dbVars, conf, wgVars, raced, stale, rekeyed>>

\* Mutant: the whole instance is saved, without update_fields: Django inserts
\* the row if it is gone.
RegenSaveUpsert(w) ==
  /\ pc[w] = "save"
  /\ peers' = {r \in peers : r.id # req[w].id}
                \cup {[id |-> req[w].id, key |-> req[w].key, ip |-> req[w].ip]}
  /\ spent' = spent \cup {req[w].key}
  /\ rekeyed' = rekeyed \cup {req[w].id}
  /\ TableChanged(w)
  /\ Finish(w)
  /\ UNCHANGED <<born, conf, wgVars, issued, raced>>

\* The new key is saved, with update_fields, after the conf file was synced
\* from the table; if the row is gone the save raises.
RegenSave(w) ==
  /\ pc[w] = "save"
  /\ \/ \E r \in peers :
          /\ r.id = req[w].id
          /\ peers' = (peers \ {r}) \cup {[r EXCEPT !.key = req[w].key]}
          /\ spent' = spent \cup {req[w].key}
          /\ rekeyed' = rekeyed \cup {r.id}
          /\ TableChanged(w)
     \/ /\ \A r \in peers : r.id # req[w].id
        /\ UNCHANGED <<peers, spent, rekeyed, stale>>
  /\ Finish(w)
  /\ UNCHANGED <<born, conf, wgVars, issued, raced>>

-----------------------------------------------------------------------------
(* delete_peer *)

DeleteLoad(w) ==
  /\ pc[w] = "idle"
  /\ \E r \in peers :
       req' = [req EXCEPT ![w] = [NoReq EXCEPT !.op = "delete",
                                    !.id = r.id, !.old = r.key, !.ip = r.ip]]
  /\ Goto(w, "drop")
  /\ UNCHANGED <<dbVars, conf, wgVars, histVars>>

\* peer.delete(): deleting a row that is gone already is not an error.
DeleteRow(w) ==
  /\ pc[w] = "drop"
  /\ peers' = {r \in peers : r.id # req[w].id}
  /\ \/ peers' # peers /\ TableChanged(w)
     \/ peers' = peers /\ stale' = stale
  /\ Goto(w, "remove")
  /\ UNCHANGED <<born, spent, conf, wgVars, req, issued, raced, rekeyed>>

-----------------------------------------------------------------------------
(* The live interface and the conf file, shared by the three services *)

\* wg set <iface> peer <old key> remove
RemovePeer(w) ==
  /\ pc[w] = "remove" /\ wgUp
  /\ live' = {e \in live : e.key # req[w].old}
  /\ Goto(w, IF req[w].op = "regenerate" THEN "set" ELSE "build")
  /\ UNCHANGED <<dbVars, conf, wgUp, req, histVars>>

\* wg set <iface> peer <key> allowed-ips <ip>/32: replaces what the key was
\* routed, and takes the address from the peer that had it.
SetPeer(w) ==
  /\ pc[w] = "set" /\ wgUp
  /\ live' = {e \in live : e.key # req[w].key /\ e.ip # req[w].ip}
               \cup {[key |-> req[w].key, ip |-> req[w].ip]}
  /\ Goto(w, "build")
  /\ UNCHANGED <<dbVars, conf, wgUp, req, histVars>>

\* Mutant: the peer sections the file already has are not cut off.
ServerConfKeepingPeers == Entries \cup conf

\* _build_server_conf: the peer sections are rebuilt from the table.
ServerConf == Entries

BuildServerConf(w) ==
  /\ pc[w] = "build"
  /\ req' = [req EXCEPT ![w].snap = ServerConf]
  /\ stale' = stale \ {w}
  /\ Goto(w, "write")
  /\ UNCHANGED <<dbVars, conf, wgVars, issued, raced, rekeyed>>

\* atomic_write: the file is replaced as a whole.
AtomicWrite(w) ==
  /\ pc[w] = "write"
  /\ conf' = req[w].snap
  /\ stale' = stale \cup (Syncing \ {w})
  /\ Goto(w, "read")
  /\ UNCHANGED <<dbVars, wgVars, req, issued, raced, rekeyed>>

\* syncconf reads the file back into a stripped copy ...
SyncconfRead(w) ==
  /\ pc[w] = "read"
  /\ req' = [req EXCEPT ![w].snap = conf]
  /\ Goto(w, "apply")
  /\ UNCHANGED <<dbVars, conf, wgVars, histVars>>

\* Mutant: wg addconf, which removes nobody.
SyncedAddOnly(w) == Routings(req[w].snap \cup live)

\* ... and wg syncconf makes the live peers those of the copy.
Synced(w) == Routings(req[w].snap)

SyncconfApply(w) ==
  /\ pc[w] = "apply" /\ wgUp
  /\ live' \in Synced(w)
  /\ rekeyed' = IF w \in stale THEN rekeyed ELSE {}
  /\ stale' = stale \ {w}
  /\ IF req[w].op = "delete"
     THEN Finish(w)
     ELSE /\ req' = [req EXCEPT ![w].snap = {}]
          /\ Goto(w, IF req[w].op = "create" THEN "stamp" ELSE "save")
  /\ UNCHANGED <<dbVars, conf, wgUp, issued, raced>>

-----------------------------------------------------------------------------
(* Faults *)

\* wg show dump fails although the interface is up: show_dump returns [].
DumpFails(w) == Allocate(w, {})

\* A step of a try block raises: a subprocess or file operation failed, or
\* the interface is down. The handler logs it; regenerate goes on to save.
StepFails(w) ==
  /\ pc[w] \in InTry
  /\ IF req[w].op = "regenerate"
     THEN /\ Goto(w, "save")
          /\ req' = [req EXCEPT ![w].snap = {}]
     ELSE Finish(w)
  /\ stale' = stale \ {w}
  /\ UNCHANGED <<dbVars, conf, wgVars, issued, raced, rekeyed>>

\* The worker dies between two steps (gunicorn kills a worker that does not
\* answer for 60 s), or a step outside the try blocks raises.
Abort(w) ==
  /\ pc[w] # "idle"
  /\ Finish(w)
  /\ stale' = stale \ {w}
  /\ raced' = [raced EXCEPT ![w] = {}]
  /\ UNCHANGED <<dbVars, conf, wgVars, issued, rekeyed>>

\* The host's administrator: wg-quick down, and up with the conf file.
WgDown ==
  /\ wgUp
  /\ wgUp' = FALSE /\ live' = {}
  /\ UNCHANGED <<dbVars, conf, pc, req, histVars>>

WgUp ==
  /\ ~wgUp
  /\ wgUp' = TRUE /\ live' \in Routings(conf)
  /\ UNCHANGED <<dbVars, conf, pc, req, histVars>>

-----------------------------------------------------------------------------
(* Specifications *)

Begin(w) == CreateLoad(w) \/ RegenLoad(w) \/ DeleteLoad(w)

Continue(w) ==
  \/ AllocatePeerIp(w) \/ CreateInsert(w) \/ CreateStamp(w)
  \/ RegenSave(w) \/ DeleteRow(w)
  \/ RemovePeer(w) \/ SetPeer(w)
  \/ BuildServerConf(w) \/ AtomicWrite(w) \/ SyncconfRead(w) \/ SyncconfApply(w)

Work == \E w \in Workers : Begin(w) \/ Continue(w)

Host == WgDown \/ WgUp

Next == Work \/ Host \/ \E w \in Workers : DumpFails(w) \/ StepFails(w) \/ Abort(w)

\* Every fault.
Spec == Init /\ [][Next]_vars

\* Nothing fails.
FaultFreeSpec == Init /\ [][Work]_vars

\* Only the interface goes down and up, and meanwhile the wg calls fail.
CallFails == \E w \in Workers :
               ~wgUp /\ pc[w] \in {"remove", "set", "apply"} /\ StepFails(w)

WgDownSpec == Init /\ [][Work \/ Host \/ CallFails]_vars

-----------------------------------------------------------------------------
(* Properties *)

TypeOK ==
  /\ peers \subseteq Row /\ conf \subseteq Entry /\ live \subseteq Entry
  /\ wgUp \in BOOLEAN
  /\ pc \in [Workers -> Labels] /\ req \in [Workers -> Request]
  /\ born \subseteq Ids /\ spent \subseteq issued /\ issued \subseteq Keys
  /\ raced \in [Workers -> SUBSET Subnet]
  /\ stale \subseteq Workers /\ rekeyed \subseteq Ids

\* A create inserts an address another row has only if that row was inserted
\* after this request read the table (services.py:133): the window between
\* the read and the insert is the only way to a duplicate address.
DuplicateOnlyByRace ==
  \A w \in Workers :
    pc[w] = "insert" /\ req[w].ip \in DbIps => req[w].ip \in raced[w]

\* Two peers never have the same address (services.py:119-120, README:21).
\* True of one worker, not of several.
UniqueIps == \A r, s \in peers : r.ip = s.ip => r = s

\* The pairs of key and address that exist anywhere: in the table, the conf
\* file, the routes, a conf text in memory or a request about to use them.
Held(w) == IF pc[w] = "alloc" THEN {}
           ELSE {[key |-> k, ip |-> req[w].ip] : k \in {req[w].key, req[w].old} \ {NoKey}}
Sightings == Entries \cup conf \cup live
               \cup UNION {req[w].snap \cup Held(w) : w \in Workers}

\* A key is bound to one address, in every place and for ever: no stale conf
\* text, late wg set, concurrent regenerate or delete, fault or restart of
\* the interface ever routes another address to a key (services.py:195-218).
AddressBinding == \A e, f \in Sightings : e.key = f.key => e.ip = f.ip

\* Table, conf file and interface agree.
InSync == conf = Entries /\ live \in Routings(Entries)

\* A _sync_conf_file during which nobody else changed the table or wrote the
\* file leaves the three in agreement, whatever state it found them in: a
\* sync repairs all that faults and races left behind (services.py:287-293).
SyncConverges ==
  [][\A w \in Workers : pc[w] = "apply" /\ w \notin stale /\ SyncconfApply(w)
                          => InSync']_vars

\* The table of this module, seen through PeerRegistry: ids and keys are never
\* stored again once gone and an address stays with its peer, although rows
\* are saved from copies loaded before other workers changed them.
Registry == INSTANCE PeerRegistry WITH Addresses <- Subnet

ImplementsRegistry == Registry!Spec

AtRest == \A w \in Workers : pc[w] = "idle"

\* Between requests the conf file and the interface hold exactly the peers of
\* the table, except those whose key was regenerated since the last sync
\* (README:206-208, docker-compose.yml.example:26-28).
DriftOnlyFromRegenerate ==
  AtRest => LET settled == {r \in peers : r.id \notin rekeyed}
                drifted == {r.ip : r \in peers \ settled}
            IN \A place \in {conf, live} :
                 /\ {EntryOf(r) : r \in settled} \subseteq place
                 /\ \A e \in place : e \in Entries \/ e.ip \in drifted

\* After regenerate_peer_keypair the new key is the one the interface accepts
\* (services.py:231-232, README:219). It is not.
CurrentKeyLive == AtRest => Entries \subseteq live

\* delete_peer removes the peer from the conf file (services.py:270), so that
\* wg-quick up does not bring it back. Not if the interface was down.
DeletedPeerLeavesConf == AtRest => \A e \in conf : e.ip \in DbIps

\* The address of a deleted peer does not stay with the interface, where
\* allocate_peer_ip (services.py:142-147) would count it as used for ever:
\* in the end it is off the interface or has been given to another peer.
AddressesReleased ==
  \A a \in Subnet : a \notin DbIps ~> (a \notin LiveIps \/ a \in DbIps)
=============================================================================
