----------------------------- MODULE PeerImport -----------------------------
(***************************************************************************)
(* The management command import_wg_config beside the web workers of       *)
(* PeerLifecycle. The command reads the conf file once, creates or updates *)
(* the WireguardInterface row, without which the views create no peer, and *)
(* then looks up and inserts the file's peers one by one, each statement   *)
(* committed on its own. It writes neither conf file nor interface. The    *)
(* host's administrator may edit the file by hand at any time.             *)
(* What the parser makes of the file's text is the subject of ConfText.    *)
(***************************************************************************)
EXTENDS PeerLifecycle

CONSTANTS
  Importer,    \* the process that runs the command
  Legacies,    \* the peers a hand-made conf file may have
  MaxEdits,    \* a bound on how often the file is edited by hand
  NoEntry

ASSUME ImporterAssumption == Importer \notin Workers
ASSUME NoEntryAssumption == NoEntry \notin Entry
ASSUME LegacyAssumption ==
  \A L \in Legacies :
    L \subseteq Entry /\ \A e, f \in L : e.key = f.key => e = f

VARIABLES
  ready,       \* the interface has its row in the database
  imp,         \* the command in progress
  \* History.
  imported,    \* ids the command inserted
  disturbed,   \* the table or the file changed since the command read the file
  edits        \* how often the file was edited by hand

impVars == <<ready, imp, imported, disturbed, edits>>
allVars == <<vars, impVars>>

-----------------------------------------------------------------------------
(* Data *)

Command == [at    : {"off", "interface", "next", "insert", "update"},
            force : BOOLEAN,                   \* --force-peer-import
            todo  : SUBSET (Entry \cup {NoEntry}), \* parsed, not yet handled;
                            \* NoEntry: a peer without its key or its address
            entry : Entry \cup {NoEntry},      \* the one being handled
            found : Ids \cup {NoId}]           \* its row

NoCommand == [at |-> "off", force |-> FALSE, todo |-> {}, entry |-> NoEntry,
              found |-> NoId]

\* The host runs WireGuard with a hand-made file; the database is empty.
ImportInit ==
  /\ \E L \in Legacies : /\ conf = L /\ live \in Routings(L)
                         /\ issued = {e.key : e \in L}
  /\ peers = {} /\ wgUp = TRUE
  /\ pc = [w \in Workers |-> "idle"] /\ req = [w \in Workers |-> NoReq]
  /\ born = {} /\ spent = {}
  /\ raced = [w \in Workers |-> {}] /\ stale = {} /\ rekeyed = {}
  /\ ready = FALSE /\ imp = NoCommand /\ imported = {} /\ disturbed = FALSE
  /\ edits = 0

-----------------------------------------------------------------------------
(* The command *)

\* _parse_conf and the checks of the [Interface] section and the admin user:
\* nothing is written before they have passed. The file may have sections that
\* lack a key.
ImportParse ==
  /\ imp.at = "off"
  /\ \E force \in BOOLEAN, lacking \in SUBSET {NoEntry} :
       imp' = [NoCommand EXCEPT !.at = "interface", !.force = force, !.todo = conf \cup lacking]
  /\ UNCHANGED <<vars, ready, imported, disturbed, edits>>

\* WireguardInterface.objects.update_or_create
ImportInterface ==
  /\ imp.at = "interface"
  /\ ready' = TRUE
  /\ imp' = [imp EXCEPT !.at = "next"]
  /\ UNCHANGED <<vars, imported, disturbed, edits>>

\* Mutant: existing peers are matched by their address.
MatchedByIp(e) == {r \in peers : r.ip = e.ip}

\* Mutant: the lookup finds any row.
MatchedAny(e) == peers

\* The existing peer: matched by public key.
Matched(e) == {r \in peers : r.key = e.key}

\* The next peer of the file: without key or address it is counted and skipped.
\* Else it is looked up: skipped, to be updated if forced, or to be inserted.
ImportLookup ==
  /\ imp.at = "next"
  /\ \/ NoEntry \in imp.todo /\ imp' = [imp EXCEPT !.todo = @ \ {NoEntry}]
     \/ \E e \in imp.todo \ {NoEntry} :
          LET rest == [imp EXCEPT !.todo = @ \ {e}] IN
          \/ /\ Matched(e) # {} /\ ~imp.force
             /\ imp' = rest
          \/ /\ imp.force
             /\ \E r \in Matched(e) :
                  imp' = [rest EXCEPT !.at = "update", !.entry = e, !.found = r.id]
          \/ /\ Matched(e) = {}
             /\ imp' = [rest EXCEPT !.at = "insert", !.entry = e]
  /\ UNCHANGED <<vars, ready, imported, disturbed, edits>>

Handled == imp' = [imp EXCEPT !.at = "next", !.entry = NoEntry, !.found = NoId]

Ends == imp' = NoCommand /\ disturbed' = FALSE

\* PeerConfig.objects.create, with what was read some statements ago. The key
\* column is unique: if the key was stored meanwhile, the command dies.
ImportInsert ==
  /\ imp.at = "insert" /\ Matched(imp.entry) = {}
  /\ \E i \in Ids \ born :
       /\ peers' = peers \cup {[id |-> i, key |-> imp.entry.key, ip |-> imp.entry.ip]}
       /\ born' = born \cup {i}
       /\ imported' = imported \cup {i}
  /\ spent' = spent \cup {imp.entry.key}
  /\ raced' = RacedBy(Importer, imp.entry.ip)
  /\ TableChanged(Importer)
  /\ Handled
  /\ UNCHANGED <<conf, wgVars, pc, req, issued, rekeyed, ready, disturbed, edits>>

\* Mutant: the whole row is saved, as it was when it was looked up.
UpdatedWhole(r) == [r EXCEPT !.ip = imp.entry.ip, !.key = imp.entry.key]

\* The columns the forced import saves, key not among them.
Updated(r) == [r EXCEPT !.ip = imp.entry.ip]

\* existing.save(update_fields=...): if the row is gone, the command fails.
ImportUpdate ==
  /\ imp.at = "update"
  /\ \/ \E r \in peers : /\ r.id = imp.found
                         /\ peers' = (peers \ {r}) \cup {Updated(r)}
                         /\ TableChanged(Importer)
                         /\ Handled
                         /\ disturbed' = disturbed
     \/ /\ \A r \in peers : r.id # imp.found
        /\ Ends
        /\ UNCHANGED <<peers, stale>>
  /\ UNCHANGED <<born, spent, conf, wgVars, pc, req, issued, raced, rekeyed,
                 ready, imported, edits>>

ImportDone ==
  /\ imp.at = "next" /\ imp.todo = {}
  /\ Ends
  /\ UNCHANGED <<vars, ready, imported, edits>>

\* The command is interrupted, or the database is locked by a worker.
ImportDies ==
  /\ imp.at # "off"
  /\ Ends
  /\ UNCHANGED <<vars, ready, imported, edits>>

Import == ImportParse \/ ImportInterface \/ ImportLookup \/ ImportInsert
            \/ ImportUpdate \/ ImportDone

-----------------------------------------------------------------------------
(* The command and the web *)

\* PeerCreateView.get_interface: without the interface's row, 404.
Web(A) == /\ A
          /\ disturbed' = (imp.at # "off" /\ (disturbed \/ peers' # peers \/ conf' # conf))
          /\ UNCHANGED <<ready, imp, imported, edits>>

\* The host's administrator writes the conf file by hand: a peer leaves it or
\* comes back, has another address, or is new. No key is one that a request has
\* generated and not yet stored.
HostEdits ==
  /\ edits < MaxEdits /\ edits' = edits + 1
  /\ \E F \in Legacies \ {conf} :
       /\ \A e \in F : e.key \in spent \cup {f.key : f \in conf} \cup (Keys \ issued)
       /\ conf' = F
       /\ issued' = issued \cup {e.key : e \in F}
  /\ TableChanged(Importer)
  /\ disturbed' = (imp.at # "off")
  /\ UNCHANGED <<dbVars, wgVars, pc, req, raced, rekeyed, ready, imp, imported>>

ImportNext ==
  \/ Import \/ ImportDies \/ HostEdits
  \/ ready /\ Web(Next)

\* Every fault of PeerLifecycle, a command that dies, and files edited by hand.
ImportSpec == ImportInit /\ [][ImportNext]_allVars

\* One thing at a time, nothing fails and nobody edits the file.
Alone ==
  \/ Import /\ \A w \in Workers : pc[w] = "idle"
  \/ ready /\ imp.at = "off" /\ Web(Work)

AloneSpec == ImportInit /\ [][Alone]_allVars

-----------------------------------------------------------------------------
(* Properties *)

\* With the import too a key is bound to one address in every place, although
\* the command stores entries it read from the file before others rewrote it,
\* and overwrites addresses of rows it looked up before (365-434): as long as
\* nobody edits the file by hand.
ImportKeepsBinding ==
  edits = 0 => \A e, f \in (Sightings \cup imp.todo \cup {imp.entry}) \ {NoEntry} :
               e.key = f.key => e.ip = f.ip

\* An import during which nobody else changed the table or the file leaves every
\* peer of the file in the table, so that the first sync after it, which
\* rebuilds the file from the table, disconnects nobody (445-453). It has the
\* file's address too, unless the file was edited and --force was not given.
ImportAdopts ==
  [][ImportDone /\ ~disturbed =>
       \A e \in conf : \E r \in peers :
         r.key = e.key /\ (r.ip = e.ip \/ (edits > 0 /\ ~imp.force))]_allVars

\* To the table of PeerRegistry the command adds two things: a key that was
\* replaced or deleted comes back from the file, as a new peer, and --force
\* moves a peer. It never gives a peer another key, although it saves into rows
\* that it found some statements before and that requests re-key (405-416).
ImportKeepsRegistry == Registry!ReturningSpec

\* A peer is moved to another address by --force only (371-416), and only after
\* somebody has edited the file: from a file the program wrote, however old by
\* the time it is applied, --force moves nobody.
MovedOnlyByEdit ==
  [][\A r \in peers, s \in peers' :
       r.id = s.id /\ r.ip # s.ip => edits > 0 /\ imp.force /\ imp.at = "update"]_allVars

\* "Idempotent: safe to run multiple times ... existing peers (matched by public
\* key) are skipped" (import_wg_config.py:17-18): the command inserts no second
\* row for a peer the web interface made. It does if the file still has the key
\* the peer had before it was regenerated.
PeersImportedOnce ==
  \A r, s \in peers : r.id \in imported /\ s.id \notin imported => r.ip # s.ip
=============================================================================
