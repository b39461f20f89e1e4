----------------------------- MODULE PeerSetup -----------------------------
(***************************************************************************)
(* The show-once setup page (dashboard/views.py). A create or regenerate   *)
(* request leaves the private key in one slot of the browser session,      *)
(* peer_setup; the setup page and the QR fragment show it; "I have saved   *)
(* my configuration" acknowledges the peer and empties the slot.           *)
(*                                                                         *)
(* A request loads its session and its peer first, writes the peer's row   *)
(* in between, and saves the session, as a whole and only if it modified   *)
(* it, with the response. Requests of one session, or of several sessions  *)
(* about one peer (its owner's and an administrator's), interleave.        *)
(* Keys stand for keypairs: the public half is in the table, the private   *)
(* half in the slot.                                                       *)
(***************************************************************************)
CONSTANTS
  Workers,     \* the gunicorn worker processes
  Sessions,    \* sessions that may see the peers: the owner's, administrators'
  Ids, Keys,
  NoId, NoKey, NoSession

ASSUME NullAssumption ==
  NoId \notin Ids /\ NoKey \notin Keys /\ NoSession \notin Sessions

VARIABLES
  row,         \* the key of each peer's row, NoKey if there is no row
  acked,       \* setup_acknowledged of each row
  slot,        \* peer_setup of each stored session
  pages,       \* the setup pages open in the sessions' browsers
  pc, req,     \* the requests in progress
  \* History.
  held,        \* the keys each peer's row ever had
  shown,       \* which keys were ever shown as which peer's
  past,        \* keys that were ever stored in a session
  astray       \* peers of whose key a session may keep an older copy

tableVars == <<row, acked, held, astray>>
webVars   == <<slot, pages, shown, past>>
vars      == <<tableVars, webVars, pc, req>>

-----------------------------------------------------------------------------
(* Data *)

Full  == [id : Ids, key : Keys]
Empty == [id |-> NoId, key |-> NoKey]
Setup == Full \cup {Empty}

Page == [sess : Sessions, id : Ids, key : Keys]

Request == [op    : {"none", "create", "setup", "qr", "ack", "regenerate"},
            sess  : Sessions \cup {NoSession},
            id    : Ids \cup {NoId},
            copy  : Setup,            \* peer_setup of the loaded session
            dirty : BOOLEAN,          \* session.modified
            cut   : BOOLEAN]          \* the session was deleted meanwhile

NoReq == [op |-> "none", sess |-> NoSession, id |-> NoId, copy |-> Empty,
          dirty |-> FALSE, cut |-> FALSE]

Labels == {"idle", "insert", "save", "ack", "respond"}

Rows == {i \in Ids : row[i] # NoKey}

\* A new row has a fresh id, and a generated key never was in a row before.
NewIds  == {i \in Ids : held[i] = {}}
NewKeys == Keys \ UNION {held[i] : i \in Ids}

Init ==
  /\ row = [i \in Ids |-> NoKey] /\ acked = [i \in Ids |-> FALSE]
  /\ slot = [s \in Sessions |-> Empty] /\ pages = {}
  /\ pc = [w \in Workers |-> "idle"] /\ req = [w \in Workers |-> NoReq]
  /\ held = [i \in Ids |-> {}] /\ shown = {} /\ past = {} /\ astray = {}

Goto(w, l) == pc' = [pc EXCEPT ![w] = l]
Finish(w)  == Goto(w, "idle") /\ req' = [req EXCEPT ![w] = NoReq]

-----------------------------------------------------------------------------
(* Loading the session and the peer *)

Load(w, s, op, i, l) ==
  /\ pc[w] = "idle"
  /\ req' = [req EXCEPT ![w] = [NoReq EXCEPT !.op = op, !.sess = s, !.id = i,
                                             !.copy = slot[s]]]
  /\ Goto(w, l)
  /\ UNCHANGED <<tableVars, webVars>>

\* PeerCreateView.post
CreateBegin(w) == \E s \in Sessions : Load(w, s, "create", NoId, "insert")

\* PeerSetupView.get and peer_qr_view, for a peer that exists
SetupBegin(w) == \E s \in Sessions, i \in Rows : Load(w, s, "setup", i, "respond")
QrBegin(w)    == \E s \in Sessions, i \in Rows : Load(w, s, "qr", i, "respond")

\* PeerSetupView.post: the button of an open setup page
AckBegin(w) == \E p \in pages : p.id \in Rows /\ Load(w, p.sess, "ack", p.id, "ack")

\* PeerRegenerateView.post
RegenBegin(w) == \E s \in Sessions, i \in Rows : Load(w, s, "regenerate", i, "save")

-----------------------------------------------------------------------------
(* The peer's row, and the slot in the session's copy *)

\* create_peer inserts the row; the view puts the key into the slot.
CreateRow(w) ==
  /\ pc[w] = "insert"
  /\ \E i \in NewIds, k \in NewKeys :
       /\ row' = [row EXCEPT ![i] = k]
       /\ held' = [held EXCEPT ![i] = {k}]
       /\ req' = [req EXCEPT ![w] = [@ EXCEPT !.id = i, !.dirty = TRUE,
                                              !.copy = [id |-> i, key |-> k]]]
  /\ Goto(w, "respond")
  /\ UNCHANGED <<acked, astray, webVars>>

\* History: request w changes the row of its peer while there is a copy of the
\* peer's key that w has not loaded: in another session, in its own session as
\* stored since, or in a request that will save it.
Elsewhere(w) ==
  \/ \E s \in Sessions :
       /\ slot[s].id = req[w].id
       /\ s = req[w].sess /\ ~req[w].cut => req[w].copy.id # req[w].id
  \/ \E v \in Workers : req[v].dirty /\ req[v].copy.id = req[w].id

Scattered(w) == astray' = IF Elsewhere(w) THEN astray \cup {req[w].id} ELSE astray

\* Mutant: the slot is only filled if it does not already hold the peer.
KeptIfSame(w, k) == IF req[w].copy.id = req[w].id
                    THEN req[w].copy ELSE [id |-> req[w].id, key |-> k]

\* What the view puts into the slot after a regenerate.
Regenerated(w, k) == [id |-> req[w].id, key |-> k]

\* regenerate_peer_keypair saves key and setup_acknowledged = False; the view
\* puts the key into the slot. If the row is gone the save raises, and the
\* view answers without touching the session.
RegenSave(w) ==
  /\ pc[w] = "save"
  /\ \/ /\ req[w].id \in Rows
        /\ \E k \in NewKeys :
             /\ row' = [row EXCEPT ![req[w].id] = k]
             /\ held' = [held EXCEPT ![req[w].id] = @ \cup {k}]
             /\ req' = [req EXCEPT ![w] = [@ EXCEPT !.dirty = TRUE,
                                                    !.copy = Regenerated(w, k)]]
        /\ acked' = [acked EXCEPT ![req[w].id] = FALSE]
        /\ Scattered(w)
        /\ Goto(w, "respond")
     \/ /\ req[w].id \notin Rows
        /\ Finish(w)
        /\ UNCHANGED tableVars
  /\ UNCHANGED webVars

\* Mutant: the stored dict is emptied in place, which does not mark the
\* session as modified.
ClearedInPlace(w) == [req[w] EXCEPT !.copy = Empty]

\* session.pop("peer_setup", None): whichever peer the slot holds; the session
\* counts as modified if it had the slot.
Popped(w) == [req[w] EXCEPT !.copy = Empty, !.dirty = (req[w].copy # Empty)]

\* The acknowledgement is saved with update_fields; if the row is gone that
\* raises and the request fails.
AckSave(w) ==
  /\ pc[w] = "ack"
  /\ \/ /\ req[w].id \in Rows
        /\ acked' = [acked EXCEPT ![req[w].id] = TRUE]
        /\ req' = [req EXCEPT ![w] = Popped(w)]
        /\ Scattered(w)
        /\ Goto(w, "respond")
     \/ /\ req[w].id \notin Rows
        /\ Finish(w)
        /\ UNCHANGED <<acked, astray>>
  /\ UNCHANGED <<row, held, webVars>>

\* PeerDeleteView.post does not touch the session.
DeletePeer ==
  /\ \E i \in Rows : /\ row' = [row EXCEPT ![i] = NoKey]
                     /\ acked' = [acked EXCEPT ![i] = FALSE]
  /\ UNCHANGED <<held, astray, webVars, pc, req>>

-----------------------------------------------------------------------------
(* The response *)

\* Mutant: the slot is shown without asking whose it is.
VisibleAny(w) == req[w].op \in {"setup", "qr"}

\* The setup page and the QR fragment show the slot if it holds their peer.
Visible(w) == req[w].op \in {"setup", "qr"} /\ req[w].copy.id = req[w].id

\* Mutant: SESSION_SAVE_EVERY_REQUEST.
SavesAlways(w) == ~req[w].cut

\* The session middleware saves a modified session.
Saves(w) == req[w].dirty /\ ~req[w].cut

\* The session is saved as a whole, then the answer is sent. A modified
\* session that was deleted meanwhile makes the answer an error instead.
Respond(w) ==
  LET r == req[w] IN
  /\ pc[w] = "respond"
  /\ slot' = IF Saves(w) THEN [slot EXCEPT ![r.sess] = r.copy] ELSE slot
  /\ past' = past \cup (IF Saves(w) THEN {r.copy.key} \ {NoKey} ELSE {})
  /\ shown' = shown \cup
       (IF Visible(w) THEN {[id |-> r.id, key |-> r.copy.key]} ELSE {})
  /\ pages' = pages \cup
       (IF Visible(w) /\ r.op = "setup" /\ ~r.cut
        THEN {[sess |-> r.sess, id |-> r.id, key |-> r.copy.key]} ELSE {})
  /\ Finish(w)
  /\ UNCHANGED tableVars

-----------------------------------------------------------------------------
(* Faults *)

\* The session is flushed by a logout, or expires; the next login starts a
\* new one, for which the forms of the old pages are not valid.
SessionEnds(s) ==
  /\ slot' = [slot EXCEPT ![s] = Empty]
  /\ pages' = {p \in pages : p.sess # s}
  /\ req' = [w \in Workers |->
               IF req[w].sess = s THEN [req[w] EXCEPT !.cut = TRUE] ELSE req[w]]
  /\ UNCHANGED <<tableVars, pc, shown, past>>

\* The worker dies between two steps, or the request raises: create_peer's
\* ValueError, or an exception of the QR encoder after the row was written.
Abort(w) ==
  /\ pc[w] # "idle"
  /\ astray' = IF req[w].dirty THEN astray \cup {req[w].id} ELSE astray
  /\ Finish(w)
  /\ UNCHANGED <<row, acked, held, webVars>>

-----------------------------------------------------------------------------
(* Specifications *)

Begin(w) == CreateBegin(w) \/ SetupBegin(w) \/ QrBegin(w) \/ AckBegin(w) \/ RegenBegin(w)

Continue(w) == CreateRow(w) \/ RegenSave(w) \/ AckSave(w) \/ Respond(w)

Work == DeletePeer \/ \E w \in Workers : Begin(w) \/ Continue(w)

Next == Work \/ (\E s \in Sessions : SessionEnds(s)) \/ (\E w \in Workers : Abort(w))

\* Every fault.
Spec == Init /\ [][Next]_vars

\* Sessions do not end and workers do not die.
FaultFreeSpec == Init /\ [][Work]_vars

-----------------------------------------------------------------------------
(* Properties *)

TypeOK ==
  /\ row \in [Ids -> Keys \cup {NoKey}] /\ acked \in [Ids -> BOOLEAN]
  /\ slot \in [Sessions -> Setup] /\ pages \subseteq Page
  /\ pc \in [Workers -> Labels] /\ req \in [Workers -> Request]
  /\ held \in [Ids -> SUBSET Keys]
  /\ shown \subseteq Full /\ past \subseteq Keys /\ astray \subseteq Ids

\* Setup page and QR fragment of a peer never show another peer's key, nor one
\* the table did not accept, however the requests of its sessions interleave
\* and whichever of them overwrites the session last (views.py:199, 260).
ShownKeysAreOwn == \A v \in shown : v.key \in held[v.id]

\* A key that was removed from the session that offered it is never stored in
\* a session again, although every request saves the session it loaded before
\* others changed it (views.py:209-217): the register of ShowOnce.
Register == INSTANCE ShowOnce WITH offer <- [s \in Sessions |-> slot[s].key]

ImplementsShowOnce == Register!Spec

\* No request is about to save session s.
Settled(s) == \A w \in Workers : req[w].sess = s => ~Saves(w)

\* The key a session offers is the one the peer's row has, although the row is
\* written by one statement and the session by a later one, and each request
\* works on a copy of it (views.py:173-178, 295-300): unless another session or
\* an overlapping request had a copy of the key when it was replaced, or the
\* request that replaced it died.
OfferIsCurrent ==
  \A s \in Sessions : Settled(s) /\ slot[s].id \in Rows \ astray =>
                       slot[s].key = row[slot[s].id]

\* No session offers the key of an acknowledged peer ("permanently discarded",
\* peer_setup.html:15), although the acknowledgement removes whatever the slot
\* holds (views.py:215) and requests in progress hold the slot as it was: with
\* the same exceptions.
AcknowledgedIsDiscarded ==
  \A s \in Sessions : Settled(s) /\ slot[s].id \in Rows \ astray =>
                       ~acked[slot[s].id]

\* An acknowledged peer's user has seen the key the peer now has
\* (models.py:126-129). Not if the page acknowledged is older than the key.
AckedMeansSeen == \A i \in Rows : acked[i] => [id |-> i, key |-> row[i]] \in shown
=============================================================================
