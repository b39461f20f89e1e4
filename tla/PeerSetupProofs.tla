-------------------------- MODULE PeerSetupProofs --------------------------
(***************************************************************************)
(* Theorems about PeerSetup, for any number of workers, sessions, peers    *)
(* and keys, under every fault of its specification.                       *)
(***************************************************************************)
EXTENDS PeerSetup, TLAPS

(***************************************************************************)
(* Type correctness. It needs to know that a request that goes on has a    *)
(* session, and one about an existing peer its id.                         *)
(***************************************************************************)
Control(w) ==
  /\ pc[w] = "idle" => req[w] = NoReq
  /\ pc[w] # "idle" => req[w].sess \in Sessions
  /\ pc[w] \in {"save", "ack"} => req[w].id \in Ids
  /\ req[w].op \in {"setup", "qr"} => req[w].id \in Ids
  /\ req[w].dirty => pc[w] = "respond" /\ req[w].id \in Ids

TypeInv == TypeOK /\ \A w \in Workers : Control(w)

LEMMA InitType == Init => TypeInv
  BY NullAssumption DEF Init, TypeInv, TypeOK, Control, NoReq, Request, Labels,
     Setup, Full, Empty

\* What the loading of a request changes.
LEMMA LoadType ==
  ASSUME TypeInv, NEW w \in Workers, NEW s \in Sessions,
         NEW op \in {"create", "setup", "qr", "ack", "regenerate"},
         NEW i \in Ids \cup {NoId}, NEW l \in {"insert", "save", "ack", "respond"},
         op = "create" <=> l = "insert", op # "create" => i \in Ids,
         Load(w, s, op, i, l)
  PROVE  TypeInv'
<1> DEFINE r == [NoReq EXCEPT !.op = op, !.sess = s, !.id = i, !.copy = slot[s]]
<1>0. slot[s] \in Setup /\ Empty \in Setup
  BY DEF TypeInv, TypeOK, Setup
<1>1. /\ r \in Request /\ r.op = op /\ r.sess = s /\ r.id = i /\ r.dirty = FALSE
  BY <1>0 DEF NoReq, Request
<1>2. /\ req' = [req EXCEPT ![w] = r] /\ pc' = [pc EXCEPT ![w] = l]
      /\ UNCHANGED <<row, acked, held, astray, slot, pages, shown, past>>
  BY DEF Load, Goto, tableVars, webVars
<1> HIDE DEF r
<1>3. TypeOK'
  BY <1>1, <1>2 DEF TypeInv, TypeOK, Labels
<1>4. ASSUME NEW v \in Workers PROVE Control(v)'
  <2>1. CASE v = w
    <3>1. req'[w] = r /\ pc'[w] = l
      BY <1>2 DEF TypeInv, TypeOK
    <3> QED BY <1>1, <2>1, <3>1 DEF Control
  <2>2. CASE v # w
    <3>1. req'[v] = req[v] /\ pc'[v] = pc[v]
      BY <1>2, <2>2 DEF TypeInv, TypeOK
    <3> QED BY <3>1 DEF Control, TypeInv
  <2> QED BY <2>1, <2>2
<1> QED BY <1>3, <1>4 DEF TypeInv

LEMMA BeginType == ASSUME TypeInv, NEW w \in Workers, Begin(w) PROVE TypeInv'
<1>1. Rows \subseteq Ids
  BY DEF Rows
<1>2. CASE CreateBegin(w)
  BY <1>2, LoadType DEF CreateBegin
<1>3. CASE SetupBegin(w)
  BY <1>1, <1>3, LoadType DEF SetupBegin
<1>4. CASE QrBegin(w)
  BY <1>1, <1>4, LoadType DEF QrBegin
<1>5. CASE AckBegin(w)
  <2>1. PICK p \in pages : p.id \in Rows /\ Load(w, p.sess, "ack", p.id, "ack")
    BY <1>5 DEF AckBegin
  <2>2. p.sess \in Sessions /\ p.id \in Ids
    BY <1>1, <2>1 DEF TypeInv, TypeOK, Page
  <2> QED BY <2>1, <2>2, LoadType
<1>6. CASE RegenBegin(w)
  BY <1>1, <1>6, LoadType DEF RegenBegin
<1> QED BY <1>2, <1>3, <1>4, <1>5, <1>6 DEF Begin

\* A step that ends the request of w and leaves the other requests alone.
LEMMA FinishControl ==
  ASSUME TypeInv, NEW w \in Workers, Finish(w)
  PROVE  /\ pc' \in [Workers -> Labels] /\ req' \in [Workers -> Request]
         /\ \A v \in Workers : Control(v)'
<1>1. NoReq \in Request
  BY DEF NoReq, Request, Setup
<1>2. pc' \in [Workers -> Labels] /\ req' \in [Workers -> Request]
  BY <1>1 DEF TypeInv, TypeOK, Finish, Goto, Labels
<1>3. ASSUME NEW v \in Workers PROVE Control(v)'
  <2>1. CASE v = w
    <3>1. req'[w] = NoReq /\ pc'[w] = "idle"
      BY DEF Finish, Goto, TypeInv, TypeOK
    <3> QED BY <2>1, <3>1 DEF Control, NoReq
  <2>2. CASE v # w
    <3>1. req'[v] = req[v] /\ pc'[v] = pc[v]
      BY <2>2 DEF Finish, Goto, TypeInv, TypeOK
    <3> QED BY <3>1 DEF Control, TypeInv
  <2> QED BY <2>1, <2>2
<1> QED BY <1>2, <1>3

\* A step that gives w a request that is ready for its response.
LEMMA ReadyControl ==
  ASSUME TypeInv, NEW w \in Workers, NEW r \in Request, pc[w] # "idle",
         r.sess = req[w].sess, r.op \in {"setup", "qr"} \/ r.dirty => r.id \in Ids,
         req' = [req EXCEPT ![w] = r], Goto(w, "respond")
  PROVE  /\ pc' \in [Workers -> Labels] /\ req' \in [Workers -> Request]
         /\ \A v \in Workers : Control(v)'
<1>1. pc' \in [Workers -> Labels] /\ req' \in [Workers -> Request]
  BY DEF TypeInv, TypeOK, Goto, Labels
<1>2. ASSUME NEW v \in Workers PROVE Control(v)'
  <2>1. CASE v = w
    <3>1. req'[w] = r /\ pc'[w] = "respond" /\ r.sess \in Sessions
      BY DEF Goto, TypeInv, TypeOK, Control
    <3> QED BY <2>1, <3>1 DEF Control
  <2>2. CASE v # w
    <3>1. req'[v] = req[v] /\ pc'[v] = pc[v]
      BY <2>2 DEF Goto, TypeInv, TypeOK
    <3> QED BY <3>1 DEF Control, TypeInv
  <2> QED BY <2>1, <2>2
<1> QED BY <1>1, <1>2

LEMMA CreateRowType == ASSUME TypeInv, NEW w \in Workers, CreateRow(w) PROVE TypeInv'
<1>1. PICK i \in NewIds, k \in NewKeys :
        /\ row' = [row EXCEPT ![i] = k]
        /\ held' = [held EXCEPT ![i] = {k}]
        /\ req' = [req EXCEPT ![w] = [@ EXCEPT !.id = i, !.dirty = TRUE,
                                               !.copy = [id |-> i, key |-> k]]]
  BY DEF CreateRow
<1> DEFINE r == [req[w] EXCEPT !.id = i, !.dirty = TRUE, !.copy = [id |-> i, key |-> k]]
<1>2. i \in Ids /\ k \in Keys
  BY DEF NewIds, NewKeys
<1>3. req[w] \in Request
  BY DEF TypeInv, TypeOK
<1>4. r \in Request /\ r.sess = req[w].sess /\ r.id = i
  BY <1>2, <1>3 DEF Request, Setup, Full
<1>5. req' = [req EXCEPT ![w] = r] /\ Goto(w, "respond") /\ pc[w] # "idle"
      /\ UNCHANGED <<acked, astray, slot, pages, shown, past>>
  BY <1>1 DEF CreateRow, webVars, TypeInv, TypeOK
<1> HIDE DEF r
<1>6. /\ pc' \in [Workers -> Labels] /\ req' \in [Workers -> Request]
      /\ \A v \in Workers : Control(v)'
  BY <1>2, <1>4, <1>5, ReadyControl
<1> QED BY <1>1, <1>2, <1>5, <1>6 DEF TypeInv, TypeOK

LEMMA RegenSaveType == ASSUME TypeInv, NEW w \in Workers, RegenSave(w) PROVE TypeInv'
<1>1. req[w] \in Request /\ req[w].id \in Ids
  BY DEF TypeInv, TypeOK, Control, RegenSave
<1>2. CASE req[w].id \notin Rows
  <2>1. Finish(w) /\ UNCHANGED <<row, held, acked, astray, slot, pages, shown, past>>
    BY <1>2 DEF RegenSave, tableVars, webVars
  <2>2. /\ pc' \in [Workers -> Labels] /\ req' \in [Workers -> Request]
        /\ \A v \in Workers : Control(v)'
    BY <2>1, FinishControl
  <2> QED BY <2>1, <2>2 DEF TypeInv, TypeOK
<1>3. CASE req[w].id \in Rows
  <2>1. PICK k \in NewKeys :
          /\ row' = [row EXCEPT ![req[w].id] = k]
          /\ held' = [held EXCEPT ![req[w].id] = @ \cup {k}]
          /\ req' = [req EXCEPT ![w] = [@ EXCEPT !.dirty = TRUE,
                                                 !.copy = Regenerated(w, k)]]
    BY <1>3 DEF RegenSave
  <2> DEFINE r == [req[w] EXCEPT !.dirty = TRUE, !.copy = Regenerated(w, k)]
  <2>2. k \in Keys
    BY DEF NewKeys
  <2>3. r \in Request /\ r.sess = req[w].sess /\ r.id \in Ids
    BY <1>1, <2>2 DEF Request, Setup, Full, Regenerated
  <2>4. req' = [req EXCEPT ![w] = r] /\ Goto(w, "respond") /\ pc[w] # "idle"
    BY <1>3, <2>1 DEF RegenSave, TypeInv, TypeOK
  <2>5. acked' = [acked EXCEPT ![req[w].id] = FALSE] /\ Scattered(w)
      /\ UNCHANGED <<slot, pages, shown, past>>
    BY <1>3 DEF RegenSave, webVars
  <2>7. astray' \subseteq Ids
    BY <1>1, <2>5 DEF Scattered, TypeInv, TypeOK
  <2> HIDE DEF r
  <2>6. /\ pc' \in [Workers -> Labels] /\ req' \in [Workers -> Request]
        /\ \A v \in Workers : Control(v)'
    BY <2>3, <2>4, ReadyControl
  <2> QED BY <1>1, <2>1, <2>2, <2>5, <2>6, <2>7 DEF TypeInv, TypeOK
<1> QED BY <1>2, <1>3

LEMMA AckSaveType == ASSUME TypeInv, NEW w \in Workers, AckSave(w) PROVE TypeInv'
<1>1. req[w] \in Request /\ req[w].id \in Ids /\ UNCHANGED <<row, held, slot, pages, shown, past>>
  BY DEF TypeInv, TypeOK, Control, AckSave, webVars
<1>2. CASE req[w].id \notin Rows
  <2>1. Finish(w) /\ acked' = acked /\ astray' = astray
    BY <1>2 DEF AckSave
  <2> QED BY <1>1, <2>1, FinishControl DEF TypeInv, TypeOK
<1>3. CASE req[w].id \in Rows
  <2>1. /\ acked' = [acked EXCEPT ![req[w].id] = TRUE]
        /\ req' = [req EXCEPT ![w] = Popped(w)] /\ Goto(w, "respond") /\ pc[w] # "idle"
    BY <1>3 DEF AckSave
  <2>2. Popped(w) \in Request /\ Popped(w).sess = req[w].sess /\ Popped(w).id = req[w].id
    BY <1>1 DEF Popped, Request, Setup
  <2>3. /\ pc' \in [Workers -> Labels] /\ req' \in [Workers -> Request]
        /\ \A v \in Workers : Control(v)'
    BY <1>1, <2>1, <2>2, ReadyControl
  <2>4. astray' \subseteq Ids
    BY <1>1, <1>3 DEF AckSave, Scattered, TypeInv, TypeOK
  <2> QED BY <1>1, <2>1, <2>3, <2>4 DEF TypeInv, TypeOK
<1> QED BY <1>2, <1>3

\* What is shown is a key.
LEMMA VisibleFull ==
  ASSUME TypeInv, NEW w \in Workers, Visible(w), pc[w] = "respond"
  PROVE  req[w].copy \in Full /\ req[w].copy.id = req[w].id
<1>1. req[w].copy \in Setup /\ req[w].id \in Ids
  BY DEF TypeInv, TypeOK, Control, Visible, Request
<1> QED BY <1>1, NullAssumption DEF Visible, Setup, Full, Empty

LEMMA RespondType == ASSUME TypeInv, NEW w \in Workers, Respond(w) PROVE TypeInv'
<1>1. req[w] \in Request /\ req[w].sess \in Sessions /\ pc[w] = "respond"
  BY DEF TypeInv, TypeOK, Control, Respond
<1>2. req[w].copy \in Setup
  BY <1>1 DEF Request
<1>3. slot' \in [Sessions -> Setup]
  BY <1>1, <1>2 DEF Respond, TypeInv, TypeOK
<1>4. past' \subseteq Keys
  BY <1>2, NullAssumption DEF Respond, TypeInv, TypeOK, Setup, Full, Empty
<1>5. shown' \subseteq Full
  <2>1. CASE Visible(w)
    <3>1. [id |-> req[w].id, key |-> req[w].copy.key] \in Full
      BY <1>1, <2>1, VisibleFull DEF Full
    <3> QED BY <2>1, <3>1 DEF Respond, TypeInv, TypeOK
  <2>2. CASE ~Visible(w)
    BY <2>2 DEF Respond, TypeInv, TypeOK
  <2> QED BY <2>1, <2>2
<1>6. pages' \subseteq Page
  <2>1. CASE Visible(w)
    <3>1. [sess |-> req[w].sess, id |-> req[w].id, key |-> req[w].copy.key] \in Page
      BY <1>1, <2>1, VisibleFull DEF Full, Page
    <3> QED BY <2>1, <3>1 DEF Respond, TypeInv, TypeOK
  <2>2. CASE ~Visible(w)
    BY <2>2 DEF Respond, TypeInv, TypeOK
  <2> QED BY <2>1, <2>2
<1>7. Finish(w) /\ UNCHANGED <<row, acked, held, astray>>
  BY DEF Respond, tableVars
<1> QED BY <1>3, <1>4, <1>5, <1>6, <1>7, FinishControl DEF TypeInv, TypeOK

LEMMA SessionEndsType == ASSUME TypeInv, NEW s \in Sessions, SessionEnds(s) PROVE TypeInv'
<1>1. ASSUME NEW v \in Workers
      PROVE  /\ req'[v] \in Request /\ pc'[v] = pc[v]
             /\ req'[v].sess = req[v].sess /\ req'[v].id = req[v].id /\ req'[v].op = req[v].op
             /\ req'[v].dirty = req[v].dirty /\ (req[v] = NoReq => req'[v] = NoReq)
  <2>1. req[v] \in Request
    BY DEF TypeInv, TypeOK
  <2>2. req'[v] = IF req[v].sess = s THEN [req[v] EXCEPT !.cut = TRUE] ELSE req[v]
    BY DEF SessionEnds
  <2>3. NoReq.sess # s
    BY NullAssumption DEF NoReq
  <2>4. [req[v] EXCEPT !.cut = TRUE] \in Request
    BY <2>1 DEF Request
  <2>5. pc'[v] = pc[v]
    BY DEF SessionEnds
  <2> QED BY <2>1, <2>2, <2>3, <2>4, <2>5 DEF Request
<1>2. req' \in [Workers -> Request]
  BY <1>1 DEF SessionEnds
<1>3. slot' \in [Sessions -> Setup] /\ pages' \subseteq Page
  BY DEF SessionEnds, TypeInv, TypeOK, Setup
<1>4. TypeOK'
  BY <1>2, <1>3 DEF SessionEnds, tableVars, TypeInv, TypeOK
<1>5. ASSUME NEW v \in Workers PROVE Control(v)'
  BY <1>1 DEF TypeInv, Control
<1> QED BY <1>4, <1>5 DEF TypeInv

LEMMA TypeStep == TypeInv /\ [Next]_vars => TypeInv'
<1> SUFFICES ASSUME TypeInv, [Next]_vars PROVE TypeInv'
  OBVIOUS
<1>1. CASE UNCHANGED vars
  BY <1>1 DEF vars, tableVars, webVars, TypeInv, TypeOK, Control
<1>2. CASE DeletePeer
  <2>1. PICK i \in Rows : /\ row' = [row EXCEPT ![i] = NoKey]
                          /\ acked' = [acked EXCEPT ![i] = FALSE]
    BY <1>2 DEF DeletePeer
  <2>2. UNCHANGED <<held, astray, slot, pages, shown, past, pc, req>>
    BY <1>2 DEF DeletePeer, webVars
  <2> QED BY <2>1, <2>2 DEF TypeInv, TypeOK, Control
<1>3. ASSUME NEW w \in Workers, Abort(w) PROVE TypeInv'
  <2>1. Finish(w) /\ UNCHANGED <<row, acked, held, slot, pages, shown, past>>
    BY <1>3 DEF Abort, webVars
  <2>2. astray' \subseteq Ids
    BY <1>3 DEF Abort, TypeInv, TypeOK, Control
  <2> QED BY <2>1, <2>2, FinishControl DEF TypeInv, TypeOK
<1>4. ASSUME NEW w \in Workers, Continue(w) PROVE TypeInv'
  BY <1>4, CreateRowType, RegenSaveType, AckSaveType, RespondType DEF Continue
<1> QED BY <1>1, <1>2, <1>3, <1>4, BeginType, SessionEndsType DEF Next, Work

\* The type invariant TypeOK, for every value of the constants.
THEOREM TypeCorrect == Spec => []TypeOK
<1>1. TypeInv => TypeOK
  BY DEF TypeInv
<1> QED BY InitType, TypeStep, <1>1, PTL DEF Spec

(***************************************************************************)
(* A peer's page shows only keys its row had: every copy of a session and  *)
(* every stored session holds a key of the peer it names.                  *)
(***************************************************************************)
Own(c) == c # Empty => c.key \in held[c.id]

OwnInv == /\ \A s \in Sessions : Own(slot[s])
          /\ \A w \in Workers : Own(req[w].copy)
          /\ ShownKeysAreOwn

\* The keys a row had only become more, and Own stays true of what it was
\* true of.
LEMMA HeldGrows ==
  ASSUME TypeInv, [Next]_vars
  PROVE  \A i \in Ids : held[i] \subseteq held'[i]
<1>1. ASSUME NEW w \in Workers, CreateRow(w) PROVE \A i \in Ids : held[i] \subseteq held'[i]
  BY <1>1 DEF CreateRow, NewIds, TypeInv, TypeOK
<1>2. ASSUME NEW w \in Workers, RegenSave(w) PROVE \A i \in Ids : held[i] \subseteq held'[i]
  <2>1. held' = held \/ \E k \in NewKeys : held' = [held EXCEPT ![req[w].id] = @ \cup {k}]
    BY <1>2 DEF RegenSave, tableVars
  <2> QED BY <2>1 DEF TypeInv, TypeOK
<1>3. ASSUME NEW w \in Workers, Begin(w) PROVE held' = held
  BY <1>3 DEF Begin, CreateBegin, SetupBegin, QrBegin, AckBegin, RegenBegin, Load, tableVars
<1>4. ASSUME NEW w \in Workers, AckSave(w) \/ Respond(w) \/ Abort(w) PROVE held' = held
  BY <1>4 DEF AckSave, Respond, Abort, tableVars
<1>5. DeletePeer \/ (\E s \in Sessions : SessionEnds(s)) \/ UNCHANGED vars => held' = held
  BY DEF DeletePeer, SessionEnds, vars, tableVars
<1> QED BY <1>1, <1>2, <1>3, <1>4, <1>5 DEF Next, Work, Continue

LEMMA OwnKept ==
  ASSUME TypeInv, [Next]_vars, NEW c \in Setup, Own(c)
  PROVE  c # Empty => c.key \in held'[c.id]
<1>1. c \in Full => c.id \in Ids
  BY DEF Full
<1> QED BY <1>1, HeldGrows DEF Own, Setup

\* Where a slot, a copy or a page of the next state comes from.
LEMMA OwnStep == TypeInv /\ OwnInv /\ [Next]_vars => OwnInv'
<1> SUFFICES ASSUME TypeInv, OwnInv, [Next]_vars PROVE OwnInv'
  OBVIOUS
<1>1. \A w \in Workers : req[w] \in Request /\ req[w].copy \in Setup
  BY DEF TypeInv, TypeOK, Request
<1>2. \A s \in Sessions : slot[s] \in Setup
  BY DEF TypeInv, TypeOK
<1>3. \A v \in shown : v.key \in held'[v.id]
  <2>1. \A v \in shown : v.id \in Ids
    BY DEF TypeInv, TypeOK, Full
  <2> QED BY <2>1, HeldGrows DEF OwnInv, ShownKeysAreOwn
<1>4. \A s \in Sessions : Own(slot[s])'  <=> (slot'[s] # Empty => slot'[s].key \in held'[slot'[s].id])
  BY DEF Own
<1>5. \A w \in Workers : Own(req[w].copy)' <=>
         (req'[w].copy # Empty => req'[w].copy.key \in held'[req'[w].copy.id])
  BY DEF Own
\* A step that leaves the stored sessions alone.
<1>6. UNCHANGED slot => \A s \in Sessions : Own(slot[s])'
  BY <1>2, <1>4, OwnKept DEF OwnInv
<1>7. UNCHANGED shown => ShownKeysAreOwn'
  BY <1>3 DEF ShownKeysAreOwn
<1>8. ASSUME NEW v \in Workers, req'[v].copy = req[v].copy \/ req'[v].copy = Empty
             \/ \E s \in Sessions : req'[v].copy = slot[s]
      PROVE  Own(req[v].copy)'
  BY <1>1, <1>2, <1>5, <1>8, OwnKept DEF OwnInv
<1>9. ASSUME NEW w \in Workers, Finish(w) PROVE \A v \in Workers : Own(req[v].copy)'
  <2>1. \A v \in Workers : req'[v] = req[v] \/ req'[v] = NoReq
    BY <1>9 DEF Finish, TypeInv, TypeOK
  <2>2. NoReq.copy = Empty
    BY DEF NoReq
  <2> QED BY <1>8, <2>1, <2>2
<1>10. CASE UNCHANGED vars
  BY <1>6, <1>7, <1>8, <1>10 DEF vars, webVars, OwnInv
<1>11. CASE DeletePeer
  BY <1>6, <1>7, <1>8, <1>11 DEF DeletePeer, webVars, OwnInv
<1>12. ASSUME NEW w \in Workers, Abort(w) PROVE OwnInv'
  BY <1>6, <1>7, <1>9, <1>12 DEF Abort, webVars, OwnInv
<1>13. ASSUME NEW w \in Workers, Begin(w) PROVE OwnInv'
  <2>0. PICK s \in Sessions : \E op, i, l : Load(w, s, op, i, l)
    <3>1. \A p \in pages : p.sess \in Sessions
      BY DEF TypeInv, TypeOK, Page
    <3> QED BY <1>13, <3>1 DEF Begin, CreateBegin, SetupBegin, QrBegin, AckBegin, RegenBegin
  <2>1. PICK op, i, l : Load(w, s, op, i, l)
    BY <2>0
  <2> DEFINE r == [NoReq EXCEPT !.op = op, !.sess = s, !.id = i, !.copy = slot[s]]
  <2>2. r.copy = slot[s]
    BY DEF NoReq
  <2>3. req' = [req EXCEPT ![w] = r] /\ UNCHANGED <<slot, shown>>
    BY <2>1 DEF Load, webVars
  <2> HIDE DEF r
  <2>4. \A v \in Workers : req'[v] = req[v] \/ req'[v].copy = slot[s]
    BY <2>2, <2>3 DEF TypeInv, TypeOK
  <2> QED BY <1>6, <1>7, <1>8, <2>3, <2>4 DEF OwnInv
<1>14. ASSUME NEW w \in Workers, CreateRow(w) PROVE OwnInv'
  <2>1. PICK i \in NewIds, k \in NewKeys :
          /\ held' = [held EXCEPT ![i] = {k}]
          /\ req' = [req EXCEPT ![w] = [@ EXCEPT !.id = i, !.dirty = TRUE,
                                                 !.copy = [id |-> i, key |-> k]]]
    BY <1>14 DEF CreateRow
  <2>2. i \in Ids /\ k \in held'[i]
    BY <2>1 DEF NewIds, TypeInv, TypeOK
  <2>3. ASSUME NEW v \in Workers, v # w PROVE Own(req[v].copy)'
    BY <1>8, <2>1, <2>3 DEF TypeInv, TypeOK
  <2>4. req'[w].copy = [id |-> i, key |-> k]
    BY <1>1, <2>1 DEF TypeInv, TypeOK, Request
  <2>5. Own(req[w].copy)'
    BY <1>5, <2>2, <2>4
  <2>6. UNCHANGED <<slot, shown>>
    BY <1>14 DEF CreateRow, webVars
  <2> QED BY <1>6, <1>7, <2>3, <2>5, <2>6 DEF OwnInv
<1>15. ASSUME NEW w \in Workers, RegenSave(w) PROVE OwnInv'
  <2>1. UNCHANGED <<slot, shown>> /\ req[w].id \in Ids
    BY <1>15 DEF RegenSave, webVars, TypeInv, Control
  <2>2. CASE Finish(w)
    BY <1>6, <1>7, <1>9, <2>1, <2>2 DEF OwnInv
  <2>3. CASE ~Finish(w)
    <3>1. PICK k \in NewKeys :
            /\ held' = [held EXCEPT ![req[w].id] = @ \cup {k}]
            /\ req' = [req EXCEPT ![w] = [@ EXCEPT !.dirty = TRUE, !.copy = Regenerated(w, k)]]
      BY <1>15, <2>3 DEF RegenSave
    <3>2. k \in held'[req[w].id]
      BY <2>1, <3>1 DEF TypeInv, TypeOK
    <3>3. ASSUME NEW v \in Workers, v # w PROVE Own(req[v].copy)'
      BY <1>8, <3>1, <3>3 DEF TypeInv, TypeOK
    <3>4. req'[w].copy = [id |-> req[w].id, key |-> k]
      BY <1>1, <3>1 DEF Regenerated, TypeInv, TypeOK, Request
    <3>5. Own(req[w].copy)'
      BY <1>5, <3>2, <3>4
    <3> QED BY <1>6, <1>7, <2>1, <3>3, <3>5 DEF OwnInv
  <2> QED BY <2>2, <2>3
<1>16. ASSUME NEW w \in Workers, AckSave(w) PROVE OwnInv'
  <2>1. UNCHANGED <<slot, shown>>
    BY <1>16 DEF AckSave, webVars
  <2>2. CASE Finish(w)
    BY <1>6, <1>7, <1>9, <2>1, <2>2 DEF OwnInv
  <2>3. CASE ~Finish(w)
    <3>1. req' = [req EXCEPT ![w] = Popped(w)]
      BY <1>16, <2>3 DEF AckSave
    <3>2. Popped(w).copy = Empty
      BY <1>1 DEF Popped, Request
    <3>3. \A v \in Workers : req'[v] = req[v] \/ req'[v].copy = Empty
      BY <3>1, <3>2 DEF TypeInv, TypeOK
    <3> QED BY <1>6, <1>7, <1>8, <2>1, <3>3 DEF OwnInv
  <2> QED BY <2>2, <2>3
<1>17. ASSUME NEW w \in Workers, Respond(w) PROVE OwnInv'
  <2>1. \A s \in Sessions : slot'[s] = slot[s] \/ slot'[s] = req[w].copy
    BY <1>17 DEF Respond, TypeInv, TypeOK
  <2>2. \A s \in Sessions : Own(slot[s])'
    BY <1>1, <1>2, <1>4, <2>1, OwnKept DEF OwnInv
  <2>3. ASSUME Visible(w) PROVE req[w].copy.key \in held'[req[w].id]
    <3>1. req[w].copy \in Full /\ req[w].copy.id = req[w].id /\ held' = held
      BY <1>17, <2>3, VisibleFull DEF Respond, tableVars
    <3>2. req[w].copy # Empty
      BY <3>1, NullAssumption DEF Full, Empty
    <3> QED BY <3>1, <3>2 DEF OwnInv, Own
  <2>4. ShownKeysAreOwn'
    <3>1. CASE Visible(w)
      <4>1. shown' = shown \cup {[id |-> req[w].id, key |-> req[w].copy.key]}
        BY <1>17, <3>1 DEF Respond
      <4> QED BY <1>3, <2>3, <3>1, <4>1 DEF ShownKeysAreOwn
    <3>2. CASE ~Visible(w)
      BY <1>7, <1>17, <3>2 DEF Respond
    <3> QED BY <3>1, <3>2
  <2>5. Finish(w)
    BY <1>17 DEF Respond
  <2> QED BY <1>9, <2>2, <2>4, <2>5 DEF OwnInv
<1>18. ASSUME NEW s \in Sessions, SessionEnds(s) PROVE OwnInv'
  <2>1. \A t \in Sessions : slot'[t] = slot[t] \/ slot'[t] = Empty
    BY <1>18 DEF SessionEnds, TypeInv, TypeOK
  <2>2. \A t \in Sessions : Own(slot[t])'
    BY <1>2, <1>4, <2>1, OwnKept DEF OwnInv
  <2>3. \A v \in Workers : req'[v] = req[v] \/ req'[v] = [req[v] EXCEPT !.cut = TRUE]
    BY <1>18 DEF SessionEnds
  <2>4. \A v \in Workers : req'[v].copy = req[v].copy
    BY <1>1, <2>3 DEF Request
  <2>5. UNCHANGED shown
    BY <1>18 DEF SessionEnds
  <2> QED BY <1>7, <1>8, <2>2, <2>4, <2>5 DEF OwnInv
<1> QED BY <1>10, <1>11, <1>12, <1>13, <1>14, <1>15, <1>16, <1>17, <1>18
        DEF Next, Work, Continue

\* The setup page never shows a key that was not the peer's (ShownKeysAreOwn),
\* for every value of the constants.
THEOREM OwnKeysShown == Spec => []ShownKeysAreOwn
<1>1. Init => OwnInv
  BY DEF Init, OwnInv, Own, NoReq, ShownKeysAreOwn
<1>2. OwnInv => ShownKeysAreOwn
  BY DEF OwnInv
<1> QED BY InitType, TypeStep, <1>1, OwnStep, <1>2, PTL DEF Spec

(***************************************************************************)
(* The register of ShowOnce. A session copy that is going to be saved and  *)
(* has a key has a new one: no session had it before, and no other request *)
(* is going to save it. An unmodified copy may be as old as it likes.      *)
(***************************************************************************)
Fresh(w) == req[w].dirty /\ req[w].copy # Empty

FreshInv ==
  /\ past \subseteq UNION {held[i] : i \in Ids}
  /\ \A w \in Workers : Fresh(w) => req[w].copy.key \notin past
  /\ \A v, w \in Workers : Fresh(v) /\ Fresh(w) /\ v # w => req[v].copy.key # req[w].copy.key

\* The key of a full copy was in a row.
LEMMA CopyHeld ==
  ASSUME TypeInv, OwnInv, NEW w \in Workers, req[w].copy # Empty
  PROVE  req[w].copy.key \in Keys /\ req[w].copy.key \in UNION {held[i] : i \in Ids}
<1>1. req[w].copy \in Full
  BY DEF TypeInv, TypeOK, Request, Setup
<1> QED BY <1>1 DEF OwnInv, Own, Full

\* A step after which nobody is going to save anything he was not before.
LEMMA FreshKept ==
  ASSUME TypeInv, FreshInv, [Next]_vars, past' = past,
         NEW W \in SUBSET Workers, \A v \in W : req'[v].copy = req[v].copy /\ (req'[v].dirty <=> req[v].dirty),
         \A v \in Workers \ W : ~req'[v].dirty \/ req'[v].copy = Empty
  PROVE  FreshInv'
<1>1. UNION {held[i] : i \in Ids} \subseteq UNION {held'[i] : i \in Ids}
  BY HeldGrows
<1>2. \A v \in Workers : Fresh(v)' => Fresh(v) /\ req'[v].copy = req[v].copy
  BY DEF Fresh
<1> QED BY <1>1, <1>2 DEF FreshInv

\* A step that gives w a new key to save.
LEMMA FreshAdded ==
  ASSUME TypeInv, OwnInv, FreshInv, [Next]_vars, past' = past,
         NEW w \in Workers, NEW k \in NewKeys,
         \A v \in Workers \ {w} : req'[v] = req[v], req'[w].copy.key = k
  PROVE  FreshInv'
<1>1. UNION {held[i] : i \in Ids} \subseteq UNION {held'[i] : i \in Ids}
  BY HeldGrows
<1>2. \A v \in Workers \ {w} : Fresh(v)' => Fresh(v)
  BY DEF Fresh
<1>3. k \notin UNION {held[i] : i \in Ids}
  BY DEF NewKeys
<1>4. k \notin past
  BY <1>3 DEF FreshInv
<1>5. \A v \in Workers : Fresh(v) => req[v].copy.key # k
  BY <1>3, CopyHeld DEF Fresh
<1>6. \A v \in Workers : Fresh(v)' => req'[v].copy.key \notin past
  BY <1>2, <1>4 DEF FreshInv
<1>7. ASSUME NEW u \in Workers, NEW v \in Workers, Fresh(u)', Fresh(v)', u # v
      PROVE  req'[u].copy.key # req'[v].copy.key
  BY <1>2, <1>5, <1>7 DEF FreshInv
<1> QED BY <1>1, <1>6, <1>7 DEF FreshInv

LEMMA FreshStep == TypeInv /\ OwnInv /\ FreshInv /\ [Next]_vars => FreshInv'
<1> SUFFICES ASSUME TypeInv, OwnInv, FreshInv, [Next]_vars PROVE FreshInv'
  OBVIOUS
<1>1. \A w \in Workers : req[w] \in Request /\ req[w].copy \in Setup
  BY DEF TypeInv, TypeOK, Request
<1>2. ASSUME NEW w \in Workers, Finish(w)
      PROVE  /\ \A v \in Workers \ {w} : req'[v] = req[v]
             /\ req'[w] = NoReq /\ ~req'[w].dirty
  BY <1>2 DEF Finish, NoReq, TypeInv, TypeOK
<1>3. ASSUME NEW w \in Workers, Finish(w), past' = past PROVE FreshInv'
  BY <1>2, <1>3, FreshKept
<1>4. CASE UNCHANGED vars \/ DeletePeer
  <2>1. req' = req /\ past' = past
    BY <1>4 DEF vars, webVars, DeletePeer
  <2> QED BY <2>1, FreshKept
<1>5. ASSUME NEW w \in Workers, Abort(w) PROVE FreshInv'
  BY <1>3, <1>5 DEF Abort, webVars
<1>6. ASSUME NEW w \in Workers, Begin(w) PROVE FreshInv'
  <2>1. PICK s, op, i, l : Load(w, s, op, i, l)
    BY <1>6 DEF Begin, CreateBegin, SetupBegin, QrBegin, AckBegin, RegenBegin
  <2> DEFINE r == [NoReq EXCEPT !.op = op, !.sess = s, !.id = i, !.copy = slot[s]]
  <2>2. r.dirty = FALSE
    BY DEF NoReq
  <2>3. req' = [req EXCEPT ![w] = r] /\ past' = past
    BY <2>1 DEF Load, webVars
  <2> HIDE DEF r
  <2>4. (\A v \in Workers \ {w} : req'[v] = req[v]) /\ ~req'[w].dirty
    BY <2>2, <2>3 DEF TypeInv, TypeOK
  <2> QED BY <2>3, <2>4, FreshKept
<1>7. ASSUME NEW w \in Workers, CreateRow(w) PROVE FreshInv'
  <2>1. PICK i \in NewIds, k \in NewKeys :
          req' = [req EXCEPT ![w] = [@ EXCEPT !.id = i, !.dirty = TRUE,
                                              !.copy = [id |-> i, key |-> k]]]
    BY <1>7 DEF CreateRow
  <2>2. req'[w].copy.key = k /\ \A v \in Workers \ {w} : req'[v] = req[v]
    BY <1>1, <2>1 DEF TypeInv, TypeOK, Request
  <2>3. past' = past
    BY <1>7 DEF CreateRow, webVars
  <2> QED BY <2>2, <2>3, FreshAdded
<1>8. ASSUME NEW w \in Workers, RegenSave(w) PROVE FreshInv'
  <2>1. past' = past
    BY <1>8 DEF RegenSave, webVars
  <2>2. CASE Finish(w)
    BY <1>3, <2>1, <2>2
  <2>3. CASE ~Finish(w)
    <3>1. PICK k \in NewKeys :
            req' = [req EXCEPT ![w] = [@ EXCEPT !.dirty = TRUE, !.copy = Regenerated(w, k)]]
      BY <1>8, <2>3 DEF RegenSave
    <3>2. req'[w].copy.key = k /\ \A v \in Workers \ {w} : req'[v] = req[v]
      BY <1>1, <3>1 DEF Regenerated, TypeInv, TypeOK, Request
    <3> QED BY <2>1, <3>2, FreshAdded
  <2> QED BY <2>2, <2>3
<1>9. ASSUME NEW w \in Workers, AckSave(w) PROVE FreshInv'
  <2>1. past' = past
    BY <1>9 DEF AckSave, webVars
  <2>2. CASE Finish(w)
    BY <1>3, <2>1, <2>2
  <2>3. CASE ~Finish(w)
    <3>1. req' = [req EXCEPT ![w] = Popped(w)]
      BY <1>9, <2>3 DEF AckSave
    <3>2. Popped(w).copy = Empty
      BY <1>1 DEF Popped, Request
    <3>3. req'[w].copy = Empty /\ \A v \in Workers \ {w} : req'[v] = req[v]
      BY <3>1, <3>2 DEF TypeInv, TypeOK
    <3> QED BY <2>1, <3>3, FreshKept
  <2> QED BY <2>2, <2>3
<1>10. ASSUME NEW w \in Workers, Respond(w) PROVE FreshInv'
  <2>1. Finish(w)
    BY <1>10 DEF Respond
  <2>2. CASE Saves(w) /\ req[w].copy # Empty
    <3>1. past' \subseteq past \cup {req[w].copy.key} /\ held' = held
      BY <1>10, <2>2 DEF Respond, tableVars
    <3>2. req[w].copy.key \in UNION {held[i] : i \in Ids}
      BY <2>2, CopyHeld
    <3>3. \A v \in Workers : Fresh(v)' => Fresh(v) /\ v # w /\ req'[v] = req[v]
      BY <1>2, <2>1 DEF Fresh
    <3>4. Fresh(w)
      BY <2>2 DEF Fresh, Saves
    <3>5. ASSUME NEW v \in Workers, Fresh(v)' PROVE req'[v].copy.key \notin past'
      BY <3>1, <3>3, <3>4, <3>5 DEF FreshInv
    <3>6. ASSUME NEW u \in Workers, NEW v \in Workers, Fresh(u)', Fresh(v)', u # v
          PROVE  req'[u].copy.key # req'[v].copy.key
      BY <3>3, <3>6 DEF FreshInv
    <3> QED BY <3>1, <3>2, <3>5, <3>6 DEF FreshInv
  <2>3. CASE ~Saves(w) \/ req[w].copy = Empty
    <3>1. past' = past
      BY <1>10, <2>3 DEF Respond, Empty
    <3> QED BY <1>3, <2>1, <3>1
  <2> QED BY <2>2, <2>3
<1>11. ASSUME NEW s \in Sessions, SessionEnds(s) PROVE FreshInv'
  <2>1. \A v \in Workers : req'[v] = req[v] \/ req'[v] = [req[v] EXCEPT !.cut = TRUE]
    BY <1>11 DEF SessionEnds
  <2>2. \A v \in Workers : req'[v].copy = req[v].copy /\ req'[v].dirty = req[v].dirty
    BY <1>1, <2>1 DEF Request
  <2>3. past' = past
    BY <1>11 DEF SessionEnds
  <2> QED BY <2>2, <2>3, FreshKept
<1> QED BY <1>4, <1>5, <1>6, <1>7, <1>8, <1>9, <1>10, <1>11 DEF Next, Work, Continue

Offered == [s \in Sessions |-> slot[s].key]

LEMMA RegisterStep ==
  TypeInv /\ OwnInv /\ FreshInv /\ [Next]_vars => [Register!Next]_<<Offered, past>>
<1> SUFFICES ASSUME TypeInv, OwnInv, FreshInv, [Next]_vars
             PROVE  [Register!Next]_<<Offered, past>>
  OBVIOUS
<1>1. ASSUME UNCHANGED <<slot, past>> PROVE UNCHANGED <<Offered, past>>
  BY <1>1 DEF Offered
<1>2. ASSUME NEW w \in Workers, Respond(w) PROVE [Register!Next]_<<Offered, past>>
  <2>1. CASE ~Saves(w)
    BY <1>1, <1>2, <2>1 DEF Respond
  <2>2. CASE Saves(w)
    <3>1. req[w].sess \in Sessions
      BY <1>2 DEF TypeInv, Control, Respond
    <3>2. slot' = [slot EXCEPT ![req[w].sess] = req[w].copy]
      BY <1>2, <2>2 DEF Respond
    <3>3. Offered' = [Offered EXCEPT ![req[w].sess] = req[w].copy.key]
      BY <3>1, <3>2 DEF Offered, TypeInv, TypeOK
    <3>4. CASE req[w].copy = Empty
      <4>1. past' = past /\ req[w].copy.key = NoKey
        BY <1>2, <3>4 DEF Respond, Empty
      <4>2. Register!Withdraw(req[w].sess)
        BY <3>3, <4>1 DEF Register!Withdraw, Offered
      <4> QED BY <3>1, <4>2 DEF Register!Next, Register!Offer, Register!Withdraw
    <3>5. CASE req[w].copy # Empty
      <4>1. req[w].copy.key \in Keys \ past
        BY <2>2, <3>5, CopyHeld DEF FreshInv, Fresh, Saves
      <4>2. past' = past \cup {req[w].copy.key}
        BY <1>2, <2>2, <4>1, NullAssumption DEF Respond
      <4>3. Register!Offer(req[w].sess)
        BY <3>3, <4>1, <4>2 DEF Register!Offer, Offered
      <4> QED BY <3>1, <4>3 DEF Register!Next, Register!Offer, Register!Withdraw
    <3> QED BY <3>4, <3>5
  <2> QED BY <2>1, <2>2
<1>3. ASSUME NEW s \in Sessions, SessionEnds(s) PROVE [Register!Next]_<<Offered, past>>
  <2>1. slot' = [slot EXCEPT ![s] = Empty] /\ past' = past
    BY <1>3 DEF SessionEnds
  <2>2. Offered' = [Offered EXCEPT ![s] = NoKey]
    BY <2>1 DEF Offered, Empty, TypeInv, TypeOK
  <2>3. Register!Withdraw(s)
    BY <2>1, <2>2 DEF Register!Withdraw, Offered
  <2> QED BY <2>3 DEF Register!Next
<1>4. ASSUME NEW w \in Workers,
             Begin(w) \/ CreateRow(w) \/ RegenSave(w) \/ AckSave(w) \/ Abort(w)
      PROVE  UNCHANGED <<slot, past>>
  BY <1>4 DEF Begin, CreateBegin, SetupBegin, QrBegin, AckBegin, RegenBegin, Load,
       CreateRow, RegenSave, AckSave, Abort, webVars
<1>5. UNCHANGED vars \/ DeletePeer => UNCHANGED <<slot, past>>
  BY DEF DeletePeer, webVars, vars
<1> QED BY <1>1, <1>2, <1>3, <1>4, <1>5 DEF Next, Work, Continue

\* A key withdrawn from a session is never offered again: the sessions
\* implement the register of ShowOnce (ImplementsShowOnce), for every value of
\* the constants.
THEOREM SessionsShowOnce == Spec => ImplementsShowOnce
<1>1. Init => Register!Init
  BY DEF Init, Register!Init, Empty
<1>2. Init => OwnInv /\ FreshInv
  BY DEF Init, OwnInv, Own, FreshInv, Fresh, NoReq, ShownKeysAreOwn
<1>3. [Register!Next]_<<Offered, past>> <=> [Register!Next]_<<[s \in Sessions |-> slot[s].key], past>>
  BY DEF Offered
<1> QED BY InitType, TypeStep, OwnStep, FreshStep, RegisterStep, <1>1, <1>2, <1>3, PTL
        DEF Spec, ImplementsShowOnce, Register!Spec

(***************************************************************************)
(* What a session offers between its requests. A copy is current if its    *)
(* key is the one of its peer's row and the peer is not acknowledged. Of a *)
(* peer that is not astray a copy that is going to be saved is current; a  *)
(* stored slot is, or the request that wrote the row is about to save the  *)
(* session. That request goes on until it has, or the peer is astray.      *)
(***************************************************************************)
Current(c) == c.id \in Rows => c.key = row[c.id] /\ ~acked[c.id]

\* A new id has no row, and no acknowledgement is left of an earlier one.
RowsInv ==
  /\ \A i \in Rows : row[i] \in held[i]
  /\ \A i \in Ids : acked[i] => i \in Rows

Trusted(c) == c.id \notin astray => Current(c)

\* Request w saves session s, after it wrote the row of peer i.
Repairs(w, s, i) == req[w].sess = s /\ req[w].id = i /\ Saves(w)

OfferInv ==
  /\ \A w \in Workers : req[w].dirty => Trusted(req[w].copy)
  /\ \A s \in Sessions :
       Trusted(slot[s]) \/ \E w \in Workers : Repairs(w, s, slot[s].id)

LEMMA RowsStep == TypeInv /\ RowsInv /\ [Next]_vars => RowsInv'
<1> SUFFICES ASSUME TypeInv, RowsInv, [Next]_vars PROVE RowsInv'
  OBVIOUS
<1>1. ASSUME UNCHANGED <<row, acked, held>> PROVE RowsInv'
  BY <1>1 DEF RowsInv, Rows
<1>2. CASE UNCHANGED vars
  BY <1>1, <1>2 DEF vars, tableVars
<1>3. CASE DeletePeer
  BY <1>3 DEF DeletePeer, RowsInv, Rows, TypeInv, TypeOK
<1>4. ASSUME NEW w \in Workers, Begin(w) \/ Respond(w) \/ Abort(w) PROVE RowsInv'
  BY <1>1, <1>4 DEF Begin, CreateBegin, SetupBegin, QrBegin, AckBegin, RegenBegin, Load,
       Respond, Abort, tableVars
<1>5. ASSUME NEW w \in Workers, CreateRow(w) PROVE RowsInv'
  <2>1. PICK i \in NewIds, k \in NewKeys :
          row' = [row EXCEPT ![i] = k] /\ held' = [held EXCEPT ![i] = {k}] /\ acked' = acked
    BY <1>5 DEF CreateRow
  <2>2. i \in Ids /\ k \in Keys /\ k # NoKey
    BY NullAssumption DEF NewIds, NewKeys
  <2> QED BY <2>1, <2>2 DEF RowsInv, Rows, TypeInv, TypeOK
<1>6. ASSUME NEW w \in Workers, RegenSave(w) PROVE RowsInv'
  <2>1. CASE req[w].id \notin Rows
    BY <1>1, <1>6, <2>1 DEF RegenSave, tableVars
  <2>2. CASE req[w].id \in Rows
    <3>1. PICK k \in NewKeys : /\ row' = [row EXCEPT ![req[w].id] = k]
                               /\ held' = [held EXCEPT ![req[w].id] = @ \cup {k}]
                               /\ acked' = [acked EXCEPT ![req[w].id] = FALSE]
      BY <1>6, <2>2 DEF RegenSave
    <3>2. k # NoKey
      BY NullAssumption DEF NewKeys
    <3> QED BY <2>2, <3>1, <3>2 DEF RowsInv, Rows, TypeInv, TypeOK
  <2> QED BY <2>1, <2>2
<1>7. ASSUME NEW w \in Workers, AckSave(w) PROVE RowsInv'
  <2>1. CASE req[w].id \notin Rows
    BY <1>1, <1>7, <2>1 DEF AckSave
  <2>2. CASE req[w].id \in Rows
    <3>1. row' = row /\ held' = held /\ acked' = [acked EXCEPT ![req[w].id] = TRUE]
      BY <1>7, <2>2 DEF AckSave
    <3> QED BY <2>2, <3>1 DEF RowsInv, Rows, TypeInv, TypeOK
  <2> QED BY <2>1, <2>2
<1>8. ASSUME NEW s \in Sessions, SessionEnds(s) PROVE RowsInv'
  BY <1>1, <1>8 DEF SessionEnds, tableVars
<1> QED BY <1>2, <1>3, <1>4, <1>5, <1>6, <1>7, <1>8 DEF Next, Work, Continue

LEMMA OfferStep ==
  ASSUME TypeInv, OwnInv, RowsInv, OfferInv, [Next]_vars
  PROVE  OfferInv'
<1>1. \A w \in Workers : req[w] \in Request /\ req[w].copy \in Setup /\ Control(w)
  BY DEF TypeInv, TypeOK, Request
\* A copy stays as it is if its row does.
<1>2. ASSUME NEW c, astray \subseteq astray', Trusted(c),
             c.id \in Rows' \ astray' =>
               c.id \in Rows /\ row'[c.id] = row[c.id] /\ acked'[c.id] = acked[c.id]
      PROVE  c.id \notin astray' => (c.id \in Rows' => c.key = row'[c.id] /\ ~acked'[c.id])
  BY <1>2 DEF Trusted, Current
<1>3. CASE UNCHANGED vars
  BY <1>3 DEF vars, tableVars, webVars, OfferInv, Trusted, Current, Rows, Repairs, Saves
<1>4. CASE DeletePeer
  <2>1. PICK i \in Rows : /\ row' = [row EXCEPT ![i] = NoKey]
                          /\ acked' = [acked EXCEPT ![i] = FALSE]
    BY <1>4 DEF DeletePeer
  <2>2. UNCHANGED <<astray, slot, pc, req>>
    BY <1>4 DEF DeletePeer, webVars
  <2>3. \A j \in Rows' : j \in Rows /\ row'[j] = row[j] /\ acked'[j] = acked[j]
    BY <2>1 DEF Rows, TypeInv, TypeOK
  <2>4. \A w \in Workers : Trusted(req[w].copy) => Trusted(req[w].copy)'
    BY <2>2, <2>3 DEF Trusted, Current
  <2>5. \A s \in Sessions : Trusted(slot[s]) => Trusted(slot[s])'
    BY <2>2, <2>3 DEF Trusted, Current
  <2> QED BY <2>2, <2>4, <2>5 DEF OfferInv, Repairs, Saves
\* A request that had nothing to save ends or begins.
<1>5. ASSUME NEW w \in Workers, ~req[w].dirty, ~req'[w].dirty,
             \A v \in Workers \ {w} : req'[v] = req[v],
             UNCHANGED <<row, acked, astray, slot>>
      PROVE  OfferInv'
  <2>1. \A v \in Workers, s \in Sessions : \A i : Repairs(v, s, i) => Repairs(v, s, i)'
    BY <1>5 DEF Repairs, Saves
  <2>2. \A v \in Workers : req'[v].dirty => v # w /\ req[v].dirty
    BY <1>5
  <2> QED BY <1>5, <2>1, <2>2 DEF OfferInv, Trusted, Current, Rows
<1>6. ASSUME NEW w \in Workers, Finish(w)
      PROVE  req'[w] = NoReq /\ ~req'[w].dirty /\ \A v \in Workers \ {w} : req'[v] = req[v]
  BY <1>6 DEF Finish, TypeInv, TypeOK, NoReq
<1>7. ASSUME NEW w \in Workers, Begin(w) PROVE OfferInv'
  <2>1. PICK s, op, i, l : Load(w, s, op, i, l)
    BY <1>7 DEF Begin, CreateBegin, SetupBegin, QrBegin, AckBegin, RegenBegin
  <2> DEFINE r == [NoReq EXCEPT !.op = op, !.sess = s, !.id = i, !.copy = slot[s]]
  <2>2. r.dirty = FALSE
    BY DEF NoReq
  <2>3. req' = [req EXCEPT ![w] = r] /\ UNCHANGED <<row, acked, astray, slot>> /\ pc[w] = "idle"
    BY <2>1 DEF Load, tableVars, webVars
  <2> HIDE DEF r
  <2>4. ~req[w].dirty
    BY <1>1, <2>3 DEF Control
  <2>5. req'[w] = r /\ \A v \in Workers \ {w} : req'[v] = req[v]
    BY <2>3 DEF TypeInv, TypeOK
  <2> QED BY <1>5, <2>2, <2>3, <2>4, <2>5
\* A request that had nothing to save writes the row of peer i and will save its
\* session, if that still exists; nobody else has a copy, or i is astray.
<1>8. ASSUME NEW w \in Workers, NEW i \in Ids, ~req[w].dirty,
             \A v \in Workers \ {w} : req'[v] = req[v],
             req'[w].dirty => Trusted(req[w].copy)',
             astray \subseteq astray', slot' = slot,
             \A j \in Rows' \ {i} : j \in Rows /\ row'[j] = row[j] /\ acked'[j] = acked[j],
             i \notin astray' =>
               /\ \A v \in Workers : req[v].dirty => req[v].copy.id # i
               /\ \A s \in Sessions : slot[s].id = i => Repairs(w, s, i)'
      PROVE  OfferInv'
  <2>1. ASSUME NEW v \in Workers, req'[v].dirty PROVE Trusted(req[v].copy)'
    <3>1. CASE v = w
      BY <1>8, <2>1, <3>1
    <3>2. CASE v # w
      <4>1. req'[v] = req[v] /\ req[v].dirty /\ Trusted(req[v].copy)
        BY <1>8, <2>1, <3>2 DEF OfferInv
      <4> QED BY <1>8, <4>1 DEF Trusted, Current
    <3> QED BY <3>1, <3>2
  <2>2. ASSUME NEW s \in Sessions
        PROVE  Trusted(slot[s])' \/ \E v \in Workers : Repairs(v, s, slot[s].id)'
    <3>1. CASE slot[s].id = i
      BY <1>8, <3>1 DEF Trusted
    <3>2. CASE slot[s].id # i /\ Trusted(slot[s])
      BY <1>8, <3>2 DEF Trusted, Current
    <3>3. ASSUME NEW v \in Workers, Repairs(v, s, slot[s].id) PROVE Repairs(v, s, slot[s].id)'
      <4>1. v # w /\ req'[v] = req[v]
        BY <1>8, <3>3 DEF Repairs, Saves
      <4> QED BY <1>8, <3>3, <4>1 DEF Repairs, Saves
    <3> QED BY <3>1, <3>2, <3>3 DEF OfferInv
  <2> QED BY <2>1, <2>2, <1>8 DEF OfferInv
<1>9. ASSUME NEW w \in Workers, CreateRow(w) PROVE OfferInv'
  <2>1. PICK i \in NewIds, k \in NewKeys :
          /\ row' = [row EXCEPT ![i] = k]
          /\ req' = [req EXCEPT ![w] = [@ EXCEPT !.id = i, !.dirty = TRUE,
                                                 !.copy = [id |-> i, key |-> k]]]
    BY <1>9 DEF CreateRow
  <2>2. acked' = acked /\ astray' = astray /\ slot' = slot /\ ~req[w].dirty
    BY <1>1, <1>9 DEF CreateRow, webVars, Control
  <2>3. i \in Ids /\ held[i] = {}
    BY DEF NewIds
  <2>4. ~acked[i] /\ row'[i] = k
    BY <2>1, <2>3 DEF RowsInv, Rows, TypeInv, TypeOK
  <2>5. req'[w].copy.id = i /\ req'[w].copy.key = k
    BY <1>1, <2>1 DEF TypeInv, TypeOK, Request
  <2>6. Trusted(req[w].copy)'
    BY <2>2, <2>4, <2>5 DEF Trusted, Current
  <2>7. \A j \in Rows' \ {i} : j \in Rows /\ row'[j] = row[j] /\ acked'[j] = acked[j]
    BY <2>1, <2>2 DEF Rows, TypeInv, TypeOK
  <2>8. ASSUME NEW c \in Setup, Own(c) PROVE c.id # i
    BY <2>3, <2>8, NullAssumption DEF Own, Setup, Full, Empty
  <2>9. \A v \in Workers : req[v].copy.id # i
    BY <1>1, <2>8 DEF OwnInv
  <2>10. \A s \in Sessions : slot[s].id # i
    BY <2>8 DEF OwnInv, TypeInv, TypeOK
  <2>11. \A v \in Workers \ {w} : req'[v] = req[v]
    BY <2>1 DEF TypeInv, TypeOK
  <2> QED BY <1>8, <2>2, <2>3, <2>6, <2>7, <2>9, <2>10, <2>11
<1>10. ASSUME NEW w \in Workers, RegenSave(w) PROVE OfferInv'
  <2>1. ~req[w].dirty /\ slot' = slot
    BY <1>1, <1>10 DEF RegenSave, webVars, Control
  <2>2. CASE req[w].id \notin Rows
    <3>1. Finish(w) /\ UNCHANGED <<row, acked, astray>>
      BY <1>10, <2>2 DEF RegenSave, tableVars
    <3> QED BY <1>5, <1>6, <2>1, <3>1
  <2>3. CASE req[w].id \in Rows
    <3>0. PICK i \in Ids : i = req[w].id
      BY <2>3 DEF Rows
    <3>1. PICK k \in NewKeys :
            /\ row' = [row EXCEPT ![req[w].id] = k]
            /\ req' = [req EXCEPT ![w] = [@ EXCEPT !.dirty = TRUE, !.copy = Regenerated(w, k)]]
      BY <1>10, <2>3 DEF RegenSave
    <3>2. acked' = [acked EXCEPT ![req[w].id] = FALSE] /\ Scattered(w)
      BY <1>10, <2>3 DEF RegenSave
    <3>4. row'[i] = k /\ ~acked'[i]
      BY <3>0, <3>1, <3>2 DEF TypeInv, TypeOK
    <3>5. /\ req'[w].copy.id = i /\ req'[w].copy.key = k /\ req'[w].dirty
          /\ req'[w].cut = req[w].cut /\ req'[w].sess = req[w].sess /\ req'[w].id = i
      BY <3>0, <1>1, <3>1 DEF Regenerated, TypeInv, TypeOK, Request
    <3>6. Trusted(req[w].copy)'
      BY <3>4, <3>5 DEF Trusted, Current
    <3>7. \A j \in Rows' \ {i} : j \in Rows /\ row'[j] = row[j] /\ acked'[j] = acked[j]
      BY <3>0, <3>1, <3>2 DEF Rows, TypeInv, TypeOK
    <3>8. i \notin astray' => ~Elsewhere(w)
      BY <3>0, <3>2 DEF Scattered
    <3>9. astray \subseteq astray'
      BY <3>0, <3>2 DEF Scattered
    <3>10. ASSUME i \notin astray', NEW s \in Sessions, slot[s].id = i PROVE Repairs(w, s, i)'
      BY <3>0, <3>5, <3>8, <3>10 DEF Elsewhere, Repairs, Saves
    <3>11. i \notin astray' => \A v \in Workers : req[v].dirty => req[v].copy.id # i
      BY <3>0, <3>8 DEF Elsewhere
    <3>12. \A v \in Workers \ {w} : req'[v] = req[v]
      BY <3>1 DEF TypeInv, TypeOK
    <3> QED BY <1>8, <2>1, <3>6, <3>7, <3>9, <3>10, <3>11, <3>12
  <2> QED BY <2>2, <2>3
<1>11. ASSUME NEW w \in Workers, AckSave(w) PROVE OfferInv'
  <2>1. ~req[w].dirty /\ slot' = slot /\ row' = row
    BY <1>1, <1>11 DEF AckSave, webVars, Control
  <2>2. CASE req[w].id \notin Rows
    <3>1. Finish(w) /\ UNCHANGED <<row, acked, astray>>
      BY <1>11, <2>1, <2>2 DEF AckSave
    <3> QED BY <1>5, <1>6, <2>1, <3>1
  <2>3. CASE req[w].id \in Rows
    <3>0. PICK i \in Ids : i = req[w].id
      BY <2>3 DEF Rows
    <3>1. /\ req' = [req EXCEPT ![w] = Popped(w)] /\ Scattered(w)
          /\ acked' = [acked EXCEPT ![req[w].id] = TRUE]
      BY <1>11, <2>3 DEF AckSave
    <3>3. /\ req'[w].copy = Empty /\ req'[w].dirty = (req[w].copy # Empty)
          /\ req'[w].cut = req[w].cut /\ req'[w].sess = req[w].sess /\ req'[w].id = i
      BY <3>0, <1>1, <3>1 DEF Popped, TypeInv, TypeOK, Request
    <3>4. Trusted(req[w].copy)'
      BY <3>3, NullAssumption DEF Trusted, Current, Rows, Empty
    <3>5. \A j \in Rows' \ {i} : j \in Rows /\ row'[j] = row[j] /\ acked'[j] = acked[j]
      BY <3>0, <2>1, <3>1 DEF Rows, TypeInv, TypeOK
    <3>6. i \notin astray' => ~Elsewhere(w)
      BY <3>0, <3>1 DEF Scattered
    <3>7. astray \subseteq astray'
      BY <3>0, <3>1 DEF Scattered
    <3>8. ASSUME i \notin astray', NEW s \in Sessions, slot[s].id = i PROVE Repairs(w, s, i)'
      <4>1. req[w].sess = s /\ ~req[w].cut /\ req[w].copy.id = i
        BY <3>0, <3>6, <3>8 DEF Elsewhere
      <4>2. req[w].copy # Empty
        BY <4>1, NullAssumption DEF Empty
      <4> QED BY <3>3, <4>1, <4>2 DEF Repairs, Saves
    <3>9. i \notin astray' => \A v \in Workers : req[v].dirty => req[v].copy.id # i
      BY <3>0, <3>6 DEF Elsewhere
    <3>10. \A v \in Workers \ {w} : req'[v] = req[v]
      BY <3>1 DEF TypeInv, TypeOK
    <3> QED BY <1>8, <2>1, <3>4, <3>5, <3>7, <3>8, <3>9, <3>10
  <2> QED BY <2>2, <2>3
<1>12. ASSUME NEW w \in Workers, Respond(w) PROVE OfferInv'
  <2>1. Finish(w) /\ UNCHANGED <<row, acked, astray>>
    BY <1>12 DEF Respond, tableVars
  <2>2. ~req'[w].dirty /\ \A v \in Workers \ {w} : req'[v] = req[v]
    BY <1>6, <2>1
  <2>3. ASSUME NEW v \in Workers, req'[v].dirty PROVE Trusted(req[v].copy)'
    <3>1. req'[v] = req[v] /\ req[v].dirty
      BY <2>2, <2>3
    <3> QED BY <2>1, <3>1 DEF OfferInv, Trusted, Current, Rows
  <2>4. ASSUME NEW s \in Sessions
        PROVE  Trusted(slot[s])' \/ \E v \in Workers : Repairs(v, s, slot[s].id)'
    <3>1. CASE Saves(w) /\ req[w].sess = s
      <4>1. slot'[s] = req[w].copy /\ req[w].dirty
        BY <1>12, <3>1 DEF Respond, Saves, TypeInv, TypeOK
      <4> QED BY <2>1, <4>1 DEF OfferInv, Trusted, Current, Rows
    <3>2. CASE ~(Saves(w) /\ req[w].sess = s)
      <4>1. slot'[s] = slot[s]
        BY <1>12, <3>2 DEF Respond, TypeInv, TypeOK
      <4>2. Trusted(slot[s]) => Trusted(slot[s])'
        BY <2>1, <4>1 DEF Trusted, Current, Rows
      <4>3. ASSUME NEW v \in Workers, Repairs(v, s, slot[s].id)
            PROVE  Repairs(v, s, slot[s].id)'
        BY <2>2, <3>2, <4>1, <4>3 DEF Repairs, Saves
      <4> QED BY <4>2, <4>3 DEF OfferInv
    <3> QED BY <3>1, <3>2
  <2> QED BY <2>3, <2>4 DEF OfferInv
<1>13. ASSUME NEW s \in Sessions, SessionEnds(s) PROVE OfferInv'
  <2>1. UNCHANGED <<row, acked, astray>>
    BY <1>13 DEF SessionEnds, tableVars
  <2>2. ASSUME NEW v \in Workers
        PROVE  /\ req'[v].dirty = req[v].dirty /\ req'[v].copy = req[v].copy
               /\ req[v].sess # s => req'[v] = req[v]
    BY <1>1, <1>13 DEF SessionEnds, Request
  <2>3. ASSUME NEW v \in Workers, req'[v].dirty PROVE Trusted(req[v].copy)'
    BY <2>1, <2>2, <2>3 DEF OfferInv, Trusted, Current, Rows
  <2>4. ASSUME NEW t \in Sessions
        PROVE  Trusted(slot[t])' \/ \E v \in Workers : Repairs(v, t, slot[t].id)'
    <3>1. CASE t = s
      <4>1. slot'[t] = Empty
        BY <1>13, <3>1 DEF SessionEnds, TypeInv, TypeOK
      <4> QED BY <4>1, NullAssumption DEF Trusted, Current, Rows, Empty
    <3>2. CASE t # s
      <4>1. slot'[t] = slot[t]
        BY <1>13, <3>2 DEF SessionEnds, TypeInv, TypeOK
      <4>2. Trusted(slot[t]) => Trusted(slot[t])'
        BY <2>1, <4>1 DEF Trusted, Current, Rows
      <4>3. ASSUME NEW v \in Workers, Repairs(v, t, slot[t].id)
            PROVE  Repairs(v, t, slot[t].id)'
        BY <2>2, <3>2, <4>1, <4>3 DEF Repairs, Saves
      <4> QED BY <4>2, <4>3 DEF OfferInv
    <3> QED BY <3>1, <3>2
  <2> QED BY <2>3, <2>4 DEF OfferInv
<1>14. ASSUME NEW w \in Workers, Abort(w) PROVE OfferInv'
  <2>1. /\ Finish(w) /\ UNCHANGED <<row, acked, slot>>
        /\ astray' = IF req[w].dirty THEN astray \cup {req[w].id} ELSE astray
    BY <1>14 DEF Abort, webVars
  <2>2. ~req'[w].dirty /\ \A v \in Workers \ {w} : req'[v] = req[v]
    BY <1>6, <2>1
  <2>3. ASSUME NEW v \in Workers, req'[v].dirty PROVE Trusted(req[v].copy)'
    <3>1. req'[v] = req[v] /\ req[v].dirty
      BY <2>2, <2>3
    <3> QED BY <2>1, <3>1 DEF OfferInv, Trusted, Current, Rows
  <2>4. ASSUME NEW s \in Sessions
        PROVE  Trusted(slot[s])' \/ \E v \in Workers : Repairs(v, s, slot[s].id)'
    <3>1. Trusted(slot[s]) => Trusted(slot[s])'
      BY <2>1 DEF Trusted, Current, Rows
    <3>2. ASSUME NEW v \in Workers, v # w, Repairs(v, s, slot[s].id)
          PROVE  Repairs(v, s, slot[s].id)'
      BY <2>1, <2>2, <3>2 DEF Repairs, Saves
    <3>3. Repairs(w, s, slot[s].id) => slot'[s].id \in astray'
      BY <2>1 DEF Repairs, Saves
    <3> QED BY <3>1, <3>2, <3>3 DEF OfferInv, Trusted
  <2> QED BY <2>3, <2>4 DEF OfferInv
<1> QED BY <1>3, <1>4, <1>7, <1>9, <1>10, <1>11, <1>12, <1>13, <1>14 DEF Next, Work, Continue

LEMMA InitOffer == Init => OwnInv /\ RowsInv /\ OfferInv
<1> SUFFICES ASSUME Init PROVE OwnInv /\ RowsInv /\ OfferInv
  OBVIOUS
<1>1. OwnInv
  BY DEF Init, OwnInv, Own, NoReq, ShownKeysAreOwn
<1>2. RowsInv
  BY DEF Init, RowsInv, Rows
<1>3. (\A w \in Workers : req[w] = NoReq) /\ (\A s \in Sessions : slot[s] = Empty)
  BY DEF Init
<1>4. Trusted(Empty) /\ ~NoReq.dirty
  BY NullAssumption DEF Trusted, Current, Empty, Rows, NoReq
<1> QED BY <1>1, <1>2, <1>3, <1>4 DEF OfferInv

LEMMA Offers == Spec => [](TypeInv /\ OfferInv)
<1>1. TypeInv /\ OwnInv /\ RowsInv /\ OfferInv /\ [Next]_vars => OfferInv'
  BY OfferStep
<1> QED BY InitType, InitOffer, TypeStep, OwnStep, RowsStep, <1>1, PTL DEF Spec

LEMMA SettledCurrent ==
  ASSUME OfferInv, NEW s \in Sessions, Settled(s)
  PROVE  Trusted(slot[s])
  BY DEF OfferInv, Settled, Repairs

\* While no request is about to save it, the key a session offers is the one of
\* the peer's row (OfferIsCurrent), for any number of workers and sessions and
\* under every fault, but for the peers that are astray.
THEOREM OffersAreCurrent == Spec => []OfferIsCurrent
<1>1. OfferInv => OfferIsCurrent
  BY SettledCurrent DEF OfferIsCurrent, Trusted, Current
<1> QED BY Offers, <1>1, PTL

\* And it is no acknowledged peer's (AcknowledgedIsDiscarded).
THEOREM AcknowledgedNotOffered == Spec => []AcknowledgedIsDiscarded
<1>1. OfferInv => AcknowledgedIsDiscarded
  BY SettledCurrent DEF AcknowledgedIsDiscarded, Trusted, Current
<1> QED BY Offers, <1>1, PTL
=============================================================================
