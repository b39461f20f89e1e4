--------------------------- MODULE AccountsProofs ---------------------------
(***************************************************************************)
(* Theorems about Accounts, for any number of workers, addresses, users    *)
(* and invitations, under every fault and with the admin site.             *)
(***************************************************************************)
EXTENDS Accounts, TLAPS

(***************************************************************************)
(* Type correctness: what a request has read by the time it needs it.      *)
(***************************************************************************)
Fits(l, r) ==
  /\ l # "idle" => r.email \in Emails
  /\ l \in {"lookup", "discard", "create"} => r.me \in UserIds
  /\ l \in {"discard", "mail", "sent", "cancel", "accept"} => r.row \in Invitation
  /\ l \in {"tell", "erase"} => /\ r.me \in UserIds /\ r.target \in UserIds
                                /\ r.target # r.me

RequestsOK ==
  /\ pc \in [Workers -> Labels] /\ req \in [Workers -> Request]
  /\ \A w \in Workers : Fits(pc[w], req[w])

TablesOK ==
  /\ users \subseteq User /\ invitations \subseteq Invitation
  /\ opened \subseteq Emails /\ phase \in {"boot", "role", "serve"}

HistoryOK ==
  /\ usedIds \subseteq UserIds \cup InviteIds
  /\ lost \in {"no", "boot", "site", "race"}
  /\ tangled \subseteq Emails /\ cancelled \subseteq InviteIds
  /\ told \subseteq UserIds /\ died \subseteq UserIds \cup InviteIds

TypeInv == RequestsOK /\ TablesOK /\ HistoryOK

LEMMA NoReqFits == NoReq \in Request /\ Fits("idle", NoReq)
  BY DEF NoReq, Request, Fits

LEMMA InitType == Init => TypeInv
  BY NoReqFits DEF Init, TypeInv, RequestsOK, TablesOK, HistoryOK, Labels

\* A worker's request moves on.
LEMMA Moves ==
  ASSUME RequestsOK, NEW w \in Workers, NEW l \in Labels, NEW r \in Request, Fits(l, r),
         pc' = [pc EXCEPT ![w] = l], req' = [req EXCEPT ![w] = r]
  PROVE  RequestsOK'
<1>1. ASSUME NEW v \in Workers PROVE Fits(pc'[v], req'[v])
  <2>1. CASE v = w
    BY <2>1 DEF RequestsOK
  <2>2. CASE v # w
    BY <2>2 DEF RequestsOK
  <2> QED BY <2>1, <2>2
<1>2. pc' \in [Workers -> Labels] /\ req' \in [Workers -> Request]
  BY DEF RequestsOK
<1> QED BY <1>1, <1>2 DEF RequestsOK

\* ... with what it has read so far,
LEMMA GoesOn ==
  ASSUME RequestsOK, NEW w \in Workers, NEW l \in Labels, Fits(l, req[w]),
         Goto(w, l), req' = req
  PROVE  RequestsOK'
<1>1. req' = [req EXCEPT ![w] = req[w]] /\ req[w] \in Request
  BY DEF RequestsOK
<1> QED BY <1>1, Moves DEF Goto

\* ... or ends.
LEMMA Ends == ASSUME RequestsOK, NEW w \in Workers, Finish(w) PROVE RequestsOK'
  BY Moves, NoReqFits DEF Finish, Goto, Labels

\* A request begins.
LEMMA Begins ==
  ASSUME RequestsOK, NEW w \in Workers, NEW l \in Labels, NEW r \in Request, l # "idle",
         Fits(l, r), Begin(w, l, r), tangled \subseteq Emails
  PROVE  RequestsOK' /\ tangled' \subseteq Emails
<1>1. RequestsOK'
  BY Moves DEF Begin, Goto
<1>2. r.email \in Emails
  BY DEF Fits
<1> QED BY <1>1, <1>2 DEF Begin

LEMMA SaveKeepsType ==
  ASSUME TablesOK, NEW row \in Invitation, Save(row)
  PROVE  invitations' \subseteq Invitation
  BY DEF Save, TablesOK

LEMMA InviteType ==
  ASSUME TypeInv, NEW w \in Workers,
         \/ InviteBegin(w) \/ InviteLookup(w) \/ InviteDiscard(w) \/ InviteCreate(w)
         \/ InviteMail(w) \/ InviteSave(w)
  PROVE  TypeInv'
<1>0. RequestsOK /\ TablesOK /\ HistoryOK /\ req[w] \in Request /\ Fits(pc[w], req[w])
  BY DEF TypeInv, RequestsOK
<1>1. CASE InviteBegin(w)
  <2>1. PICK u \in Admins, e \in Emails : Begin(w, "lookup", [NoReq EXCEPT !.me = u.id, !.email = e])
    BY <1>1 DEF InviteBegin
  <2> DEFINE r == [NoReq EXCEPT !.me = u.id, !.email = e]
  <2>2. u \in User
    BY <1>0 DEF Admins, AdminsOf, TablesOK
  <2>3. r \in Request /\ Fits("lookup", r)
    BY <2>2 DEF NoReq, Request, Fits, User
  <2> HIDE DEF r
  <2>4. Begin(w, "lookup", r)
    BY <2>1 DEF r
  <2>5. RequestsOK' /\ tangled' \subseteq Emails
    BY <1>0, <2>3, <2>4, Begins DEF Labels, HistoryOK
  <2> QED BY <1>0, <1>1, <2>5 DEF InviteBegin, TypeInv, TablesOK, HistoryOK, tables
<1>2. CASE InviteLookup(w)
  <2>1. TablesOK' /\ HistoryOK'
    BY <1>0, <1>2 DEF InviteLookup, TablesOK, HistoryOK, tables, histVars
  <2>2. CASE Finish(w)
    BY <1>0, <2>1, <2>2, Ends DEF TypeInv
  <2>3. ASSUME NEW i \in Invited(req[w].email), Goto(w, "discard"),
               req' = [req EXCEPT ![w].row = i]
        PROVE  TypeInv'
    <3> DEFINE r == [req[w] EXCEPT !.row = i]
    <3>1. i \in Invitation /\ pc[w] = "lookup"
      BY <1>0, <1>2 DEF Invited, TablesOK, InviteLookup
    <3>2. r \in Request /\ Fits("discard", r)
      BY <1>0, <3>1 DEF Request, Fits
    <3>3. req' = [req EXCEPT ![w] = r]
      BY <2>3
    <3> HIDE DEF r
    <3> QED BY <1>0, <2>1, <2>3, <3>2, <3>3, Moves DEF Goto, Labels, TypeInv
  <2>4. CASE Goto(w, "create") /\ req' = req
    <3>1. Fits("create", req[w])
      BY <1>0, <1>2 DEF Fits, InviteLookup
    <3> QED BY <1>0, <2>1, <2>4, <3>1, GoesOn DEF Labels, TypeInv
  <2> QED BY <1>2, <2>2, <2>3, <2>4 DEF InviteLookup
<1>3. CASE InviteDiscard(w)
  <2>1. Fits("create", req[w])
    BY <1>0, <1>3 DEF Fits, InviteDiscard
  <2>2. RequestsOK'
    BY <1>0, <1>3, <2>1, GoesOn DEF InviteDiscard, Labels
  <2> QED BY <1>0, <1>3, <2>2 DEF InviteDiscard, WithoutRow, TypeInv, TablesOK, HistoryOK, histVars
<1>4. CASE InviteCreate(w)
  <2>1. CASE Finish(w) /\ UNCHANGED <<invitations, usedIds>>
    <3>1. RequestsOK'
      BY <1>0, <2>1, Ends
    <3> QED BY <1>0, <1>4, <2>1, <3>1 DEF InviteCreate, TypeInv, TablesOK, HistoryOK
  <2>2. ASSUME NEW n \in InviteIds, Goto(w, "mail"),
               invitations' = invitations \cup {NewInvitation(w, n)},
               req' = [req EXCEPT ![w].row = NewInvitation(w, n)],
               usedIds' = usedIds \cup {n}
        PROVE  TypeInv'
    <3> DEFINE i == NewInvitation(w, n)
               r == [req[w] EXCEPT !.row = i]
    <3>1. i \in Invitation
      BY <1>0, <1>4 DEF InviteCreate, NewInvitation, Invitation, Fits
    <3> HIDE DEF i
    <3>2. r \in Request /\ Fits("mail", r)
      BY <1>0, <1>4, <3>1 DEF InviteCreate, Request, Fits
    <3>3. req' = [req EXCEPT ![w] = r]
      BY <2>2 DEF i
    <3> HIDE DEF r
    <3>4. RequestsOK'
      BY <1>0, <2>2, <3>2, <3>3, Moves DEF Goto, Labels
    <3>5. invitations' \subseteq Invitation
      BY <1>0, <2>2, <3>1 DEF i, TablesOK
    <3> QED BY <1>0, <1>4, <2>2, <3>4, <3>5 DEF InviteCreate, TypeInv, TablesOK, HistoryOK
  <2> QED BY <1>4, <2>1, <2>2 DEF InviteCreate
<1>5. CASE InviteMail(w)
  <2>1. Fits("sent", req[w])
    BY <1>0, <1>5 DEF Fits, InviteMail
  <2>2. RequestsOK'
    BY <1>0, <1>5, <2>1, GoesOn DEF InviteMail, Labels
  <2> QED BY <1>0, <1>5, <2>2 DEF InviteMail, TypeInv, TablesOK, HistoryOK, tables, histVars
<1>6. CASE InviteSave(w)
  <2>1. RequestsOK'
    BY <1>0, <1>6, Ends DEF InviteSave
  <2>2. SentRow(req[w].row) \in Invitation
    BY <1>0, <1>6 DEF InviteSave, Fits, SentRow, Invitation
  <2>3. invitations' \subseteq Invitation
    BY <1>0, <1>6, <2>2, SaveKeepsType DEF InviteSave
  <2> QED BY <1>0, <1>6, <2>1, <2>3 DEF InviteSave, TypeInv, TablesOK, HistoryOK, histVars
<1> QED BY <1>1, <1>2, <1>3, <1>4, <1>5, <1>6

LEMMA RemovalType ==
  ASSUME TypeInv, NEW w \in Workers,
         CancelLoad(w) \/ CancelDelete(w) \/ RemoveLoad(w) \/ RemoveTell(w) \/ RemoveErase(w)
  PROVE  TypeInv'
<1>0. RequestsOK /\ TablesOK /\ HistoryOK /\ req[w] \in Request /\ Fits(pc[w], req[w])
  BY DEF TypeInv, RequestsOK
<1>1. CASE CancelLoad(w)
  <2>1. PICK u \in Admins, i \in invitations :
          Begin(w, "cancel", [NoReq EXCEPT !.me = u.id, !.email = i.email, !.row = i])
    BY <1>1 DEF CancelLoad
  <2> DEFINE r == [NoReq EXCEPT !.me = u.id, !.email = i.email, !.row = i]
  <2>2. u \in User /\ i \in Invitation
    BY <1>0 DEF Admins, AdminsOf, TablesOK
  <2>3. r \in Request /\ Fits("cancel", r)
    BY <2>2 DEF NoReq, Request, Fits, User, Invitation
  <2> HIDE DEF r
  <2>4. Begin(w, "cancel", r)
    BY <2>1 DEF r
  <2>5. RequestsOK' /\ tangled' \subseteq Emails
    BY <1>0, <2>3, <2>4, Begins DEF Labels, HistoryOK
  <2> QED BY <1>0, <1>1, <2>5 DEF CancelLoad, TypeInv, TablesOK, HistoryOK, tables
<1>2. CASE CancelDelete(w)
  <2>1. RequestsOK'
    BY <1>0, <1>2, Ends DEF CancelDelete
  <2>2. req[w].row.id \in InviteIds
    BY <1>0, <1>2 DEF CancelDelete, Fits, Invitation
  <2> QED BY <1>0, <1>2, <2>1, <2>2 DEF CancelDelete, WithoutRow, TypeInv, TablesOK, HistoryOK
<1>3. CASE RemoveLoad(w)
  <2>1. PICK a \in Admins, u \in users :
          /\ u.id # a.id
          /\ Begin(w, "tell", [NoReq EXCEPT !.me = a.id, !.email = u.email, !.target = u.id])
    BY <1>3 DEF RemoveLoad, AnybodyElse
  <2> DEFINE r == [NoReq EXCEPT !.me = a.id, !.email = u.email, !.target = u.id]
  <2>2. u \in User /\ a \in User
    BY <1>0 DEF Admins, AdminsOf, TablesOK
  <2>3. r \in Request /\ Fits("tell", r)
    BY <2>1, <2>2 DEF NoReq, Request, Fits, User
  <2> HIDE DEF r
  <2>4. Begin(w, "tell", r)
    BY <2>1 DEF r
  <2>5. RequestsOK' /\ tangled' \subseteq Emails
    BY <1>0, <2>3, <2>4, Begins DEF Labels, HistoryOK
  <2> QED BY <1>0, <1>3, <2>5 DEF RemoveLoad, TypeInv, TablesOK, HistoryOK, tables
<1>4. CASE RemoveTell(w)
  <2>1. Fits("erase", req[w])
    BY <1>0, <1>4 DEF Fits, RemoveTell
  <2>2. RequestsOK'
    BY <1>0, <1>4, <2>1, GoesOn DEF RemoveTell, Labels
  <2>3. told' \subseteq UserIds
    BY <1>0, <1>4 DEF RemoveTell, TablesOK, HistoryOK, User
  <2> QED BY <1>0, <1>4, <2>2, <2>3 DEF RemoveTell, TypeInv, TablesOK, HistoryOK, tables
<1>5. CASE RemoveErase(w)
  <2>1. RequestsOK'
    BY <1>0, <1>5, Ends DEF RemoveErase
  <2>2. lost' \in {"no", "boot", "site", "race"}
    BY <1>0, <1>5 DEF RemoveErase, Losing, HistoryOK
  <2> QED BY <1>0, <1>5, <2>1, <2>2 DEF RemoveErase, Delete, TypeInv, TablesOK, HistoryOK
<1> QED BY <1>1, <1>2, <1>3, <1>4, <1>5

LEMMA SignUpType ==
  ASSUME TypeInv, NEW w \in Workers, SignUp(w) \/ SignUpFind(w) \/ SignUpAccept(w)
  PROVE  TypeInv'
<1>0. RequestsOK /\ TablesOK /\ HistoryOK /\ req[w] \in Request /\ Fits(pc[w], req[w])
  BY DEF TypeInv, RequestsOK
<1>1. CASE SignUp(w)
  <2>1. PICK e \in opened, n \in UserIds :
          /\ Begin(w, "find", [NoReq EXCEPT !.email = e])
          /\ users' = users \cup {[id |-> n, email |-> e, super |-> FALSE, admin |-> FALSE]}
          /\ usedIds' = usedIds \cup {n}
    BY <1>1 DEF SignUp
  <2> DEFINE r == [NoReq EXCEPT !.email = e]
  <2>2. e \in Emails
    BY <1>0 DEF TablesOK
  <2>3. r \in Request /\ Fits("find", r)
    BY <2>2 DEF NoReq, Request, Fits
  <2> HIDE DEF r
  <2>4. Begin(w, "find", r)
    BY <2>1 DEF r
  <2>5. RequestsOK' /\ tangled' \subseteq Emails
    BY <1>0, <2>3, <2>4, Begins DEF Labels, HistoryOK
  <2>6. users' \subseteq User
    <3>1. [id |-> n, email |-> e, super |-> FALSE, admin |-> FALSE] \in User
      BY <2>2 DEF User
    <3> QED BY <1>0, <2>1, <3>1 DEF TablesOK
  <2>7. lost' \in {"no", "boot", "site", "race"}
    BY <1>0, <1>1 DEF SignUp, Losing, HistoryOK
  <2> QED BY <1>0, <1>1, <2>1, <2>5, <2>6, <2>7 DEF SignUp, TypeInv, TablesOK, HistoryOK
<1>2. CASE SignUpFind(w)
  <2>1. TablesOK' /\ HistoryOK'
    BY <1>0, <1>2 DEF SignUpFind, TablesOK, HistoryOK, tables, histVars
  <2>2. CASE Finish(w)
    BY <1>0, <2>1, <2>2, Ends DEF TypeInv
  <2>3. ASSUME NEW i \in Invited(req[w].email), Goto(w, "accept"),
               req' = [req EXCEPT ![w].row = i]
        PROVE  TypeInv'
    <3> DEFINE r == [req[w] EXCEPT !.row = i]
    <3>1. i \in Invitation
      BY <1>0 DEF Invited, TablesOK
    <3>2. r \in Request /\ Fits("accept", r)
      BY <1>0, <1>2, <3>1 DEF Request, Fits, SignUpFind
    <3>3. req' = [req EXCEPT ![w] = r]
      BY <2>3
    <3> HIDE DEF r
    <3> QED BY <1>0, <2>1, <2>3, <3>2, <3>3, Moves DEF Goto, Labels, TypeInv
  <2> QED BY <1>2, <2>2, <2>3 DEF SignUpFind
<1>3. CASE SignUpAccept(w)
  <2>1. RequestsOK'
    BY <1>0, <1>3, Ends DEF SignUpAccept
  <2>2. AcceptedRow(req[w].row) \in Invitation
    BY <1>0, <1>3 DEF SignUpAccept, Fits, AcceptedRow, Invitation
  <2>3. invitations' \subseteq Invitation
    BY <1>0, <1>3, <2>2, SaveKeepsType DEF SignUpAccept
  <2> QED BY <1>0, <1>3, <2>1, <2>3 DEF SignUpAccept, TypeInv, TablesOK, HistoryOK, histVars
<1> QED BY <1>1, <1>2, <1>3

LEMMA AloneType ==
  ASSUME TypeInv, OpenInvite \/ SiteWork \/ Start
  PROVE  TypeInv'
<1>0. RequestsOK /\ TablesOK /\ HistoryOK
  BY DEF TypeInv
<1>1. pc' = pc /\ req' = req
  BY DEF OpenInvite, SiteWork, SiteEdit, SiteAdd, SiteDelete, Start, CreateAdmin,
     CreateAdminRole, CreateAdminSkips, CreateAdminFails
<1>2. RequestsOK'
  BY <1>0, <1>1 DEF RequestsOK
<1>3. ASSUME NEW us, NEW why \in {lost, "site"}, Losing(us, why)
      PROVE  lost' \in {"no", "boot", "site", "race"}
  BY <1>0, <1>3 DEF Losing, HistoryOK
<1>4. CASE OpenInvite
  BY <1>0, <1>2, <1>4 DEF OpenInvite, TypeInv, TablesOK, HistoryOK, tables, histVars, Invitation
<1>5. CASE SiteEdit
  <2>1. users' \subseteq User
    <3>1. PICK u \in users, e \in Emails, a \in BOOLEAN, s \in BOOLEAN :
            users' = (users \ {u}) \cup {[u EXCEPT !.email = e, !.admin = a, !.super = s]}
      BY <1>5 DEF SiteEdit
    <3>2. u \in User
      BY <1>0 DEF TablesOK
    <3>3. [u EXCEPT !.email = e, !.admin = a, !.super = s] \in User
      BY <3>2 DEF User
    <3> QED BY <1>0, <3>1, <3>3 DEF TablesOK
  <2> QED BY <1>0, <1>2, <1>3, <1>5, <2>1 DEF SiteEdit, TypeInv, TablesOK, HistoryOK
<1>6. CASE SiteAdd
  <2>1. PICK e \in Emails, n \in UserIds, a \in BOOLEAN :
          /\ users' = users \cup {[id |-> n, email |-> e, super |-> FALSE, admin |-> a]}
          /\ usedIds' = usedIds \cup {n} /\ tangled' = tangled \cup {e}
    BY <1>6 DEF SiteAdd
  <2>2. users' \subseteq User
    <3>1. [id |-> n, email |-> e, super |-> FALSE, admin |-> a] \in User
      BY DEF User
    <3> QED BY <1>0, <2>1, <3>1 DEF TablesOK
  <2> QED BY <1>0, <1>2, <1>3, <1>6, <2>1, <2>2 DEF SiteAdd, TypeInv, TablesOK, HistoryOK
<1>7. CASE SiteDelete
  <2>1. /\ users' \subseteq users /\ invitations' \subseteq invitations /\ told' \subseteq told
    BY <1>7 DEF SiteDelete, Delete
  <2> QED BY <1>0, <1>2, <1>3, <1>7, <2>1 DEF SiteDelete, TypeInv, TablesOK, HistoryOK
<1>8. CASE CreateAdmin
  <2>1. PICK n \in UserIds : users' = users \cup {Superuser(n)} /\ usedIds' = usedIds \cup {n}
    BY <1>8 DEF CreateAdmin
  <2>2. users' \subseteq User
    <3>1. Superuser(n) \in User
      BY RootAssumption DEF User, Superuser
    <3> QED BY <1>0, <2>1, <3>1 DEF TablesOK
  <2> QED BY <1>0, <1>2, <1>3, <1>8, <2>1, <2>2, RootAssumption
        DEF CreateAdmin, TypeInv, TablesOK, HistoryOK
<1>9. CASE CreateAdminRole
  <2>1. ASSUME NEW u \in users PROVE [u EXCEPT !.admin = @ \/ u.email = Root] \in User
    BY <1>0 DEF TablesOK, User
  <2>2. users' \subseteq User
    BY <1>9, <2>1 DEF CreateAdminRole
  <2> QED BY <1>0, <1>2, <1>3, <1>9, <2>2 DEF CreateAdminRole, TypeInv, TablesOK, HistoryOK
<1>10. CASE CreateAdminSkips
  BY <1>0, <1>2, <1>10 DEF CreateAdminSkips, TypeInv, TablesOK, HistoryOK, tables, histVars
<1>11. CASE CreateAdminFails
  BY <1>0, <1>2, <1>11 DEF CreateAdminFails, TypeInv, TablesOK, HistoryOK, tables
<1> QED BY <1>4, <1>5, <1>6, <1>7, <1>8, <1>9, <1>10, <1>11 DEF SiteWork, Start

LEMMA FaultType ==
  ASSUME TypeInv, (\E w \in Workers : Abort(w)) \/ Restart PROVE TypeInv'
<1>0. RequestsOK /\ TablesOK /\ HistoryOK
  BY DEF TypeInv
<1>1. ASSUME NEW W \in SUBSET Workers, Dying(W)
      PROVE  tangled' \subseteq Emails /\ died' \subseteq UserIds \cup InviteIds
  <2>1. ASSUME NEW w \in W
        PROVE  /\ pc[w] \in {"find", "accept"} => req[w].email \in Emails
               /\ pc[w] = "erase" => req[w].target \in UserIds
               /\ pc[w] \in {"mail", "sent"} => req[w].row.id \in InviteIds
    BY <1>0 DEF RequestsOK, Fits, Invitation
  <2> QED BY <1>0, <1>1, <2>1 DEF Dying, HistoryOK
<1>2. ASSUME NEW w \in Workers, Abort(w) PROVE TypeInv'
  <2>1. tangled' \subseteq Emails /\ died' \subseteq UserIds \cup InviteIds
    BY <1>1, <1>2 DEF Abort
  <2>2. RequestsOK'
    BY <1>0, <1>2, Ends DEF Abort
  <2> QED BY <1>0, <1>2, <2>1, <2>2 DEF Abort, TypeInv, TablesOK, HistoryOK, tables
<1>3. CASE Restart
  <2>1. tangled' \subseteq Emails /\ died' \subseteq UserIds \cup InviteIds
    BY <1>1, <1>3 DEF Restart
  <2>2. RequestsOK'
    BY <1>3, NoReqFits DEF Restart, RequestsOK, Labels
  <2> QED BY <1>0, <1>3, <2>1, <2>2 DEF Restart, TypeInv, TablesOK, HistoryOK, tables
<1> QED BY <1>2, <1>3

LEMMA StepType == TypeInv /\ [Next]_vars => TypeInv'
<1> SUFFICES ASSUME TypeInv, [Next]_vars PROVE TypeInv'
  OBVIOUS
<1>1. CASE UNCHANGED vars
  BY <1>1 DEF vars, tables, histVars, TypeInv, RequestsOK, TablesOK, HistoryOK
<1>2. CASE Next
  BY <1>2, InviteType, RemovalType, SignUpType, AloneType, FaultType DEF Next, Work
<1> QED BY <1>1, <1>2

\* Every value keeps its type; what a request has read by the time it uses it
\* is there.
THEOREM TypeCorrect == Spec => []TypeOK
<1>1. TypeInv => TypeOK
  BY DEF TypeInv, RequestsOK, TablesOK, HistoryOK, TypeOK
<1> QED BY <1>1, InitType, StepType, PTL DEF Spec

(***************************************************************************)
(* An administrator is left. Once there was one, either there still is one *)
(* or the loss was recorded; before, nobody can have done anything. That a *)
(* removal by an administrator leaves at least that administrator rests on *)
(* Fits: the target is somebody else.                                      *)
(***************************************************************************)
Served == Admins # {} \/ lost # "no"

Untouched ==
  /\ users = {} /\ invitations = {} /\ opened = {} /\ phase = "boot"
  /\ \A w \in Workers : pc[w] = "idle"

BootInv == Served \/ Untouched

\* The table is replaced, for a reason that is recorded.
LEMMA LosingServed ==
  ASSUME Served, NEW why, Losing(users', why),
         Admins # {} /\ AdminsOf(users') = {} => why # "no"
  PROVE  Served'
  BY DEF Served, Losing, Admins

\* Users come or get a role; nobody's loss is recorded.
LEMMA GainServed ==
  ASSUME Served, Losing(users', lost), \A u \in Admins : \E v \in users' : IsAdminUser(v)
  PROVE  Served'
<1>1. Admins # {} => AdminsOf(users') # {}
  BY DEF AdminsOf
<1> QED BY <1>1, LosingServed

LEMMA StepBoot == TypeInv /\ BootInv /\ [Next]_vars => BootInv'
<1> SUFFICES ASSUME TypeInv, BootInv, [Next]_vars PROVE BootInv'
  OBVIOUS
<1>1. ASSUME users' = users, lost' = lost, Served PROVE Served'
  BY <1>1 DEF Served, Admins, AdminsOf, IsAdminUser
<1>2. ASSUME NEW w \in Workers, pc[w] # "idle" PROVE Served
  BY <1>2 DEF BootInv, Untouched
<1>3. CASE UNCHANGED vars
  BY <1>3 DEF vars, tables, histVars, BootInv, Served, Untouched, Admins, AdminsOf, IsAdminUser
<1>4. ASSUME NEW w \in Workers,
             \/ InviteLookup(w) \/ InviteDiscard(w) \/ InviteCreate(w)
             \/ InviteMail(w) \/ InviteSave(w) \/ CancelDelete(w) \/ RemoveTell(w)
             \/ SignUpFind(w) \/ SignUpAccept(w) \/ Abort(w)
      PROVE  Served'
  <2>1. Served
    BY <1>2, <1>4 DEF InviteLookup, InviteDiscard, InviteCreate, InviteMail, InviteSave,
       CancelDelete, RemoveTell, SignUpFind, SignUpAccept, Abort
  <2>2. users' = users /\ lost' = lost
    BY <1>4 DEF InviteLookup, InviteDiscard, InviteCreate, InviteMail, InviteSave,
       CancelDelete, RemoveTell, SignUpFind, SignUpAccept, Abort, tables, histVars
  <2> QED BY <1>1, <2>1, <2>2
<1>5. ASSUME NEW w \in Workers, InviteBegin(w) \/ CancelLoad(w) \/ RemoveLoad(w)
      PROVE  Served'
  <2>1. Served
    BY <1>5 DEF InviteBegin, CancelLoad, RemoveLoad, Served
  <2>2. users' = users /\ lost' = lost
    BY <1>5 DEF InviteBegin, CancelLoad, RemoveLoad, tables
  <2> QED BY <1>1, <2>1, <2>2
<1>6. ASSUME NEW w \in Workers, RemoveErase(w) PROVE Served'
  <2>1. Served
    BY <1>2, <1>6 DEF RemoveErase
  <2>2. Fits("erase", req[w])
    BY <1>6 DEF RemoveErase, TypeInv, RequestsOK
  <2>3. CASE \E a \in Admins : a.id = req[w].me
    <3>1. Losing(users', lost)
      BY <1>6, <2>3 DEF RemoveErase
    <3>2. PICK a \in Admins : a.id = req[w].me
      BY <2>3
    <3>3. a \in users' /\ IsAdminUser(a)
      BY <1>6, <2>2, <3>2 DEF RemoveErase, Delete, Fits, Admins, AdminsOf
    <3> QED BY <2>1, <3>1, <3>3, GainServed
  <2>4. CASE ~ \E a \in Admins : a.id = req[w].me
    <3>1. Losing(users', "race")
      BY <1>6, <2>4 DEF RemoveErase
    <3> QED BY <2>1, <3>1, LosingServed
  <2> QED BY <2>3, <2>4
<1>7. ASSUME NEW w \in Workers, SignUp(w) PROVE Served'
  <2>1. Served
    BY <1>7 DEF SignUp, BootInv, Untouched
  <2>2. users \subseteq users' /\ Losing(users', lost)
    BY <1>7 DEF SignUp
  <2> QED BY <2>1, <2>2, GainServed DEF Admins, AdminsOf
<1>8. CASE OpenInvite
  <2>1. Served
    BY <1>8 DEF OpenInvite, BootInv, Untouched
  <2>2. users' = users /\ lost' = lost
    BY <1>8 DEF OpenInvite, tables, histVars
  <2> QED BY <1>1, <2>1, <2>2 DEF BootInv
<1>9. CASE SiteWork
  <2>1. Served
    BY <1>9 DEF SiteWork, SiteEdit, SiteAdd, SiteDelete, Site, BootInv, Untouched
  <2>2. Losing(users', "site")
    BY <1>9 DEF SiteWork, SiteEdit, SiteAdd, SiteDelete
  <2> QED BY <2>1, <2>2, LosingServed DEF BootInv
<1>10. CASE CreateAdmin
  <2>1. PICK n \in UserIds : users' = users \cup {Superuser(n)}
    BY <1>10 DEF CreateAdmin
  <2>2. Superuser(n) \in AdminsOf(users')
    BY <2>1 DEF AdminsOf, IsAdminUser, Superuser
  <2> QED BY <2>2 DEF BootInv, Served, Admins
<1>11. CASE CreateAdminRole
  <2>1. Served
    BY <1>11 DEF CreateAdminRole, BootInv, Untouched
  <2>2. Losing(users', lost)
    BY <1>11 DEF CreateAdminRole
  <2>3. ASSUME NEW u \in Admins PROVE \E v \in users' : IsAdminUser(v)
    <3> DEFINE v == [u EXCEPT !.admin = @ \/ u.email = Root]
    <3>1. u \in users /\ u \in User /\ (u.admin \/ u.super)
      BY DEF Admins, AdminsOf, IsAdminUser, TypeInv, TablesOK
    <3>2. v \in users'
      BY <1>11, <3>1 DEF CreateAdminRole
    <3>3. v.admin \/ v.super
      BY <3>1 DEF User
    <3> QED BY <3>2, <3>3 DEF IsAdminUser
  <2> QED BY <2>1, <2>2, <2>3, GainServed DEF BootInv
<1>12. CASE CreateAdminSkips
  <2>1. Served
    BY <1>12 DEF CreateAdminSkips, Registered, BootInv, Untouched
  <2>2. users' = users /\ lost' = lost
    BY <1>12 DEF CreateAdminSkips, tables, histVars
  <2> QED BY <1>1, <2>1, <2>2 DEF BootInv
<1>13. CASE CreateAdminFails
  BY <1>13 DEF CreateAdminFails, BootInv, Served, tables, Admins, AdminsOf, IsAdminUser
<1>14. CASE Restart
  <2>1. users' = users /\ lost' = lost /\ UNCHANGED <<invitations, opened>>
        /\ phase' = "boot" /\ \A w \in Workers : pc'[w] = "idle"
    BY <1>14 DEF Restart, tables
  <2> QED BY <1>1, <2>1 DEF BootInv, Untouched
<1> QED BY <1>3, <1>4, <1>5, <1>6, <1>7, <1>8, <1>9, <1>10, <1>11, <1>12, <1>13, <1>14
        DEF Next, Work, Start, BootInv

\* While the application serves there is an administrator, unless the loss has
\* one of three recorded reasons (views.py:397-398, docker-entrypoint.sh:34-35).
THEOREM AnAdminIsLeft == Spec => []AdminLeft
<1>1. Init => BootInv
  BY DEF Init, BootInv, Untouched
<1>2. BootInv => AdminLeft
  BY DEF BootInv, Served, Untouched, AdminLeft
<1> QED BY <1>1, <1>2, InitType, StepType, StepBoot, PTL DEF Spec

(***************************************************************************)
(* Who was told so is deleted.                                             *)
(***************************************************************************)
ToldInv ==
  /\ ToldIsGone
  /\ told \subseteq usedIds /\ \A u \in users : u.id \in usedIds

\* A step of a worker that is not about to delete a user.
LEMMA OthersTold ==
  ASSUME ToldInv, NEW w, w \in Workers => pc[w] # "erase",
         \A v \in Workers : v # w => pc'[v] = pc[v] /\ req'[v] = req[v],
         told' \subseteq told, died \subseteq died', usedIds \subseteq usedIds',
         \A u \in users' : /\ u.id \in usedIds'
                           /\ u.id \in usedIds => \E x \in users : x.id = u.id
  PROVE  ToldInv'
<1>1. ASSUME NEW u \in users', u.id \in told'
      PROVE  u.id \in died' \/ \E v \in Workers : pc'[v] = "erase" /\ req'[v].target = u.id
  <2>1. PICK x \in users : x.id = u.id
    BY <1>1 DEF ToldInv
  <2>2. CASE x.id \in died
    BY <2>1, <2>2
  <2>3. CASE \E v \in Workers : pc[v] = "erase" /\ req[v].target = x.id
    <3>1. PICK v \in Workers : pc[v] = "erase" /\ req[v].target = x.id
      BY <2>3
    <3>2. v # w
      BY <3>1
    <3> QED BY <2>1, <3>1, <3>2
  <2> QED BY <1>1, <2>1, <2>2, <2>3 DEF ToldInv, ToldIsGone
<1> QED BY <1>1 DEF ToldInv, ToldIsGone

LEMMA StepTold == TypeInv /\ ToldInv /\ [Next]_vars => ToldInv'
<1> SUFFICES ASSUME TypeInv, ToldInv, [Next]_vars PROVE ToldInv'
  OBVIOUS
<1>0. /\ pc \in [Workers -> Labels] /\ req \in [Workers -> Request]
      /\ \A u \in users : u \in User /\ u.id \in usedIds
  BY DEF TypeInv, RequestsOK, TablesOK, ToldInv
<1>1. CASE UNCHANGED vars
  BY <1>1 DEF vars, tables, histVars, ToldInv, ToldIsGone
<1>2. ASSUME NEW w \in Workers,
             \/ InviteBegin(w) \/ InviteLookup(w) \/ InviteDiscard(w) \/ InviteCreate(w)
             \/ InviteMail(w) \/ InviteSave(w) \/ CancelLoad(w) \/ CancelDelete(w)
             \/ RemoveLoad(w) \/ SignUpFind(w) \/ SignUpAccept(w)
      PROVE  ToldInv'
  <2>1. /\ pc[w] # "erase" /\ users' = users /\ told' = told /\ died' = died
        /\ usedIds \subseteq usedIds'
    BY <1>2 DEF InviteBegin, InviteLookup, InviteDiscard, InviteCreate, InviteMail, InviteSave,
       CancelLoad, CancelDelete, RemoveLoad, SignUpFind, SignUpAccept, Begin, tables, histVars
  <2>2. \A v \in Workers : v # w => pc'[v] = pc[v] /\ req'[v] = req[v]
    BY <1>0, <1>2 DEF InviteBegin, InviteLookup, InviteDiscard, InviteCreate, InviteMail, InviteSave,
       CancelLoad, CancelDelete, RemoveLoad, SignUpFind, SignUpAccept, Begin, Goto, Finish
  <2> QED BY <1>0, <2>1, <2>2, OthersTold
<1>3. ASSUME NEW w \in Workers, SignUp(w) PROVE ToldInv'
  <2>1. PICK e \in opened, n \in UserIds \ usedIds :
          /\ Begin(w, "find", [NoReq EXCEPT !.email = e])
          /\ users' = users \cup {[id |-> n, email |-> e, super |-> FALSE, admin |-> FALSE]}
          /\ usedIds' = usedIds \cup {n}
    BY <1>3 DEF SignUp
  <2>2. /\ pc[w] # "erase" /\ told' = told /\ died' = died
        /\ \A v \in Workers : v # w => pc'[v] = pc[v] /\ req'[v] = req[v]
    BY <1>0, <1>3, <2>1 DEF SignUp, Begin, Goto
  <2>3. \A u \in users' : u \in users \/ u.id = n
    BY <2>1
  <2> QED BY <1>0, <2>1, <2>2, <2>3, OthersTold
<1>4. ASSUME NEW w \in Workers, RemoveTell(w) PROVE ToldInv'
  <2>1. /\ told' \subseteq told \cup {req[w].target} /\ users' = users /\ died' = died
        /\ usedIds' = usedIds /\ told' \subseteq told \cup {u.id : u \in users}
    BY <1>4 DEF RemoveTell, tables
  <2>2. /\ pc'[w] = "erase" /\ req' = req /\ pc[w] = "tell"
        /\ \A v \in Workers : v # w => pc'[v] = pc[v]
    BY <1>0, <1>4 DEF RemoveTell, Goto
  <2>3. told' \subseteq usedIds'
    BY <1>0, <2>1 DEF ToldInv
  <2>4. ASSUME NEW u \in users', u.id \in told'
        PROVE  u.id \in died' \/ \E v \in Workers : pc'[v] = "erase" /\ req'[v].target = u.id
    <3>1. CASE u.id = req[w].target
      BY <2>2, <3>1
    <3>2. CASE u.id \in told
      BY <2>1, <2>2, <3>2 DEF ToldInv, ToldIsGone
    <3> QED BY <2>1, <2>4, <3>1, <3>2
  <2> QED BY <1>0, <2>1, <2>3, <2>4 DEF ToldInv, ToldIsGone
<1>5. ASSUME NEW w \in Workers, RemoveErase(w) PROVE ToldInv'
  <2>1. /\ users' = {u \in users : u.id # req[w].target} /\ told' = told \ {req[w].target}
        /\ died' = died /\ usedIds' = usedIds
        /\ \A v \in Workers : v # w => pc'[v] = pc[v] /\ req'[v] = req[v]
    BY <1>0, <1>5 DEF RemoveErase, Delete, Finish, Goto
  <2>2. ASSUME NEW u \in users', u.id \in told'
        PROVE  u.id \in died' \/ \E v \in Workers : pc'[v] = "erase" /\ req'[v].target = u.id
    <3>1. u \in users /\ u.id \in told /\ u.id # req[w].target
      BY <2>1, <2>2
    <3>2. CASE \E v \in Workers : pc[v] = "erase" /\ req[v].target = u.id
      <4>1. PICK v \in Workers : pc[v] = "erase" /\ req[v].target = u.id
        BY <3>2
      <4>2. v # w
        BY <3>1, <4>1
      <4> QED BY <2>1, <4>1, <4>2
    <3> QED BY <2>1, <3>1, <3>2 DEF ToldInv, ToldIsGone
  <2> QED BY <1>0, <2>1, <2>2 DEF ToldInv, ToldIsGone
<1>6. ASSUME NEW w \in Workers, Abort(w) PROVE ToldInv'
  <2>1. /\ users' = users /\ told' = told /\ usedIds' = usedIds /\ died \subseteq died'
        /\ pc[w] = "erase" => req[w].target \in died'
        /\ \A v \in Workers : v # w => pc'[v] = pc[v] /\ req'[v] = req[v]
    BY <1>0, <1>6 DEF Abort, Dying, Finish, Goto, tables
  <2>2. CASE pc[w] # "erase"
    BY <1>0, <2>1, <2>2, OthersTold
  <2>3. CASE pc[w] = "erase"
    <3>1. ASSUME NEW u \in users', u.id \in told'
          PROVE  u.id \in died' \/ \E v \in Workers : pc'[v] = "erase" /\ req'[v].target = u.id
      <4>1. CASE \E v \in Workers : pc[v] = "erase" /\ req[v].target = u.id
        <5>1. PICK v \in Workers : pc[v] = "erase" /\ req[v].target = u.id
          BY <4>1
        <5>2. CASE v = w
          BY <2>1, <5>1, <5>2
        <5>3. CASE v # w
          BY <2>1, <5>1, <5>3
        <5> QED BY <5>2, <5>3
      <4> QED BY <2>1, <3>1, <4>1 DEF ToldInv, ToldIsGone
    <3> QED BY <1>0, <2>1, <3>1 DEF ToldInv, ToldIsGone
  <2> QED BY <2>2, <2>3
<1>7. CASE Restart
  <2>1. /\ users' = users /\ told' = told /\ usedIds' = usedIds /\ died \subseteq died'
        /\ \A w \in Workers : pc[w] = "erase" => req[w].target \in died'
    BY <1>7 DEF Restart, Dying, tables
  <2> QED BY <1>0, <2>1 DEF ToldInv, ToldIsGone
<1>8. CASE OpenInvite \/ SiteWork \/ Start
  <2>1. /\ pc' = pc /\ req' = req /\ told' \subseteq told /\ died' = died
        /\ usedIds \subseteq usedIds'
    BY <1>8 DEF OpenInvite, SiteWork, SiteEdit, SiteAdd, SiteDelete, Delete, Start, CreateAdmin,
       CreateAdminRole, CreateAdminSkips, CreateAdminFails, histVars
  <2>2. \A u \in users' : /\ u.id \in usedIds'
                          /\ u.id \in usedIds => \E x \in users : x.id = u.id
    <3>1. CASE users' \subseteq users
      BY <1>0, <2>1, <3>1
    <3>2. CASE SiteEdit
      <4>1. PICK u \in users, e \in Emails, a \in BOOLEAN, s \in BOOLEAN :
              users' = (users \ {u}) \cup {[u EXCEPT !.email = e, !.admin = a, !.super = s]}
        BY <3>2 DEF SiteEdit
      <4>2. [u EXCEPT !.email = e, !.admin = a, !.super = s].id = u.id
        BY <1>0, <4>1 DEF User
      <4> QED BY <1>0, <2>1, <4>1, <4>2
    <3>3. CASE SiteAdd
      <4>1. PICK e \in Emails, n \in UserIds \ usedIds, a \in BOOLEAN :
              /\ users' = users \cup {[id |-> n, email |-> e, super |-> FALSE, admin |-> a]}
              /\ usedIds' = usedIds \cup {n}
        BY <3>3 DEF SiteAdd
      <4>2. \A u \in users' : u \in users \/ u.id = n
        BY <4>1
      <4> QED BY <1>0, <4>1, <4>2
    <3>4. CASE CreateAdmin
      <4>1. PICK n \in UserIds \ usedIds :
              users' = users \cup {Superuser(n)} /\ usedIds' = usedIds \cup {n}
        BY <3>4 DEF CreateAdmin
      <4>2. \A u \in users' : u \in users \/ u.id = n
        BY <4>1 DEF Superuser
      <4> QED BY <1>0, <4>1, <4>2
    <3>5. CASE CreateAdminRole
      <4>3. ASSUME NEW u \in users' PROVE \E x \in users : u.id = x.id
        <5>1. PICK x \in users : u = [x EXCEPT !.admin = @ \/ x.email = Root]
          BY <3>5 DEF CreateAdminRole
        <5>2. x \in User
          BY <1>0
        <5>3. u.id = x.id
          BY <5>1, <5>2 DEF User
        <5> QED BY <5>3
      <4> QED BY <1>0, <2>1, <4>3
    <3> QED BY <1>8, <3>1, <3>2, <3>3, <3>4, <3>5 DEF OpenInvite, SiteWork, SiteDelete, Delete,
            Start, CreateAdminSkips, CreateAdminFails, tables
  <2> QED BY <2>1, <2>2 DEF ToldInv, ToldIsGone
<1> QED BY <1>1, <1>2, <1>3, <1>4, <1>5, <1>6, <1>7, <1>8 DEF Next, Work

\* A user who was mailed that the account is deleted is about to be deleted,
\* unless the request that sent the mail died (views.py:406-413).
THEOREM ToldAreDeleted == Spec => []ToldIsGone
<1>1. Init => ToldInv
  BY DEF Init, ToldInv, ToldIsGone
<1>2. ToldInv => ToldIsGone
  BY DEF ToldInv
<1> QED BY <1>1, <1>2, InitType, StepType, StepTold, PTL DEF Spec

-----------------------------------------------------------------------------
(***************************************************************************)
(* The rows of the invitations, of which requests hold copies while others *)
(* change the table. Rows and copies with one id are of one address and    *)
(* one inviter, and two requests that are about one address at the same    *)
(* time are recorded as tangled: so a save of an old copy can only disturb *)
(* a tangled address.                                                      *)
(***************************************************************************)
Exclusive ==
  \A v, w \in Workers :
    v # w /\ pc[v] # "idle" /\ pc[w] # "idle" /\ req[v].email = req[w].email =>
      req[v].email \in tangled

\* The labels at which a request holds a row.
RowLabels == {"discard", "mail", "sent", "cancel", "accept"}
Holding   == {w \in Workers : pc[w] \in RowLabels}
Copies    == invitations \cup {req[w].row : w \in Holding}

SameRow(i, j) == i.id = j.id /\ i.email = j.email /\ i.by = j.by

OwnRows         == \A w \in Holding : req[w].row.email = req[w].email
OneOrigin       == \A i, j \in Copies : i.id = j.id => SameRow(i, j)
KnownIds        == cancelled \subseteq usedIds /\ \A i \in Copies : i.id \in usedIds
CancelledCopies == \A i \in Copies : i.id \in cancelled => i.email \in tangled

CopiesInv == Exclusive /\ OwnRows /\ OneOrigin /\ KnownIds /\ CancelledCopies

LEMMA InitCopies == Init => CopiesInv
  BY DEF Init, CopiesInv, Exclusive, OwnRows, OneOrigin, KnownIds, CancelledCopies,
     Copies, Holding, RowLabels

\* The other requests stay as they are.
OthersWait(w) == \A v \in Workers \ {w} : pc'[v] = pc[v] /\ req'[v] = req[v]

\* A request that goes on is about the address it was about.
LEMMA SteadyExclusive ==
  ASSUME Exclusive, NEW w \in Workers, OthersWait(w), tangled \subseteq tangled',
         pc'[w] # "idle" => pc[w] # "idle" /\ req'[w].email = req[w].email
  PROVE  Exclusive'
  BY DEF Exclusive, OthersWait

LEMMA BeginExclusive ==
  ASSUME RequestsOK, Exclusive, NEW w \in Workers, NEW l, NEW r, Begin(w, l, r)
  PROVE  Exclusive' /\ OthersWait(w) /\ tangled \subseteq tangled'
         /\ pc'[w] = l /\ req'[w] = r /\ pc[w] = "idle"
<1>1. OthersWait(w) /\ tangled \subseteq tangled' /\ pc'[w] = l /\ req'[w] = r /\ pc[w] = "idle"
  BY DEF Begin, Goto, RequestsOK, OthersWait
<1>2. ASSUME NEW v \in Workers, v # w, pc[v] # "idle", req[v].email = r.email
      PROVE  r.email \in tangled'
  BY <1>2 DEF Begin
<1> QED BY <1>1, <1>2 DEF Exclusive, OthersWait

\* A step that creates no row and cancels none.
LEMMA CopiesKept ==
  ASSUME CopiesInv, Exclusive', OwnRows',
         \A i \in Copies' : \E j \in Copies : SameRow(i, j),
         cancelled' = cancelled, usedIds \subseteq usedIds', tangled \subseteq tangled'
  PROVE  CopiesInv'
<1>1. OneOrigin'
  BY DEF CopiesInv, OneOrigin, SameRow
<1>2. KnownIds'
  BY DEF CopiesInv, KnownIds, SameRow
<1>3. CancelledCopies'
  BY DEF CopiesInv, CancelledCopies, SameRow
<1> QED BY <1>1, <1>2, <1>3 DEF CopiesInv

LEMMA WorkerCopies ==
  ASSUME CopiesInv, NEW w \in Workers, Exclusive', OthersWait(w),
         \A i \in invitations' : \E j \in Copies : SameRow(i, j),
         pc'[w] \in RowLabels => /\ req'[w].row.email = req'[w].email
                                 /\ \E j \in Copies : SameRow(req'[w].row, j),
         cancelled' = cancelled, usedIds \subseteq usedIds', tangled \subseteq tangled'
  PROVE  CopiesInv'
<1>1. OwnRows'
  BY DEF CopiesInv, OwnRows, Holding, OthersWait
<1>2. ASSUME NEW v \in Holding' PROVE \E j \in Copies : SameRow(req'[v].row, j)
  <2>1. CASE v = w
    BY <2>1 DEF Holding
  <2>2. CASE v # w
    BY <2>2 DEF Holding, OthersWait, Copies, SameRow
  <2> QED BY <2>1, <2>2
<1>3. \A i \in Copies' : \E j \in Copies : SameRow(i, j)
  BY <1>2 DEF Copies
<1> QED BY <1>1, <1>3, CopiesKept

\* A save of a copy leaves rows of known origin.
LEMMA SaveCopies ==
  ASSUME NEW w \in Holding, NEW row, SameRow(row, req[w].row), Save(row)
  PROVE  \A i \in invitations' : \E j \in Copies : SameRow(i, j)
<1>1. req[w].row \in Copies /\ invitations \subseteq Copies
  BY DEF Copies
<1>2. invitations' \subseteq invitations \cup {row}
  BY DEF Save
<1> QED BY <1>1, <1>2 DEF SameRow

LEMMA StepCopies == TypeInv /\ CopiesInv /\ [Next]_vars => CopiesInv'
<1> SUFFICES ASSUME TypeInv, CopiesInv, [Next]_vars PROVE CopiesInv'
  OBVIOUS
<1>a. RequestsOK /\ Exclusive /\ invitations \subseteq Invitation
  BY DEF TypeInv, TablesOK, CopiesInv
<1>b. /\ pc \in [Workers -> Labels] /\ req \in [Workers -> Request]
      /\ \A v \in Workers : req[v] \in Request /\ Fits(pc[v], req[v])
  BY <1>a DEF RequestsOK
<1>c. invitations \subseteq Copies /\ \A i \in invitations : \E j \in Copies : SameRow(i, j)
  BY DEF Copies, SameRow
<1>d. ASSUME NEW w \in Workers, pc[w] \in RowLabels
      PROVE  /\ w \in Holding /\ req[w].row \in Copies /\ req[w].row.email = req[w].email
             /\ req[w].row \in Invitation /\ SameRow(req[w].row, req[w].row)
  BY <1>b, <1>d DEF Holding, Copies, CopiesInv, OwnRows, SameRow, Fits, RowLabels
\* The request of w ends; the table loses rows or gains a copy.
<1>1. ASSUME NEW w \in Workers, Finish(w), cancelled' = cancelled,
             usedIds \subseteq usedIds', tangled \subseteq tangled',
             \A i \in invitations' : \E j \in Copies : SameRow(i, j)
      PROVE  CopiesInv'
  <2>1. OthersWait(w) /\ pc'[w] = "idle"
    BY <1>b, <1>1 DEF Finish, Goto, OthersWait
  <2> QED BY <1>a, <1>1, <2>1, SteadyExclusive, WorkerCopies DEF RowLabels
<1>2. ASSUME NEW w \in Workers, InviteBegin(w) \/ RemoveLoad(w) \/ SignUp(w) PROVE CopiesInv'
  <2>1. \E l \in {"lookup", "tell", "find"} : \E r : Begin(w, l, r)
    BY <1>2 DEF InviteBegin, RemoveLoad, SignUp
  <2>2. /\ Exclusive' /\ OthersWait(w) /\ tangled \subseteq tangled'
        /\ pc'[w] \in {"lookup", "tell", "find"}
    BY <1>a, <2>1, BeginExclusive
  <2>3. invitations' = invitations /\ cancelled' = cancelled /\ usedIds \subseteq usedIds'
    BY <1>2 DEF InviteBegin, RemoveLoad, SignUp, tables
  <2> QED BY <1>c, <2>2, <2>3, WorkerCopies DEF RowLabels
<1>3. ASSUME NEW w \in Workers, CancelLoad(w) PROVE CopiesInv'
  <2>1. PICK u \in Admins, i \in invitations :
          Begin(w, "cancel", [NoReq EXCEPT !.me = u.id, !.email = i.email, !.row = i])
    BY <1>3 DEF CancelLoad
  <2> DEFINE r == [NoReq EXCEPT !.me = u.id, !.email = i.email, !.row = i]
  <2>2. r.row = i /\ r.email = i.email
    BY DEF NoReq
  <2> HIDE DEF r
  <2>3. /\ Exclusive' /\ OthersWait(w) /\ tangled \subseteq tangled' /\ req'[w] = r
    BY <1>a, <2>1, BeginExclusive DEF r
  <2>4. invitations' = invitations /\ cancelled' = cancelled /\ usedIds' = usedIds
    BY <1>3 DEF CancelLoad, tables
  <2> QED BY <1>c, <2>2, <2>3, <2>4, WorkerCopies
<1>4. ASSUME NEW w \in Workers, NEW l \in {"discard", "accept"}, NEW i \in Invited(req[w].email),
             pc[w] # "idle", Goto(w, l), req' = [req EXCEPT ![w].row = i],
             UNCHANGED <<invitations, cancelled, usedIds, tangled>>
      PROVE  CopiesInv'
  <2>1. OthersWait(w) /\ req'[w].row = i /\ req'[w].email = req[w].email
    BY <1>b, <1>4 DEF Goto, OthersWait, Request
  <2>2. i \in invitations /\ i.email = req[w].email
    BY DEF Invited
  <2> QED BY <1>a, <1>c, <1>4, <2>1, <2>2, SteadyExclusive, WorkerCopies
<1>5. ASSUME NEW w \in Workers, NEW l, pc[w] # "idle", Goto(w, l), req' = req,
             l \in RowLabels => pc[w] \in RowLabels,
             invitations' \subseteq invitations, UNCHANGED <<cancelled, usedIds, tangled>>
      PROVE  CopiesInv'
  <2>1. OthersWait(w) /\ (pc'[w] \in RowLabels => pc[w] \in RowLabels)
    BY <1>b, <1>5 DEF Goto, OthersWait
  <2> QED BY <1>a, <1>c, <1>d, <1>5, <2>1, SteadyExclusive, WorkerCopies
<1>6. ASSUME NEW w \in Workers, InviteLookup(w) PROVE CopiesInv'
  <2>1. UNCHANGED <<invitations, cancelled, usedIds, tangled>> /\ pc[w] = "lookup"
    BY <1>6 DEF InviteLookup, tables, histVars
  <2>2. CASE Finish(w)
    BY <1>c, <1>1, <2>1, <2>2
  <2>3. CASE \E i \in Invited(req[w].email) :
               Goto(w, "discard") /\ req' = [req EXCEPT ![w].row = i]
    BY <1>4, <2>1, <2>3
  <2>4. CASE Goto(w, "create") /\ req' = req
    BY <1>5, <2>1, <2>4 DEF RowLabels
  <2> QED BY <1>6, <2>2, <2>3, <2>4 DEF InviteLookup
<1>7. ASSUME NEW w \in Workers, InviteDiscard(w) PROVE CopiesInv'
  BY <1>5, <1>7 DEF InviteDiscard, WithoutRow, RowLabels, histVars
<1>8. ASSUME NEW w \in Workers, InviteCreate(w) PROVE CopiesInv'
  <2>1. CASE Finish(w) /\ UNCHANGED <<invitations, usedIds>>
    BY <1>c, <1>1, <1>8, <2>1 DEF InviteCreate
  <2>2. ASSUME NEW n \in InviteIds \ usedIds, Goto(w, "mail"),
               invitations' = invitations \cup {NewInvitation(w, n)},
               req' = [req EXCEPT ![w].row = NewInvitation(w, n)],
               usedIds' = usedIds \cup {n}
        PROVE  CopiesInv'
    <3>1. PICK i : i = NewInvitation(w, n)
      OBVIOUS
    <3>2. i.id = n /\ i.email = req[w].email
      BY <3>1 DEF NewInvitation
    <3>3. /\ OthersWait(w) /\ pc'[w] = "mail" /\ req'[w].row = i
          /\ req'[w].email = req[w].email
      BY <1>b, <2>2, <3>1 DEF Goto, OthersWait, Request
    <3>4. pc[w] = "create" /\ UNCHANGED <<cancelled, tangled>>
      BY <1>8 DEF InviteCreate
    <3>5. Exclusive'
      BY <1>a, <3>3, <3>4, SteadyExclusive
    <3>6. OwnRows'
      BY <3>2, <3>3 DEF CopiesInv, OwnRows, Holding, OthersWait
    <3>7. Copies' \subseteq Copies \cup {i}
      BY <2>2, <3>1, <3>3 DEF Copies, Holding, OthersWait
    <3>8. OneOrigin'
      BY <3>2, <3>7 DEF CopiesInv, OneOrigin, KnownIds, SameRow
    <3>9. KnownIds' /\ CancelledCopies'
      BY <2>2, <3>2, <3>4, <3>7 DEF CopiesInv, KnownIds, CancelledCopies
    <3> QED BY <3>5, <3>6, <3>8, <3>9 DEF CopiesInv
  <2> QED BY <1>8, <2>1, <2>2 DEF InviteCreate
<1>9. ASSUME NEW w \in Workers, InviteMail(w) \/ RemoveTell(w) PROVE CopiesInv'
  BY <1>5, <1>9 DEF InviteMail, RemoveTell, RowLabels, tables, histVars
<1>10. ASSUME NEW w \in Workers, InviteSave(w) PROVE CopiesInv'
  <2>1. pc[w] \in RowLabels /\ Finish(w) /\ UNCHANGED <<cancelled, usedIds, tangled>>
    BY <1>10 DEF InviteSave, RowLabels, histVars
  <2>2. SameRow(SentRow(req[w].row), req[w].row)
    BY <1>d, <2>1 DEF SentRow, SameRow, Invitation
  <2>3. \A i \in invitations' : \E j \in Copies : SameRow(i, j)
    BY <1>d, <1>10, <2>1, <2>2, SaveCopies DEF InviteSave
  <2> QED BY <1>1, <2>1, <2>3
<1>11. ASSUME NEW w \in Workers, SignUpAccept(w) PROVE CopiesInv'
  <2>1. pc[w] \in RowLabels /\ Finish(w) /\ UNCHANGED <<cancelled, usedIds, tangled>>
    BY <1>11 DEF SignUpAccept, RowLabels, histVars
  <2>2. SameRow(AcceptedRow(req[w].row), req[w].row)
    BY <1>d, <2>1 DEF AcceptedRow, SameRow, Invitation
  <2>3. \A i \in invitations' : \E j \in Copies : SameRow(i, j)
    BY <1>d, <1>11, <2>1, <2>2, SaveCopies DEF SignUpAccept
  <2> QED BY <1>1, <2>1, <2>3
<1>12. ASSUME NEW w \in Workers, CancelDelete(w) PROVE CopiesInv'
  <2>1. /\ pc[w] \in RowLabels /\ pc'[w] = "idle" /\ OthersWait(w)
        /\ UNCHANGED <<usedIds, tangled>> /\ cancelled' = cancelled \cup {req[w].row.id}
        /\ invitations' = {i \in invitations : i.id # req[w].row.id}
    BY <1>b, <1>12 DEF CancelDelete, WithoutRow, RowLabels, Finish, Goto, OthersWait
  <2>2. Exclusive'
    BY <1>a, <2>1, SteadyExclusive
  <2>3. OwnRows'
    BY <2>1 DEF CopiesInv, OwnRows, Holding, OthersWait, RowLabels
  <2>4. Copies' \subseteq Copies
    BY <2>1 DEF Copies, Holding, OthersWait, RowLabels
  <2>5. OneOrigin' /\ KnownIds'
    BY <1>d, <2>1, <2>4 DEF CopiesInv, OneOrigin, KnownIds
  <2>6. ASSUME NEW i \in Copies', i.id = req[w].row.id PROVE i.email \in tangled
    <3>1. PICK v \in Holding : v # w /\ i = req[v].row
      BY <2>1, <2>6 DEF Copies, Holding, OthersWait, RowLabels
    <3>2. i.email = req[w].row.email
      BY <1>d, <2>1, <2>4, <2>6 DEF CopiesInv, OneOrigin, SameRow
    <3>3. req[v].email = req[w].email /\ i.email = req[v].email
      BY <1>d, <2>1, <3>1, <3>2 DEF CopiesInv, OwnRows
    <3> QED BY <1>a, <2>1, <3>1, <3>3 DEF Exclusive, Holding, RowLabels
  <2>7. CancelledCopies'
    BY <2>1, <2>4, <2>6 DEF CopiesInv, CancelledCopies
  <2> QED BY <2>2, <2>3, <2>5, <2>7 DEF CopiesInv
<1>13. ASSUME NEW w \in Workers, RemoveErase(w) PROVE CopiesInv'
  BY <1>c, <1>1, <1>13 DEF RemoveErase, Delete
<1>14. ASSUME NEW w \in Workers, SignUpFind(w) PROVE CopiesInv'
  <2>1. UNCHANGED <<invitations, cancelled, usedIds, tangled>> /\ pc[w] = "find"
    BY <1>14 DEF SignUpFind, tables, histVars
  <2>2. CASE Finish(w)
    BY <1>c, <1>1, <2>1, <2>2
  <2>3. CASE \E i \in Invited(req[w].email) :
               Goto(w, "accept") /\ req' = [req EXCEPT ![w].row = i]
    BY <1>4, <2>1, <2>3
  <2> QED BY <1>14, <2>2, <2>3 DEF SignUpFind
<1>15. ASSUME NEW w \in Workers, Abort(w) PROVE CopiesInv'
  BY <1>c, <1>1, <1>15 DEF Abort, Dying, tables
<1>16. CASE Restart
  <2>1. /\ \A w \in Workers : pc'[w] = "idle"
        /\ UNCHANGED <<invitations, cancelled, usedIds>> /\ tangled \subseteq tangled'
    BY <1>16 DEF Restart, Dying, tables
  <2>2. Exclusive' /\ OwnRows' /\ Copies' = invitations
    BY <2>1 DEF Exclusive, OwnRows, Copies, Holding, RowLabels
  <2> QED BY <1>c, <2>1, <2>2, CopiesKept
<1>17. CASE OpenInvite \/ SiteWork \/ Start \/ UNCHANGED vars
  <2>1. /\ UNCHANGED <<pc, req, cancelled>> /\ invitations' \subseteq invitations
        /\ usedIds \subseteq usedIds' /\ tangled \subseteq tangled'
    BY <1>17 DEF OpenInvite, SiteWork, SiteEdit, SiteAdd, SiteDelete, Delete, Start, CreateAdmin,
       CreateAdminRole, CreateAdminSkips, CreateAdminFails, vars, tables, histVars
  <2>2. Exclusive'
    BY <1>a, <2>1 DEF Exclusive
  <2>3. OwnRows' /\ Copies' \subseteq Copies
    BY <2>1 DEF CopiesInv, OwnRows, Copies, Holding
  <2> QED BY <2>1, <2>2, <2>3, CopiesKept DEF SameRow
<1> QED BY <1>2, <1>3, <1>6, <1>7, <1>8, <1>9, <1>10, <1>11, <1>12, <1>13, <1>14, <1>15, <1>16,
           <1>17 DEF Next, Work

\* A cancelled invitation does not come back, unless two requests about its
\* address overlapped (views.py:381).
THEOREM CancelledInvitations == Spec => []CancelledStaysGone
<1>1. CopiesInv => CancelledStaysGone
  BY DEF CopiesInv, CancelledCopies, Copies, CancelledStaysGone
<1> QED BY <1>1, InitType, StepType, InitCopies, StepCopies, PTL DEF Spec

-----------------------------------------------------------------------------
(***************************************************************************)
(* The table of invitations has one row per address and per id, and every  *)
(* row's inviter exists: a save that the database refuses finds its row    *)
(* gone from the table.                                                    *)
(***************************************************************************)
RowsInv ==
  /\ \A i, j \in invitations : i.email = j.email \/ i.id = j.id => i = j
  /\ \A i \in invitations : UserExists(i.by)

LEMMA InitRows == Init => RowsInv
  BY DEF Init, RowsInv

\* Rows go; users stay, or go with the rows they sent.
LEMMA FewerRows ==
  ASSUME RowsInv, invitations' \subseteq invitations,
         \A i \in invitations', u \in users : u.id = i.by => \E v \in users' : v.id = u.id
  PROVE  RowsInv'
  BY DEF RowsInv, UserExists

LEMMA SaveRows ==
  ASSUME RowsInv, NEW row, Save(row), users' = users
  PROVE  RowsInv'
<1>1. CASE invitations' = invitations
  BY <1>1 DEF RowsInv, UserExists
<1>2. CASE /\ UserExists(row.by) /\ \A i \in invitations : i.email = row.email => i.id = row.id
           /\ invitations' = {i \in invitations : i.id # row.id} \cup {row}
  BY <1>2 DEF RowsInv, UserExists
<1> QED BY <1>1, <1>2 DEF Save

\* What the database refuses to save has no row any more.
LEMMA Refused ==
  ASSUME RowsInv, CopiesInv, NEW w \in Holding, NEW row, SameRow(row, req[w].row),
         NEW i \in invitations, i.id = row.id, Save(row)
  PROVE  invitations' = (invitations \ {i}) \cup {row}
<1>1. SameRow(i, row)
  BY DEF CopiesInv, OneOrigin, Copies, SameRow
<1>2. UserExists(row.by) /\ \A j \in invitations : j.email = row.email => j.id = row.id
  BY <1>1 DEF RowsInv, SameRow
<1>3. \A j \in invitations : j.id = row.id => j = i
  BY DEF RowsInv
<1> QED BY <1>2, <1>3 DEF Save

\* The rows of the table after a step, and the users' ids.
LEMMA StepRows == TypeInv /\ CopiesInv /\ RowsInv /\ [Next]_vars => RowsInv'
<1> SUFFICES ASSUME TypeInv, CopiesInv, RowsInv, [Next]_vars PROVE RowsInv'
  OBVIOUS
<1>a. users \subseteq User /\ invitations \subseteq Invitation
  BY DEF TypeInv, TablesOK
<1>1. ASSUME users' = users, invitations' \subseteq invitations PROVE RowsInv'
  BY <1>1, FewerRows
<1>2. ASSUME users \subseteq users', invitations' = invitations PROVE RowsInv'
  BY <1>2, FewerRows
<1>3. ASSUME NEW id, Delete(id) PROVE RowsInv'
  BY <1>3, FewerRows DEF Delete
<1>4. ASSUME NEW w \in Workers, InviteCreate(w) PROVE RowsInv'
  <2>1. users' = users
    BY <1>4 DEF InviteCreate
  <2>2. CASE invitations' = invitations
    BY <1>1, <2>1, <2>2
  <2>3. ASSUME Invited(req[w].email) = {}, UserExists(req[w].me),
               NEW n \in InviteIds \ usedIds,
               invitations' = invitations \cup {NewInvitation(w, n)}
        PROVE  RowsInv'
    <3>1. PICK i : i = NewInvitation(w, n)
      OBVIOUS
    <3>2. /\ i.id = n /\ i.by = req[w].me
          /\ \A j \in invitations : j.email # i.email /\ j.id # n
      BY <2>3, <3>1 DEF NewInvitation, Invited, CopiesInv, KnownIds, Copies
    <3>3. invitations' = invitations \cup {i}
      BY <2>3, <3>1
    <3> QED BY <2>1, <2>3, <3>2, <3>3 DEF RowsInv, UserExists
  <2> QED BY <1>4, <2>2, <2>3 DEF InviteCreate
<1>5. ASSUME NEW w \in Workers, InviteSave(w) \/ SignUpAccept(w) PROVE RowsInv'
  BY <1>5, SaveRows DEF InviteSave, SignUpAccept
<1>6. ASSUME NEW w \in Workers,
             \/ InviteBegin(w) \/ InviteLookup(w) \/ InviteDiscard(w) \/ InviteMail(w)
             \/ CancelLoad(w) \/ CancelDelete(w) \/ RemoveLoad(w) \/ RemoveTell(w)
             \/ SignUpFind(w) \/ Abort(w)
      PROVE  RowsInv'
  BY <1>1, <1>6 DEF InviteBegin, InviteLookup, InviteDiscard, WithoutRow, InviteMail, CancelLoad,
     CancelDelete, RemoveLoad, RemoveTell, SignUpFind, Abort, tables
<1>7. ASSUME NEW w \in Workers, RemoveErase(w) PROVE RowsInv'
  BY <1>3, <1>7 DEF RemoveErase
<1>8. ASSUME NEW w \in Workers, SignUp(w) PROVE RowsInv'
  BY <1>2, <1>8 DEF SignUp
<1>9. CASE SiteAdd \/ CreateAdmin
  BY <1>2, <1>9 DEF SiteAdd, CreateAdmin
<1>10. CASE SiteEdit
  <2>1. PICK u \in users, e \in Emails, a \in BOOLEAN, s \in BOOLEAN :
          users' = (users \ {u}) \cup {[u EXCEPT !.email = e, !.admin = a, !.super = s]}
    BY <1>10 DEF SiteEdit
  <2>2. [u EXCEPT !.email = e, !.admin = a, !.super = s].id = u.id
    BY <1>a, <2>1 DEF User
  <2>3. \A x \in users : \E v \in users' : v.id = x.id
    BY <2>1, <2>2
  <2> QED BY <1>10, <2>3, FewerRows DEF SiteEdit
<1>11. CASE CreateAdminRole
  <2>1. ASSUME NEW u \in users PROVE \E v \in users' : v.id = u.id
    <3>1. [u EXCEPT !.admin = @ \/ u.email = Root].id = u.id
      BY <1>a DEF User
    <3> QED BY <1>11, <3>1 DEF CreateAdminRole
  <2> QED BY <1>11, <2>1, FewerRows DEF CreateAdminRole
<1>12. CASE SiteDelete
  BY <1>3, <1>12 DEF SiteDelete
<1>13. CASE OpenInvite \/ CreateAdminSkips \/ CreateAdminFails \/ Restart \/ UNCHANGED vars
  BY <1>1, <1>13 DEF OpenInvite, CreateAdminSkips, CreateAdminFails, Restart, vars, tables
<1> QED BY <1>4, <1>5, <1>6, <1>7, <1>8, <1>9, <1>10, <1>11, <1>12, <1>13
        DEF Next, Work, SiteWork, Start

-----------------------------------------------------------------------------
(***************************************************************************)
(* Registered addresses. Who is inviting checked that the address is new;  *)
(* who signs up and has found the invitation has found the only one.       *)
(***************************************************************************)
Inviting == {"lookup", "discard", "create", "mail", "sent"}

NewAddress ==
  \A w \in Workers :
    pc[w] \in Inviting /\ Registered(req[w].email) => req[w].email \in tangled

HoldsLast ==
  \A w \in Workers :
    pc[w] = "accept" /\ req[w].email \notin tangled => Invited(req[w].email) \subseteq {req[w].row}

PendingInv == NewAddress /\ HoldsLast /\ PendingNotRegistered

LEMMA InitPending == Init => PendingInv
  BY DEF Init, PendingInv, NewAddress, HoldsLast, PendingNotRegistered, Inviting

\* A step of a request that does not sign up registers nobody; a row it adds is
\* of the address it invites.
LEMMA PendingKept ==
  ASSUME PendingInv, Exclusive, NEW w \in Workers, OthersWait(w), tangled \subseteq tangled',
         users' \subseteq users, pc[w] \notin {"find", "accept"}, pc'[w] # "accept",
         pc'[w] \in Inviting => \/ pc[w] \in Inviting /\ req'[w].email = req[w].email
                                \/ ~Registered(req'[w].email),
         \A i \in invitations' : i \in invitations \/ (pc[w] \in Inviting /\ i.email = req[w].email)
  PROVE  PendingInv'
<1>0. \A e : Registered(e)' => Registered(e)
  BY DEF Registered
<1>1. NewAddress'
  BY <1>0 DEF PendingInv, NewAddress, OthersWait
<1>2. HoldsLast'
  <2> SUFFICES ASSUME NEW v \in Workers, pc'[v] = "accept", req'[v].email \notin tangled',
                      NEW i \in invitations', i.email = req'[v].email
               PROVE  i = req'[v].row
    BY DEF HoldsLast, Invited
  <2>1. v # w /\ pc'[v] = pc[v] /\ req'[v] = req[v]
    BY DEF OthersWait
  <2>2. i \in invitations
    BY <2>1 DEF Exclusive, Inviting
  <2> QED BY <2>1, <2>2 DEF PendingInv, HoldsLast, Invited
<1>3. PendingNotRegistered'
  <2> SUFFICES ASSUME NEW i \in invitations', ~i.accepted, Registered(i.email)',
                      i.email \notin tangled'
               PROVE  \E v \in Workers : pc'[v] \in {"find", "accept"} /\ req'[v].email = i.email
    BY DEF PendingNotRegistered
  <2>1. i \in invitations
    BY <1>0 DEF PendingInv, NewAddress
  <2>2. PICK v \in Workers : pc[v] \in {"find", "accept"} /\ req[v].email = i.email
    BY <1>0, <2>1 DEF PendingInv, PendingNotRegistered
  <2> QED BY <2>2 DEF OthersWait
<1> QED BY <1>1, <1>2, <1>3 DEF PendingInv

\* Outside the requests: whoever is registered there, without an invitation,
\* is recorded.
LEMMA PendingAlone ==
  ASSUME PendingInv, UNCHANGED <<pc, req>>, invitations' \subseteq invitations,
         tangled \subseteq tangled', \A u \in users' : Registered(u.email) \/ u.email \in tangled'
  PROVE  PendingInv'
<1>1. \A e : Registered(e)' => Registered(e) \/ e \in tangled'
  BY DEF Registered
<1> QED BY <1>1 DEF PendingInv, NewAddress, HoldsLast, Invited, PendingNotRegistered

LEMMA StepPending ==
  TypeInv /\ CopiesInv /\ RowsInv /\ PendingInv /\ [Next]_vars => PendingInv'
<1> SUFFICES ASSUME TypeInv, CopiesInv, RowsInv, PendingInv, [Next]_vars PROVE PendingInv'
  OBVIOUS
<1>a. RequestsOK /\ Exclusive /\ users \subseteq User /\ invitations \subseteq Invitation
  BY DEF TypeInv, TablesOK, CopiesInv
<1>b. /\ pc \in [Workers -> Labels] /\ req \in [Workers -> Request]
      /\ \A v \in Workers : req[v] \in Request /\ Fits(pc[v], req[v])
  BY <1>a DEF RequestsOK
<1>c. ASSUME NEW w \in Workers, pc[w] \in RowLabels
      PROVE  /\ w \in Holding /\ req[w].row \in Invitation
             /\ req[w].row.email = req[w].email
  BY <1>b, <1>c DEF Holding, CopiesInv, OwnRows, Fits, RowLabels
<1>1. ASSUME NEW w \in Workers, InviteBegin(w) PROVE PendingInv'
  <2>1. PICK u \in Admins, e \in Emails :
          ~Registered(e) /\ Begin(w, "lookup", [NoReq EXCEPT !.me = u.id, !.email = e])
    BY <1>1 DEF InviteBegin
  <2> DEFINE r == [NoReq EXCEPT !.me = u.id, !.email = e]
  <2>2. r.email = e
    BY DEF NoReq
  <2> HIDE DEF r
  <2>3. OthersWait(w) /\ tangled \subseteq tangled' /\ pc'[w] = "lookup" /\ req'[w] = r
        /\ pc[w] = "idle"
    BY <1>a, <2>1, BeginExclusive DEF r
  <2>4. UNCHANGED tables
    BY <1>1 DEF InviteBegin
  <2>5. /\ users' \subseteq users /\ pc[w] \notin {"find", "accept"} /\ pc'[w] # "accept"
        /\ \A i \in invitations' : i \in invitations \/ (pc[w] \in Inviting /\ i.email = req[w].email)
    BY <2>3, <2>4 DEF tables
  <2>6. ~Registered(req'[w].email)
    BY <2>1, <2>2, <2>3
  <2> QED BY <1>a, <2>3, <2>5, <2>6, PendingKept
<1>2. ASSUME NEW w \in Workers, CancelLoad(w) \/ RemoveLoad(w) PROVE PendingInv'
  <2>1. \E l \in {"cancel", "tell"} : \E r : Begin(w, l, r)
    BY <1>2 DEF CancelLoad, RemoveLoad
  <2>2. /\ OthersWait(w) /\ tangled \subseteq tangled' /\ pc[w] = "idle"
        /\ pc'[w] \in {"cancel", "tell"}
    BY <1>a, <2>1, BeginExclusive
  <2>3. UNCHANGED tables
    BY <1>2 DEF CancelLoad, RemoveLoad
  <2>4. /\ users' \subseteq users /\ pc[w] \notin {"find", "accept"} /\ pc'[w] # "accept"
        /\ \A i \in invitations' : i \in invitations \/ (pc[w] \in Inviting /\ i.email = req[w].email)
        /\ pc'[w] \notin Inviting
    BY <2>2, <2>3 DEF tables, Inviting
  <2> QED BY <1>a, <2>2, <2>4, PendingKept
<1>3. ASSUME NEW w \in Workers,
             \/ InviteLookup(w) \/ InviteDiscard(w) \/ InviteMail(w)
             \/ CancelDelete(w) \/ RemoveTell(w) \/ RemoveErase(w)
      PROVE  PendingInv'
  <2>1. /\ pc[w] \notin {"find", "accept"} /\ tangled' = tangled
        /\ users' \subseteq users /\ invitations' \subseteq invitations
    BY <1>3 DEF InviteLookup, InviteDiscard, InviteMail, CancelDelete, WithoutRow, RemoveTell,
       RemoveErase, Delete, tables, histVars
  <2>2. /\ OthersWait(w) /\ pc'[w] # "accept"
        /\ pc'[w] \in Inviting => pc[w] \in Inviting
    BY <1>b, <1>3 DEF InviteLookup, InviteDiscard, InviteMail, CancelDelete, RemoveTell,
       RemoveErase, Finish, Goto, OthersWait, Inviting
  <2>3. pc'[w] \in Inviting => req'[w].email = req[w].email
    BY <1>b, <1>3 DEF InviteLookup, InviteDiscard, InviteMail, CancelDelete, RemoveTell,
       RemoveErase, Finish, Goto, Inviting, Request
  <2>4. \A i \in invitations' : i \in invitations \/ (pc[w] \in Inviting /\ i.email = req[w].email)
    BY <2>1
  <2>5. tangled \subseteq tangled'
    BY <2>1
  <2> QED BY <1>a, <2>1, <2>2, <2>3, <2>4, <2>5, PendingKept
<1>4. ASSUME NEW w \in Workers, InviteCreate(w) PROVE PendingInv'
  <2>1. /\ pc[w] = "create" /\ tangled' = tangled /\ users' = users
        /\ OthersWait(w) /\ pc'[w] \in {"idle", "mail"}
    BY <1>b, <1>4 DEF InviteCreate, Finish, Goto, OthersWait
  <2>2. pc'[w] = "mail" => req'[w].email = req[w].email
    BY <1>b, <1>4 DEF InviteCreate, Finish, Goto, Request
  <2>3. \A i \in invitations' : i \in invitations \/ i.email = req[w].email
    BY <1>4 DEF InviteCreate, NewInvitation
  <2>4. /\ users' \subseteq users /\ tangled \subseteq tangled'
        /\ pc[w] \in Inviting /\ pc[w] \notin {"find", "accept"} /\ pc'[w] # "accept"
    BY <2>1 DEF Inviting
  <2>5. \A i \in invitations' : i \in invitations \/ (pc[w] \in Inviting /\ i.email = req[w].email)
    BY <2>3, <2>4
  <2>6. pc'[w] \in Inviting => pc[w] \in Inviting /\ req'[w].email = req[w].email
    BY <2>1, <2>2, <2>4 DEF Inviting
  <2> QED BY <1>a, <2>1, <2>4, <2>5, <2>6, PendingKept
<1>5. ASSUME NEW w \in Workers, InviteSave(w) PROVE PendingInv'
  <2>1. /\ pc[w] = "sent" /\ tangled' = tangled /\ users' = users
        /\ OthersWait(w) /\ pc'[w] = "idle" /\ Save(SentRow(req[w].row))
    BY <1>b, <1>5 DEF InviteSave, Finish, Goto, OthersWait, histVars
  <2>2. SentRow(req[w].row).email = req[w].email
    BY <1>c, <2>1 DEF SentRow, Invitation, RowLabels
  <2>3. \A i \in invitations' : i \in invitations \/ i.email = req[w].email
    BY <2>1, <2>2 DEF Save
  <2>4. /\ users' \subseteq users /\ tangled \subseteq tangled' /\ pc[w] \in Inviting
        /\ pc[w] \notin {"find", "accept"} /\ pc'[w] # "accept" /\ pc'[w] \notin Inviting
    BY <2>1 DEF Inviting
  <2>5. \A i \in invitations' : i \in invitations \/ (pc[w] \in Inviting /\ i.email = req[w].email)
    BY <2>3, <2>4
  <2> QED BY <1>a, <2>1, <2>4, <2>5, PendingKept
<1>6. ASSUME NEW w \in Workers, SignUp(w) PROVE PendingInv'
  <2>1. PICK e \in opened, n \in UserIds \ usedIds :
          /\ Begin(w, "find", [NoReq EXCEPT !.email = e])
          /\ users' = users \cup {[id |-> n, email |-> e, super |-> FALSE, admin |-> FALSE]}
    BY <1>6 DEF SignUp
  <2> DEFINE r == [NoReq EXCEPT !.email = e]
  <2>2. r.email = e
    BY DEF NoReq
  <2> HIDE DEF r
  <2>3. /\ OthersWait(w) /\ tangled \subseteq tangled' /\ pc'[w] = "find" /\ req'[w] = r
        /\ Exclusive' /\ invitations' = invitations /\ pc[w] = "idle"
    BY <1>a, <1>6, <2>1, BeginExclusive DEF r, SignUp
  <2>4. \A x : Registered(x)' => Registered(x) \/ x = e
    BY <2>1 DEF Registered
  <2>5. NewAddress'
    BY <2>2, <2>3, <2>4 DEF PendingInv, NewAddress, OthersWait, Exclusive, Inviting
  <2>6. HoldsLast'
    BY <2>3 DEF PendingInv, HoldsLast, Invited, OthersWait
  <2>7. PendingNotRegistered'
    BY <2>2, <2>3, <2>4 DEF PendingInv, PendingNotRegistered, OthersWait
  <2> QED BY <2>5, <2>6, <2>7 DEF PendingInv
<1>7. ASSUME NEW w \in Workers, SignUpFind(w) PROVE PendingInv'
  <2>1. /\ pc[w] = "find" /\ UNCHANGED <<users, invitations, tangled>> /\ OthersWait(w)
    BY <1>b, <1>7 DEF SignUpFind, Finish, Goto, OthersWait, tables, histVars
  <2>2. \/ pc'[w] = "idle" /\ Invited(req[w].email) = {}
        \/ pc'[w] = "accept" /\ req'[w].row \in Invited(req[w].email)
           /\ req'[w].email = req[w].email
    BY <1>b, <1>7 DEF SignUpFind, Finish, Goto, Request
  <2>3. NewAddress'
    BY <2>1, <2>2 DEF PendingInv, NewAddress, Registered, OthersWait, Inviting
  <2>4. HoldsLast'
    BY <2>1, <2>2 DEF PendingInv, HoldsLast, Invited, OthersWait, RowsInv
  <2>5. PendingNotRegistered'
    BY <2>1, <2>2 DEF PendingInv, PendingNotRegistered, Registered, Invited, OthersWait
  <2> QED BY <2>3, <2>4, <2>5 DEF PendingInv
<1>8. ASSUME NEW w \in Workers, SignUpAccept(w) PROVE PendingInv'
  <2> DEFINE row == AcceptedRow(req[w].row)
  <2>1. /\ pc[w] = "accept" /\ UNCHANGED <<users, tangled>> /\ OthersWait(w)
        /\ pc'[w] = "idle" /\ Save(row)
    BY <1>b, <1>8 DEF SignUpAccept, Finish, Goto, OthersWait, histVars
  <2>2. /\ SameRow(row, req[w].row) /\ row.accepted /\ row.email = req[w].email
        /\ row.id = req[w].row.id /\ w \in Holding
    BY <1>c, <2>1 DEF AcceptedRow, SameRow, Invitation, RowLabels
  <2> HIDE DEF row
  <2>3. invitations' \subseteq invitations \cup {row}
    BY <2>1 DEF Save
  <2>4. NewAddress'
    BY <2>1 DEF PendingInv, NewAddress, Registered, OthersWait, Inviting
  <2>5. HoldsLast'
    BY <1>a, <2>1, <2>2, <2>3 DEF PendingInv, HoldsLast, Invited, OthersWait, Exclusive
  <2>6. ASSUME NEW i \in invitations', ~i.accepted, Registered(i.email), i.email \notin tangled
        PROVE  \E v \in Workers : pc'[v] \in {"find", "accept"} /\ req'[v].email = i.email
    <3>1. i \in invitations
      BY <2>2, <2>3, <2>6
    <3>2. CASE i.email = req[w].email
      <4>1. i = req[w].row
        BY <2>1, <2>6, <3>1, <3>2 DEF PendingInv, HoldsLast, Invited
      <4>2. invitations' = (invitations \ {i}) \cup {row}
        BY <2>1, <2>2, <3>1, <4>1, Refused
      <4> QED BY <2>2, <2>6, <4>2
    <3>3. CASE i.email # req[w].email
      BY <2>1, <2>6, <3>1, <3>3 DEF PendingInv, PendingNotRegistered, OthersWait
    <3> QED BY <3>2, <3>3
  <2>7. PendingNotRegistered'
    BY <2>1, <2>6 DEF PendingNotRegistered, Registered
  <2> QED BY <2>4, <2>5, <2>7 DEF PendingInv
<1>9. ASSUME NEW w \in Workers, Abort(w) PROVE PendingInv'
  <2>1. /\ UNCHANGED <<users, invitations>> /\ OthersWait(w) /\ pc'[w] = "idle"
        /\ tangled \subseteq tangled'
        /\ pc[w] \in {"find", "accept"} => req[w].email \in tangled'
    BY <1>b, <1>9 DEF Abort, Dying, Finish, Goto, OthersWait, tables
  <2>2. NewAddress' /\ HoldsLast'
    BY <2>1 DEF PendingInv, NewAddress, HoldsLast, Registered, Invited, OthersWait, Inviting
  <2>3. PendingNotRegistered'
    BY <2>1 DEF PendingInv, PendingNotRegistered, Registered, OthersWait
  <2> QED BY <2>2, <2>3 DEF PendingInv
<1>10. CASE Restart
  <2>1. /\ UNCHANGED <<users, invitations>> /\ \A w \in Workers : pc'[w] = "idle"
        /\ tangled \subseteq tangled'
        /\ \A w \in Workers : pc[w] \in {"find", "accept"} => req[w].email \in tangled'
    BY <1>10 DEF Restart, Dying, tables
  <2> QED BY <2>1 DEF PendingInv, NewAddress, HoldsLast, PendingNotRegistered, Registered, Inviting
<1>11. CASE SiteAdd \/ CreateAdmin
  <2>1. \A u \in users' : u \in users \/ u.email \in tangled'
    BY <1>11 DEF SiteAdd, CreateAdmin, Superuser
  <2> QED BY <1>11, <2>1, PendingAlone DEF SiteAdd, CreateAdmin, Registered
<1>12. CASE SiteEdit
  <2>1. PICK u \in users, e \in Emails, a \in BOOLEAN, s \in BOOLEAN :
          /\ users' = (users \ {u}) \cup {[u EXCEPT !.email = e, !.admin = a, !.super = s]}
          /\ tangled' = IF e = u.email THEN tangled ELSE tangled \cup {e}
    BY <1>12 DEF SiteEdit
  <2>2. [u EXCEPT !.email = e, !.admin = a, !.super = s].email = e
    BY <1>a, <2>1 DEF User
  <2>3. \A v \in users' : Registered(v.email) \/ v.email \in tangled'
    BY <2>1, <2>2 DEF Registered
  <2>4. tangled \subseteq tangled'
    BY <2>1
  <2> QED BY <1>12, <2>3, <2>4, PendingAlone DEF SiteEdit
<1>13. CASE CreateAdminRole
  <2>1. ASSUME NEW u \in users PROVE Registered([u EXCEPT !.admin = @ \/ u.email = Root].email)
    BY <1>a DEF User, Registered
  <2>2. \A v \in users' : Registered(v.email)
    BY <1>13, <2>1 DEF CreateAdminRole
  <2> QED BY <1>13, <2>2, PendingAlone DEF CreateAdminRole
<1>14. CASE OpenInvite \/ SiteDelete \/ CreateAdminSkips \/ CreateAdminFails \/ UNCHANGED vars
  <2>1. users' \subseteq users
    BY <1>14 DEF OpenInvite, SiteDelete, Delete, CreateAdminSkips, CreateAdminFails, vars, tables
  <2> QED BY <1>14, <2>1, PendingAlone DEF OpenInvite, SiteDelete, Delete, CreateAdminSkips,
          CreateAdminFails, vars, tables, histVars, Registered
<1> QED BY <1>1, <1>2, <1>3, <1>4, <1>5, <1>6, <1>7, <1>8, <1>9, <1>10, <1>11, <1>12, <1>13, <1>14
        DEF Next, Work, SiteWork, Start

\* A registered user is not listed as invited, but for a sign-up under way, and
\* for addresses of which the overlap, the death half-way or the admin site's
\* part is recorded (views.py:346, 354).
THEOREM RegisteredNotPending == Spec => []PendingNotRegistered
<1>1. PendingInv => PendingNotRegistered
  BY DEF PendingInv
<1> QED BY <1>1, InitType, StepType, InitCopies, StepCopies, InitRows, StepRows,
           InitPending, StepPending, PTL DEF Spec

-----------------------------------------------------------------------------
(***************************************************************************)
(* Invitations without a time of sending. Who signs up may hold a copy     *)
(* from before the time was saved, but then the inviter's request is under *)
(* way for the same address, or died.                                      *)
(***************************************************************************)
UnsentCopies ==
  \A w \in Workers : pc[w] = "accept" /\ ~req[w].row.sent =>
    req[w].row.id \in died \/ req[w].email \in tangled

UnsentInv == UnsentOnlyByFailure /\ UnsentCopies

LEMMA InitUnsent == Init => UnsentInv
  BY DEF Init, UnsentInv, UnsentOnlyByFailure, UnsentCopies

\* A step that adds no row and ends no request that is about to send one.
LEMMA UnsentKept ==
  ASSUME UnsentInv, NEW w \in Workers, OthersWait(w), invitations' \subseteq invitations,
         died \subseteq died', tangled \subseteq tangled', pc'[w] # "accept",
         pc[w] \in {"mail", "sent"} =>
           \/ pc'[w] = "sent" /\ req'[w] = req[w]
           \/ req[w].row.id \in died'
           \/ \A i \in invitations' : i.id # req[w].row.id
  PROVE  UnsentInv'
<1>1. UnsentCopies'
  BY DEF UnsentInv, UnsentCopies, OthersWait
<1>2. ASSUME NEW i \in invitations', ~i.sent
      PROVE  \/ i.id \in died' \/ i.email \in tangled'
             \/ \E v \in Workers : pc'[v] \in {"mail", "sent"} /\ req'[v].row.id = i.id
  <2>1. CASE \E v \in Workers : pc[v] \in {"mail", "sent"} /\ req[v].row.id = i.id
    <3>1. PICK v \in Workers : pc[v] \in {"mail", "sent"} /\ req[v].row.id = i.id
      BY <2>1
    <3>2. CASE v = w
      BY <3>1, <3>2
    <3>3. CASE v # w
      BY <3>1, <3>3 DEF OthersWait
    <3> QED BY <3>2, <3>3
  <2> QED BY <1>2, <2>1 DEF UnsentInv, UnsentOnlyByFailure
<1> QED BY <1>1, <1>2 DEF UnsentInv, UnsentOnlyByFailure

LEMMA StepUnsent ==
  TypeInv /\ CopiesInv /\ RowsInv /\ UnsentInv /\ [Next]_vars => UnsentInv'
<1> SUFFICES ASSUME TypeInv, CopiesInv, RowsInv, UnsentInv, [Next]_vars PROVE UnsentInv'
  OBVIOUS
<1>a. RequestsOK /\ Exclusive /\ invitations \subseteq Invitation
  BY DEF TypeInv, TablesOK, CopiesInv
<1>b. /\ pc \in [Workers -> Labels] /\ req \in [Workers -> Request]
      /\ \A v \in Workers : req[v] \in Request /\ Fits(pc[v], req[v])
  BY <1>a DEF RequestsOK
<1>c. ASSUME NEW w \in Workers, pc[w] \in RowLabels
      PROVE  /\ w \in Holding /\ req[w].row \in Invitation
             /\ req[w].row.email = req[w].email
  BY <1>b, <1>c DEF Holding, CopiesInv, OwnRows, Fits, RowLabels
<1>1. ASSUME NEW w \in Workers,
             InviteBegin(w) \/ CancelLoad(w) \/ RemoveLoad(w) \/ SignUp(w)
      PROVE  UnsentInv'
  <2>1. \E l \in {"lookup", "cancel", "tell", "find"} : \E r : Begin(w, l, r)
    BY <1>1 DEF InviteBegin, CancelLoad, RemoveLoad, SignUp
  <2>2. /\ OthersWait(w) /\ tangled \subseteq tangled' /\ pc[w] = "idle"
        /\ pc'[w] \in {"lookup", "cancel", "tell", "find"}
    BY <1>a, <2>1, BeginExclusive
  <2>3. invitations' = invitations /\ died' = died
    BY <1>1 DEF InviteBegin, CancelLoad, RemoveLoad, SignUp, tables
  <2> QED BY <2>2, <2>3, UnsentKept
<1>2. ASSUME NEW w \in Workers,
             \/ InviteLookup(w) \/ InviteDiscard(w) \/ InviteMail(w)
             \/ CancelDelete(w) \/ RemoveTell(w) \/ RemoveErase(w) \/ Abort(w)
      PROVE  UnsentInv'
  <2>1. /\ tangled \subseteq tangled' /\ died \subseteq died' /\ invitations' \subseteq invitations
    BY <1>2 DEF InviteLookup, InviteDiscard, InviteMail, CancelDelete, WithoutRow, RemoveTell,
       RemoveErase, Delete, Abort, Dying, tables, histVars
  <2>2. OthersWait(w) /\ pc'[w] # "accept"
    BY <1>b, <1>2 DEF InviteLookup, InviteDiscard, InviteMail, CancelDelete, RemoveTell,
       RemoveErase, Abort, Finish, Goto, OthersWait
  <2>3. pc[w] \in {"mail", "sent"} => \/ pc'[w] = "sent" /\ req'[w] = req[w]
                                      \/ req[w].row.id \in died'
    BY <1>b, <1>2 DEF InviteLookup, InviteDiscard, InviteMail, CancelDelete, RemoveTell,
       RemoveErase, Abort, Dying, Goto
  <2> QED BY <2>1, <2>2, <2>3, UnsentKept
<1>3. ASSUME NEW w \in Workers, InviteCreate(w) PROVE UnsentInv'
  <2>1. pc[w] = "create" /\ UNCHANGED <<tangled, died>> /\ OthersWait(w)
    BY <1>b, <1>3 DEF InviteCreate, Finish, Goto, OthersWait
  <2>2. CASE Finish(w) /\ invitations' = invitations
    BY <1>b, <2>1, <2>2, UnsentKept DEF Finish, Goto
  <2>3. ASSUME NEW n, Goto(w, "mail"), invitations' = invitations \cup {NewInvitation(w, n)},
               req' = [req EXCEPT ![w].row = NewInvitation(w, n)]
        PROVE  UnsentInv'
    <3>1. pc'[w] = "mail" /\ req'[w].row = NewInvitation(w, n)
      BY <1>b, <2>3 DEF Goto, Request
    <3>2. UnsentCopies'
      BY <2>1, <3>1 DEF UnsentInv, UnsentCopies, OthersWait
    <3>3. UnsentOnlyByFailure'
      BY <2>1, <2>3, <3>1 DEF UnsentInv, UnsentOnlyByFailure, OthersWait
    <3> QED BY <3>2, <3>3 DEF UnsentInv
  <2> QED BY <1>3, <2>2, <2>3 DEF InviteCreate
<1>4. ASSUME NEW w \in Workers, InviteSave(w) PROVE UnsentInv'
  <2> DEFINE row == SentRow(req[w].row)
  <2>1. /\ pc[w] = "sent" /\ UNCHANGED <<tangled, died>> /\ OthersWait(w)
        /\ pc'[w] = "idle" /\ Save(row)
    BY <1>b, <1>4 DEF InviteSave, Finish, Goto, OthersWait, histVars
  <2>2. SameRow(row, req[w].row) /\ row.sent /\ row.id = req[w].row.id /\ w \in Holding
    BY <1>c, <2>1 DEF SentRow, SameRow, Invitation, RowLabels
  <2> HIDE DEF row
  <2>3. ASSUME NEW i \in invitations', ~i.sent PROVE i \in invitations /\ i.id # req[w].row.id
    <3>1. i \in invitations
      BY <2>1, <2>2, <2>3 DEF Save
    <3>2. CASE i.id = row.id
      <4>1. invitations' = (invitations \ {i}) \cup {row}
        BY <2>1, <2>2, <3>1, <3>2, Refused
      <4> QED BY <2>2, <2>3, <4>1
    <3> QED BY <2>2, <3>1, <3>2
  <2>4. UnsentCopies'
    BY <2>1 DEF UnsentInv, UnsentCopies, OthersWait
  <2>5. UnsentOnlyByFailure'
    BY <2>1, <2>3 DEF UnsentInv, UnsentOnlyByFailure, OthersWait
  <2> QED BY <2>4, <2>5 DEF UnsentInv
<1>5. ASSUME NEW w \in Workers, SignUpFind(w) PROVE UnsentInv'
  <2>1. /\ pc[w] = "find" /\ UNCHANGED <<invitations, tangled, died>> /\ OthersWait(w)
    BY <1>b, <1>5 DEF SignUpFind, Finish, Goto, OthersWait, tables, histVars
  <2>2. \/ pc'[w] = "idle"
        \/ pc'[w] = "accept" /\ req'[w].row \in Invited(req[w].email)
           /\ req'[w].email = req[w].email
    BY <1>b, <1>5 DEF SignUpFind, Finish, Goto, Request
  <2>3. ASSUME NEW i \in Invited(req[w].email), ~i.sent
        PROVE  i.id \in died \/ req[w].email \in tangled
    <3>1. i \in invitations /\ i.email = req[w].email
      BY DEF Invited
    <3>2. CASE \E v \in Workers : pc[v] \in {"mail", "sent"} /\ req[v].row.id = i.id
      <4>1. PICK v \in Workers : pc[v] \in {"mail", "sent"} /\ req[v].row.id = i.id
        BY <3>2
      <4>2. v \in Holding /\ req[v].row.email = req[v].email
        BY <1>c, <4>1 DEF RowLabels
      <4>3. req[v].row.email = i.email
        BY <3>1, <4>1, <4>2 DEF CopiesInv, OneOrigin, Copies, SameRow
      <4> QED BY <1>a, <2>1, <3>1, <4>1, <4>2, <4>3 DEF Exclusive
    <3> QED BY <2>3, <3>1, <3>2 DEF UnsentInv, UnsentOnlyByFailure
  <2>4. UnsentCopies'
    BY <2>1, <2>2, <2>3 DEF UnsentInv, UnsentCopies, OthersWait
  <2>5. UnsentOnlyByFailure'
    BY <2>1 DEF UnsentInv, UnsentOnlyByFailure, OthersWait
  <2> QED BY <2>4, <2>5 DEF UnsentInv
<1>6. ASSUME NEW w \in Workers, SignUpAccept(w) PROVE UnsentInv'
  <2> DEFINE row == AcceptedRow(req[w].row)
  <2>1. /\ pc[w] = "accept" /\ UNCHANGED <<tangled, died>> /\ OthersWait(w)
        /\ pc'[w] = "idle" /\ Save(row)
    BY <1>b, <1>6 DEF SignUpAccept, Finish, Goto, OthersWait, histVars
  <2>2. row.id = req[w].row.id /\ row.email = req[w].email /\ row.sent = req[w].row.sent
    BY <1>c, <2>1 DEF AcceptedRow, Invitation, RowLabels
  <2> HIDE DEF row
  <2>3. invitations' \subseteq invitations \cup {row}
    BY <2>1 DEF Save
  <2>4. UnsentCopies'
    BY <2>1 DEF UnsentInv, UnsentCopies, OthersWait
  <2>5. UnsentOnlyByFailure'
    BY <2>1, <2>2, <2>3 DEF UnsentInv, UnsentCopies, UnsentOnlyByFailure, OthersWait
  <2> QED BY <2>4, <2>5 DEF UnsentInv
<1>7. CASE Restart
  <2>1. /\ invitations' = invitations /\ \A w \in Workers : pc'[w] = "idle"
        /\ tangled \subseteq tangled' /\ died \subseteq died'
        /\ \A w \in Workers : pc[w] \in {"mail", "sent"} => req[w].row.id \in died'
    BY <1>7 DEF Restart, Dying, tables
  <2> QED BY <2>1 DEF UnsentInv, UnsentOnlyByFailure, UnsentCopies
<1>8. CASE OpenInvite \/ SiteWork \/ Start \/ UNCHANGED vars
  <2>1. /\ UNCHANGED <<pc, req, died>> /\ invitations' \subseteq invitations
        /\ tangled \subseteq tangled'
    BY <1>8 DEF OpenInvite, SiteWork, SiteEdit, SiteAdd, SiteDelete, Delete, Start, CreateAdmin,
       CreateAdminRole, CreateAdminSkips, CreateAdminFails, vars, tables, histVars
  <2> QED BY <2>1 DEF UnsentInv, UnsentOnlyByFailure, UnsentCopies
<1> QED BY <1>1, <1>2, <1>3, <1>4, <1>5, <1>6, <1>7, <1>8 DEF Next, Work

\* An invitation whose link cannot be used is left behind only by a request
\* that died between its insertion and its save, or by an overlap of requests
\* about its address (views.py:357-361).
THEOREM UnsentByFailure == Spec => []UnsentOnlyByFailure
<1>1. UnsentInv => UnsentOnlyByFailure
  BY DEF UnsentInv
<1> QED BY <1>1, InitType, StepType, InitCopies, StepCopies, InitRows, StepRows,
           InitUnsent, StepUnsent, PTL DEF Spec
=============================================================================
