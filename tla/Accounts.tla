------------------------------ MODULE Accounts ------------------------------
(***************************************************************************)
(* The accounts of wgadminui: how people get in (an administrator invites  *)
(* an address, the invited person signs up), how they are removed again,   *)
(* and how the container's start makes sure there is an administrator.     *)
(*                                                                         *)
(*   users        the accounts_user table                                  *)
(*   invitations  the table of django-invitations: one row per address,    *)
(*                with a foreign key to the inviter that cascades          *)
(*   opened       addresses whose link was followed: the session remembers *)
(*                it and lets its owner sign up                            *)
(*   phase        where docker-entrypoint.sh is                            *)
(*                                                                         *)
(* Requests run on several workers in autocommit, so that every access to  *)
(* a table is a step of its own. The rows of django-invitations are saved  *)
(* whole, and Django inserts a row that is gone when it is saved.          *)
(***************************************************************************)
EXTENDS Naturals

CONSTANTS
  Workers,    \* the gunicorn worker processes
  Emails,     \* addresses
  Root,       \* WGADMINUI_ADMIN_EMAIL
  UserIds,    \* primary keys of users, never given twice
  InviteIds,  \* primary keys of invitations, never given twice
  None

ASSUME RootAssumption == Root \in Emails
ASSUME NoneAssumption == None \notin UserIds \cup InviteIds \cup Emails

VARIABLES
  users, invitations, opened, phase,
  pc,         \* where each worker is in its request
  req,        \* what the request has read
  \* History: what happened, never read by the program.
  usedIds,    \* primary keys that were given
  lost,       \* how the last administrator was lost
  tangled,    \* addresses two requests were about at the same time, whose
              \* sign-up died half-way, or that a user has without signing up
  cancelled,  \* invitations an administrator was told are cancelled
  told,       \* users who were mailed that their account is deleted, until it is
  died        \* users and invitations whose request died half-way

tables   == <<users, invitations>>
histVars == <<usedIds, lost, tangled, cancelled, told, died>>
vars     == <<tables, opened, phase, pc, req, histVars>>

-----------------------------------------------------------------------------
(* Data *)

User       == [id : UserIds, email : Emails, super : BOOLEAN, admin : BOOLEAN]
Invitation == [id : InviteIds, email : Emails, by : UserIds,
               accepted : BOOLEAN, sent : BOOLEAN]

NoReq == [me |-> None, email |-> None, target |-> None, row |-> None]

Request == [me     : UserIds \cup {None},   \* request.user
            email  : Emails \cup {None},    \* the address the request is about
            target : UserIds \cup {None},   \* the user to delete
            row    : Invitation \cup {None}]

Labels == {"idle", "lookup", "discard", "create", "mail", "sent",
           "cancel", "tell", "erase", "find", "accept"}

Registered(e)   == \E u \in users : u.email = e
Invited(e)      == {i \in invitations : i.email = e}
UserExists(id)  == \E u \in users : u.id = id

\* User.is_admin_user.
IsAdminUser(u) == u.admin \/ u.super
AdminsOf(us)   == {u \in us : IsAdminUser(u)}
Admins         == AdminsOf(users)

Init ==
  /\ users = {} /\ invitations = {} /\ opened = {} /\ phase = "boot"
  /\ pc = [w \in Workers |-> "idle"] /\ req = [w \in Workers |-> NoReq]
  /\ usedIds = {} /\ lost = "no" /\ tangled = {}
  /\ cancelled = {} /\ told = {} /\ died = {}

Goto(w, l) == pc' = [pc EXCEPT ![w] = l]
Finish(w)  == Goto(w, "idle") /\ req' = [req EXCEPT ![w] = NoReq]

\* A request about e begins on w, at label l. History: e is tangled if another
\* worker is busy with it.
Begin(w, l, r) ==
  /\ phase = "serve" /\ pc[w] = "idle"
  /\ Goto(w, l) /\ req' = [req EXCEPT ![w] = r]
  /\ tangled' = IF \E v \in Workers : pc[v] # "idle" /\ req[v].email = r.email
                THEN tangled \cup {r.email} ELSE tangled

\* A row is saved whole: updated, or inserted again if it is gone. It raises,
\* and nothing changes, if the address has another row or the inviter is gone.
Save(row) ==
  invitations' = IF UserExists(row.by) /\ \A i \in invitations : i.email = row.email => i.id = row.id
                 THEN {i \in invitations : i.id # row.id} \cup {row}
                 ELSE invitations

\* Mutant: the row is kept, marked as used up.
MarkedAsUsed(row) == (invitations \ {row}) \cup {[row EXCEPT !.accepted = TRUE]}

\* invitation.delete(): by primary key.
WithoutRow(row) == {i \in invitations : i.id # row.id}

\* user.delete(): the row goes and with it the invitations the user sent.
\* History: what the user was told has come true.
Delete(id) ==
  /\ users' = {u \in users : u.id # id}
  /\ invitations' = {i \in invitations : i.by # id}
  /\ told' = told \ {id}

\* History: the set us of users replaces the present one, for the reason why.
Losing(us, why) == lost' = IF AdminsOf(us) # {} THEN "no"
                           ELSE IF Admins = {} THEN lost ELSE why

-----------------------------------------------------------------------------
(* AdminUsersView.post: invite an address *)

\* The requester is an administrator and the address has no user.
InviteBegin(w) ==
  /\ \E u \in Admins, e \in Emails :
       /\ ~Registered(e)
       /\ Begin(w, "lookup", [NoReq EXCEPT !.me = u.id, !.email = e])
  /\ UNCHANGED <<tables, opened, phase, usedIds, lost, cancelled, told, died>>

\* Is the address invited already? A pending invitation ends the request.
InviteLookup(w) ==
  /\ pc[w] = "lookup"
  /\ \/ \E i \in Invited(req[w].email) :
          \/ ~i.accepted /\ Finish(w)
          \/ i.accepted /\ Goto(w, "discard") /\ req' = [req EXCEPT ![w].row = i]
     \/ Invited(req[w].email) = {} /\ Goto(w, "create") /\ req' = req
  /\ UNCHANGED <<tables, opened, phase, histVars>>

\* An accepted invitation without a user: the user was deleted.
InviteDiscard(w) ==
  /\ pc[w] = "discard"
  /\ invitations' = WithoutRow(req[w].row)
  /\ Goto(w, "create")
  /\ UNCHANGED <<users, opened, phase, req, histVars>>

\* Mutant: the inviter is not passed on.
AnonymousInvitation(w, n) ==
  [id |-> n, email |-> req[w].email, by |-> None, accepted |-> FALSE, sent |-> FALSE]

NewInvitation(w, n) ==
  [id |-> n, email |-> req[w].email, by |-> req[w].me, accepted |-> FALSE, sent |-> FALSE]

\* Invitation.create raises if the address has a row or the inviter is gone.
InviteCreate(w) ==
  /\ pc[w] = "create"
  /\ \/ /\ Invited(req[w].email) = {} /\ UserExists(req[w].me)
        /\ \E n \in InviteIds \ usedIds :
             /\ invitations' = invitations \cup {NewInvitation(w, n)}
             /\ req' = [req EXCEPT ![w].row = NewInvitation(w, n)]
             /\ usedIds' = usedIds \cup {n}
        /\ Goto(w, "mail")
     \/ /\ Invited(req[w].email) # {} \/ ~UserExists(req[w].me)
        /\ Finish(w)
        /\ UNCHANGED <<invitations, usedIds>>
  /\ UNCHANGED <<users, opened, phase, lost, tangled, cancelled, told, died>>

\* send_invitation mails the link ...
InviteMail(w) ==
  /\ pc[w] = "mail"
  /\ Goto(w, "sent")
  /\ UNCHANGED <<tables, opened, phase, req, histVars>>

\* Mutant: the time is not set.
UnsentRow(row) == row

SentRow(row) == [row EXCEPT !.sent = TRUE]

\* ... and then saves the time, with the rest of the row it created.
InviteSave(w) ==
  /\ pc[w] = "sent"
  /\ Save(SentRow(req[w].row))
  /\ Finish(w)
  /\ UNCHANGED <<users, opened, phase, histVars>>

-----------------------------------------------------------------------------
(* AdminInvitationDeleteView.post: cancel an invitation *)

CancelLoad(w) ==
  /\ \E u \in Admins, i \in invitations :
       /\ ~i.accepted
       /\ Begin(w, "cancel", [NoReq EXCEPT !.me = u.id, !.email = i.email, !.row = i])
  /\ UNCHANGED <<tables, opened, phase, usedIds, lost, cancelled, told, died>>

CancelDelete(w) ==
  /\ pc[w] = "cancel"
  /\ invitations' = WithoutRow(req[w].row)
  /\ cancelled' = cancelled \cup {req[w].row.id}
  /\ Finish(w)
  /\ UNCHANGED <<users, opened, phase, usedIds, lost, tangled, told, died>>

-----------------------------------------------------------------------------
(* AdminUserDeleteView.post: delete a user *)

\* Mutant: nobody keeps the requester from naming himself.
AnybodyElseOrSelf(a) == users

AnybodyElse(a) == {u \in users : u.id # a.id}

\* The user is loaded, is not the requester, and the password is right.
RemoveLoad(w) ==
  /\ \E a \in Admins : \E u \in AnybodyElse(a) :
       Begin(w, "tell", [NoReq EXCEPT !.me = a.id, !.email = u.email, !.target = u.id])
  /\ UNCHANGED <<tables, opened, phase, usedIds, lost, cancelled, told, died>>

\* The mail that the account was deleted goes out first.
RemoveTell(w) ==
  /\ pc[w] = "tell"
  /\ told' = told \cup {u.id : u \in {v \in users : v.id = req[w].target}}
  /\ Goto(w, "erase")
  /\ UNCHANGED <<tables, opened, phase, req, usedIds, lost, tangled, cancelled, died>>

\* Mutant: the requester's role is looked at again, and the request dropped.
RemoveEraseChecked(w) ==
  /\ pc[w] = "erase"
  /\ IF \E a \in Admins : a.id = req[w].me
     THEN Delete(req[w].target) ELSE UNCHANGED <<tables, told>>
  /\ UNCHANGED lost
  /\ Finish(w)
  /\ UNCHANGED <<opened, phase, usedIds, tangled, cancelled, died>>

\* The peers are deleted one by one (module PeerOwners) and then the user.
\* Nobody looks again at whether the requester still is an administrator.
RemoveErase(w) ==
  /\ pc[w] = "erase"
  /\ Delete(req[w].target)
  /\ Losing(users', IF \E a \in Admins : a.id = req[w].me THEN lost ELSE "race")
  /\ Finish(w)
  /\ UNCHANGED <<opened, phase, usedIds, tangled, cancelled, died>>

-----------------------------------------------------------------------------
(* The invited person: django-invitations and django-allauth *)

\* The link of a pending invitation is followed. Without a time of sending the
\* view cannot tell whether the link has expired, and raises.
OpenInvite ==
  /\ phase = "serve"
  /\ \E i \in invitations : ~i.accepted /\ i.sent /\ opened' = opened \cup {i.email}
  /\ UNCHANGED <<tables, phase, pc, req, histVars>>

\* The sign-up form: only with an opened invitation, only for a new address.
SignUp(w) ==
  /\ \E e \in opened, n \in UserIds \ usedIds :
       /\ ~Registered(e)
       /\ Begin(w, "find", [NoReq EXCEPT !.email = e])
       /\ users' = users \cup {[id |-> n, email |-> e, super |-> FALSE, admin |-> FALSE]}
       /\ usedIds' = usedIds \cup {n}
       /\ Losing(users', lost)
  /\ UNCHANGED <<invitations, opened, phase, cancelled, told, died>>

\* After the sign-up the invitation of the address, if there is one, ...
SignUpFind(w) ==
  /\ pc[w] = "find"
  /\ \/ \E i \in Invited(req[w].email) : Goto(w, "accept") /\ req' = [req EXCEPT ![w].row = i]
     \/ Invited(req[w].email) = {} /\ Finish(w)
  /\ UNCHANGED <<tables, opened, phase, histVars>>

\* Mutant: the row is saved as it is.
PendingRow(row) == row

AcceptedRow(row) == [row EXCEPT !.accepted = TRUE]

\* ... is saved as accepted.
SignUpAccept(w) ==
  /\ pc[w] = "accept"
  /\ Save(AcceptedRow(req[w].row))
  /\ Finish(w)
  /\ UNCHANGED <<users, opened, phase, histVars>>

-----------------------------------------------------------------------------
(* The Django admin site, for superusers; its views are transactions *)

Site == phase = "serve" /\ \E u \in users : u.super

\* The change form shows the address, which nobody else may have, the role and
\* the superuser flag, which here is only taken away (a bound). History: it
\* knows of no invitation, as the add form.
SiteEdit ==
  /\ Site
  /\ \E u \in users, e \in Emails, a, s \in BOOLEAN :
       /\ \A v \in users : v.email = e => v.id = u.id
       /\ s => u.super
       /\ users' = (users \ {u}) \cup {[u EXCEPT !.email = e, !.admin = a, !.super = s]}
       /\ tangled' = IF e = u.email THEN tangled ELSE tangled \cup {e}
  /\ Losing(users', "site")
  /\ UNCHANGED <<invitations, opened, phase, pc, req, usedIds, cancelled, told, died>>

\* The add form: any address, any role. History: it knows of no invitation.
SiteAdd ==
  /\ Site
  /\ \E e \in Emails, n \in UserIds \ usedIds, a \in BOOLEAN :
       /\ ~Registered(e)
       /\ users' = users \cup {[id |-> n, email |-> e, super |-> FALSE, admin |-> a]}
       /\ usedIds' = usedIds \cup {n}
       /\ tangled' = tangled \cup {e}
  /\ Losing(users', "site")
  /\ UNCHANGED <<invitations, opened, phase, pc, req, cancelled, told, died>>

\* The delete action: anybody, oneself included.
SiteDelete ==
  /\ Site
  /\ \E u \in users : Delete(u.id)
  /\ Losing(users', "site")
  /\ UNCHANGED <<opened, phase, pc, req, usedIds, tangled, cancelled, died>>

-----------------------------------------------------------------------------
(* docker-entrypoint.sh and create_initial_admin *)

\* Mutant: an ordinary user is created, and made administrator afterwards.
OrdinaryUser(n) == [id |-> n, email |-> Root, super |-> FALSE, admin |-> FALSE]

Superuser(n) == [id |-> n, email |-> Root, super |-> TRUE, admin |-> FALSE]

\* create_superuser. History: as in SiteAdd.
CreateAdmin ==
  /\ phase = "boot" /\ ~Registered(Root)
  /\ \E n \in UserIds \ usedIds :
       /\ users' = users \cup {Superuser(n)}
       /\ usedIds' = usedIds \cup {n}
  /\ tangled' = tangled \cup {Root}
  /\ Losing(users', lost)
  /\ phase' = "role"
  /\ UNCHANGED <<invitations, opened, pc, req, cancelled, told, died>>

\* The role is saved, of whoever has the address.
CreateAdminRole ==
  /\ phase = "role"
  /\ users' = {[u EXCEPT !.admin = @ \/ u.email = Root] : u \in users}
  /\ Losing(users', lost)
  /\ phase' = "serve"
  /\ UNCHANGED <<invitations, opened, pc, req, usedIds, tangled, cancelled, told, died>>

\* The address is registered already, whatever its role: nothing to do.
CreateAdminSkips ==
  /\ phase = "boot" /\ Registered(Root)
  /\ phase' = "serve"
  /\ UNCHANGED <<tables, opened, pc, req, histVars>>

\* The command raises (no password is set, the database is locked): the
\* entrypoint goes on (|| true) and starts gunicorn.
CreateAdminFails ==
  /\ phase \in {"boot", "role"}
  /\ phase' = "serve"
  /\ lost' = IF Admins = {} /\ lost = "no" THEN "boot" ELSE lost
  /\ UNCHANGED <<tables, opened, pc, req, usedIds, tangled, cancelled, told, died>>

-----------------------------------------------------------------------------
(* Faults *)

\* History of the death of w's request.
Dying(W) ==
  /\ tangled' = tangled \cup {req[w].email : w \in {v \in W : pc[v] \in {"find", "accept"}}}
  /\ died' = died \cup {req[w].target : w \in {v \in W : pc[v] = "erase"}}
                  \cup {req[w].row.id : w \in {v \in W : pc[v] \in {"mail", "sent"}}}

\* A step raises (the mail server refuses, the database is locked) or the
\* worker is killed.
Abort(w) ==
  /\ pc[w] # "idle"
  /\ Finish(w)
  /\ Dying({w})
  /\ UNCHANGED <<tables, opened, phase, usedIds, lost, cancelled, told>>

\* The container stops, at any point of its start or of any request.
Restart ==
  /\ phase' = "boot"
  /\ pc' = [w \in Workers |-> "idle"] /\ req' = [w \in Workers |-> NoReq]
  /\ Dying(Workers)
  /\ UNCHANGED <<tables, opened, usedIds, lost, cancelled, told>>

-----------------------------------------------------------------------------
Start == CreateAdmin \/ CreateAdminRole \/ CreateAdminSkips \/ CreateAdminFails

Work(w) ==
  \/ InviteBegin(w) \/ InviteLookup(w) \/ InviteDiscard(w) \/ InviteCreate(w)
  \/ InviteMail(w) \/ InviteSave(w)
  \/ CancelLoad(w) \/ CancelDelete(w)
  \/ RemoveLoad(w) \/ RemoveTell(w) \/ RemoveErase(w)
  \/ SignUp(w) \/ SignUpFind(w) \/ SignUpAccept(w)

SiteWork == SiteEdit \/ SiteAdd \/ SiteDelete

Next == Start \/ OpenInvite \/ SiteWork \/ Restart \/ \E w \in Workers : Work(w) \/ Abort(w)

Spec == Init /\ [][Next]_vars

-----------------------------------------------------------------------------
(* Properties *)

TypeOK ==
  /\ users \subseteq User /\ invitations \subseteq Invitation
  /\ opened \subseteq Emails /\ phase \in {"boot", "role", "serve"}
  /\ pc \in [Workers -> Labels] /\ req \in [Workers -> Request]
  /\ usedIds \subseteq UserIds \cup InviteIds
  /\ lost \in {"no", "boot", "site", "race"}
  /\ tangled \subseteq Emails /\ cancelled \subseteq InviteIds
  /\ told \subseteq UserIds /\ died \subseteq UserIds \cup InviteIds

\* While the application serves there is an administrator: a start that dies
\* between the two writes of create_initial_admin, removals and restarts do
\* not take the last one away (views.py:397-398, docker-entrypoint.sh:34-35).
\* Three things do: a failed create_initial_admin that never succeeded, the
\* admin site, and a removal by someone who meanwhile is no administrator
\* any more (two administrators who remove each other).
AdminLeft == phase = "serve" /\ Admins = {} => lost # "no"

\* No registered user is listed as a pending invitation (views.py:346, 354),
\* except while the sign-up is under way, unless two requests about the
\* address overlapped, the sign-up died after the user was inserted, or the
\* user got the address without an invitation: from create_initial_admin or by
\* the admin site, which adds users and changes their addresses.
PendingNotRegistered ==
  \A i \in invitations :
    ~i.accepted /\ Registered(i.email) /\ i.email \notin tangled =>
      \E w \in Workers : pc[w] \in {"find", "accept"} /\ req[w].email = i.email

\* An invitation that was cancelled (views.py:381) does not come back, although
\* rows are saved whole from copies loaded earlier, unless two requests about
\* its address overlapped.
CancelledStaysGone ==
  \A i \in invitations : i.id \in cancelled => i.email \in tangled

\* A user who was mailed that the account is deleted (views.py:406-413) is about
\* to be deleted, unless the request that sent the mail died.
ToldIsGone ==
  \A u \in users : u.id \in told =>
    u.id \in died \/ \E w \in Workers : pc[w] = "erase" /\ req[w].target = u.id

\* An invitation whose link cannot be used, and which keeps its address from
\* being invited again (views.py:357-361), is left behind only by a request
\* that died between its insertion and the save after the mail, or by a save
\* of an older copy of the row.
UnsentOnlyByFailure ==
  \A i \in invitations : ~i.sent =>
    \/ i.id \in died \/ i.email \in tangled
    \/ \E w \in Workers : pc[w] \in {"mail", "sent"} /\ req[w].row.id = i.id
=============================================================================
