# Verification of wgadminui

wgadminui is a Django application that manages the peers of one WireGuard
interface: users create, regenerate and delete peers in the browser, gunicorn
workers change the database, the interface's conf file and the running
interface. This directory holds TLA+ specifications of it, the TLC
configurations that model-check them and proofs checked by TLAPS.

## The system

| Part | State | Operations | Talks to |
|---|---|---|---|
| Peer services (`wireguard/services.py`) | none of its own | `create_peer`, `regenerate_peer_keypair`, `delete_peer`, `allocate_peer_ip`, `_sync_conf_file` | table, conf file, interface |
| wg and file access (`wireguard/wg_sync.py`) | conf file, kernel interface | `set_peer`, `remove_peer`, `show_dump`, `atomic_write`, `syncconf` | subprocess `wg`, the file system |
| PeerConfig table (`wireguard/models.py`) | rows: id, owner, public key, allowed IPs, acknowledged, last sync | insert, save, delete; SQLite, autocommit | |
| Gunicorn workers (`docker-entrypoint.sh`) | a request in progress each | three by default, killed after 60 s without an answer | services |
| Views and session (`dashboard/views.py`) | one `peer_setup` slot per session: the private key until acknowledged | create, setup page, acknowledge, regenerate, delete | services, session table |
| User administration (`dashboard/views.py`, `accounts/`) | users, roles, invitations | invite, cancel, delete a user with the peers | services, mail, django-invitations, allauth |
| Startup (`docker-entrypoint.sh`, `create_initial_admin`, `sync_site`) | permissions of the conf files, first administrator | at every start of the container | users, file system |
| Config import (`import_wg_config.py`) | interface row, peers | parse a conf file, create or update rows | table, conf file |
| Django admin site (`wireguard/admin.py`, `accounts/admin.py`) | | edits, adds and deletes of rows | the tables only |
| Mail, language, theme, pages, deployment | | presentation and configuration | |

A peer is recorded in three places: the table, the `[Peer]` sections of the
conf file and the routes of the running interface. No lock and no transaction
spans them (`ATOMIC_REQUESTS` is off). What makes the system correct is that the
three agree when nobody is working, that an address belongs to one peer, that a
deleted or replaced key is gone everywhere, and that the private key is shown
once. What makes this hard:

- workers interleave between any two accesses (allocation reads, then inserts;
  a sync reads the table, then writes the file, then applies it);
- a failing `wg` or file operation ends a `try` block half way and is only logged;
- a worker may be killed between two steps, and nothing resumes its request;
- rows are saved from instances loaded earlier, and some are inserted again by
  such a save;
- foreign keys cascade: a table loses rows no service has seen;
- a mail goes out before, or between, the writes it speaks of;
- the administrator of the host takes the interface down and up.

`PROJECT.json` lists these hazards at their lines.

## Modules

| Module | Content |
|---|---|
| `PeerRegistry` | What the table promises: ids and keys are never stored again once gone, an address stays with its peer. Three actions: `Add`, `Rekey`, `Drop`; with the import command two more, `Return` and `Move`. |
| `PeerLifecycle` | The core: the three services step by step, by any number of workers, over table, conf file and interface, with faults. Implements `PeerRegistry`. |
| `MCPeerLifecycle` | The instances TLC checks. |
| `PeerLifecycleProofs` | Theorems about `PeerLifecycle`. |
| `ShowOnce` | What the sessions promise: a register per session from which a private key, once withdrawn, is never offered again. Two actions: `Offer`, `Withdraw`. |
| `PeerSetup` | The views that put a new private key into the session, show it and discard it, by concurrent requests of several sessions. Implements `ShowOnce`. |
| `MCPeerSetup`, `PeerSetupProofs` | Its instances and theorems. |
| `ConfText` | The text of the conf file: the import's parser and the services' builder as functions on lines. |
| `MCConfText`, `ConfTextProofs` | All short texts and small tables; theorems about the parser and the builder. |
| `PeerImport` | The import command, statement by statement, beside the workers of `PeerLifecycle`, which it extends. The conf file may be edited by hand. Implements `PeerRegistry` with `Return` and `Move`. |
| `MCPeerImport`, `PeerImportProofs` | Its instances and theorems. |
| `OwnedRegistry` | What the tables of users and peers promise together: a peer enters for a user who exists and leaves with its owner in one step. Extends `PeerRegistry`; its actions are `Enrol`, `Change` (`Rekey`, `Drop` or `Move`), `Give` and `Leave`. |
| `PeerOwners` | Users and the peers they own, over `PeerLifecycle`, which it extends: the deletion of a user with the peers, the foreign key's cascade, the admin site. Implements `OwnedRegistry`. |
| `MCPeerOwners`, `PeerOwnersProofs` | Its instances and theorems. |
| `Accounts` | Users and invitations: inviting, cancelling, signing up, removing, the admin site, the container's start. |
| `MCAccounts`, `AccountsProofs` | Its instance and theorems. |
| `AtomicFile` | What `atomic_write` promises: the file goes from one whole text to another. Three actions: `Ask`, `Commit`, `GiveUp`. |
| `ConfFile` | One `_sync_conf_file`, file operation by file operation, with temporary files and permissions. Implements `AtomicFile`. |
| `MCConfFile`, `ConfFileProofs` | Its instance and theorems. |
| `IpAlloc` | `allocate_peer_ip` over every IPv4 subnet and every form of allowed IPs. |
| `MCIpAlloc`, `IpAllocProofs` | Three-bit addresses; theorems for every number of bits. |

`PeerImport` and `PeerOwners` extend `PeerLifecycle` and interleave with its
actions. `ConfFile` and `IpAlloc` look inside what `PeerLifecycle` takes as one step
(`AtomicWrite`, `SyncconfRead`, `SyncconfApply`) or as one small subnet. `Accounts`
stands beside `PeerOwners`: it says who may delete a user and what becomes of the
user and the invitations; `PeerOwners` says what becomes of the peers.

### How PeerLifecycle corresponds to the code

`peers` is the table (id, key and address of a row; names, DNS and dates are
left out), `conf` the conf file's peer sections as a set of key and address,
`live` the routes of the interface as the same pairs. The kernel gives an
address to one peer at most, so a `wg set` takes it from its owner; when a
configuration names an address twice, either owner is possible
(`Routings`). `pc[w]` and `req[w]` are where a worker is and what its request
holds in memory.

An action is one access to one of the three places:

| Request | Steps |
|---|---|
| create | `CreateLoad` (keypair, read the table's addresses), `AllocatePeerIp` (`show_dump`, choose), `CreateInsert`, `SetPeer`, sync, `CreateStamp` (`last_sync_at`) |
| regenerate | `RegenLoad` (load the row, keypair), `RemovePeer` (old key), `SetPeer` (new key), sync, `RegenSave` |
| delete | `DeleteLoad`, `DeleteRow`, `RemovePeer`, sync |
| sync | `BuildServerConf` (from the table), `AtomicWrite`, `SyncconfRead`, `SyncconfApply` |

Faults: `StepFails` (a step of a `try` block raises: the request ends, except
that regenerate goes on to save), `DumpFails` (`show_dump` answers nothing),
`Abort` (the worker dies, or a step outside the `try` raises), `WgDown` and
`WgUp` (the host's `wg-quick`). An uncaught exception and a killed worker leave
the same state behind, so one action stands for both.

History variables (`born`, `spent`, `issued`, `raced`, `stale`, `rekeyed`) record
what happened and are read by no guard of the program, except that a fresh id
is not in `born` and a fresh key not in `issued`: UUIDs and keypairs do not
repeat.

Abstractions: one interface (the views use the first one only); the subnet is
`0..Broadcast`; the `[Interface]` section of the file is constant here (ConfFile and
ConfText have it) and not modelled; a peer without a route is not in `live`.

### How PeerSetup corresponds to the code

`slot[s]` is `request.session["peer_setup"]` as it is stored, `row` and `acked`
are the table's key and `setup_acknowledged` columns. A request loads its
session once, at its beginning, works on its own copy and saves the copy at
its end, only if a key of it was assigned or removed (`Saves`; Django sets
`session.modified` then): each request is therefore a begin (`CreateBegin`,
`SetupBegin`, `QrBegin`, `AckBegin`, `RegenBegin`), the statement that changes
the table (`CreateRow`, `RegenSave`, `AckSave`, `DeletePeer`) and `Respond`,
and other requests come between them. `pages` are the setup pages open in
browsers; a page can be acknowledged as long as it is open. `SessionEnds`
empties a slot (logout, expiry); `Abort` is a worker that dies, before or after
it changed the table. The services are one step here: what the session does
with a key does not depend on their steps.

`held`, `shown` and `past` are history, and so is `astray`: the peers whose key was
replaced, or acknowledged, while a copy of it was in another session or in a request
about to save its own (`Elsewhere`), and those of requests that died after they wrote
the row.

### How ConfText and PeerImport correspond to the code

A line of `ConfText` is a record of its kind and of what parser or builder look
at: whether a header is at the very start of its line matters, as the parser
strips lines and the builder does not. `ParseLine` is the body of
`_parse_conf`'s loop, one operator per branch; `Build` is
`_build_server_conf`. Values of keys are opaque, so addresses with several
ranges, ports and keepalives are one text.

A peer's name is written as `# {name} ({email})` without a check, so a row's name
stands for the lines it makes (`NameLines`). For most that is one comment (`Plain`);
a name with a line break makes several lines, and one in brackets makes the line
`# [Phone] (a@b)`, which the parser takes for a section commented out. Headers in
another case and other line ends are not among the lines.

`PeerImport` abstracts the file to its peers again. `ImportParse` reads it,
`ImportInterface` commits the interface's row, without which every create is
answered 404, and `ImportLookup` with `ImportInsert` or `ImportUpdate` handle
one peer; each is one database statement, between which the workers of
`PeerLifecycle` take their steps. The peers are handled in any order: the file
has them in some order, and no step looks at it. `NoEntry` stands for the sections
without a key or an address, which are counted and skipped. `ImportDies` ends the
command anywhere, also for a row that vanished or a locked database. `HostEdits` is
the host's administrator, who writes another file at any time, at most `MaxEdits`
times: a peer leaves it, comes back or is new, or has another address. A file given
by `--conf` is such an edit; that the option also moves `conf_file_path`, and a file
with the same key twice, are left out. Of a key that is only on its way through a
regenerate (on the interface, not yet stored) the administrator is taken not to know.

### How PeerOwners corresponds to the code

`users` are the primary keys that exist, `owner` is the foreign key of a peer, `by`
is the user whose create request a worker has. `job[w]` is what
`AdminUserDeleteView.post` holds: the user and the peers its query returned.
`UserDeleteLoad` reads the list, `UserDeleteNext` enters `delete_peer` with the next
of its rows (as they were when they were listed), whose steps are those of
`PeerLifecycle`, and `UserDeleteDone` is `user_to_delete.delete()`, which removes
all peers the user has by then (`Swept`). `SiteDeleteUser`, `SiteDeletePeer`,
`SiteEditPeer` and `SiteEditOwner` are pages of the admin site: one transaction, no
service. An edit gives a peer one of `ManualIps` (a bound), addresses of the subnet.

### How Accounts corresponds to the code

`users` and `invitations` are the tables, with the columns the views look at: role
and superuser flag, inviter, `accepted`, and whether `sent` is set. Each database
access of `AdminUsersView`, `AdminInvitationDeleteView` and `AdminUserDeleteView` is a
step; the check that lets the request begin and the query before it are one. The
code of django-invitations and allauth is modelled from how it is called
(`Invitation.create`, `send_invitation`, `delete`, the two settings at
settings.py:163-164): rows are saved whole, and a row that is gone is inserted again
(`Save`). `phase` is where `docker-entrypoint.sh` is: `create_initial_admin` makes two
writes, may fail, and is skipped when the address is registered. `Restart` stops
everything, at any point of the start too. `SiteEdit` is the admin site's change form:
it may change a user's address to one nobody else has, and asks no invitation.

History: `tangled` collects the addresses that two requests were about at the same
time, that a sign-up was about which died half way, or that an account got without an
invitation (the first administrator's, and what the admin site adds or changes);
`lost` is the reason why there is no administrator; `cancelled`, `told` and `died` are
what people were told and whose request ended half way. Users' languages, themes and
passwords, expiry of invitations, and a sign-up with another address than the invited
one are left out.

### How ConfFile and IpAlloc correspond to the code

A text of `ConfFile` is whether it has the `[Interface]` section, and which peers it
has; `Cut` is a file that is not written to its end. `temp[w]` is the temporary file
of worker `w`, `left` the permissions of those nobody will remove. `Fails` is an
exception, `Abort` is gunicorn's SIGABRT, which its worker turns into SystemExit:
`finally` (syncconf) runs for it, `except Exception` (atomic_write) does not. `Kill` runs
neither. `RemoveTemp` may leave the file, as an `OSError` of `os.unlink` is swallowed.
`Restart` is the entrypoint's `chmod 640`, which is for `*.conf` and passes the hidden
temporary files by. `keyed` means an `[Interface]` section in front of the first peer:
one that comes later is dropped by the first sync. That the host's administrator
changes the permissions between `os.stat` and `os.replace` is left out.

In `IpAlloc` an address is a number of `Bits` bits and a range has a length. The
column of a peer holds ranges with host bits, as the import stores them; the
kernel's routes are masked, and a range has one owner (`Routings`). `Hosts` is what
`ipaddress` returns, also for /31 and /32. Requests do not overlap here:
that is the subject of `PeerLifecycle`.

## What TLC checks

| Run | Instance | Shows |
|---|---|---|
| `lifecycle` | 2 workers, 2 peers, 3 keys, subnet 0..3, every fault | `TypeOK`; `DuplicateOnlyByRace`: an address is stored twice only if the other row was inserted between this request's read and its insert; `AddressBinding`: a key never has two addresses, in any place or memory; `SyncConverges`: a sync nobody disturbs repairs everything; `ImplementsRegistry` |
| `owners` | 2 workers, 2 users, 2 peers, 2 keys, subnet 0..3, every fault, the admin site | `OwnersTypeOK` (no peer without its user); `CascadeOnlyUnlisted`: only peers a user got after the list was read leave the table by the cascade; `ImplementsOwned` |
| `owners_serial` | 1 worker, 2 users, 2 peers, 4 keys, subnet 0..4, no fault, fair | `UniqueIps`; `DriftOnlyFromRegenerate`: between requests, and between the peers of a user's deletion, the three places agree except for regenerated peers; `AddressesReleased`: no deleted peer's address stays on the interface for ever |
| `orphans` | 2 workers, 1 user, no fault | violates `DeletedUsersPeersLeave` |
| `regenerate_drift` | 1 worker, no fault | violates `CurrentKeyLive` |
| `setup` | 2 workers, 2 sessions, 2 peers, 2 keys, every fault | `ShownKeysAreOwn`: a page of a peer never shows another peer's key; `OfferIsCurrent` and `AcknowledgedIsDiscarded`: a session offers its peer's present key, and none of an acknowledged peer, but for peers `astray`; `ImplementsShowOnce`: a withdrawn key is not stored in a session again |
| `conf_text` | all texts of up to 5 lines, tables of up to 2 rows | `SectionsFound`: what the parser's single pass finds, said section by section, its two surprises included; `RowsReadBack`: it reads back what the builder writes of plain names; `RebuildForgets`: earlier tables leave no trace in the file; `HiddenOnlyByLayout` |
| `conf_interface_comment` | the same texts | violates `InterfaceCommentsIgnored` |
| `import` | 1 worker and the command, 2 keys, files of up to 2 peers, one edit of the file by hand, every fault | `ImportAdopts`: an undisturbed import leaves every peer of the file in the table; `ImportKeepsBinding`: until the file is edited a key keeps one address beside the command; `MovedOnlyByEdit`: a peer gets another address by `--force` only, and from an edited file only; `ImportKeepsRegistry`: the command gives no peer another key and reuses no id, but a key may come back |
| `accounts` | 2 workers, 2 addresses, admin site, restarts, every fault | `AdminLeft`: while the application serves there is an administrator, or one of three recorded events took the last one; `PendingNotRegistered`, `CancelledStaysGone`, `UnsentOnlyByFailure`: what becomes of an invitation although rows are saved whole; `ToldIsGone`: who was mailed of the deletion is about to be deleted |
| `conf_file` | 3 workers, 2 tables, 3 permissions | `KeyKept`: the server's private key survives; `ModeKept`: no sync changes the file's permissions, and what stays behind is private or as readable as the file then is; `ImplementsAtomicFile` |
| `ip_alloc` | every subnet of 1 to 8 addresses, 3 keys | `NextFreeIsGiven`, `RefusedOnlyWhenFull`: the search, however small the subnet; `TwiceOnlyWithSeveral`: whatever the dump shows, an address is given twice only beside an imported peer with several ranges |

The three violations are findings in `PROJECT.json`. Regenerate syncs the conf file
from the table before it saves the new key, so the interface and the file return to
the old one. A peer its owner creates while the owner is deleted loses its row by the
cascade, and its key stays on the interface. And the parser names a peer by a comment
of the `[Interface]` section, of which it says that such comments are ignored.

Seven more configurations are kept beside the runs, each with one property that does
not hold; TLC answers with a counterexample. The last three are, like the findings,
disagreements with what the code says of itself (import_wg_config.py:17-18, 13, 49):

| Configuration | Module | Counterexample |
|---|---|---|
| `DuplicateIps.cfg` | `MCPeerLifecycle` | two creates allocate one address |
| `DeleteWhileDown.cfg` | `MCPeerLifecycle` | a delete while the interface is down leaves the peer in the file |
| `LostSync.cfg` | `MCPeerLifecycle` | a sync applies a text that another worker's change has made obsolete |
| `SetupAck.cfg` | `MCPeerSetup` | the acknowledgement does not say which key the page showed: that of an old page discards a new key nobody has seen |
| `ImportTwice.cfg` | `MCPeerImport` | an import after a regenerate makes a second peer, with the same address, of the old key that the file still has |
| `ConfLastPeer.cfg` | `MCConfText` | a `[Peer]` section followed by an `[Interface]` section is not among the peers the parser returns |
| `ConfRowName.cfg` | `MCConfText` | the parser skips a peer the services wrote if its name is in brackets |

What holds only in part says so in its statement. `OfferIsCurrent` and
`AcknowledgedIsDiscarded` except the peers `astray`: one of whose key another session
or an overlapping request has a copy when it is replaced (an administrator regenerates
a peer whose owner's session still offers the key before, as only the peer's id is
compared), or of which a request died after it saved the row. `SectionsFound` is what
the code does, with the section it drops and the comment it keeps; `AllSectionsFound`
and `InterfaceCommentsIgnored` are what it says it does. `RowsReadBack` is about plain
names; `EveryRowFound` is about all.

Bounds. Two workers are enough for every race between a read and a write, and
the properties that fail need no third. Two peers and three keys let the runs
reach create, create and regenerate in every interleaving, as well as create,
two regenerates and a delete; the subnet 0..3 has one automatic address, so
that the second create finds it full, and one address (3) that only a user can
type; 4 is outside. Ids, keys and workers are only compared for equality, so
`lifecycle` uses symmetry; `owners_serial`, which checks liveness, does not.

`setup` needs a second session for the administrator and a second worker for requests
that overlap; two peers and two keys for a slot that is overwritten, or a peer that is
regenerated. Five lines hold
two peer sections with a key each and a comment at every place the parser treats
differently; one key value and one address suffice, as no branch looks at values, two
names tell comments apart. `import` has one worker, as the command is the second
process, and two keys: both of the file, or one of the file and one for a create or a
regenerate. One edit by hand makes file and table differ in an address; what is
proved is proved of any number of edits and keys.

`owners` needs two users for peers that are given away and for two deletions at once;
two keys suffice, as regenerating is not what it is about. `accounts` has two
addresses, one of them the first administrator's: enough for two administrators who
remove each other and for an inviter who is removed. Two user ids are enough for an
administrator and an invited person; that this person is deleted and signs up again,
which needs a third, is left to the proofs, which are of any number. In it the admin
site only takes the superuser flag away, and the history of who was told is kept until
the user is gone. `conf_file` has a third worker so that two may be stopped while one
goes on. In `ip_alloc` three bits hold every subnet that is special (1, 2 and 4
addresses) and one that is not, given by its first or its second address; three keys
are two created peers beside an imported one or the host's.

Deadlock is checked in `lifecycle`, `owners`, `setup`, `import`, `accounts`,
`conf_file` and `ip_alloc`. In the other runs the finite sets of ids, keys
or lines may be used up, and a system without faults then really stops.

Fairness. `OwnersFairSpec` asks that a worker that has begun a request goes on with
it: the code between two steps is sequential and no step waits for another
worker. It does not ask that requests ever arrive. Only `owners_serial` and `orphans`
use it, the first for `AddressesReleased`; the other properties are safety properties
and assume none.

## What is proved

For any number of workers, ids, keys and addresses, under every fault
(`PeerLifecycleProofs`, from `BroadcastAssumption` and `NullAssumption`):

- `TypeCorrect` (`TypeOK`). Inductive with `TypeInv`: which labels each kind of
  request can be at (`Control`) and what it has in memory there (`Memory`);
  without it nothing says that an inserted address is in the subnet.
- `RaceGuarded` (`DuplicateOnlyByRace`). `Covered`: what a worker read and what
  others inserted since cover the table.
- `UniqueIpsAlone` (`UniqueIps` if there is one worker): it is never raced.
- `RowsStayIdentified` and `TableImplementsRegistry` (`ImplementsRegistry`).
  `RegistryInv`: a key generated and not yet stored is nobody else's and new
  to the table (`KeyInv`, which is inductive alone); a loaded row's id still has the
  address it was loaded with, if it exists at all.
- `SyncRepairs` (`SyncConverges`). `Fresh`: until its text is stale a worker
  holds, has written and has read back the table's entries.
- `OneAddressPerKey` (`AddressBinding`). `BindInv`: every key seen was issued,
  and a key without an address yet is seen nowhere (`Bound`, of the set of all
  pairs of key and address that are anywhere); every step shows either no
  new pair (`Discreet`) or the first pair of a new key.

For any number of workers, sessions, peers and keys (`PeerSetupProofs`):

- `TypeCorrect` (`TypeOK`), which the run `setup` leaves to the proof, as `owners` leaves
  `SyncConverges`.
- `OwnKeysShown` (`ShownKeysAreOwn`): every slot, stored or held by a request,
  holds a key that was its peer's.
- `SessionsShowOnce` (`ImplementsShowOnce`). `FreshInv`: a request that will save
  a key holds one no session ever had, and no two hold the same; requests with
  a copy of a key that was stored before only read it, or remove it.
- `OffersAreCurrent` (`OfferIsCurrent`) and `AcknowledgedNotOffered`
  (`AcknowledgedIsDiscarded`). `OfferInv`: of a peer that is not astray, what a request
  is going to save is the row's present key and not acknowledged, and so is what a
  session has stored, or the request that wrote the row is about to save that session
  (`Repairs`). It goes on until it has, or the peer becomes astray. A new peer has no
  earlier copy anywhere, as its id is in no slot (`OwnInv`), and its row is not
  acknowledged (`RowsInv`).

For any number of workers, any peers and any permissions (`ConfFileProofs`, from
`ModesAssumption` and `NullAssumption`):

- `TypeCorrect`, `KeySurvives` (`KeyKept`), `PermissionsSurvive` (`ModeKept`). One
  invariant: every text in the file, in memory or applied has the key if the first
  file had it (`Whole`), and a temporary file is whole and has the conf file's
  permissions when it replaces it (`WorkerInv`); until then it is private.
- `FileImplementsAtomic` (`ImplementsAtomicFile`): a worker asks at `Build`, commits at
  `Replace` and gives up when it leaves.

For any number of workers, addresses, users and invitations (`AccountsProofs`, from
`RootAssumption`):

- `TypeCorrect` (`TypeOK`). `Fits`: what a request has read when it is at a label.
- `AnAdminIsLeft` (`AdminLeft`). `BootInv`: there is an administrator, or the loss has
  its reason, or nothing was ever done; a removal spares the one who asked for it.
- `ToldAreDeleted` (`ToldIsGone`). `ToldInv`: ids are not given twice, so that nobody
  inherits the promise.
- `CancelledInvitations` (`CancelledStaysGone`). `CopiesInv`: the rows in the table and
  those requests hold are copies of what was inserted under their id; while no two
  requests are about an address, at most one holds its row, so nobody saves a
  cancelled one.
- `RegisteredNotPending` (`PendingNotRegistered`). `PendingInv`: an inviter's address
  was new when it was looked up and still is, and who signs up holds the one
  invitation that is left; `RowsInv` says that there is one per address.
- `UnsentByFailure` (`UnsentOnlyByFailure`). `UnsentInv`: a copy without the time of
  sending belongs to a request under way, or to one that died.

For any number of workers, any users and any rows, with the admin site
(`PeerOwnersProofs`, which reuses the steps of `PeerLifecycleProofs`):

- `OwnersTypeCorrect` (`OwnersTypeOK`): no peer without its user.
- `OwnersImplementOwned` (`ImplementsOwned`) and `OwnersRowsIdentified`. Of what
  `PeerLifecycle` keeps of the table, the admin site breaks the addresses and leaves
  `KeyInv`; with it the steps of the services are those of `PeerRegistry` again, and
  as every peer has an owner who exists, the second of two deletions of one user
  changes nothing.
- `ListedGoFirst` (`CascadeOnlyUnlisted`). `ListInv`: a listed peer is still to be
  deleted, is being deleted, or is gone, and ids are not used twice.
- `OwnersSyncRepairs` (`SyncConverges`) and `OwnersRaceGuarded` (`DuplicateOnlyByRace`):
  the cascade and the admin site make every text in memory stale, and count as
  an insert, so that `SyncInv` and `RaceInv` survive them.
- `OwnersUniqueIpsAlone` (`UniqueIps`) and `DriftIsFromRegenerate`
  (`DriftOnlyFromRegenerate`) for one worker and no fault. `DriftInv`: before a request
  stores anything, file and interface have the table's peers but for those
  regenerated; after its sync they have exactly those; and a worker that deletes a
  user has listed all the user's peers, so that the cascade finds none.

For any number of workers beside the command, any file and any number of edits
(`PeerImportProofs`, from `ImporterAssumption`, `NoEntryAssumption` and
`LegacyAssumption`):

- `ImportBinds` (`ImportKeepsBinding`). `ImportInv` has two parts. Whatever is edited, a
  key that is not yet saved is in no file nor in any text that may become one
  (`FilesInv`), as the next import would bring it back, and it is nobody else's
  (`KeyInv`). While nothing was edited (`BoundInv`), `Bound` holds of all pairs with those
  the command has read, and the row the command found has the entry's address, if it
  exists.
- `ImportAdoptsAll` (`ImportAdopts`). `AdoptInv`: while nobody else changes table or
  file, every peer of the file is in the table or still to be handled.
- `ForceMovesEdited` (`MovedOnlyByEdit`): from `BoundInv`, a forced update of a file that
  nobody edited writes the address the row has.
- `ImportImplementsReturning` (`ImportKeepsRegistry`) and `ImportRowsIdentified`: a forced
  update is a `Move`, and an insert is an `Add` or, for a key that was stored before, a
  `Return`.
- `SyncRepairsBesideImport` (`SyncConverges`).

For every subnet of every number of address bits (`IpAllocProofs`, from
`BitsAssumption`, `RangesAssumption` and `PowersAssumption`, which says of powers of two
what arithmetic says and the provers do not know):

- `TypeCorrect` (`TypeOK`); `FirstFreeIsGiven` (`NextFreeIsGiven`) and `OnlyFullIsRefused`
  (`RefusedOnlyWhenFull`), from `Minimum`: a set of numbers that is not empty has a
  least one.
- `OnlySeveralGiveTwice` (`TwiceOnlyWithSeveral`), inductive with `TypeOK`: a row of one
  range keeps its address out of the search, as the column is read as well as
  the dump.

For texts and tables of any length, any names, keys and addresses (`ConfTextProofs`,
from `BoundAssumption`, `NamesAssumption`, a name makes a sequence of lines, and
`TablesAssumption`, a table is a sequence of rows):

- `TypeCorrect` (`TypeOK`).
- `ParserFindsSections` (`SectionsFound`). The parser takes one step per line, so
  the argument is an invariant of reading, `ParserInv`: the parser's state is the kind of
  the section the text ends in (`Current`), its dict and name are what the text so far
  says of that section (`SectionInv`), its pending comment is the last one that the
  next section may be named by (`PendingInv`), and the peers it has found are what the
  text says of the sections before (`FoundInv`). Most of the work is in the lemmas on what
  one more line changes of that reading: of a section that another one follows, nothing
  (`ClosedKept`); of the last one, by the kind of the line (`KindGrown`, `NameGrown`,
  `CurrentCut`).
- `ParseReturnsSections`: the state of that reading is what the function `After` gives of
  the text so far, so that `ParserFindsSections` is about `Parse`.
- `SyncForgetsTables` (`RebuildForgets`). The builder keeps the block before the first
  line the split takes for a `[Peer]` header; in a text that was built, that is the
  block it was built on (`BlockOfBuilt`). That needs no plain names: the header of the
  first row's section comes before its name.
- `ImportReadsTables` (`RowsReadBack`, of plain names). A built text is read one row's
  section at a time (`OneMore`): in whatever state the parser is, it saves the section
  it has, and after the row's lines it holds this row (`SectionRead`).
- `LayoutHidesPeers` (`HiddenOnlyByLayout`): without a peer header the state after the
  block saves nobody (`AfterPeerless`).
- `SyncRoundTrip`, the two together for a file as the services leave it.

`After` and `Build` are recursive functions, whose values the provers must be told
of one by one: `Reading` and `Writing` say what they are. That such functions exist
and are what they should be for every length is shown by the least counterexample
(`Minimum`), as the library's induction rules take a predicate, which these provers
do not instantiate.

Each proof has one step per action. Only model-checked:

- `AddressesReleased`: liveness is out of the prover's reach, as is `ENABLED`.
- The three violated properties, of which there is nothing to prove, and the
  counterexamples above.

## Plan

What is left: an abstract table that says of a returning key that it has its old
address, as `ImportKeepsBinding` does of the places, would need the address of every
key that was ever stored. The hazards without a property in `PROJECT.json` are
behaviours the code has and nothing in it forbids, or are outside the model; each
says which.

## Not modelled

- IPv6 subnets: `ipaddress` and the kernel treat them differently, and the services
  store every address as /32.
- `sync_site` writes one row that only mails and pages read; `migrate` is Django's.
- The admin site's pages of interfaces, invitations and access rows; nothing reads the
  last. Several interfaces: the views use the first one.
- The client's configuration text and the QR code are data on a page;
  `get_peer_status`, `get_interface_info`, `show_interface` and `systemctl_status`
  only read. `last_sync_at` is only displayed.
- The page of django-invitations that sends invitations (urls.py:25), beside the
  program's own: it inserts and mails an invitation by that library's checks.
- In the admin site: adding a peer (a row with an empty key, which the form does not
  show), allowed IPs outside the subnet or that are no address, `is_active` and
  `is_staff`.
- Pages, styles, translations, mail texts and languages, deployment files (no state
  the other parts depend on), and the code of Django, allauth, django-invitations and
  WireGuard themselves, which appear only as the steps the code calls.
