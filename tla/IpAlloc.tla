------------------------------ MODULE IpAlloc ------------------------------
(***************************************************************************)
(* allocate_peer_ip (wireguard/services.py) over every IPv4 subnet, /31    *)
(* and /32 included, and over the forms that allowed IPs have: what the    *)
(* import stores may be several ranges, with host bits, while wg show dump *)
(* reports the ranges the kernel routes, without host bits. PeerLifecycle  *)
(* knows one subnet and single addresses only; here requests do not        *)
(* overlap, but the dump may fail, the sync may fail, and the host's       *)
(* administrator may configure peers with wg.                              *)
(***************************************************************************)
EXTENDS Integers, FiniteSets

CONSTANTS
  Bits,        \* the length of an address, 32 for IPv4
  Keys,        \* public keys
  Subnets,     \* the subnets the interface may have
  Imported,    \* the allowed IPs an imported peer may have
  HostRanges,  \* the ranges the host's administrator may route
  ManualIps,   \* the addresses a user may type
  NoAddr

Addr  == 0..(2^Bits - 1)
Range == [addr : Addr, len : 0..Bits]

ASSUME BitsAssumption == Bits \in Nat /\ NoAddr \notin Addr
\* A power of two is positive, and divides the higher ones.
ASSUME PowersAssumption == \A n \in 0..Bits : 2^n \in Nat \ {0} /\ 2^n * 2^(Bits - n) = 2^Bits
ASSUME RangesAssumption ==
  /\ Subnets \cup HostRanges \subseteq Range /\ ManualIps \subseteq Nat
  /\ \A text \in Imported : text # {} /\ IsFiniteSet(text) /\ text \subseteq Range

VARIABLES
  subnet,      \* of the interface
  rows,        \* the PeerConfig table
  live         \* the kernel's routes: a range has one owner

vars == <<subnet, rows, live>>

-----------------------------------------------------------------------------
(* Ranges and routes *)

Size(r)    == 2^(Bits - r.len)
First(r)   == r.addr - (r.addr % Size(r))
Last(r)    == First(r) + Size(r) - 1
Members(r) == First(r)..Last(r)
Masked(r)  == [addr |-> First(r), len |-> r.len]

\* <addr>/32
Single(a) == [addr |-> a, len |-> Bits]

\* ips: the ranges in the allowed_ips column. from: create_peer or the import.
Row   == [key : Keys, ips : SUBSET Range, from : {"create", "import"}]
Route == [key : Keys, range : Range]

RoutesOf(rs) == UNION {{[key |-> r.key, range |-> Masked(i)] : i \in r.ips} : r \in rs}

\* The routes after wg syncconf with the peers rs: of peers with one and the
\* same range, one gets it.
Routings(rs) == {R \in SUBSET RoutesOf(rs) :
                   /\ \A x, y \in R : x.range = y.range => x = y
                   /\ \A x \in RoutesOf(rs) : \E y \in R : y.range = x.range}

-----------------------------------------------------------------------------
(* allocate_peer_ip *)

\* ipaddress: network.hosts() leaves out the first and the last address of a
\* network, but not of a /31 or /32.
Hosts(n) == IF Size(n) <= 2 THEN Members(n) ELSE (First(n) + 1)..(Last(n) - 1)

\* Mutant: the last address is not reserved.
ReservedFirstOnly(n) == {First(n), CHOOSE h \in Hosts(n) : \A g \in Hosts(n) : h <= g}

\* The network, the broadcast address, and hosts[0], the server's.
Reserved(n) == {First(n), Last(n), CHOOSE h \in Hosts(n) : \A g \in Hosts(n) : h <= g}

\* A column with several ranges does not parse as one address.
Parsed(r) == {i.addr : i \in {j \in r.ips : Cardinality(r.ips) = 1}}

\* Mutant: the table is not looked at.
UsedDump(dump) == {x.range.addr : x \in dump}

Used(dump) == UNION {Parsed(r) : r \in rows} \cup {x.range.addr : x \in dump}

Free(used) == Hosts(subnet) \ (Reserved(subnet) \cup used)

\* Mutant: the search starts after the highest address in use.
NextAfterLast(used) == {a \in Free(used) : \A b \in used : b < a}

NextFree(used) == {a \in Free(used) : \A b \in Free(used) : a <= b}

\* Mutant: the user's address is not looked up in the subnet.
AnswerAnywhere(manual, used) ==
  IF manual = NoAddr THEN NextFree(used) ELSE {manual} \ used

\* What is answered, a set that is empty when it raises ValueError.
Answer(manual, used) ==
  IF manual = NoAddr THEN NextFree(used)
  ELSE {manual} \cap (Members(subnet) \ used)

-----------------------------------------------------------------------------
(* Operations *)

Init ==
  /\ subnet \in Subnets
  /\ \/ rows = {}
     \/ \E k \in Keys, text \in Imported : rows = {[key |-> k, ips |-> text, from |-> "import"]}
  /\ live \in Routings(rows)

\* _sync_conf_file, which fails if wg does.
Sync == live' \in Routings(rows') \/ live' = live

\* create_peer, with what show_dump answered. wg set comes before the sync and
\* may work when the sync does not.
Create(k, manual, dump) ==
  /\ k \notin {r.key : r \in rows} \cup {x.key : x \in live}
  /\ \E a \in Answer(manual, Used(dump)) :
       /\ rows' = rows \cup {[key |-> k, ips |-> {Single(a)}, from |-> "create"]}
       /\ \/ Sync
          \/ live' = {x \in live : x.range # Single(a)} \cup {[key |-> k, range |-> Single(a)]}
  /\ UNCHANGED subnet

CreatePeer == \E k \in Keys, manual \in ManualIps \cup {NoAddr} : Create(k, manual, live)

\* show_dump returns nothing: wg failed, or the interface is down.
CreateBlind == \E k \in Keys, manual \in ManualIps \cup {NoAddr} : Create(k, manual, {})

\* delete_peer
Delete ==
  /\ \E r \in rows : /\ rows' = rows \ {r}
                     /\ Sync \/ live' = {x \in live : x.key # r.key}
  /\ UNCHANGED subnet

\* wg set by the host's administrator, and wg-quick down.
HostSets ==
  /\ \E k \in Keys, g \in HostRanges :
       live' = {x \in live : x.range # Masked(g)} \cup {[key |-> k, range |-> Masked(g)]}
  /\ UNCHANGED <<subnet, rows>>

HostDown == live' = {} /\ UNCHANGED <<subnet, rows>>

Next == CreatePeer \/ CreateBlind \/ Delete \/ HostSets \/ HostDown

Spec == Init /\ [][Next]_vars

-----------------------------------------------------------------------------
(* Properties *)

TypeOK ==
  /\ subnet \in Subnets /\ rows \subseteq Row /\ live \subseteq Route
  /\ \A r \in rows : r.from = "create" => \E a \in Members(subnet) : r.ips = {Single(a)}

\* The addresses for peers: all but the network's, the server's and the last.
PeerAddrs == (First(subnet) + 2)..(Last(subnet) - 1)

\* The address a peer is given automatically is the first of the subnet, after
\* the server's and before the last, that nobody has, in any subnet however
\* small (services.py:122-128, README.md:21).
NextFreeIsGiven ==
  [][\A k \in Keys : Create(k, NoAddr, live) =>
       \E r \in rows' \ rows, a \in PeerAddrs :
         /\ r.ips = {Single(a)} /\ a \notin Used(live)
         /\ (First(subnet) + 2)..(a - 1) \subseteq Used(live)]_vars

\* A subnet is full only when every address for peers is in use.
RefusedOnlyWhenFull == NextFree(Used(live)) = {} => PeerAddrs \subseteq Used(live)

\* Two peers have one address only if one of them was imported with several
\* ranges, which the search through the table does not understand
\* (services.py:133-138): whatever the dump shows, whatever fails.
TwiceOnlyWithSeveral ==
  \A r, s \in rows : r # s /\ Cardinality(r.ips) = 1 /\ Cardinality(s.ips) = 1 =>
    {i.addr : i \in r.ips} \cap {i.addr : i \in s.ips} = {}
=============================================================================
