--------------------------- MODULE IpAllocProofs ---------------------------
(***************************************************************************)
(* Theorems about IpAlloc, for addresses of any length and any subnets,    *)
(* imported ranges, ranges of the host and addresses typed by users. What  *)
(* is assumed of powers of two is in PowersAssumption.                     *)
(***************************************************************************)
EXTENDS IpAlloc, TLAPS, WellFoundedInduction

(***************************************************************************)
(* Ranges                                                                  *)
(***************************************************************************)

LEMMA Division ==
  ASSUME NEW s \in Nat \ {0}, NEW q \in Nat, NEW a \in 0..(s * q - 1)
  PROVE  a - (a % s) \in 0..a /\ a <= a - (a % s) + s - 1 /\ a - (a % s) + s <= s * q
<1>1. a \div s \in Nat /\ a = s * (a \div s) + (a % s) /\ a % s \in 0..(s - 1)
  OBVIOUS
<1>2. a \div s < q
  BY <1>1
<1>3. s * ((a \div s) + 1) <= s * q
  BY <1>1, <1>2
<1> QED BY <1>1, <1>3

\* A range does not reach beyond the last address there is.
LEMMA RangeBounds ==
  ASSUME NEW r \in Range
  PROVE  /\ Size(r) \in Nat \ {0} /\ First(r) \in Addr /\ Last(r) \in Addr
         /\ First(r) <= r.addr /\ r.addr <= Last(r) /\ Last(r) = First(r) + Size(r) - 1
<1>1. r.len \in 0..Bits /\ r.addr \in Addr /\ Bits - r.len \in 0..Bits
  BY BitsAssumption DEF Range
<1> DEFINE s == 2^(Bits - r.len)
           q == 2^(Bits - (Bits - r.len))
<1>2. s \in Nat \ {0} /\ s * q = 2^Bits
  BY <1>1, PowersAssumption
<1>3. q \in Nat
  <2>1. Bits - (Bits - r.len) \in 0..Bits
    BY <1>1, BitsAssumption
  <2> QED BY <2>1, PowersAssumption
<1>4. Size(r) = s
  BY DEF Size
<1> HIDE DEF s, q
<1>5. r.addr \in 0..(s * q - 1)
  BY <1>1, <1>2 DEF Addr
<1>6. /\ r.addr - (r.addr % s) \in 0..r.addr /\ r.addr <= r.addr - (r.addr % s) + s - 1
      /\ r.addr - (r.addr % s) + s <= s * q
  BY <1>2, <1>3, <1>5, Division
<1>7. First(r) \in 0..r.addr /\ r.addr <= First(r) + s - 1 /\ First(r) + s <= 2^Bits
  BY <1>2, <1>4, <1>6 DEF First
<1>8. 2^Bits \in Nat
  BY PowersAssumption, BitsAssumption
<1> QED BY <1>1, <1>2, <1>4, <1>7, <1>8 DEF Last, Addr

LEMMA RangeType == ASSUME NEW r \in Range PROVE Members(r) \subseteq Addr /\ Masked(r) \in Range
<1>1. First(r) \in Addr /\ Last(r) \in Addr
  BY RangeBounds
<1>2. r.len \in 0..Bits
  BY DEF Range
<1>3. Masked(r) \in Range
  BY <1>1, <1>2 DEF Masked, Range
<1>4. 2^Bits \in Nat
  BY PowersAssumption, BitsAssumption
<1> QED BY <1>1, <1>3, <1>4 DEF Members, Addr

LEMMA AddrNat == Addr \subseteq Nat
  BY PowersAssumption, BitsAssumption DEF Addr

LEMMA SingleRange ==
  ASSUME NEW a \in Addr
  PROVE  Single(a) \in Range /\ Masked(Single(a)) = Single(a) /\ Members(Single(a)) = {a}
<1>1. Single(a) \in Range /\ Single(a).addr = a /\ Single(a).len = Bits
  BY BitsAssumption DEF Single, Range
<1>2. Size(Single(a)) = 1
  <2>1. Bits - Bits = 0
    BY BitsAssumption
  <2>2. 2^0 = 1
    OBVIOUS
  <2> QED BY <1>1, <2>1, <2>2 DEF Size
<1>3. a \in Nat
  BY AddrNat
<1>4. First(Single(a)) = a
  BY <1>1, <1>2, <1>3 DEF First
<1>5. Last(Single(a)) = a
  BY <1>2, <1>3, <1>4 DEF Last
<1> QED BY <1>1, <1>3, <1>4, <1>5 DEF Masked, Members, Single

\* Two ranges of one address that hold the same address are the same.
LEMMA FullLength ==
  ASSUME NEW r \in Range, r.len = Bits, NEW a \in Members(r)
  PROVE  r = Single(a)
<1>1. r = Single(r.addr) /\ r.addr \in Addr
  BY DEF Range, Single
<1>2. Members(r) = {r.addr}
  BY <1>1, SingleRange
<1> QED BY <1>1, <1>2

(***************************************************************************)
(* The search for an address: hosts() without what is reserved is the      *)
(* interval of the addresses for peers, which is empty in a small subnet,  *)
(* and the search gives its first free address.                            *)
(***************************************************************************)

LEMMA HostsAreMembers == ASSUME NEW n \in Range PROVE Hosts(n) \subseteq Members(n)
<1>1. First(n) \in Nat /\ Last(n) \in Nat
  BY RangeBounds, AddrNat
<1> QED BY <1>1 DEF Hosts, Members

LEMMA PeerHosts ==
  ASSUME NEW n \in Range
  PROVE  Hosts(n) \ Reserved(n) = (First(n) + 2)..(Last(n) - 1)
<1>1. First(n) \in Nat /\ Last(n) \in Nat /\ Size(n) \in Nat \ {0} /\ Last(n) = First(n) + Size(n) - 1
  BY RangeBounds, AddrNat
<1>2. CASE Size(n) <= 2
  <2>1. Hosts(n) \subseteq {First(n), Last(n)}
    BY <1>1, <1>2 DEF Hosts, Members
  <2>2. (First(n) + 2)..(Last(n) - 1) = {}
    BY <1>1, <1>2
  <2> QED BY <2>1, <2>2 DEF Reserved
<1>3. CASE Size(n) > 2
  <2>1. Hosts(n) = (First(n) + 1)..(Last(n) - 1)
    BY <1>1, <1>3 DEF Hosts
  <2>2. First(n) + 1 \in Hosts(n) /\ \A g \in Hosts(n) : First(n) + 1 <= g
    BY <1>1, <1>3, <2>1
  <2> DEFINE server == CHOOSE h \in Hosts(n) : \A g \in Hosts(n) : h <= g
  <2>3. server \in Hosts(n) /\ \A g \in Hosts(n) : server <= g
    BY <2>2
  <2>4. Reserved(n) = {First(n), Last(n), server}
    BY DEF Reserved
  <2> HIDE DEF server
  <2>5. server = First(n) + 1
    BY <1>1, <2>1, <2>2, <2>3
  <2> QED BY <1>1, <2>1, <2>4, <2>5
<1> QED BY <1>1, <1>2, <1>3

LEMMA FreeAddrs == ASSUME subnet \in Range, NEW used PROVE Free(used) = PeerAddrs \ used
  BY PeerHosts DEF Free, PeerAddrs

LEMMA Minimum ==
  ASSUME NEW S \in SUBSET Nat, S # {}
  PROVE  \E a \in S : \A b \in S : a <= b
<1> DEFINE R == {p \in Nat \X Nat : p[1] < p[2]}
<1>1. IsWellFoundedOn(R, Nat)
  BY NatLessThanWellFounded DEF OpToRel
<1>2. \E x \in S : \A y \in S : ~ (<<y, x>> \in R)
  BY <1>1, WFMin
<1>3. PICK x \in S : \A y \in S : ~ (<<y, x>> \in R)
  BY <1>2
<1>4. ASSUME NEW y \in S, y < x PROVE <<y, x>> \in R
  <2>1. <<y, x>> \in Nat \X Nat
    OBVIOUS
  <2> QED BY <1>4, <2>1
<1> HIDE DEF R
<1>5. ASSUME NEW y \in S PROVE ~ (y < x)
  BY <1>3, <1>4
<1> QED BY <1>5

\* What is answered is in the subnet and nobody's.
LEMMA AnswerFree ==
  ASSUME subnet \in Range, NEW manual, NEW used, NEW a \in Answer(manual, used)
  PROVE  a \in Members(subnet) /\ a \notin used
<1>1. CASE manual = NoAddr
  BY <1>1, HostsAreMembers DEF Answer, NextFree, Free
<1>2. CASE manual # NoAddr
  BY <1>2 DEF Answer
<1> QED BY <1>1, <1>2

(***************************************************************************)
(* Type correctness, which is inductive: what is answered is in the        *)
(* subnet, and masking a range keeps it a range.                           *)
(***************************************************************************)

LEMMA SubnetRange == ASSUME TypeOK PROVE subnet \in Range
  BY RangesAssumption DEF TypeOK

LEMMA RoutesType ==
  ASSUME NEW rs \in SUBSET Row, NEW R \in Routings(rs)
  PROVE  R \subseteq Route
<1>1. \A r \in rs : \A i \in r.ips : [key |-> r.key, range |-> Masked(i)] \in Route
  BY RangeType DEF Row, Route
<1>2. RoutesOf(rs) \subseteq Route
  BY <1>1 DEF RoutesOf
<1> QED BY <1>2 DEF Routings

\* The row of a created peer.
CreatedRow(k, a) == [key |-> k, ips |-> {Single(a)}, from |-> "create"]

LEMMA SyncType == ASSUME live \subseteq Route, rows' \subseteq Row, Sync PROVE live' \subseteq Route
  BY RoutesType DEF Sync

LEMMA CreateType ==
  ASSUME TypeOK, NEW k \in Keys, NEW manual, NEW dump, Create(k, manual, dump)
  PROVE  TypeOK'
<1>1. PICK a \in Answer(manual, Used(dump)) :
        /\ rows' = rows \cup {CreatedRow(k, a)}
        /\ \/ Sync
           \/ live' = {x \in live : x.range # Single(a)} \cup {[key |-> k, range |-> Single(a)]}
  BY DEF Create, CreatedRow
<1>2. subnet' = subnet /\ subnet \in Range
  BY SubnetRange DEF Create
<1>3. a \in Members(subnet) /\ a \in Addr
  BY <1>2, AnswerFree, RangeType
<1>4. Single(a) \in Range
  BY <1>3, SingleRange
<1>5. CreatedRow(k, a) \in Row /\ CreatedRow(k, a).ips = {Single(a)}
  BY <1>4 DEF CreatedRow, Row
<1>6. rows' \subseteq Row
  BY <1>1, <1>5 DEF TypeOK
<1>7. live' \subseteq Route
  <2>1. CASE Sync
    BY <1>6, <2>1, SyncType DEF TypeOK
  <2>2. CASE live' = {x \in live : x.range # Single(a)} \cup {[key |-> k, range |-> Single(a)]}
    BY <1>4, <2>2 DEF TypeOK, Route
  <2> QED BY <1>1, <2>1, <2>2
<1>8. \A r \in rows' : r.from = "create" => \E b \in Members(subnet) : r.ips = {Single(b)}
  BY <1>1, <1>3, <1>5 DEF TypeOK
<1>9. Members(subnet)' = Members(subnet)
  BY <1>2 DEF Members, First, Last, Size
<1> QED BY <1>2, <1>6, <1>7, <1>8, <1>9 DEF TypeOK

LEMMA InitType == Init => TypeOK
<1> SUFFICES ASSUME Init PROVE TypeOK
  OBVIOUS
<1>1. rows \subseteq Row /\ \A r \in rows : r.from = "import"
  <2>1. CASE rows = {}
    BY <2>1
  <2>2. ASSUME NEW k \in Keys, NEW text \in Imported,
               rows = {[key |-> k, ips |-> text, from |-> "import"]}
        PROVE  rows \subseteq Row /\ \A r \in rows : r.from = "import"
    BY <2>2, RangesAssumption DEF Row
  <2> QED BY <2>1, <2>2 DEF Init
<1>2. live \subseteq Route
  BY <1>1, RoutesType DEF Init
<1> QED BY <1>1, <1>2 DEF Init, TypeOK

LEMMA TypeStep == TypeOK /\ [Next]_vars => TypeOK'
<1> SUFFICES ASSUME TypeOK, [Next]_vars PROVE TypeOK'
  OBVIOUS
<1> DEFINE Created(rs) == \A r \in rs : r.from = "create" => \E b \in Members(subnet) : r.ips = {Single(b)}
<1>1. ASSUME subnet' = subnet, rows' \subseteq rows, live' \subseteq Route PROVE TypeOK'
  <2>1. Members(subnet)' = Members(subnet)
    BY <1>1 DEF Members, First, Last, Size
  <2> QED BY <1>1, <2>1 DEF TypeOK
<1>2. CASE UNCHANGED vars
  BY <1>1, <1>2 DEF vars, TypeOK
<1>3. CASE CreatePeer
  BY <1>3, CreateType DEF CreatePeer
<1>4. CASE CreateBlind
  BY <1>4, CreateType DEF CreateBlind
<1>5. CASE Delete
  <2>1. PICK r \in rows : rows' = rows \ {r} /\ (Sync \/ live' = {x \in live : x.key # r.key})
    BY <1>5 DEF Delete
  <2>2. rows' \subseteq Row
    BY <2>1 DEF TypeOK
  <2>3. live' \subseteq Route
    BY <2>1, <2>2, SyncType DEF TypeOK
  <2> QED BY <1>1, <1>5, <2>1, <2>3 DEF Delete
<1>6. CASE HostSets
  <2>1. \A g \in HostRanges : Masked(g) \in Range
    BY RangeType, RangesAssumption
  <2>2. live' \subseteq Route
    BY <1>6, <2>1 DEF HostSets, TypeOK, Route
  <2> QED BY <1>1, <1>6, <2>2 DEF HostSets
<1>7. CASE HostDown
  BY <1>1, <1>7 DEF HostDown
<1> QED BY <1>2, <1>3, <1>4, <1>5, <1>6, <1>7 DEF Next

\* The type invariant TypeOK: a created peer has one address, of the subnet.
THEOREM TypeCorrect == Spec => []TypeOK
  BY InitType, TypeStep, PTL DEF Spec

(***************************************************************************)
(* The search                                                              *)
(***************************************************************************)

\* Free holds what it was asked to, and a free address makes a first one.
LEMMA SearchFinds ==
  ASSUME subnet \in Range, NEW used, NextFree(used) = {}
  PROVE  PeerAddrs \subseteq used
<1>1. Free(used) \subseteq Nat
  BY HostsAreMembers, RangeType, AddrNat DEF Free
<1>2. Free(used) = {}
  BY <1>1, Minimum DEF NextFree
<1> QED BY <1>2, FreeAddrs

\* A subnet is refused as full only if every address for peers is in use
\* (RefusedOnlyWhenFull), however small or large the subnet.
THEOREM OnlyFullIsRefused == Spec => []RefusedOnlyWhenFull
<1>1. TypeOK => RefusedOnlyWhenFull
  BY SubnetRange, SearchFinds DEF RefusedOnlyWhenFull
<1> QED BY TypeCorrect, <1>1, PTL

\* The address that is given is the first free one (NextFreeIsGiven), in every
\* subnet.
THEOREM FirstFreeIsGiven == Spec => NextFreeIsGiven
<1>1. ASSUME TypeOK, NEW k \in Keys, Create(k, NoAddr, live)
      PROVE  \E r \in rows' \ rows, a \in PeerAddrs :
               /\ r.ips = {Single(a)} /\ a \notin Used(live)
               /\ (First(subnet) + 2)..(a - 1) \subseteq Used(live)
  <2>1. subnet \in Range /\ First(subnet) \in Nat /\ Last(subnet) \in Nat
    BY <1>1, SubnetRange, RangeBounds, AddrNat
  <2>2. PICK a \in NextFree(Used(live)) : rows' = rows \cup {CreatedRow(k, a)}
    BY <1>1 DEF Create, Answer, CreatedRow
  <2>3. CreatedRow(k, a) \notin rows
    BY <1>1 DEF Create, CreatedRow
  <2>4. a \in PeerAddrs /\ a \notin Used(live) /\ \A b \in PeerAddrs \ Used(live) : a <= b
    BY <2>1, <2>2, FreeAddrs DEF NextFree
  <2>5. ASSUME NEW b \in (First(subnet) + 2)..(a - 1) PROVE b \in Used(live)
    BY <2>1, <2>4 DEF PeerAddrs
  <2>6. CreatedRow(k, a).ips = {Single(a)}
    BY DEF CreatedRow
  <2> QED BY <2>2, <2>3, <2>4, <2>5, <2>6
<1>2. TypeOK /\ [Next]_vars =>
        [\A k \in Keys : Create(k, NoAddr, live) =>
           \E r \in rows' \ rows, a \in PeerAddrs :
             /\ r.ips = {Single(a)} /\ a \notin Used(live)
             /\ (First(subnet) + 2)..(a - 1) \subseteq Used(live)]_vars
  BY <1>1
<1> QED BY TypeCorrect, <1>2, PTL DEF Spec, NextFreeIsGiven

(***************************************************************************)
(* No address is given twice: the table is searched even if the dump shows *)
(* nothing, and a column with one address is understood.                   *)
(***************************************************************************)

LEMMA TwiceStep == TypeOK /\ TwiceOnlyWithSeveral /\ [Next]_vars => TwiceOnlyWithSeveral'
<1> SUFFICES ASSUME TypeOK, TwiceOnlyWithSeveral, [Next]_vars PROVE TwiceOnlyWithSeveral'
  OBVIOUS
<1>1. ASSUME rows' \subseteq rows PROVE TwiceOnlyWithSeveral'
  BY <1>1 DEF TwiceOnlyWithSeveral
<1>2. ASSUME NEW k \in Keys, NEW manual, NEW dump, Create(k, manual, dump)
      PROVE  TwiceOnlyWithSeveral'
  <2>1. PICK a \in Answer(manual, Used(dump)) : rows' = rows \cup {CreatedRow(k, a)}
    BY <1>2 DEF Create, CreatedRow
  <2>2. a \notin Used(dump)
    BY <2>1, SubnetRange, AnswerFree
  <2>3. ASSUME NEW r \in rows, Cardinality(r.ips) = 1 PROVE a \notin {i.addr : i \in r.ips}
    <3>1. Parsed(r) = {i.addr : i \in r.ips}
      BY <2>3 DEF Parsed
    <3> QED BY <2>2, <3>1 DEF Used
  <2>4. {i.addr : i \in CreatedRow(k, a).ips} = {a}
    BY DEF CreatedRow, Single
  <2> QED BY <2>1, <2>3, <2>4 DEF TwiceOnlyWithSeveral
<1> QED BY <1>1, <1>2 DEF Next, CreatePeer, CreateBlind, Delete, HostSets, HostDown, vars

\* Two peers have one address only if one was imported with several ranges
\* (TwiceOnlyWithSeveral), whatever the dump shows and whatever fails.
THEOREM OnlySeveralGiveTwice == Spec => []TwiceOnlyWithSeveral
<1>1. Init => TwiceOnlyWithSeveral
  BY DEF Init, TwiceOnlyWithSeveral
<1> QED BY InitType, TypeStep, TwiceStep, <1>1, PTL DEF Spec
=============================================================================
