--------------------------- MODULE ConfTextProofs ---------------------------
(***************************************************************************)
(* Theorems about the parser and the builder of ConfText: of texts and     *)
(* tables of any length, with any names, keys and addresses.               *)
(***************************************************************************)
EXTENDS ConfText, TLAPS, WellFoundedInduction, SequenceTheorems

(***************************************************************************)
(* First and last of sets of line numbers                                  *)
(***************************************************************************)

LEMMA Minimum ==
  ASSUME NEW S \in SUBSET Nat, S # {}
  PROVE  \E a \in S : \A b \in S : a <= b
<1> DEFINE R == {p \in Nat \X Nat : p[1] < p[2]}
<1>1. IsWellFoundedOn(R, Nat)
  BY NatLessThanWellFounded DEF OpToRel
<1>2. \E x \in S : \A y \in S : ~ (<<y, x>> \in R)
  BY <1>1, WFMin
<1>3. PICK x \in S : \A y \in S : ~ (<<y, x>> \in R)
  BY <1>2
<1>4. ASSUME NEW y \in S, y < x PROVE <<y, x>> \in R
  <2>1. <<y, x>> \in Nat \X Nat
    OBVIOUS
  <2> QED BY <1>4, <2>1
<1> HIDE DEF R
<1>5. ASSUME NEW y \in S PROVE ~ (y < x)
  BY <1>3, <1>4
<1> QED BY <1>5

LEMMA FirstIn ==
  ASSUME NEW S \in SUBSET Nat, S # {}
  PROVE  FirstOf(S) \in S /\ \A b \in S : FirstOf(S) <= b
  BY Minimum DEF FirstOf

LEMMA LastIn ==
  ASSUME NEW n \in Nat, NEW S \in SUBSET (0..n), S # {}
  PROVE  LastOf(S) \in S /\ \A b \in S : b <= LastOf(S)
<1> DEFINE T == {n - s : s \in S}
<1>1. T \in SUBSET Nat /\ T # {}
  OBVIOUS
<1>2. PICK t \in T : \A b \in T : t <= b
  BY <1>1, Minimum
<1>3. PICK s \in S : t = n - s
  OBVIOUS
<1>4. \A b \in S : n - b \in T
  OBVIOUS
<1>5. ASSUME NEW b \in S PROVE b <= s
  <2>1. t <= n - b
    BY <1>2, <1>4
  <2> QED BY <1>3, <2>1
<1> HIDE DEF T
<1> QED BY <1>5 DEF LastOf

LEMMA LastIs ==
  ASSUME NEW S \in SUBSET Nat, NEW x \in S, \A b \in S : b <= x
  PROVE  LastOf(S) = x
<1> DEFINE y == CHOOSE i \in S : \A j \in S : j <= i
<1>1. y \in S /\ \A j \in S : j <= y
  OBVIOUS
<1>2. LastOf(S) = y
  BY DEF LastOf
<1> HIDE DEF y
<1> QED BY <1>1, <1>2

LEMMA FirstIs ==
  ASSUME NEW S \in SUBSET Nat, NEW x \in S, \A b \in S : x <= b
  PROVE  FirstOf(S) = x
<1> DEFINE y == CHOOSE i \in S : \A j \in S : i <= j
<1>1. y \in S /\ \A j \in S : y <= j
  OBVIOUS
<1>2. FirstOf(S) = y
  BY DEF FirstOf
<1> HIDE DEF y
<1> QED BY <1>1, <1>2


(***************************************************************************)
(* What one more line changes in the sections that were there              *)
(***************************************************************************)
Top == Len(text)

Grown(l) == text \in Seq(Lines) /\ l \in Lines /\ text' = Append(text, l)

IsStart(h) == h \in 1..Top /\ SectionStart(text[h])

\* Another section follows.
Closed(i) == \E h \in (i + 1)..Top : SectionStart(text[h])

LEMMA Growth ==
  ASSUME NEW l, Grown(l)
  PROVE  /\ Top \in Nat /\ Top' = Top + 1 /\ text' \in Seq(Lines)
         /\ \A j \in 1..Top : text[j] \in Lines /\ text'[j] = text[j]
         /\ text'[Top + 1] = l
         /\ DOMAIN text = 1..Top /\ DOMAIN text' = 1..(Top + 1)
  BY DEF Grown, Top

LEMMA BodyIn == ASSUME Top \in Nat, NEW i \in 0..Top PROVE Body(i) \subseteq (i + 1)..Top
  BY DEF Body, Top

LEMMA BodyKept ==
  ASSUME NEW l, Grown(l), NEW i \in 0..Top, Closed(i) \/ SectionStart(l)
  PROVE  Body(i)' = Body(i)
<1>1. PICK h \in (i + 1)..(Top + 1) : SectionStart(text'[h])
  BY Growth DEF Closed
<1>2. Top + 1 \notin Body(i)'
  BY <1>1, Growth DEF Body
<1>3. Body(i)' = {j \in (i + 1)..(Top + 1) : \A g \in (i + 1)..j : ~SectionStart(text'[g])}
  BY Growth DEF Body, Top
<1>4. Body(i) = {j \in (i + 1)..Top : \A g \in (i + 1)..j : ~SectionStart(text[g])}
  BY DEF Body, Top
<1>5. ASSUME NEW j \in (i + 1)..Top
      PROVE  (\A g \in (i + 1)..j : ~SectionStart(text'[g])) <=> (\A g \in (i + 1)..j : ~SectionStart(text[g]))
  <2>1. \A g \in (i + 1)..j : g \in 1..Top /\ text'[g] = text[g]
    BY Growth
  <2> QED BY <2>1
<1> QED BY <1>2, <1>3, <1>4, <1>5, Growth

LEMMA BodyGrown ==
  ASSUME NEW l, Grown(l), NEW i \in 0..Top, ~Closed(i), ~SectionStart(l)
  PROVE  Body(i)' = Body(i) \cup {Top + 1} /\ ~Closed(i)'
<1>1. \A h \in (i + 1)..(Top + 1) : ~SectionStart(text'[h])
  BY Growth DEF Closed
<1>2. \A h \in (i + 1)..Top : ~SectionStart(text[h])
  BY DEF Closed
<1>3. Body(i)' = (i + 1)..(Top + 1)
  BY <1>1, Growth DEF Body, Top
<1>4. Body(i) = (i + 1)..Top
  BY <1>2, Growth DEF Body, Top
<1> QED BY <1>1, <1>3, <1>4, Growth DEF Closed

\* The lines of a kind in a section: the new one is added if it is of the kind
\* and the section is the last one.
LEMMA KindKept ==
  ASSUME NEW l, Grown(l), NEW i \in 0..Top, NEW kind,
         Closed(i) \/ SectionStart(l) \/ l.kind # kind
  PROVE  OfKind(Body(i), kind)' = OfKind(Body(i), kind)
<1>1. Body(i) \subseteq 1..Top
  BY BodyIn, Growth
<1>2. OfKind(Body(i), kind)' = {j \in Body(i)' : text'[j].kind = kind}
  BY DEF OfKind
<1>3. {j \in Body(i) : text'[j].kind = kind} = OfKind(Body(i), kind)
  BY <1>1, Growth DEF OfKind
<1>4. CASE Closed(i) \/ SectionStart(l)
  BY <1>2, <1>3, <1>4, BodyKept
<1>5. CASE ~Closed(i) /\ ~SectionStart(l)
  <2>1. Body(i)' = Body(i) \cup {Top + 1} /\ text'[Top + 1].kind # kind
    BY <1>5, BodyGrown, Growth
  <2> QED BY <1>2, <1>3, <2>1
<1> QED BY <1>4, <1>5

LEMMA KindGrown ==
  ASSUME NEW l, Grown(l), NEW i \in 0..Top, ~Closed(i), ~SectionStart(l)
  PROVE  OfKind(Body(i), l.kind)' = OfKind(Body(i), l.kind) \cup {Top + 1}
<1>1. Body(i) \subseteq 1..Top
  BY BodyIn, Growth
<1>2. Body(i)' = Body(i) \cup {Top + 1}
  BY BodyGrown
<1>3. \A k : OfKind(Body(i), k)' = {j \in Body(i)' : text'[j].kind = k}
  BY DEF OfKind
<1>4. \A k : {j \in Body(i) : text'[j].kind = k} = OfKind(Body(i), k)
  BY <1>1, Growth DEF OfKind
<1>5. text'[Top + 1].kind = l.kind
  BY Growth
<1>6. OfKind(Body(i), l.kind)' = {j \in Body(i) \cup {Top + 1} : text'[j].kind = l.kind}
  BY <1>2, <1>3
<1>7. {j \in Body(i) : text'[j].kind = l.kind} = OfKind(Body(i), l.kind)
  BY <1>4
<1> QED BY <1>5, <1>6, <1>7

\* Keys and comments of section i are as they were.
Same(i) == /\ OfKind(Body(i), "key")' = OfKind(Body(i), "key")
           /\ OfKind(Body(i), "comment")' = OfKind(Body(i), "comment")

LEMMA KindIn ==
  ASSUME Top \in Nat, NEW i \in 0..Top, NEW kind
  PROVE  OfKind(Body(i), kind) \subseteq (i + 1)..Top
  BY BodyIn DEF OfKind

LEMMA ValueKept ==
  ASSUME NEW l, Grown(l), NEW i \in 0..Top, NEW k,
         OfKind(Body(i), "key")' = OfKind(Body(i), "key")
  PROVE  Value(i, k)' = Value(i, k)
<1> DEFINE at == {j \in OfKind(Body(i), "key") : text[j].key = k}
<1>1. OfKind(Body(i), "key") \subseteq 1..Top
  BY KindIn, Growth
<1>2. at' = at
  BY <1>1, Growth
<1>3. at \in SUBSET (0..Top)
  BY <1>1
<1>4. Value(i, k) = IF at = {} THEN NoText ELSE text[LastOf(at)].value
  BY DEF Value
<1>5. Value(i, k)' = IF at' = {} THEN NoText ELSE text'[LastOf(at)'].value
  BY DEF Value
<1>6. LastOf(at)' = LastOf(at)
  BY <1>2
<1>7. at # {} => LastOf(at) \in at
  BY <1>3, LastIn, Growth
<1>8. at \subseteq 1..Top
  BY <1>1
<1>9. at # {} => text'[LastOf(at)] = text[LastOf(at)]
  BY <1>7, <1>8, Growth
<1> HIDE DEF at
<1> QED BY <1>2, <1>4, <1>5, <1>6, <1>9

LEMMA OwnKept ==
  ASSUME NEW i, Same(i)
  PROVE  Own(i)' = Own(i)
  BY DEF Same, Own

LEMMA OwnIn == ASSUME Top \in Nat, NEW i \in 0..Top PROVE Own(i) \subseteq (i + 1)..Top
  BY KindIn DEF Own

\* The section before line i, 0 if there is none.
Prev(i) == LET starts == {h \in 1..(i - 1) : SectionStart(text[h])}
           IN IF starts = {} THEN 0 ELSE LastOf(starts)

LEMMA PrevIs ==
  ASSUME Top \in Nat, NEW i \in 1..(Top + 1)
  PROVE  /\ Prev(i) \in 0..(i - 1)
         /\ Prev(i) # 0 => IsStart(Prev(i))
         /\ \A h \in (Prev(i) + 1)..(i - 1) : ~SectionStart(text[h])
<1> DEFINE starts == {h \in 1..(i - 1) : SectionStart(text[h])}
<1>1. Prev(i) = IF starts = {} THEN 0 ELSE LastOf(starts)
  BY DEF Prev
<1>2. CASE starts = {}
  BY <1>1, <1>2
<1>3. CASE starts # {}
  <2>1. starts \in SUBSET (0..(i - 1)) /\ i - 1 \in Nat
    OBVIOUS
  <2>2. LastOf(starts) \in starts /\ \A b \in starts : b <= LastOf(starts)
    BY <1>3, <2>1, LastIn
  <2>3. Prev(i) = LastOf(starts)
    BY <1>1, <1>3
  <2> QED BY <2>2, <2>3 DEF IsStart
<1> QED BY <1>2, <1>3

LEMMA PrevUnique ==
  ASSUME NEW i \in Nat \ {0}, NEW p \in 1..(i - 1), SectionStart(text[p]),
         \A h \in (p + 1)..(i - 1) : ~SectionStart(text[h])
  PROVE  Prev(i) = p
<1> DEFINE starts == {h \in 1..(i - 1) : SectionStart(text[h])}
<1>1. starts \in SUBSET Nat /\ p \in starts /\ \A b \in starts : b <= p
  OBVIOUS
<1>2. LastOf(starts) = p
  BY <1>1, LastIs
<1> QED BY <1>1, <1>2 DEF Prev

\* The comments before section i, by the section before it.
LEMMA BeforeIs ==
  ASSUME NEW i \in Nat \ {0}
  PROVE  Before(i) = IF Prev(i) = 0 THEN OfKind(1..(i - 1), "comment")
                     ELSE IF text[Prev(i)].kind = "commented" THEN {}
                     ELSE OfKind(Body(Prev(i)), "comment")
                            \ (IF IsPeer(Prev(i)) THEN Own(Prev(i)) ELSE {})
  BY DEF Before, Prev

LEMMA BeforeIn == ASSUME Top \in Nat, NEW i \in 1..(Top + 1) PROVE Before(i) \subseteq 1..Top
<1>1. Prev(i) \in 0..Top
  BY PrevIs
<1>2. OfKind(Body(Prev(i)), "comment") \subseteq 1..Top
  BY <1>1, KindIn
<1>3. OfKind(1..(i - 1), "comment") \subseteq 1..Top
  BY DEF OfKind
<1> QED BY <1>2, <1>3, BeforeIs

\* A later line does not change which comments belong to a section.
LEMMA BeforeKept ==
  ASSUME NEW l, Grown(l), NEW i \in 1..(Top + 1), i = Top + 1 => SectionStart(l),
         i # Top + 1 => SectionStart(text[i])
  PROVE  Before(i)' = Before(i) /\ Prev(i)' = Prev(i)
<1>0. PICK p : p = Prev(i)
  OBVIOUS
<1>1. p \in 0..(i - 1) /\ p \in 0..Top /\ (p # 0 => IsStart(p))
  BY <1>0, PrevIs, Growth
<1>2. Prev(i)' = p
  <2> DEFINE starts == {h \in 1..(i - 1) : SectionStart(text[h])}
  <2>1. starts' = starts
    BY Growth
  <2>2. Prev(i) = IF starts = {} THEN 0 ELSE LastOf(starts)
    BY DEF Prev
  <2>3. Prev(i)' = IF starts' = {} THEN 0 ELSE LastOf(starts)'
    BY DEF Prev
  <2>4. LastOf(starts)' = LastOf(starts)
    BY <2>1
  <2> HIDE DEF starts
  <2> QED BY <1>0, <2>1, <2>2, <2>3, <2>4
<1>3. Closed(p) \/ SectionStart(l)
  BY <1>1, Growth DEF Closed
<1>4. Same(p)
  BY <1>1, <1>3, KindKept DEF Same
<1>5. Own(p)' = Own(p)
  BY <1>4, OwnKept
<1>6. p # 0 => (text[p]' = text[p]) /\ (IsPeer(p)' <=> IsPeer(p))
  BY <1>1, Growth DEF IsPeer, IsStart
<1>7. OfKind(1..(i - 1), "comment")' = OfKind(1..(i - 1), "comment")
  BY Growth DEF OfKind
<1>8. Before(i)' = IF p = 0 THEN OfKind(1..(i - 1), "comment")'
                   ELSE IF text'[p].kind = "commented" THEN {}
                   ELSE OfKind(Body(p), "comment")' \ (IF IsPeer(p)' THEN Own(p)' ELSE {})
  BY <1>2 DEF Before, Prev
<1>9. Before(i) = IF p = 0 THEN OfKind(1..(i - 1), "comment")
                  ELSE IF text[p].kind = "commented" THEN {}
                  ELSE OfKind(Body(p), "comment") \ (IF IsPeer(p) THEN Own(p) ELSE {})
  BY <1>0, BeforeIs
<1>10. CASE p = 0
  BY <1>0, <1>2, <1>7, <1>8, <1>9, <1>10
<1>11. CASE p # 0
  BY <1>0, <1>2, <1>4, <1>5, <1>6, <1>8, <1>9, <1>11 DEF Same
<1> QED BY <1>10, <1>11

LEMMA NameKept ==
  ASSUME NEW l, Grown(l), NEW i \in 1..Top, SectionStart(text[i]), Own(i)' = Own(i)
  PROVE  NameOf(i)' = NameOf(i)
<1>1. Before(i)' = Before(i) /\ Before(i) \in SUBSET (0..Top) /\ Before(i) \subseteq 1..Top
  BY BeforeKept, BeforeIn, Growth
<1>2. Own(i)' = Own(i) /\ Own(i) \subseteq 1..Top
  BY OwnIn, Growth
<1> DEFINE named == {c \in Own(i) : text[c].text # NoText}
           b     == LastOf(Before(i))
           o     == FirstOf(named)
<1>3. named' = named /\ named \in SUBSET Nat /\ named \subseteq 1..Top
  BY <1>2, Growth
<1>4. b' = b /\ o' = o
  BY <1>1, <1>3
<1>5. (Before(i) # {} => b \in 1..Top) /\ (named # {} => o \in 1..Top)
  BY <1>1, <1>3, LastIn, FirstIn, Growth
<1>6. NameOf(i) = IF Before(i) # {} /\ text[b].text # NoText THEN text[b].text
                  ELSE IF named # {} THEN text[o].text ELSE NoText
  BY DEF NameOf
<1>7. NameOf(i)' = IF Before(i)' # {} /\ text'[b'].text # NoText THEN text'[b'].text
                   ELSE IF named' # {} THEN text'[o'].text ELSE NoText
  BY DEF NameOf
<1>8. /\ Before(i) # {} => text'[b] = text[b]
      /\ named # {} => text'[o] = text[o]
  BY <1>5, Growth
<1> HIDE DEF named, b, o
<1> QED BY <1>1, <1>3, <1>4, <1>6, <1>7, <1>8

LEMMA SaysKept ==
  ASSUME NEW l, Grown(l), NEW i \in 1..Top, SectionStart(text[i]), Same(i)
  PROVE  Says(i)' = Says(i)
<1>1. /\ Value(i, "PublicKey")' = Value(i, "PublicKey")
      /\ Value(i, "AllowedIPs")' = Value(i, "AllowedIPs")
  BY ValueKept DEF Same
<1>2. NameOf(i)' = NameOf(i)
  BY NameKept, OwnKept
<1> QED BY <1>1, <1>2 DEF Says, Peer

(***************************************************************************)
(* The sections that are listed                                            *)
(***************************************************************************)

\* The section that is being read, 0 before the first.
Current == Prev(Top + 1)

Listed == PeerSections \ CutOff

LEMMA CurrentIs ==
  ASSUME Top \in Nat
  PROVE  /\ Current \in 0..Top /\ (Current # 0 => IsStart(Current)) /\ ~Closed(Current)
         /\ \A i \in 1..Top : SectionStart(text[i]) => i = Current \/ Closed(i)
         /\ \A i \in 1..Top : SectionStart(text[i]) => i <= Current
<1>1. /\ Current \in 0..Top /\ (Current # 0 => IsStart(Current))
      /\ \A h \in (Current + 1)..Top : ~SectionStart(text[h])
  BY PrevIs DEF Current
<1> QED BY <1>1 DEF Closed, IsStart

LEMMA CurrentKept ==
  ASSUME NEW l, Grown(l), ~SectionStart(l)
  PROVE  Current' = Current
<1> DEFINE starts == {h \in 1..Top : SectionStart(text[h])}
<1>0. (Top + 1) - 1 = Top /\ (Top' + 1) - 1 = Top'
  BY Growth
<1>1. starts' = starts
  BY Growth
<1>2. Current = IF starts = {} THEN 0 ELSE LastOf(starts)
  BY <1>0 DEF Current, Prev
<1>3. Current' = IF starts' = {} THEN 0 ELSE LastOf(starts)'
  BY <1>0 DEF Current, Prev
<1>4. LastOf(starts)' = LastOf(starts)
  BY <1>1
<1> HIDE DEF starts
<1> QED BY <1>1, <1>2, <1>3, <1>4

LEMMA CurrentNext ==
  ASSUME NEW l, Grown(l), SectionStart(l), NEW n, n = Top
  PROVE  Current' = n + 1 /\ \A kind : OfKind(Body(n + 1), kind)' = {}
<1> DEFINE starts == {h \in 1..Top : SectionStart(text[h])}
<1>0. (Top' + 1) - 1 = Top' /\ n \in Nat /\ Top' = n + 1
  BY Growth
<1>1. starts' \in SUBSET Nat /\ n + 1 \in starts' /\ \A b \in starts' : b <= n + 1
  BY Growth
<1>2. LastOf(starts') = n + 1
  BY <1>1, LastIs, Growth
<1>3. Current' = IF starts' = {} THEN 0 ELSE LastOf(starts')
  BY <1>0 DEF Current, Prev
<1>4. Body(n + 1)' = {}
  BY <1>0 DEF Body, Top
<1> QED BY <1>1, <1>2, <1>3, <1>4 DEF OfKind

LEMMA PeerIsStart ==
  /\ SectionStart(Header("Interface", TRUE))
  /\ \A i : IsPeer(i) \/ text[i] = Header("Interface", TRUE) => SectionStart(text[i])
  BY DEF IsPeer, SectionStart, Header

\* What is known of a section that another one follows does not change.
LEMMA ClosedKept ==
  ASSUME NEW l, Grown(l), NEW i \in 1..Top, Closed(i)
  PROVE  /\ i \in Listed' <=> i \in Listed
         /\ Same(i)
<1>1. Same(i)
  BY KindKept DEF Same
<1>2. i \in PeerSections' <=> i \in PeerSections
  BY <1>1, Growth DEF Same, PeerSections, IsPeer
<1>3. PICK h \in (i + 1)..Top : SectionStart(text[h])
  BY DEF Closed
<1> DEFINE Cut(j) == /\ j > i /\ text[j] = Header("Interface", TRUE)
                     /\ \A g \in (i + 1)..(j - 1) : ~SectionStart(text[g])
<1>4. ASSUME NEW j \in 1..Top PROVE Cut(j)' <=> Cut(j)
  <2>1. text'[j] = text[j] /\ \A g \in (i + 1)..(j - 1) : text'[g] = text[g]
    BY Growth
  <2> QED BY <2>1
<1>5. ASSUME NEW j \in 1..Top', j \notin 1..Top PROVE ~Cut(j)'
  <2>1. h \in (i + 1)..(j - 1) /\ text'[h] = text[h]
    BY <1>3, <1>5, Growth
  <2> QED BY <1>3, <2>1
<1>6. i \in CutOff <=> i \in PeerSections /\ \E j \in 1..Top : Cut(j)
  BY Growth DEF CutOff
<1>7. i \in CutOff' <=> i \in PeerSections' /\ \E j \in 1..Top' : Cut(j)'
  BY Growth DEF CutOff
<1>8. 1..Top \subseteq 1..Top'
  BY Growth
<1> HIDE DEF Cut
<1>9. (\E j \in 1..Top' : Cut(j)') <=> (\E j \in 1..Top : Cut(j))
  BY <1>4, <1>5, <1>8
<1> QED BY <1>1, <1>2, <1>6, <1>7, <1>9 DEF Listed

\* The section being read is listed if it is one of a peer and has a key ...
LEMMA LastUncut ==
  ASSUME DOMAIN text = 1..Top, Top \in Nat, NEW c \in 0..Top, ~Closed(c)
  PROVE  c \notin CutOff
<1> SUFFICES ASSUME c \in CutOff PROVE FALSE
  OBVIOUS
<1>1. PICK j \in 1..Top : j > c /\ text[j] = Header("Interface", TRUE)
  BY DEF CutOff
<1>2. SectionStart(text[j])
  BY <1>1, PeerIsStart
<1>3. j \in (c + 1)..Top
  BY <1>1
<1> QED BY <1>2, <1>3 DEF Closed

LEMMA CurrentListed ==
  ASSUME Top \in Nat, DOMAIN text = 1..Top
  PROVE  Current \in Listed <=>
           Current # 0 /\ IsPeer(Current) /\ OfKind(Body(Current), "key") # {}
<1>1. Current \in 0..Top /\ ~Closed(Current)
  BY CurrentIs
<1>2. Current \notin CutOff
  BY <1>1, LastUncut
<1> QED BY <1>1, <1>2 DEF Listed, PeerSections

\* ... until an [Interface] section follows.
LEMMA CurrentCut ==
  ASSUME NEW l, Grown(l), SectionStart(l), Current # 0
  PROVE  Current \in Listed' <=> Current \in Listed /\ l # Header("Interface", TRUE)
<1>0. PICK c, n : c = Current /\ n = Top
  OBVIOUS
<1>1. c \in 1..Top /\ ~Closed(c)
  BY <1>0, CurrentIs, Growth
<1>2. c \in PeerSections' <=> c \in PeerSections
  <2>1. OfKind(Body(c), "key")' = OfKind(Body(c), "key")
    BY <1>1, KindKept
  <2> QED BY <1>1, <2>1, Growth DEF PeerSections, IsPeer
<1>3. c \notin CutOff
  BY <1>1, LastUncut, Growth
<1>4. \A h \in (c + 1)..n : ~SectionStart(text'[h]) /\ text'[h] # Header("Interface", TRUE)
  <2>1. \A h \in (c + 1)..n : ~SectionStart(text[h]) /\ text'[h] = text[h]
    BY <1>0, <1>1, Growth DEF Closed
  <2> QED BY <2>1, PeerIsStart
<1>5. (n + 1) - 1 = n /\ n + 1 > c /\ text'[n + 1] = l /\ DOMAIN text' = 1..(n + 1) /\ n \in Nat
  BY <1>0, <1>1, Growth
<1>6. c \in CutOff' <=> c \in PeerSections' /\ l = Header("Interface", TRUE)
  <2>1. ASSUME c \in CutOff' PROVE l = Header("Interface", TRUE)
    <3>1. PICK j \in 1..(n + 1) : j > c /\ text'[j] = Header("Interface", TRUE)
      BY <1>5, <2>1 DEF CutOff
    <3>2. c \in Nat /\ j \in (c + 1)..(n + 1)
      BY <1>0, <1>1, <1>5, <3>1
    <3>3. j \notin (c + 1)..n
      BY <1>4, <3>1
    <3>4. j = n + 1
      BY <1>5, <3>2, <3>3
    <3> QED BY <1>5, <3>1, <3>4
  <2>2. ASSUME c \in PeerSections', l = Header("Interface", TRUE) PROVE c \in CutOff'
    <3>1. n + 1 \in DOMAIN text' /\ n + 1 > c /\ text'[n + 1] = Header("Interface", TRUE)
      BY <1>5, <2>2
    <3>2. \A h \in (c + 1)..((n + 1) - 1) : ~SectionStart(text'[h])
      BY <1>4, <1>5
    <3> QED BY <2>2, <3>1, <3>2 DEF CutOff
  <2>3. c \in CutOff' => c \in PeerSections'
    BY DEF CutOff
  <2> QED BY <2>1, <2>2, <2>3
<1> QED BY <1>0, <1>2, <1>3, <1>6 DEF Listed

LEMMA NewUnlisted == ASSUME NEW l, Grown(l), NEW n, n = Top PROVE n + 1 \notin Listed'
<1>1. CASE SectionStart(l)
  <2>1. OfKind(Body(n + 1), "key")' = {}
    BY <1>1, CurrentNext
  <2> QED BY <2>1 DEF Listed, PeerSections
<1>2. CASE ~SectionStart(l)
  <2>1. ~IsPeer(n + 1)'
    BY <1>2, Growth DEF IsPeer, SectionStart
  <2> QED BY <2>1 DEF Listed, PeerSections
<1> QED BY <1>1, <1>2

\* Sections before the one being read stay as they are listed.
LEMMA ListedKept ==
  ASSUME NEW l, Grown(l)
  PROVE  /\ ~SectionStart(l) => (Listed \ {Current})' = Listed \ {Current}
         /\ l = Header("Interface", TRUE) => (Listed \ {Current})' = Listed \ {Current}
         /\ SectionStart(l) /\ l # Header("Interface", TRUE) => (Listed \ {Current})' = Listed
<1>1. Listed \subseteq 1..Top /\ Listed' \subseteq 1..(Top + 1)
  BY Growth DEF Listed, PeerSections
<1>2. \A i \in Listed : i = Current \/ Closed(i)
  BY <1>1, CurrentIs, PeerIsStart, Growth DEF Listed, PeerSections
<1>3. \A i \in Listed' : i \in 1..Top /\ SectionStart(text[i])
  <2>1. \A i \in Listed' : i \in 1..Top
    BY <1>1, NewUnlisted, Growth
  <2>2. \A i \in Listed' : SectionStart(text'[i])
    BY DEF Listed, PeerSections, IsPeer, SectionStart
  <2> QED BY <2>1, <2>2, Growth
<1>4. \A i \in Listed' : i = Current \/ Closed(i)
  BY <1>3, CurrentIs, Growth
<1>5. \A i \in 1..Top : Closed(i) => (i \in Listed' <=> i \in Listed)
  BY ClosedKept
<1>6. \A i : i # Current => (i \in Listed' <=> i \in Listed)
  BY <1>1, <1>2, <1>3, <1>4, <1>5
<1>7. CASE ~SectionStart(l)
  <2>1. Current' = Current
    BY <1>7, CurrentKept
  <2>2. l # Header("Interface", TRUE)
    BY <1>7 DEF SectionStart, Header
  <2> QED BY <1>6, <1>7, <2>1, <2>2
<1>8. CASE SectionStart(l)
  <2>1. Current' = Top + 1 /\ Top + 1 \notin Listed' /\ 0 \notin Listed /\ 0 \notin Listed'
    BY <1>1, <1>8, CurrentNext, NewUnlisted, Growth
  <2>2. Current # 0 => (Current \in Listed' <=> Current \in Listed /\ l # Header("Interface", TRUE))
    BY <1>8, CurrentCut
  <2> QED BY <1>6, <1>8, <2>1, <2>2
<1> QED BY <1>7, <1>8

LEMMA ListsKept ==
  ASSUME NEW found, NEW I, Lists(found, I), \A i \in I : Says(i)' = Says(i)
  PROVE  \E at \in [DOMAIN found -> I] :
           /\ I = {at[n] : n \in DOMAIN found}
           /\ \A m, n \in DOMAIN found : m < n => at[m] < at[n]
           /\ \A n \in DOMAIN found : found[n] = Says(at[n])'
<1>1. PICK at \in [DOMAIN found -> I] :
        /\ I = {at[n] : n \in DOMAIN found}
        /\ \A m, n \in DOMAIN found : m < n => at[m] < at[n]
        /\ \A n \in DOMAIN found : found[n] = Says(at[n])
  BY DEF Lists
<1>2. \A n \in DOMAIN found : at[n] \in I
  OBVIOUS
<1>3. \A n \in DOMAIN found : Says(at[n])' = Says(at[n])
  BY <1>2
<1> QED BY <1>1, <1>3

LEMMA ListsAppended ==
  ASSUME NEW X, NEW found \in Seq(X), NEW I \in SUBSET Nat, NEW c \in Nat,
         \A i \in I : i < c, Lists(found, I)
  PROVE  Lists(Append(found, Says(c)), I \cup {c})
<1> DEFINE long == Append(found, Says(c))
           m    == Len(found) + 1
<1>1. PICK at \in [DOMAIN found -> I] :
        /\ I = {at[n] : n \in DOMAIN found}
        /\ \A k, n \in DOMAIN found : k < n => at[k] < at[n]
        /\ \A n \in DOMAIN found : found[n] = Says(at[n])
  BY DEF Lists
<1>2. /\ DOMAIN found = 1..Len(found) /\ DOMAIN long = 1..m /\ Len(found) \in Nat
      /\ \A n \in 1..Len(found) : long[n] = found[n]
      /\ long[m] = Says(c)
  OBVIOUS
<1> HIDE DEF long
<1> DEFINE more == [n \in 1..m |-> IF n = m THEN c ELSE at[n]]
<1>3. \A n \in 1..Len(found) : n \in 1..m /\ n # m /\ more[n] = at[n] /\ at[n] \in I
  BY <1>2
<1>4. m \in 1..m /\ more[m] = c
  BY <1>2
<1>5. \A n \in 1..m : n = m \/ n \in 1..Len(found)
  BY <1>2
<1>6. more \in [DOMAIN long -> I \cup {c}]
  BY <1>2, <1>3, <1>4, <1>5
<1> HIDE DEF more
<1>7. I \cup {c} = {more[n] : n \in DOMAIN long}
  <2>1. ASSUME NEW x \in I \cup {c} PROVE \E n \in DOMAIN long : x = more[n]
    <3>1. CASE x = c
      BY <1>2, <1>4, <3>1
    <3>2. CASE x \in I
      <4>1. PICK n \in 1..Len(found) : x = at[n]
        BY <1>1, <1>2, <3>2
      <4> QED BY <1>2, <1>3, <4>1
    <3> QED BY <3>1, <3>2
  <2>2. \A n \in DOMAIN long : more[n] \in I \cup {c}
    BY <1>2, <1>3, <1>4, <1>5
  <2> QED BY <2>1, <2>2
<1>8. ASSUME NEW k \in DOMAIN long, NEW n \in DOMAIN long, k < n PROVE more[k] < more[n]
  <2>1. k \in 1..Len(found)
    BY <1>2, <1>5, <1>8
  <2>2. CASE n = m
    BY <1>3, <1>4, <2>1, <2>2
  <2>3. CASE n \in 1..Len(found)
    BY <1>1, <1>2, <1>3, <1>8, <2>1, <2>3
  <2> QED BY <1>2, <1>5, <2>2, <2>3
<1>9. \A n \in DOMAIN long : long[n] = Says(more[n])
  BY <1>1, <1>2, <1>3, <1>4, <1>5
<1>10. Lists(long, I \cup {c})
  BY <1>6, <1>7, <1>8, <1>9 DEF Lists
<1> QED BY <1>10 DEF long

(***************************************************************************)
(* Type correctness. The parser's state is a record of texts and dicts.    *)
(***************************************************************************)
Texts  == Names \cup {NoText}
Values == PeerKeys \cup Addresses
Dicts  == UNION {[D -> Values] : D \in SUBSET {"PublicKey", "AllowedIPs"}}

FoundPeer == [key : Values \cup {NoText}, ips : Values \cup {NoText}, name : Texts]

ParserState ==
  [state : {"none", "interface", "peer", "commented"}, kv : Dicts, pending : Texts,
   name : Texts, interface : Dicts, peers : Seq(FoundPeer)]

Typed(kv) == kv \in Dicts /\ \A k \in DOMAIN kv : KeyValue(k, kv[k]) \in Lines

TypeInv == /\ text \in Seq(Lines) /\ Len(text) <= MaxLines
           /\ st \in ParserState /\ Typed(st.kv) /\ Typed(st.interface)
           /\ st.state # "peer" => st.kv = NoKeys

\* The lines there are.
LEMMA LineCases ==
  ASSUME NEW l \in Lines
  PROVE  \/ l = Header("Interface", TRUE)
         \/ \E f \in BOOLEAN : l = Header("Peer", f)
         \/ l = CommentedHeader
         \/ \E c \in Texts : l = Comment(c)
         \/ \E k \in {"PublicKey", "AllowedIPs"}, v \in Values :
              l = KeyValue(k, v) /\ KeyValue(k, v) \in Lines
         \/ l \in {Blank, Header("Other", TRUE)}
<1>1. \/ l \in {Blank, CommentedHeader, Header("Interface", TRUE), Header("Other", TRUE)}
      \/ l \in {Header("Peer", f) : f \in BOOLEAN}
      \/ l \in {Comment(c) : c \in Texts}
      \/ l \in {KeyValue("PublicKey", k) : k \in PeerKeys}
      \/ l \in {KeyValue("AllowedIPs", a) : a \in Addresses}
  BY DEF Lines, Texts
<1>2. CASE l \in {Blank, CommentedHeader, Header("Interface", TRUE), Header("Other", TRUE)}
  BY <1>2
<1>3. CASE l \in {Header("Peer", f) : f \in BOOLEAN}
  <2>1. PICK f \in BOOLEAN : l = Header("Peer", f)
    BY <1>3
  <2> QED BY <2>1
<1>4. CASE l \in {Comment(c) : c \in Texts}
  <2>1. PICK c \in Texts : l = Comment(c)
    BY <1>4
  <2> QED BY <2>1
<1>5. CASE l \in {KeyValue("PublicKey", k) : k \in PeerKeys}
  <2>1. PICK k \in PeerKeys : l = KeyValue("PublicKey", k)
    BY <1>5
  <2>2. k \in Values /\ KeyValue("PublicKey", k) \in Lines
    BY <2>1 DEF Values
  <2> QED BY <2>1, <2>2
<1>6. CASE l \in {KeyValue("AllowedIPs", a) : a \in Addresses}
  <2>1. PICK a \in Addresses : l = KeyValue("AllowedIPs", a)
    BY <1>6
  <2>2. a \in Values /\ KeyValue("AllowedIPs", a) \in Lines
    BY <2>1 DEF Values
  <2> QED BY <2>1, <2>2
<1> QED BY <1>1, <1>2, <1>3, <1>4, <1>5, <1>6

\* What the parser does with each.
LEMMA KeyLine ==
  ASSUME NEW s, NEW k, NEW v
  PROVE  ParseLine(s, KeyValue(k, v)) = OnKey(s, k, v)
  BY DEF ParseLine, Header, KeyValue

LEMMA ParseCases ==
  ASSUME NEW s
  PROVE  /\ ParseLine(s, Header("Interface", TRUE)) = OnInterface(s)
         /\ \A f \in BOOLEAN : ParseLine(s, Header("Peer", f)) = OnPeer(s)
         /\ ParseLine(s, CommentedHeader) = OnCommented(s)
         /\ \A c \in Texts : ParseLine(s, Comment(c)) = OnComment(s, c)
         /\ \A l \in {Blank, Header("Other", TRUE)} : ParseLine(s, l) = s
<1>1. ParseLine(s, Header("Interface", TRUE)) = OnInterface(s)
  <2>1. \A f \in BOOLEAN : Header("Interface", TRUE) # Header("Peer", f)
    BY DEF Header
  <2>2. Header("Interface", TRUE).kind = "header"
    BY DEF Header
  <2> QED BY <2>1, <2>2 DEF ParseLine
<1>2. \A f \in BOOLEAN : ParseLine(s, Header("Peer", f)) = OnPeer(s)
  BY DEF ParseLine, Header
<1>3. ParseLine(s, CommentedHeader) = OnCommented(s)
  BY DEF ParseLine, Header, CommentedHeader
<1>4. \A c \in Texts : ParseLine(s, Comment(c)) = OnComment(s, c)
  BY DEF ParseLine, Header, Comment
<1>5. \A l \in {Blank, Header("Other", TRUE)} : ParseLine(s, l) = s
  BY DEF ParseLine, Header, Blank
<1> QED BY <1>1, <1>2, <1>3, <1>4, <1>5

LEMMA KindCases ==
  /\ SectionStart(Header("Interface", TRUE)) /\ SectionStart(CommentedHeader)
  /\ \A f \in BOOLEAN : SectionStart(Header("Peer", f)) /\ Header("Peer", f) # Header("Interface", TRUE)
  /\ CommentedHeader # Header("Interface", TRUE)
  /\ \A c : ~SectionStart(Comment(c)) /\ Comment(c).kind = "comment" /\ Comment(c).text = c
  /\ \A k, v : /\ ~SectionStart(KeyValue(k, v)) /\ KeyValue(k, v).kind = "key"
               /\ KeyValue(k, v).key = k /\ KeyValue(k, v).value = v
  /\ \A l \in {Blank, Header("Other", TRUE)} : ~SectionStart(l) /\ l.kind \notin {"key", "comment"}
<1>1. CommentedHeader # Header("Interface", TRUE)
  BY DEF CommentedHeader, Header
<1>2. \A f \in BOOLEAN : SectionStart(Header("Peer", f)) /\ Header("Peer", f) # Header("Interface", TRUE)
  BY DEF SectionStart, Header
<1>3. SectionStart(Header("Interface", TRUE)) /\ SectionStart(CommentedHeader)
  BY DEF SectionStart, Header, CommentedHeader
<1>4. \A c : ~SectionStart(Comment(c)) /\ Comment(c).kind = "comment" /\ Comment(c).text = c
  BY DEF SectionStart, Comment
<1>5. \A k, v : /\ ~SectionStart(KeyValue(k, v)) /\ KeyValue(k, v).kind = "key"
               /\ KeyValue(k, v).key = k /\ KeyValue(k, v).value = v
  BY DEF SectionStart, KeyValue
<1>6. \A l \in {Blank, Header("Other", TRUE)} : ~SectionStart(l) /\ l.kind \notin {"key", "comment"}
  BY DEF SectionStart, Blank, Header
<1> QED BY <1>1, <1>2, <1>3, <1>4, <1>5, <1>6

LEMMA EmptyDict == Typed(NoKeys) /\ \A k : Get(NoKeys, k) = NoText
<1>1. NoKeys \in [{} -> Values] /\ DOMAIN NoKeys = {}
  BY DEF NoKeys
<1>2. {} \in SUBSET {"PublicKey", "AllowedIPs"}
  OBVIOUS
<1> QED BY <1>1, <1>2 DEF Typed, Dicts, Get

LEMMA PutDict ==
  ASSUME NEW kv, Typed(kv), NEW k \in {"PublicKey", "AllowedIPs"}, NEW v \in Values,
         KeyValue(k, v) \in Lines
  PROVE  /\ Typed(Put(kv, k, v)) /\ Put(kv, k, v) # NoKeys
         /\ \A x : Get(Put(kv, k, v), x) = IF x = k THEN v ELSE Get(kv, x)
<1>1. PICK D \in SUBSET {"PublicKey", "AllowedIPs"} : kv \in [D -> Values]
  BY DEF Typed, Dicts
<1>0. PICK p : p = Put(kv, k, v)
  OBVIOUS
<1>2. /\ p \in [D \cup {k} -> Values] /\ DOMAIN p = D \cup {k}
      /\ \A x \in D \cup {k} : p[x] = IF x = k THEN v ELSE kv[x]
  BY <1>0, <1>1 DEF Put
<1>3. p \in Dicts
  BY <1>2 DEF Dicts
<1>4. \A x \in DOMAIN p : KeyValue(x, p[x]) \in Lines
  BY <1>1, <1>2 DEF Typed
<1>5. p # NoKeys
  <2>1. DOMAIN NoKeys = {}
    BY DEF NoKeys
  <2> QED BY <1>2, <2>1
<1>6. ASSUME NEW x PROVE Get(p, x) = IF x = k THEN v ELSE Get(kv, x)
  <2>1. Get(p, x) = IF x \in D \cup {k} THEN p[x] ELSE NoText
    BY <1>2 DEF Get
  <2>2. Get(kv, x) = IF x \in D THEN kv[x] ELSE NoText
    BY <1>1 DEF Get
  <2> QED BY <1>2, <2>1, <2>2
<1>7. Typed(p)
  BY <1>3, <1>4 DEF Typed
<1>8. \A x : Get(p, x) = IF x = k THEN v ELSE Get(kv, x)
  BY <1>6
<1> QED BY <1>0, <1>5, <1>7, <1>8

LEMMA GetType == ASSUME NEW kv \in Dicts, NEW k PROVE Get(kv, k) \in Values \cup {NoText}
<1>1. PICK D \in SUBSET {"PublicKey", "AllowedIPs"} : kv \in [D -> Values]
  BY DEF Dicts
<1>2. DOMAIN kv = D /\ \A x \in D : kv[x] \in Values
  BY <1>1
<1> QED BY <1>2 DEF Get

LEMMA SavedType ==
  ASSUME NEW s \in ParserState
  PROVE  Saved(s) \in Seq(FoundPeer) /\ MakePeer(s) \in FoundPeer
<1>1. s.kv \in Dicts /\ s.name \in Texts /\ s.peers \in Seq(FoundPeer)
  BY DEF ParserState
<1>2. MakePeer(s) \in FoundPeer
  BY <1>1, GetType DEF MakePeer, Peer, FoundPeer
<1> QED BY <1>1, <1>2 DEF Saved

\* The fields after a line.
LEMMA InterfaceFields ==
  ASSUME NEW s \in ParserState, NEW r, r = OnInterface(s)
  PROVE  /\ r.state = "interface" /\ r.kv = NoKeys /\ r.pending = NoText
         /\ r.name = s.name /\ r.interface = s.interface /\ r.peers = s.peers
  BY DEF OnInterface, ParserState

LEMMA PeerFields ==
  ASSUME NEW s \in ParserState, NEW r, r = OnPeer(s)
  PROVE  /\ r.state = "peer" /\ r.kv = NoKeys /\ r.pending = NoText
         /\ r.name = s.pending /\ r.interface = s.interface /\ r.peers = Saved(s)
  BY DEF OnPeer, ParserState

LEMMA CommentedFields ==
  ASSUME NEW s \in ParserState, NEW r, r = OnCommented(s)
  PROVE  /\ r.state = "commented" /\ r.kv = NoKeys /\ r.pending = NoText
         /\ r.name = NoText /\ r.interface = s.interface /\ r.peers = Saved(s)
  BY DEF OnCommented, ParserState

LEMMA CommentFields ==
  ASSUME NEW s \in ParserState, NEW r, NEW c, r = OnComment(s, c)
  PROVE  /\ r.state = s.state /\ r.kv = s.kv /\ r.interface = s.interface
         /\ r.peers = s.peers
         /\ r.pending = IF s.state \in {"none", "interface"} \/ (s.state = "peer" /\ s.kv # NoKeys)
                          THEN c ELSE s.pending
         /\ r.name = IF s.state = "peer" /\ s.kv = NoKeys /\ s.name = NoText
                       THEN c ELSE s.name
  BY DEF OnComment, ParserState

LEMMA KeyFields ==
  ASSUME NEW s \in ParserState, NEW r, NEW k, NEW v, r = OnKey(s, k, v)
  PROVE  /\ r.state = s.state /\ r.pending = s.pending /\ r.name = s.name
         /\ r.peers = s.peers
         /\ r.kv = IF s.state = "peer" THEN Put(s.kv, k, v) ELSE s.kv
         /\ r.interface = IF s.state = "interface" THEN Put(s.interface, k, v) ELSE s.interface
  BY DEF OnKey, ParserState

\* The parser only ever replaces fields.
LEMMA ParsedShape ==
  ASSUME NEW s \in ParserState, NEW r, NEW l \in Lines, r = ParseLine(s, l),
         r.state \in {"none", "interface", "peer", "commented"}, r.kv \in Dicts,
         r.pending \in Texts, r.name \in Texts, r.interface \in Dicts,
         r.peers \in Seq(FoundPeer)
  PROVE  r \in ParserState
<1>1. r \in {OnInterface(s), OnPeer(s), OnCommented(s)} => r \in ParserState
  <2>1. r = OnInterface(s) => r \in ParserState
    BY DEF OnInterface, ParserState
  <2>2. r = OnPeer(s) => r \in ParserState
    BY DEF OnPeer, ParserState
  <2>3. r = OnCommented(s) => r \in ParserState
    BY DEF OnCommented, ParserState
  <2> QED BY <2>1, <2>2, <2>3
<1>2. ASSUME NEW c, r = OnComment(s, c) PROVE r \in ParserState
  BY <1>2 DEF OnComment, ParserState
<1>3. ASSUME NEW k, NEW v, r = OnKey(s, k, v) PROVE r \in ParserState
  BY <1>3 DEF OnKey, ParserState
<1>4. CASE l = Header("Interface", TRUE) \/ l = CommentedHeader \/ \E f \in BOOLEAN : l = Header("Peer", f)
  <2>1. ParseLine(s, l) \in {OnInterface(s), OnPeer(s), OnCommented(s)}
    <3>1. l = Header("Interface", TRUE) => ParseLine(s, l) = OnInterface(s)
      BY ParseCases
    <3>2. l = CommentedHeader => ParseLine(s, l) = OnCommented(s)
      BY ParseCases
    <3>3. (\E f \in BOOLEAN : l = Header("Peer", f)) => ParseLine(s, l) = OnPeer(s)
      BY ParseCases
    <3> QED BY <1>4, <3>1, <3>2, <3>3
  <2> QED BY <1>1, <2>1
<1>5. CASE \E c \in Texts : l = Comment(c)
  <2>1. PICK c \in Texts : l = Comment(c)
    BY <1>5
  <2>2. ParseLine(s, Comment(c)) = OnComment(s, c)
    BY ParseCases
  <2> QED BY <1>2, <2>1, <2>2
<1>6. CASE \E k \in {"PublicKey", "AllowedIPs"}, v \in Values :
             l = KeyValue(k, v) /\ KeyValue(k, v) \in Lines
  <2>1. PICK k, v : l = KeyValue(k, v)
    BY <1>6
  <2>2. ParseLine(s, KeyValue(k, v)) = OnKey(s, k, v)
    BY KeyLine
  <2> QED BY <1>3, <2>1, <2>2
<1>7. CASE l \in {Blank, Header("Other", TRUE)}
  BY <1>7, ParseCases
<1> QED BY <1>4, <1>5, <1>6, <1>7, LineCases

\* A well-formed state of the parser.
WellFormed(s) == /\ s \in ParserState /\ Typed(s.kv) /\ Typed(s.interface)
                 /\ s.state # "peer" => s.kv = NoKeys

LEMMA WellFormedStart == WellFormed(Start)
<1>1. /\ Start.state = "none" /\ Start.kv = NoKeys /\ Start.interface = NoKeys
  BY DEF Start
<1>2. NoKeys \in Dicts /\ NoText \in Texts /\ <<>> \in Seq(FoundPeer)
  BY EmptyDict DEF Typed, Texts
<1>3. Start \in ParserState
  BY <1>2 DEF Start, ParserState
<1> QED BY <1>1, <1>3, EmptyDict DEF WellFormed

LEMMA WellFormedStep ==
  ASSUME NEW s, WellFormed(s), NEW l \in Lines
  PROVE  WellFormed(ParseLine(s, l))
<1>1. PICK r : r = ParseLine(s, l)
  OBVIOUS
<1>2. s \in ParserState /\ Typed(s.kv) /\ Typed(s.interface)
  BY DEF WellFormed
<1>3. /\ s.state \in {"none", "interface", "peer", "commented"} /\ s.pending \in Texts
      /\ s.name \in Texts /\ s.peers \in Seq(FoundPeer) /\ NoText \in Texts
  BY <1>2 DEF ParserState, Texts
<1> DEFINE Good == /\ r.state \in {"none", "interface", "peer", "commented"}
                   /\ Typed(r.kv) /\ r.pending \in Texts /\ r.name \in Texts
                   /\ Typed(r.interface) /\ r.peers \in Seq(FoundPeer)
                   /\ r.state # "peer" => r.kv = NoKeys
<1>4. CASE l = Header("Interface", TRUE)
  <2>1. r = OnInterface(s)
    BY <1>1, <1>4, ParseCases
  <2>2. Good
    BY <1>2, <1>3, <2>1, InterfaceFields, EmptyDict
  <2> QED BY <1>1, <1>2, <2>2, ParsedShape DEF WellFormed, Typed
<1>5. CASE \E f \in BOOLEAN : l = Header("Peer", f)
  <2>1. r = OnPeer(s)
    BY <1>1, <1>5, ParseCases
  <2>2. Good
    BY <1>2, <1>3, <2>1, PeerFields, EmptyDict, SavedType
  <2> QED BY <1>1, <1>2, <2>2, ParsedShape DEF WellFormed, Typed
<1>6. CASE l = CommentedHeader
  <2>1. r = OnCommented(s)
    BY <1>1, <1>6, ParseCases
  <2>2. Good
    BY <1>2, <1>3, <2>1, CommentedFields, EmptyDict, SavedType
  <2> QED BY <1>1, <1>2, <2>2, ParsedShape DEF WellFormed, Typed
<1>7. CASE \E c \in Texts : l = Comment(c)
  <2>1. PICK c \in Texts : r = OnComment(s, c)
    BY <1>1, <1>7, ParseCases
  <2>2. Good
    BY <1>2, <1>3, <2>1, CommentFields DEF WellFormed
  <2> QED BY <1>1, <1>2, <2>2, ParsedShape DEF WellFormed, Typed
<1>8. ASSUME NEW k \in {"PublicKey", "AllowedIPs"}, NEW v \in Values,
             l = KeyValue(k, v) /\ KeyValue(k, v) \in Lines
      PROVE  WellFormed(r)
  <2>0. ParseLine(s, KeyValue(k, v)) = OnKey(s, k, v)
    BY KeyLine
  <2>1. r = OnKey(s, k, v)
    BY <1>1, <1>8, <2>0
  <2>2. Typed(Put(s.kv, k, v)) /\ Typed(Put(s.interface, k, v))
    BY <1>2, <1>8, PutDict
  <2>3. Good
    BY <1>2, <1>3, <2>1, <2>2, KeyFields DEF WellFormed
  <2> QED BY <1>1, <1>2, <2>3, ParsedShape DEF WellFormed, Typed
<1>9. CASE l \in {Blank, Header("Other", TRUE)}
  <2>1. r = s
    BY <1>1, <1>9, ParseCases
  <2> QED BY <1>1, <2>1
<1> QED BY <1>1, <1>4, <1>5, <1>6, <1>7, <1>8, <1>9, LineCases

LEMMA InitType == Init => TypeInv
<1> SUFFICES ASSUME Init PROVE TypeInv
  OBVIOUS
<1>1. text \in Seq(Lines) /\ Len(text) <= MaxLines
  BY BoundAssumption DEF Init
<1>2. WellFormed(st)
  BY WellFormedStart DEF Init
<1> QED BY <1>1, <1>2 DEF TypeInv, WellFormed

LEMMA TypeStep == TypeInv /\ [ReadLine]_<<text, st>> => TypeInv'
<1> SUFFICES ASSUME TypeInv, ReadLine PROVE TypeInv'
  BY DEF TypeInv, WellFormed, Typed
<1>1. PICK l \in Lines : text' = Append(text, l) /\ st' = ParseLine(st, l)
  BY DEF ReadLine
<1>2. text' \in Seq(Lines) /\ Len(text') <= MaxLines
  BY <1>1, BoundAssumption DEF ReadLine, TypeInv
<1>3. WellFormed(ParseLine(st, l))
  BY WellFormedStep DEF TypeInv, WellFormed
<1>4. WellFormed(st')
  BY <1>1, <1>3 DEF WellFormed
<1> QED BY <1>2, <1>4 DEF TypeInv, WellFormed, Typed

\* The type invariant TypeOK: whatever the text, the parser keeps only names,
\* keys and addresses of the text, each where it belongs.
THEOREM TypeCorrect == Spec => []TypeOK
<1>1. TypeInv => TypeOK
  BY DEF TypeInv, TypeOK, Typed, ParserState, Texts
<1> QED BY InitType, TypeStep, <1>1, PTL DEF Spec

(***************************************************************************)
(* The sections found. What the parser keeps is what the text says of the  *)
(* section being read; of the ones before it, what it found.               *)
(***************************************************************************)

\* The comments read that the next section may be named by.
Waiting == Before(Top + 1)

\* The parser's state when section i is being read.
StateOf(i) == IF i = 0 THEN "none"
              ELSE IF text[i].kind = "commented" THEN "commented"
              ELSE IF IsPeer(i) THEN "peer" ELSE "interface"

StateInv == st.state = StateOf(Current)

PendingInv == st.pending = IF Waiting = {} THEN NoText ELSE text[LastOf(Waiting)].text

SectionInv ==
  st.state = "peer" =>
    /\ st.kv = NoKeys <=> OfKind(Body(Current), "key") = {}
    /\ \A k \in {"PublicKey", "AllowedIPs"} : Get(st.kv, k) = Value(Current, k)
    /\ st.name = NameOf(Current)

FoundInv == Lists(st.peers, Listed \ {Current})

ParserInv == TypeInv /\ StateInv /\ PendingInv /\ SectionInv /\ FoundInv

WaitingByState ==
  Top \in Nat =>
    Waiting = IF StateOf(Current) = "commented" THEN {}
              ELSE OfKind(Body(Current), "comment")
                     \ (IF StateOf(Current) = "peer" THEN Own(Current) ELSE {})

LEMMA WaitingIs == WaitingByState
<1> SUFFICES ASSUME Top \in Nat
             PROVE  Waiting = IF StateOf(Current) = "commented" THEN {}
                              ELSE OfKind(Body(Current), "comment")
                                     \ (IF StateOf(Current) = "peer" THEN Own(Current) ELSE {})
  BY DEF WaitingByState
<1>0. Top + 1 \in Nat \ {0} /\ (Top + 1) - 1 = Top
  OBVIOUS
<1>1. Waiting = IF Current = 0 THEN OfKind(1..Top, "comment")
                ELSE IF text[Current].kind = "commented" THEN {}
                ELSE OfKind(Body(Current), "comment")
                       \ (IF IsPeer(Current) THEN Own(Current) ELSE {})
  BY <1>0, BeforeIs DEF Waiting, Current
<1>2. CASE Current = 0
  <2>1. Body(0) = 1..Top
    BY <1>2, CurrentIs DEF Body, Top, Closed
  <2> QED BY <1>1, <1>2, <2>1 DEF StateOf
<1>3. CASE Current # 0
  BY <1>1, <1>3 DEF StateOf, IsPeer
<1> QED BY <1>2, <1>3

LEMMA WaitingNext == WaitingByState'
  BY WaitingIs, PTL

LEMMA WaitingIn == ASSUME Top \in Nat PROVE Waiting \subseteq 1..Top
  BY BeforeIn DEF Waiting

\* The parser returns the listed sections, the one it is in the middle of
\* included.
LEMMA SavedLists ==
  ASSUME ParserInv
  PROVE  Lists(Saved(st), Listed)
<1>0. Top \in Nat /\ DOMAIN text = 1..Top /\ st \in ParserState
  BY DEF ParserInv, TypeInv, Top
<1>1. PICK c : c = Current
  OBVIOUS
<1>2. c \in 0..Top /\ \A i \in Listed : i \in 1..Top /\ i <= c
  <2>1. \A i \in Listed : i \in 1..Top /\ SectionStart(text[i])
    BY <1>0, PeerIsStart DEF Listed, PeerSections
  <2> QED BY <1>0, <1>1, <2>1, CurrentIs
<1>3. Lists(st.peers, Listed \ {c})
  BY <1>1 DEF ParserInv, FoundInv
<1>4. st.state = StateOf(c)
  BY <1>1 DEF ParserInv, StateInv
<1>5. st.state = "peer" <=> c # 0 /\ IsPeer(c)
  BY <1>4 DEF StateOf, IsPeer
<1>6. CASE st.state = "peer" /\ st.kv # NoKeys
  <2>1. OfKind(Body(c), "key") # {} /\ MakePeer(st) = Says(c)
    BY <1>1, <1>6 DEF ParserInv, SectionInv, MakePeer, Says
  <2>2. c \in Listed
    BY <1>0, <1>1, <1>5, <1>6, <2>1, CurrentListed
  <2>3. st.peers \in Seq(FoundPeer)
    BY <1>0 DEF ParserState
  <2>4. Listed \ {c} \in SUBSET Nat /\ \A i \in Listed \ {c} : i < c
    BY <1>0, <1>2
  <2>5. Lists(Append(st.peers, Says(c)), (Listed \ {c}) \cup {c})
    BY <1>2, <1>3, <2>3, <2>4, ListsAppended
  <2>6. (Listed \ {c}) \cup {c} = Listed
    BY <2>2
  <2> QED BY <1>6, <2>1, <2>5, <2>6 DEF Saved
<1>7. CASE ~(st.state = "peer" /\ st.kv # NoKeys)
  <2>1. c \notin Listed
    BY <1>0, <1>1, <1>5, <1>7, CurrentListed DEF ParserInv, SectionInv
  <2>2. Listed \ {c} = Listed
    BY <2>1
  <2> QED BY <1>3, <1>7, <2>2 DEF Saved
<1> QED BY <1>6, <1>7

LEMMA InitParsed == Init => ParserInv
<1> SUFFICES ASSUME Init PROVE ParserInv
  OBVIOUS
<1>1. text = <<>> /\ Top = 0 /\ DOMAIN text = {}
  BY DEF Init, Top
<1>2. Current = 0
  BY <1>1, CurrentIs
<1>3. st.state = "none" /\ st.pending = NoText /\ st.peers = <<>>
  BY DEF Init, Start
<1>4. Waiting = {}
  BY <1>1, WaitingIn
<1>5. Lists(st.peers, Listed \ {Current})
  <2>1. Listed = {}
    BY <1>1 DEF Listed, PeerSections
  <2>2. DOMAIN st.peers = {}
    BY <1>3
  <2> DEFINE at == [n \in DOMAIN st.peers |-> 0]
  <2>3. at \in [DOMAIN st.peers -> Listed \ {Current}] /\ {at[n] : n \in DOMAIN st.peers} = {}
    BY <2>1, <2>2
  <2> HIDE DEF at
  <2> QED BY <2>1, <2>2, <2>3 DEF Lists
<1> QED BY <1>2, <1>3, <1>4, <1>5, InitType DEF ParserInv, StateInv, StateOf, PendingInv, SectionInv, FoundInv

\* A line that starts no section: the state and the peers found.
LEMMA StateKept ==
  ASSUME NEW l, Grown(l), ~SectionStart(l), StateInv, st'.state = st.state
  PROVE  StateInv' /\ StateOf(Current)' = StateOf(Current)
<1>1. PICK c : c = Current
  OBVIOUS
<1>2. c \in 0..Top /\ Current' = c
  BY <1>1, CurrentIs, CurrentKept, Growth
<1>3. c # 0 => text'[c] = text[c]
  BY <1>2, Growth
<1>4. StateOf(c)' = StateOf(c)
  BY <1>3 DEF StateOf, IsPeer
<1> QED BY <1>1, <1>2, <1>4 DEF StateInv

LEMMA SaidKept ==
  ASSUME NEW l, Grown(l), NEW i \in Listed, i # Current \/ SectionStart(l)
  PROVE  Says(i)' = Says(i)
<1>1. i \in 1..Top /\ SectionStart(text[i])
  BY PeerIsStart, Growth DEF Listed, PeerSections
<1>2. Closed(i) \/ SectionStart(l)
  BY <1>1, CurrentIs, Growth
<1>3. Same(i)
  BY <1>1, <1>2, KindKept DEF Same
<1> QED BY <1>1, <1>3, SaysKept

LEMMA FoundKept ==
  ASSUME NEW l, Grown(l), NEW I, (Listed \ {Current})' = I, I \subseteq Listed,
         SectionStart(l) \/ Current \notin I, Lists(st'.peers, I)
  PROVE  FoundInv'
<1>1. PICK f : f = st'.peers
  OBVIOUS
<1>2. \A i \in I : Says(i)' = Says(i)
  BY SaidKept
<1>3. \E at \in [DOMAIN f -> I] :
        /\ I = {at[n] : n \in DOMAIN f}
        /\ \A m, n \in DOMAIN f : m < n => at[m] < at[n]
        /\ \A n \in DOMAIN f : f[n] = Says(at[n])'
  BY <1>1, <1>2, ListsKept
<1> QED BY <1>1, <1>3 DEF FoundInv, Lists

LEMMA FoundSame ==
  ASSUME NEW l, Grown(l), ~SectionStart(l) \/ l = Header("Interface", TRUE),
         FoundInv, st'.peers = st.peers
  PROVE  FoundInv'
<1>1. PICK I : I = Listed \ {Current}
  OBVIOUS
<1>2. (Listed \ {Current})' = I
  BY <1>1, ListedKept
<1>3. Lists(st'.peers, I) /\ I \subseteq Listed /\ Current \notin I
  BY <1>1 DEF FoundInv
<1> QED BY <1>2, <1>3, FoundKept

LEMMA WaitingOf ==
  ASSUME NEW l, Grown(l), NEW c, c = Current, Current' = c
  PROVE  /\ Waiting = IF StateOf(c) = "commented" THEN {}
                      ELSE OfKind(Body(c), "comment")
                             \ (IF StateOf(c) = "peer" THEN Own(c) ELSE {})
         /\ Waiting' = IF StateOf(c)' = "commented" THEN {}
                       ELSE OfKind(Body(c), "comment")'
                              \ (IF StateOf(c)' = "peer" THEN Own(c)' ELSE {})
         /\ Waiting \in SUBSET (0..Top) /\ Waiting \subseteq 1..Top
<1>1. Top \in Nat /\ Top' \in Nat
  BY Growth
<1>2. Waiting = IF StateOf(c) = "commented" THEN {}
                ELSE OfKind(Body(c), "comment")
                       \ (IF StateOf(c) = "peer" THEN Own(c) ELSE {})
  BY <1>1, WaitingIs DEF WaitingByState
<1>3. Waiting' = IF StateOf(Current)' = "commented" THEN {}
                 ELSE OfKind(Body(Current), "comment")'
                        \ (IF StateOf(Current)' = "peer" THEN Own(Current)' ELSE {})
  BY <1>1, WaitingNext DEF WaitingByState
<1>4. /\ StateOf(Current)' = StateOf(c)' /\ Own(Current)' = Own(c)'
      /\ OfKind(Body(Current), "comment")' = OfKind(Body(c), "comment")'
  OBVIOUS
<1>5. Waiting \subseteq 1..Top
  BY <1>1, WaitingIn
<1> QED BY <1>1, <1>2, <1>3, <1>4, <1>5

\* A line that is neither a section's start nor a key nor a comment.
LEMMA OtherParsed ==
  ASSUME NEW l, Grown(l), ~SectionStart(l), l.kind \notin {"key", "comment"},
         ParserInv, TypeInv', st' = st
  PROVE  ParserInv'
<1>1. PICK c : c = Current
  OBVIOUS
<1>2. c \in 0..Top /\ Current' = c /\ (c # 0 => c \in 1..Top /\ SectionStart(text[c]))
  BY <1>1, CurrentIs, CurrentKept, Growth DEF IsStart
<1>3. StateInv' /\ StateOf(c)' = StateOf(c) /\ st.state = StateOf(c)
  BY <1>1, <1>2, StateKept DEF ParserInv, StateInv
<1>4. Same(c)
  BY <1>2, KindKept DEF Same
<1>5. Own(c)' = Own(c)
  BY <1>4, OwnKept
<1>6. Waiting' = Waiting /\ Waiting \in SUBSET (0..Top) /\ Waiting \subseteq 1..Top
  BY <1>1, <1>2, <1>3, <1>4, <1>5, WaitingOf DEF Same
<1>7. PendingInv'
  BY <1>6, LastIn, Growth DEF ParserInv, PendingInv
<1>8. SectionInv'
  <2>1. st.state = "peer" => c # 0
    BY <1>3 DEF StateOf
  <2>2. \A k : Value(c, k)' = Value(c, k)
    BY <1>2, <1>4, ValueKept DEF Same
  <2>3. c # 0 => NameOf(c)' = NameOf(c)
    BY <1>2, <1>5, NameKept
  <2> QED BY <1>1, <1>2, <1>4, <2>1, <2>2, <2>3 DEF ParserInv, SectionInv, Same
<1>9. FoundInv'
  BY FoundSame DEF ParserInv
<1> QED BY <1>3, <1>7, <1>8, <1>9 DEF ParserInv

\* A key: the section's value of it; the comments stay where they belong.
LEMMA KeyParsed ==
  ASSUME NEW k \in {"PublicKey", "AllowedIPs"}, NEW v \in Values, KeyValue(k, v) \in Lines,
         Grown(KeyValue(k, v)), ParserInv, TypeInv', st' = OnKey(st, k, v)
  PROVE  ParserInv'
<1>0. PICK l : l = KeyValue(k, v)
  OBVIOUS
<1>1. Grown(l) /\ ~SectionStart(l) /\ l.kind = "key" /\ l.key = k /\ l.value = v
  BY <1>0, KindCases
<1>2. PICK c, n : c = Current /\ n = Top
  OBVIOUS
<1>3. /\ c \in 0..n /\ n \in Nat /\ Current' = c /\ ~Closed(c)
      /\ c # 0 => c \in 1..n /\ SectionStart(text[c])
  BY <1>1, <1>2, CurrentIs, CurrentKept, Growth DEF IsStart
<1>4. /\ st'.state = st.state /\ st'.pending = st.pending /\ st'.name = st.name
      /\ st'.peers = st.peers
      /\ st'.kv = IF st.state = "peer" THEN Put(st.kv, k, v) ELSE st.kv
  BY KeyFields DEF ParserInv, TypeInv
<1>5. StateInv' /\ StateOf(c)' = StateOf(c) /\ st.state = StateOf(c)
  BY <1>1, <1>2, <1>3, <1>4, StateKept DEF ParserInv, StateInv
<1>6. /\ OfKind(Body(c), "comment")' = OfKind(Body(c), "comment")
      /\ OfKind(Body(c), "key")' = OfKind(Body(c), "key") \cup {n + 1}
  BY <1>1, <1>2, <1>3, KindKept, KindGrown
<1>7. OfKind(Body(c), "comment") \subseteq (c + 1)..n /\ OfKind(Body(c), "key") \subseteq (c + 1)..n
  BY <1>2, <1>3, KindIn
<1>8. Own(c)' = Own(c)
  <2>1. \A m \in OfKind(Body(c), "comment") : m < n + 1
    BY <1>3, <1>7
  <2> QED BY <1>6, <2>1 DEF Own
<1>9. Waiting' = Waiting /\ Waiting \in SUBSET (0..Top) /\ Waiting \subseteq 1..Top
  BY <1>1, <1>2, <1>3, <1>5, <1>6, <1>8, WaitingOf
<1>10. PendingInv'
  BY <1>1, <1>4, <1>9, LastIn, Growth DEF ParserInv, PendingInv
<1>11. ASSUME NEW x PROVE Value(c, x)' = IF x = k THEN v ELSE Value(c, x)
  <2> DEFINE at   == {j \in OfKind(Body(c), "key") : text[j].key = x}
  <2>1. at \in SUBSET (0..n) /\ at \subseteq 1..n
    BY <1>3, <1>7
  <2>2. at' = {j \in OfKind(Body(c), "key") \cup {n + 1} : text'[j].key = x}
    BY <1>6
  <2>3. /\ \A j \in OfKind(Body(c), "key") : text'[j] = text[j]
        /\ text'[n + 1] = l
    BY <1>1, <1>2, <1>3, <1>7, Growth
  <2>4. at' = at \cup (IF x = k THEN {n + 1} ELSE {})
    BY <1>1, <2>2, <2>3
  <2>5. Value(c, x)' = IF at' = {} THEN NoText ELSE text'[LastOf(at')].value
    BY DEF Value
  <2>6. Value(c, x) = IF at = {} THEN NoText ELSE text[LastOf(at)].value
    BY DEF Value
  <2>7. at # {} => LastOf(at) \in at /\ text'[LastOf(at)] = text[LastOf(at)]
    BY <1>1, <1>2, <2>1, LastIn, <1>3, Growth
  <2> HIDE DEF at
  <2>8. CASE x = k
    <3>1. at' \in SUBSET Nat /\ n + 1 \in at' /\ \A b \in at' : b <= n + 1
      BY <1>3, <2>1, <2>4, <2>8
    <3>2. LastOf(at') = n + 1
      BY <3>1, LastIs
    <3> QED BY <1>1, <2>3, <2>5, <2>8, <3>1, <3>2
  <2>9. CASE x # k
    BY <2>4, <2>5, <2>6, <2>7, <2>9
  <2> QED BY <2>8, <2>9
<1>12. SectionInv'
  <2>1. ASSUME st.state = "peer"
        PROVE  /\ st'.kv # NoKeys
               /\ \A x \in {"PublicKey", "AllowedIPs"} :
                    Get(st'.kv, x) = IF x = k THEN v ELSE Get(st.kv, x)
    BY <1>4, <2>1, PutDict DEF ParserInv, TypeInv
  <2>2. st.state = "peer" => c # 0
    BY <1>5 DEF StateOf
  <2>3. c # 0 => NameOf(c)' = NameOf(c)
    BY <1>1, <1>2, <1>3, <1>8, NameKept
  <2> QED BY <1>2, <1>3, <1>4, <1>6, <1>11, <2>1, <2>2, <2>3 DEF ParserInv, SectionInv
<1>13. FoundInv'
  BY <1>1, <1>4, FoundSame DEF ParserInv
<1> QED BY <1>5, <1>10, <1>12, <1>13 DEF ParserInv

\* One more own comment names the section if it has no name.
LEMMA NameGrown ==
  ASSUME NEW l, Grown(l), NEW n, n = Top, NEW i \in 1..n, SectionStart(text[i]),
         Own(i)' = Own(i) \cup {n + 1}
  PROVE  NameOf(i)' = IF NameOf(i) = NoText THEN l.text ELSE NameOf(i)
<1>0. n \in Nat /\ text'[n + 1] = l /\ \A j \in 1..n : text'[j] = text[j]
  BY Growth
<1>1. Before(i)' = Before(i) /\ Before(i) \in SUBSET (0..n) /\ Before(i) \subseteq 1..n
  <2>1. i \in 1..Top /\ i \in 1..(Top + 1) /\ i # Top + 1 /\ Top \in Nat
    BY <1>0
  <2>2. Before(i)' = Before(i)
    BY <2>1, BeforeKept
  <2>3. Before(i) \subseteq 1..n
    BY <2>1, BeforeIn
  <2> QED BY <2>2, <2>3
<1>2. Own(i) \subseteq 1..n
  BY OwnIn, Growth
<1> DEFINE named == {c \in Own(i) : text[c].text # NoText}
           b     == LastOf(Before(i))
<1>3. named \in SUBSET Nat /\ named \subseteq 1..n
  BY <1>0, <1>2
<1>4. named' = named \cup (IF l.text # NoText THEN {n + 1} ELSE {})
  <2>1. named' = {c \in Own(i) \cup {n + 1} : text'[c].text # NoText}
    OBVIOUS
  <2> QED BY <1>0, <1>2, <2>1
<1>5. b' = b
  BY <1>1
<1>6. Before(i) # {} => b \in 1..n
  BY <1>0, <1>1, LastIn
<1>7. NameOf(i) = IF Before(i) # {} /\ text[b].text # NoText THEN text[b].text
                  ELSE IF named # {} THEN text[FirstOf(named)].text ELSE NoText
  BY DEF NameOf
<1>8. NameOf(i)' = IF Before(i)' # {} /\ text'[b'].text # NoText THEN text'[b'].text
                   ELSE IF named' # {} THEN text'[FirstOf(named')].text ELSE NoText
  BY DEF NameOf
<1>9. \A j \in named : text[j].text # NoText
  OBVIOUS
<1> HIDE DEF named, b
<1>10. CASE Before(i) # {} /\ text[b].text # NoText
  BY <1>0, <1>1, <1>5, <1>6, <1>7, <1>8, <1>10
<1>11. CASE ~(Before(i) # {} /\ text[b].text # NoText)
  <2>1. /\ NameOf(i) = IF named # {} THEN text[FirstOf(named)].text ELSE NoText
        /\ NameOf(i)' = IF named' # {} THEN text'[FirstOf(named')].text ELSE NoText
    BY <1>0, <1>1, <1>5, <1>6, <1>7, <1>8, <1>11
  <2>2. CASE named # {}
    <3>1. FirstOf(named) \in named /\ \A j \in named : FirstOf(named) <= j
      BY <1>3, <2>2, FirstIn
    <3>2. /\ named' \in SUBSET Nat /\ FirstOf(named) \in named'
          /\ \A j \in named' : FirstOf(named) <= j
      <4>0. FirstOf(named) \in 1..n
        BY <1>3, <3>1
      <4>1. n \in Nat
        BY <1>0
      <4>2. FirstOf(named) <= n + 1 /\ n + 1 \in Nat
        BY <4>0, <4>1
      <4>3. named' \subseteq named \cup {n + 1} /\ named \subseteq named'
        BY <1>4
      <4> QED BY <1>3, <3>1, <4>2, <4>3
    <3>3. FirstOf(named') = FirstOf(named)
      <4>1. PICK S, x : S = named' /\ x = FirstOf(named)
        OBVIOUS
      <4>2. S \in SUBSET Nat /\ x \in S /\ \A j \in S : x <= j
        BY <3>2, <4>1
      <4>3. FirstOf(S) = x
        BY <4>2, FirstIs
      <4> QED BY <4>1, <4>3
    <3>4. /\ text'[FirstOf(named)] = text[FirstOf(named)]
          /\ text[FirstOf(named)].text # NoText /\ named' # {}
      <4>1. FirstOf(named) \in 1..n
        BY <1>3, <3>1
      <4>2. text[FirstOf(named)].text # NoText
        BY <1>9, <3>1
      <4>3. text'[FirstOf(named)] = text[FirstOf(named)]
        BY <1>0, <4>1
      <4> QED BY <3>2, <4>2, <4>3
    <3> QED BY <2>1, <2>2, <3>3, <3>4
  <2>3. CASE named = {} /\ l.text # NoText
    <3>1. FirstOf(named') = n + 1 /\ named' # {}
      BY <1>0, <1>4, <2>3, FirstIs
    <3> QED BY <1>0, <2>1, <2>3, <3>1
  <2>4. CASE named = {} /\ l.text = NoText
    BY <1>4, <2>1, <2>4
  <2> QED BY <2>2, <2>3, <2>4
<1> QED BY <1>10, <1>11

\* A comment: before the section's first key its own, after that the next one's.
LEMMA CommentParsed ==
  ASSUME NEW t \in Texts, Grown(Comment(t)), ParserInv, TypeInv', st' = OnComment(st, t)
  PROVE  ParserInv'
<1>0. PICK l : l = Comment(t)
  OBVIOUS
<1>1. Grown(l) /\ ~SectionStart(l) /\ l.kind = "comment" /\ l.text = t
  BY <1>0, KindCases
<1>2. PICK c, n : c = Current /\ n = Top
  OBVIOUS
<1>3. /\ c \in 0..n /\ n \in Nat /\ Current' = c /\ ~Closed(c)
      /\ c # 0 => c \in 1..n /\ SectionStart(text[c])
  BY <1>1, <1>2, CurrentIs, CurrentKept, Growth DEF IsStart
<1> DEFINE keys     == OfKind(Body(c), "key")
           comments == OfKind(Body(c), "comment")
<1>4. /\ st'.state = st.state /\ st'.kv = st.kv /\ st'.peers = st.peers
      /\ st'.pending = IF st.state \in {"none", "interface"} \/ (st.state = "peer" /\ st.kv # NoKeys)
                       THEN t ELSE st.pending
      /\ st'.name = IF st.state = "peer" /\ st.kv = NoKeys /\ st.name = NoText
                    THEN t ELSE st.name
  BY CommentFields DEF ParserInv, TypeInv
<1>5. StateInv' /\ StateOf(c)' = StateOf(c) /\ st.state = StateOf(c)
  BY <1>1, <1>2, <1>3, <1>4, StateKept DEF ParserInv, StateInv
<1>6. st.state \in {"none", "interface", "peer", "commented"} /\ (st.state = "peer" => c # 0)
  BY <1>5 DEF StateOf
<1>7. st.state = "peer" =>
        /\ st.kv = NoKeys <=> keys = {}
        /\ \A k \in {"PublicKey", "AllowedIPs"} : Get(st.kv, k) = Value(c, k)
        /\ st.name = NameOf(c)
  BY <1>2 DEF ParserInv, SectionInv
<1>8. keys' = keys /\ comments' = comments \cup {n + 1}
  BY <1>1, <1>2, <1>3, KindKept, KindGrown
<1>9. keys \subseteq (c + 1)..n /\ comments \subseteq (c + 1)..n
  BY <1>2, <1>3, KindIn
<1>10. /\ Own(c) = {m \in comments : \A k \in keys : m < k}
       /\ Own(c)' = {m \in comments' : \A k \in keys' : m < k}
  BY DEF Own
<1> HIDE DEF keys, comments
<1>11. /\ Own(c)' = IF keys = {} THEN Own(c) \cup {n + 1} ELSE Own(c)
       /\ keys = {} => Own(c) = comments
  <2>1. CASE keys = {}
    BY <1>8, <1>10, <2>1
  <2>2. CASE keys # {}
    <3>1. \A k \in keys : ~(n + 1 < k)
      BY <1>3, <1>9
    <3>2. Own(c)' = {m \in comments \cup {n + 1} : \A k \in keys : m < k}
      BY <1>8, <1>10
    <3> QED BY <1>10, <2>2, <3>1, <3>2
  <2> QED BY <2>1, <2>2
<1>12. /\ Waiting = IF st.state = "commented" THEN {}
                    ELSE comments \ (IF st.state = "peer" THEN Own(c) ELSE {})
       /\ Waiting' = IF st.state = "commented" THEN {}
                     ELSE (comments \cup {n + 1}) \ (IF st.state = "peer" THEN Own(c)' ELSE {})
       /\ Waiting \in SUBSET (0..n) /\ Waiting \subseteq 1..n
  BY <1>1, <1>2, <1>3, <1>5, <1>8, WaitingOf DEF comments
<1>13. text'[n + 1] = l /\ \A j \in 1..n : text'[j] = text[j]
  BY <1>1, <1>2, Growth
<1>14. PendingInv'
  <2>1. CASE st.state \in {"none", "interface"} \/ (st.state = "peer" /\ keys # {})
    <3>1. n + 1 \notin Own(c)
      BY <1>3, <1>9, <1>10
    <3>2. Waiting' = Waiting \cup {n + 1}
      BY <1>11, <1>12, <2>1, <3>1
    <3>3. Waiting' \in SUBSET Nat /\ n + 1 \in Waiting' /\ \A b \in Waiting' : b <= n + 1
      BY <1>3, <1>12, <3>2
    <3>4. LastOf(Waiting') = n + 1 /\ Waiting' # {}
      BY <3>3, LastIs
    <3>5. st'.pending = t
      BY <1>4, <1>7, <2>1
    <3> QED BY <1>1, <1>13, <3>4, <3>5 DEF PendingInv
  <2>2. CASE st.state = "commented" \/ (st.state = "peer" /\ keys = {})
    <3>1. Waiting = {} /\ Waiting' = {}
      BY <1>8, <1>11, <1>12, <2>2
    <3>2. st'.pending = st.pending
      BY <1>4, <1>7, <2>2
    <3> QED BY <3>1, <3>2 DEF ParserInv, PendingInv
  <2> QED BY <1>6, <2>1, <2>2
<1>15. SectionInv'
  <2>1. \A k : Value(c, k)' = Value(c, k)
    BY <1>1, <1>2, <1>3, <1>8, ValueKept DEF keys
  <2>2. ASSUME st.state = "peer" PROVE st'.name = NameOf(c)'
    <3>1. c \in 1..n /\ c \in 1..Top /\ SectionStart(text[c])
      BY <1>2, <1>3, <1>6, <2>2
    <3>2. CASE keys # {}
      <4>1. NameOf(c)' = NameOf(c)
        BY <1>1, <1>11, <3>1, <3>2, NameKept
      <4> QED BY <1>4, <1>7, <2>2, <3>2, <4>1
    <3>3. CASE keys = {}
      <4>1. NameOf(c)' = IF NameOf(c) = NoText THEN t ELSE NameOf(c)
        BY <1>1, <1>2, <1>11, <3>1, <3>3, NameGrown
      <4> QED BY <1>4, <1>7, <2>2, <3>3, <4>1
    <3> QED BY <3>2, <3>3
  <2>3. OfKind(Body(Current), "key")' = keys
    BY <1>3, <1>8 DEF keys
  <2> QED BY <1>3, <1>4, <1>7, <2>1, <2>2, <2>3 DEF SectionInv
<1>16. FoundInv'
  BY <1>1, <1>4, FoundSame DEF ParserInv
<1> QED BY <1>5, <1>14, <1>15, <1>16 DEF ParserInv

\* The start of a section: nothing is known of it but its kind, and the
\* comments that wait for it.
LEMMA StartParsed ==
  ASSUME NEW l, Grown(l), SectionStart(l), NEW n, n = Top, ParserInv
  PROVE  /\ Current' = n + 1 /\ Waiting' = {}
         /\ OfKind(Body(n + 1), "key")' = {} /\ \A k : Value(n + 1, k)' = NoText
         /\ NameOf(n + 1)' = st.pending
<1>1. /\ Current' = n + 1 /\ OfKind(Body(n + 1), "key")' = {}
      /\ OfKind(Body(n + 1), "comment")' = {}
  BY CurrentNext
<1>2. n \in Nat /\ Top' = n + 1 /\ text'[n + 1] = l /\ \A j \in 1..n : text'[j] = text[j]
  BY Growth
<1>3. Own(n + 1)' = {}
  BY <1>1 DEF Own
<1>4. Waiting' = {}
  <2>1. Waiting' = IF StateOf(Current)' = "commented" THEN {}
                   ELSE OfKind(Body(Current), "comment")'
                          \ (IF StateOf(Current)' = "peer" THEN Own(Current)' ELSE {})
    BY <1>2, WaitingNext DEF WaitingByState
  <2>2. OfKind(Body(Current), "comment")' = OfKind(Body(n + 1), "comment")'
    BY <1>1
  <2> QED BY <1>1, <2>1, <2>2
<1>5. ASSUME NEW k PROVE Value(n + 1, k)' = NoText
  <2> DEFINE at == {j \in OfKind(Body(n + 1), "key") : text[j].key = k}
  <2>1. at' = {}
    BY <1>1
  <2>2. Value(n + 1, k)' = IF at' = {} THEN NoText ELSE text'[LastOf(at')].value
    BY DEF Value
  <2> QED BY <2>1, <2>2
<1>6. Before(n + 1)' = Before(n + 1) /\ Before(n + 1) = Waiting /\ Waiting \in SUBSET (0..n)
      /\ Waiting \subseteq 1..n
  <2>1. n + 1 \in 1..(Top + 1) /\ (n + 1 = Top + 1) /\ Top \in Nat
    BY <1>2
  <2>2. Before(n + 1)' = Before(n + 1)
    BY <2>1, BeforeKept
  <2> QED BY <2>1, <2>2, WaitingIn DEF Waiting
<1>7. NameOf(n + 1)' = st.pending
  <2> DEFINE named == {c \in Own(n + 1) : text[c].text # NoText}
             b     == LastOf(Before(n + 1))
  <2>1. named' = {}
    BY <1>3
  <2>2. b' = LastOf(Waiting) /\ (Waiting # {} => b' \in 1..n)
    BY <1>2, <1>6, LastIn
  <2>3. NameOf(n + 1)' = IF Before(n + 1)' # {} /\ text'[b'].text # NoText THEN text'[b'].text
                         ELSE IF named' # {} THEN text'[FirstOf(named')].text ELSE NoText
    BY DEF NameOf
  <2>4. st.pending = IF Waiting = {} THEN NoText ELSE text[LastOf(Waiting)].text
    BY DEF ParserInv, PendingInv
  <2> HIDE DEF named, b
  <2> QED BY <1>2, <1>6, <2>1, <2>2, <2>3, <2>4
<1> QED BY <1>1, <1>4, <1>5, <1>7

LEMMA HeaderParsed ==
  ASSUME NEW l \in {Header("Interface", TRUE), CommentedHeader} \cup {Header("Peer", f) : f \in BOOLEAN},
         Grown(l), ParserInv, TypeInv', st' = ParseLine(st, l)
  PROVE  ParserInv'
<1>1. PICK n : n = Top
  OBVIOUS
<1>2. st \in ParserState /\ n \in Nat /\ text'[n + 1] = l
  BY <1>1, Growth DEF ParserInv, TypeInv
<1>3. SectionStart(l)
  BY KindCases
<1>4. /\ Current' = n + 1 /\ Waiting' = {}
      /\ OfKind(Body(n + 1), "key")' = {} /\ \A k : Value(n + 1, k)' = NoText
      /\ NameOf(n + 1)' = st.pending
  BY <1>1, <1>3, StartParsed
<1>5. n + 1 # 0 /\ StateOf(Current)' = StateOf(n + 1)'
  BY <1>2, <1>4
<1>6. Lists(Saved(st), Listed)
  BY SavedLists
<1>7. ASSUME l # Header("Interface", TRUE), st'.peers = Saved(st) PROVE FoundInv'
  <2>1. (Listed \ {Current})' = Listed
    BY <1>3, <1>7, ListedKept
  <2>2. PICK I : I = Listed
    OBVIOUS
  <2> QED BY <1>3, <1>6, <1>7, <2>1, <2>2, FoundKept
<1>8. CASE l = Header("Interface", TRUE)
  <2>1. /\ st'.state = "interface" /\ st'.pending = NoText /\ st'.peers = st.peers
    BY <1>2, <1>8, ParseCases, InterfaceFields
  <2>2. StateOf(n + 1)' = "interface"
    BY <1>2, <1>5, <1>8 DEF StateOf, IsPeer, Header
  <2>3. FoundInv'
    BY <1>8, <2>1, FoundSame DEF ParserInv
  <2> QED BY <1>4, <1>5, <2>1, <2>2, <2>3 DEF ParserInv, StateInv, PendingInv, SectionInv
<1>9. CASE l = CommentedHeader
  <2>1. /\ st'.state = "commented" /\ st'.pending = NoText /\ st'.peers = Saved(st)
    BY <1>2, <1>9, ParseCases, CommentedFields
  <2>2. StateOf(n + 1)' = "commented"
    BY <1>2, <1>5, <1>9 DEF StateOf, CommentedHeader
  <2>3. FoundInv'
    BY <1>7, <1>9, <2>1, KindCases
  <2> QED BY <1>4, <1>5, <2>1, <2>2, <2>3 DEF ParserInv, StateInv, PendingInv, SectionInv
<1>10. ASSUME NEW f \in BOOLEAN, l = Header("Peer", f) PROVE ParserInv'
  <2>0. ParseLine(st, Header("Peer", f)) = OnPeer(st)
    BY ParseCases
  <2>1. /\ st'.state = "peer" /\ st'.pending = NoText /\ st'.peers = Saved(st)
        /\ st'.kv = NoKeys /\ st'.name = st.pending
    BY <1>2, <1>10, <2>0, PeerFields
  <2>2. StateOf(n + 1)' = "peer"
    BY <1>2, <1>5, <1>10 DEF StateOf, IsPeer, Header
  <2>3. FoundInv'
    BY <1>7, <1>10, <2>1, KindCases
  <2>4. SectionInv'
    <3>1. \A k : Value(Current, k)' = NoText
      BY <1>4
    <3>2. NameOf(Current)' = st.pending /\ OfKind(Body(Current), "key")' = {}
      BY <1>4
    <3> QED BY <2>1, <3>1, <3>2, EmptyDict DEF SectionInv
  <2> QED BY <1>4, <1>5, <2>1, <2>2, <2>3, <2>4 DEF ParserInv, StateInv, PendingInv
<1> QED BY <1>8, <1>9, <1>10

\* The same text says the same.
LEMMA TextKept ==
  ASSUME text' = text
  PROVE  /\ Current' = Current /\ Waiting' = Waiting /\ Listed' = Listed
         /\ \A i : /\ OfKind(Body(i), "key")' = OfKind(Body(i), "key")
                  /\ NameOf(i)' = NameOf(i) /\ Says(i)' = Says(i)
                  /\ \A k : Value(i, k)' = Value(i, k)
<1>1. \A i, kind : OfKind(Body(i), kind)' = OfKind(Body(i), kind)
  BY DEF OfKind, Body
<1>2. \A i : Own(i)' = Own(i) /\ (IsPeer(i)' <=> IsPeer(i))
  BY <1>1 DEF Own, IsPeer
<1>3. ASSUME NEW i PROVE Prev(i)' = Prev(i)
  <2> DEFINE starts == {h \in 1..(i - 1) : SectionStart(text[h])}
  <2>1. starts' = starts
    OBVIOUS
  <2>2. Prev(i) = IF starts = {} THEN 0 ELSE LastOf(starts)
    BY DEF Prev
  <2>3. Prev(i)' = IF starts' = {} THEN 0 ELSE LastOf(starts')
    BY DEF Prev
  <2> HIDE DEF starts
  <2> QED BY <2>1, <2>2, <2>3
<1>4. ASSUME NEW i PROVE Before(i)' = Before(i)
  <2>1. OfKind(1..(i - 1), "comment")' = OfKind(1..(i - 1), "comment")
    BY DEF OfKind
  <2>2. Before(i) = IF Prev(i) = 0 THEN OfKind(1..(i - 1), "comment")
                    ELSE IF text[Prev(i)].kind = "commented" THEN {}
                    ELSE OfKind(Body(Prev(i)), "comment")
                           \ (IF IsPeer(Prev(i)) THEN Own(Prev(i)) ELSE {})
    BY DEF Before, Prev
  <2>3. PICK p : p = Prev(i)
    OBVIOUS
  <2>4. Before(i)' = IF p = 0 THEN OfKind(1..(i - 1), "comment")'
                     ELSE IF text'[p].kind = "commented" THEN {}
                     ELSE OfKind(Body(p), "comment")' \ (IF IsPeer(p)' THEN Own(p)' ELSE {})
    BY <1>3, <2>3 DEF Before, Prev
  <2>5. /\ OfKind(Body(p), "comment")' = OfKind(Body(p), "comment")
        /\ Own(p)' = Own(p) /\ (IsPeer(p)' <=> IsPeer(p)) /\ text'[p] = text[p]
    BY <1>1, <1>2
  <2>6. CASE p = 0
    BY <2>1, <2>2, <2>3, <2>4, <2>6
  <2>7. CASE p # 0
    BY <2>2, <2>3, <2>4, <2>5, <2>7
  <2> QED BY <2>6, <2>7
<1>5. ASSUME NEW i PROVE NameOf(i)' = NameOf(i)
  <2> DEFINE named == {c \in Own(i) : text[c].text # NoText}
  <2>1. named' = named
    BY <1>2
  <2>2. NameOf(i) = IF Before(i) # {} /\ text[LastOf(Before(i))].text # NoText
                    THEN text[LastOf(Before(i))].text
                    ELSE IF named # {} THEN text[FirstOf(named)].text ELSE NoText
    BY DEF NameOf
  <2>3. NameOf(i)' = IF Before(i)' # {} /\ text'[LastOf(Before(i)')].text # NoText
                     THEN text'[LastOf(Before(i)')].text
                     ELSE IF named' # {} THEN text'[FirstOf(named')].text ELSE NoText
    BY DEF NameOf
  <2> HIDE DEF named
  <2> QED BY <1>4, <2>1, <2>2, <2>3
<1>6. ASSUME NEW i, NEW k PROVE Value(i, k)' = Value(i, k)
  <2> DEFINE at == {j \in OfKind(Body(i), "key") : text[j].key = k}
  <2>1. at' = at
    BY <1>1
  <2>2. Value(i, k) = IF at = {} THEN NoText ELSE text[LastOf(at)].value
    BY DEF Value
  <2>3. Value(i, k)' = IF at' = {} THEN NoText ELSE text'[LastOf(at')].value
    BY DEF Value
  <2> HIDE DEF at
  <2> QED BY <2>1, <2>2, <2>3
<1>7. \A i : Says(i)' = Says(i)
  BY <1>5, <1>6 DEF Says
<1>8. Current' = Current /\ Waiting' = Waiting
  BY <1>3, <1>4 DEF Current, Waiting, Top
<1>9. PeerSections' = PeerSections
  BY <1>1, <1>2 DEF PeerSections
<1>10. CutOff' = CutOff
  BY <1>9 DEF CutOff
<1> QED BY <1>1, <1>5, <1>6, <1>7, <1>8, <1>9, <1>10 DEF Listed

LEMMA StepParsed == ParserInv /\ [ReadLine]_<<text, st>> => ParserInv'
<1> SUFFICES ASSUME ParserInv, [ReadLine]_<<text, st>> PROVE ParserInv'
  OBVIOUS
<1>1. TypeInv'
  BY TypeStep DEF ParserInv
<1>2. CASE ReadLine
  <2>1. PICK l \in Lines : text' = Append(text, l) /\ st' = ParseLine(st, l)
    BY <1>2 DEF ReadLine
  <2>2. Grown(l)
    BY <2>1 DEF Grown, ParserInv, TypeInv
  <2>3. CASE l \in {Header("Interface", TRUE), CommentedHeader} \cup {Header("Peer", f) : f \in BOOLEAN}
    BY <1>1, <2>1, <2>2, <2>3, HeaderParsed
  <2>4. ASSUME NEW t \in Texts, l = Comment(t) PROVE ParserInv'
    <3>1. st' = OnComment(st, t)
      BY <2>1, <2>4, ParseCases
    <3> QED BY <1>1, <2>2, <2>4, <3>1, CommentParsed
  <2>5. ASSUME NEW k \in {"PublicKey", "AllowedIPs"}, NEW v \in Values,
               l = KeyValue(k, v), KeyValue(k, v) \in Lines
        PROVE  ParserInv'
    <3>1. st' = OnKey(st, k, v)
      BY <2>1, <2>5, KeyLine
    <3> QED BY <1>1, <2>2, <2>5, <3>1, KeyParsed
  <2>6. CASE l \in {Blank, Header("Other", TRUE)}
    <3>1. st' = st
      BY <2>1, <2>6, ParseCases
    <3>2. ~SectionStart(l) /\ l.kind \notin {"key", "comment"}
      BY <2>6, KindCases
    <3> QED BY <1>1, <2>2, <3>1, <3>2, OtherParsed
  <2> QED BY <2>3, <2>4, <2>5, <2>6, LineCases
<1>3. CASE UNCHANGED <<text, st>>
  <2>1. StateInv'
    BY <1>3, TextKept DEF ParserInv, StateInv, StateOf, IsPeer
  <2>2. PendingInv'
    BY <1>3, TextKept DEF ParserInv, PendingInv
  <2>3. SectionInv'
    BY <1>3, TextKept DEF ParserInv, SectionInv
  <2>4. FoundInv'
    BY <1>3, TextKept DEF ParserInv, FoundInv, Lists
  <2> QED BY <1>1, <2>1, <2>2, <2>3, <2>4 DEF ParserInv
<1> QED BY <1>2, <1>3

\* SectionsFound (import_wg_config.py:41-151): whatever the text, and however
\* far it has been read, the peers found are the [Peer] sections with a key, in
\* order, each with its own keys and the comment that belongs to it, except
\* those that an [Interface] section follows.
THEOREM ParserFindsSections == Spec => []SectionsFound
<1>1. ParserInv => SectionsFound
  BY SavedLists DEF SectionsFound, Listed
<1> QED BY InitParsed, StepParsed, <1>1, PTL DEF Spec

(***************************************************************************)
(* Whole texts. The parser's states and the builder's texts are functions  *)
(* of the number of lines read and of rows written, each value computed    *)
(* from the one before; that there are such functions, and what holds of   *)
(* all their values, is proved of the least number for which it could fail.*)
(***************************************************************************)

\* The parser's states on the first n lines of t.
Reading(s, t, n) ==
  s = [m \in 0..n |-> IF m = 0 THEN Start ELSE ParseLine(s[m - 1], t[m])]

LEMMA ReadingExists ==
  ASSUME NEW t, NEW n \in Nat
  PROVE  \E s : Reading(s, t, n)
<1> DEFINE Bad == {m \in Nat : ~ \E s : Reading(s, t, m)}
<1>1. SUFFICES ASSUME Bad # {} PROVE FALSE
  OBVIOUS
<1>2. PICK a \in Nat : (~ \E s : Reading(s, t, a)) /\ \A b \in Bad : a <= b
  BY <1>1, Minimum
<1>3. a # 0
  <2>1. Reading([m \in 0..0 |-> Start], t, 0)
    BY DEF Reading
  <2> QED BY <1>2, <2>1
<1>4. a - 1 \in Nat /\ a - 1 \notin Bad
  BY <1>2, <1>3
<1>5. PICK s : Reading(s, t, a - 1)
  BY <1>4
<1> DEFINE r == [m \in 0..a |-> IF m = a THEN ParseLine(s[a - 1], t[a]) ELSE s[m]]
<1>6. \A m \in 0..(a - 1) : s[m] = IF m = 0 THEN Start ELSE ParseLine(s[m - 1], t[m])
  BY <1>5 DEF Reading
<1>7. ASSUME NEW m \in 0..a
      PROVE  r[m] = IF m = 0 THEN Start ELSE ParseLine(r[m - 1], t[m])
  <2>1. CASE m = 0
    BY <1>3, <1>4, <1>6, <2>1
  <2>2. CASE m # 0
    <3>1. m - 1 \in 0..(a - 1) /\ m - 1 # a
      BY <2>2
    <3>2. r[m - 1] = s[m - 1]
      BY <3>1
    <3>3. CASE m = a
      BY <2>2, <3>2, <3>3
    <3>4. CASE m # a
      <4>1. m \in 0..(a - 1)
        BY <3>4
      <4>2. r[m] = s[m]
        BY <3>4
      <4> QED BY <1>6, <2>2, <3>2, <4>1, <4>2
    <3> QED BY <3>3, <3>4
  <2> QED BY <2>1, <2>2
<1>8. Reading(r, t, a)
  <2>1. r = [m \in 0..a |-> r[m]]
    OBVIOUS
  <2> HIDE DEF r
  <2> QED BY <1>7, <2>1 DEF Reading
<1> QED BY <1>2, <1>8

LEMMA ReadingSame ==
  ASSUME NEW s, NEW t, NEW n \in Nat, Reading(s, t, n),
         NEW r, NEW u, NEW k \in n..(n + 1), Reading(r, u, k),
         \A j \in 1..n : t[j] = u[j]
  PROVE  r[n] = s[n]
<1> DEFINE Bad == {m \in 0..n : r[m] # s[m]}
<1>1. SUFFICES ASSUME Bad # {} PROVE FALSE
  OBVIOUS
<1>2. PICK a \in 0..n : r[a] # s[a] /\ \A b \in Bad : a <= b
  <2>1. Bad \in SUBSET Nat
    OBVIOUS
  <2> QED BY <1>1, <2>1, Minimum
<1>3. /\ s[a] = IF a = 0 THEN Start ELSE ParseLine(s[a - 1], t[a])
      /\ r[a] = IF a = 0 THEN Start ELSE ParseLine(r[a - 1], u[a])
  <2>1. s[a] = IF a = 0 THEN Start ELSE ParseLine(s[a - 1], t[a])
    BY DEF Reading
  <2>2. a \in 0..k
    OBVIOUS
  <2>3. r[a] = IF a = 0 THEN Start ELSE ParseLine(r[a - 1], u[a])
    BY <2>2 DEF Reading
  <2> QED BY <2>1, <2>3
<1>4. a # 0
  BY <1>2, <1>3
<1>5. a - 1 \in 0..n /\ a - 1 \notin Bad /\ t[a] = u[a]
  BY <1>2, <1>4
<1> QED BY <1>2, <1>3, <1>4, <1>5

LEMMA AfterIs ==
  ASSUME NEW t, Len(t) \in Nat
  PROVE  \E s : Reading(s, t, Len(t)) /\ After(t) = s[Len(t)]
<1> DEFINE s == CHOOSE s : s = [m \in 0..Len(t) |-> IF m = 0 THEN Start
                                                   ELSE ParseLine(s[m - 1], t[m])]
<1>1. After(t) = s[Len(t)]
  BY DEF After
<1>2. \E x : x = [m \in 0..Len(t) |-> IF m = 0 THEN Start ELSE ParseLine(x[m - 1], t[m])]
  BY ReadingExists DEF Reading
<1>3. Reading(s, t, Len(t))
  BY <1>2 DEF Reading
<1> QED BY <1>1, <1>3

\* Before the first line, and after one more.
LEMMA AfterNone == After(<<>>) = Start
<1>1. PICK s : Reading(s, <<>>, 0) /\ After(<<>>) = s[0]
  BY AfterIs
<1> QED BY <1>1 DEF Reading

LEMMA AfterAppend ==
  ASSUME NEW S, NEW t \in Seq(S), NEW l \in S
  PROVE  After(Append(t, l)) = ParseLine(After(t), l)
<1> DEFINE u == Append(t, l)
           n == Len(t)
<1>1. n \in Nat /\ Len(u) = n + 1 /\ u[n + 1] = l /\ \A j \in 1..n : t[j] = u[j]
  OBVIOUS
<1> HIDE DEF u, n
<1>2. PICK s : Reading(s, t, n) /\ After(t) = s[n]
  BY <1>1, AfterIs DEF n
<1>3. PICK r : Reading(r, u, n + 1) /\ After(u) = r[n + 1]
  BY <1>1, AfterIs
<1>4. r[n] = s[n]
  BY <1>1, <1>2, <1>3, ReadingSame
<1>5. r[n + 1] = ParseLine(r[n], u[n + 1])
  BY <1>1, <1>3 DEF Reading
<1> QED BY <1>1, <1>2, <1>3, <1>4, <1>5 DEF u

\* The parser stays in a state it knows.
LEMMA AfterType ==
  ASSUME NEW t \in Seq(Lines)
  PROVE  WellFormed(After(t))
<1>1. PICK s : Reading(s, t, Len(t)) /\ After(t) = s[Len(t)]
  BY AfterIs
<1> DEFINE Bad == {m \in 0..Len(t) : ~ WellFormed(s[m])}
<1>2. SUFFICES ASSUME Bad # {} PROVE FALSE
  BY <1>1
<1>3. PICK a \in 0..Len(t) : ~ WellFormed(s[a]) /\ \A b \in Bad : a <= b
  <2>1. Bad \in SUBSET Nat
    OBVIOUS
  <2> QED BY <1>2, <2>1, Minimum
<1>4. s[a] = IF a = 0 THEN Start ELSE ParseLine(s[a - 1], t[a])
  BY <1>1 DEF Reading
<1>5. a # 0
  BY <1>3, <1>4, WellFormedStart
<1>6. a - 1 \in 0..Len(t) /\ a - 1 \notin Bad /\ t[a] \in Lines
  BY <1>3, <1>5
<1> QED BY <1>3, <1>4, <1>5, <1>6, WellFormedStep

\* Without a peer's header there are no peers.
Peerless(s) == s.state # "peer" /\ s.peers = <<>>

LEMMA PeerlessStep ==
  ASSUME NEW s \in ParserState, Peerless(s), NEW l \in Lines,
         ~(l.kind = "header" /\ l.name = "Peer")
  PROVE  Peerless(ParseLine(s, l))
<1>1. PICK r : r = ParseLine(s, l)
  OBVIOUS
<1>2. Saved(s) = s.peers
  BY DEF Saved, Peerless
<1>3. CASE l = Header("Interface", TRUE)
  <2>1. r = OnInterface(s)
    BY <1>1, <1>3, ParseCases
  <2> QED BY <1>1, <2>1, InterfaceFields DEF Peerless
<1>4. CASE l = CommentedHeader
  <2>1. r = OnCommented(s)
    BY <1>1, <1>4, ParseCases
  <2> QED BY <1>1, <1>2, <2>1, CommentedFields DEF Peerless
<1>5. CASE \E c \in Texts : l = Comment(c)
  <2>1. PICK c \in Texts : r = OnComment(s, c)
    BY <1>1, <1>5, ParseCases
  <2> QED BY <1>1, <2>1, CommentFields DEF Peerless
<1>6. CASE \E k \in {"PublicKey", "AllowedIPs"}, v \in Values :
             l = KeyValue(k, v) /\ KeyValue(k, v) \in Lines
  <2>1. PICK k, v : l = KeyValue(k, v)
    BY <1>6
  <2>2. r = OnKey(s, k, v)
    BY <1>1, <2>1, KeyLine
  <2> QED BY <1>1, <2>2, KeyFields DEF Peerless
<1>7. CASE l \in {Blank, Header("Other", TRUE)}
  BY <1>7, ParseCases
<1>8. \A f \in BOOLEAN : l # Header("Peer", f)
  BY DEF Header
<1> QED BY <1>3, <1>4, <1>5, <1>6, <1>7, <1>8, LineCases

LEMMA HeaderKinds ==
  ASSUME NEW l \in Lines, l.kind = "header", l.name = "Peer"
  PROVE  \E f \in BOOLEAN : l = Header("Peer", f)
<1>1. l # Header("Interface", TRUE) /\ l # CommentedHeader
  BY DEF Header, CommentedHeader
<1>2. \A c \in Texts : l # Comment(c)
  BY DEF Comment
<1>3. \A k, v : l # KeyValue(k, v)
  BY DEF KeyValue
<1>4. l \notin {Blank, Header("Other", TRUE)}
  BY DEF Blank, Header
<1> QED BY <1>1, <1>2, <1>3, <1>4, LineCases

LEMMA AfterPeerless ==
  ASSUME NEW t \in Seq(Lines),
         \A j \in 1..Len(t) : ~(t[j].kind = "header" /\ t[j].name = "Peer")
  PROVE  Parse(t) = <<>>
<1>1. PICK s : Reading(s, t, Len(t)) /\ After(t) = s[Len(t)]
  BY AfterIs
<1> DEFINE Fine(x) == WellFormed(x) /\ Peerless(x)
           Bad == {m \in 0..Len(t) : ~ Fine(s[m])}
<1>2. Bad = {}
  <2>1. SUFFICES ASSUME Bad # {} PROVE FALSE
    OBVIOUS
  <2>2. PICK a \in 0..Len(t) : ~ Fine(s[a]) /\ \A b \in Bad : a <= b
    <3>1. Bad \in SUBSET Nat
      OBVIOUS
    <3> QED BY <2>1, <3>1, Minimum
  <2>3. s[a] = IF a = 0 THEN Start ELSE ParseLine(s[a - 1], t[a])
    BY <1>1 DEF Reading
  <2>4. Fine(Start)
    BY WellFormedStart DEF Start, Peerless
  <2>5. a # 0
    BY <2>2, <2>3, <2>4
  <2>6. a - 1 \in 0..Len(t) /\ a - 1 \notin Bad /\ t[a] \in Lines /\ a \in 1..Len(t)
    BY <2>2, <2>5
  <2>7. PICK x : x = s[a - 1]
    OBVIOUS
  <2>8. WellFormed(x) /\ Peerless(x)
    BY <2>6, <2>7
  <2>9. Fine(ParseLine(x, t[a]))
    BY <2>6, <2>8, WellFormedStep, PeerlessStep DEF WellFormed
  <2> HIDE DEF Fine
  <2> QED BY <2>2, <2>3, <2>5, <2>7, <2>9
<1>3. Peerless(After(t))
  BY <1>1, <1>2
<1> QED BY <1>3 DEF Parse, Saved, Peerless

(***************************************************************************)
(* The block that is kept of the old text                                  *)
(***************************************************************************)

\* rstrip: up to the last line that is not blank.
LEMMA StrippedIs ==
  ASSUME NEW S, NEW t \in Seq(S), NEW k \in 0..Len(t), k # 0 => t[k] # Blank,
         \A j \in (k + 1)..Len(t) : t[j] = Blank
  PROVE  Stripped(t) = SubSeq(t, 1, k)
<1> DEFINE I == {i \in 1..Len(t) : t[i] # Blank}
<1>1. SelectLastInSeq(t, LAMBDA l : l # Blank) = IF I # {} THEN Max(I) ELSE 0
  BY DEF SelectLastInSeq
<1>2. (IF I # {} THEN Max(I) ELSE 0) = k
  BY DEF Max
<1> QED BY <1>1, <1>2 DEF Stripped

LEMMA StrippedAt ==
  ASSUME NEW S, NEW t \in Seq(S)
  PROVE  \E k \in 0..Len(t) : /\ k # 0 => t[k] # Blank
                              /\ \A j \in (k + 1)..Len(t) : t[j] = Blank
                              /\ Stripped(t) = SubSeq(t, 1, k)
<1> DEFINE I == {i \in 1..Len(t) : t[i] # Blank}
           k == IF I = {} THEN 0 ELSE LastOf(I)
<1>1. I \in SUBSET (0..Len(t)) /\ Len(t) \in Nat
  OBVIOUS
<1>2. I # {} => LastOf(I) \in I /\ \A b \in I : b <= LastOf(I)
  BY <1>1, LastIn
<1>3. \A j \in 1..Len(t) : t[j] # Blank => j \in I
  OBVIOUS
<1>4. k \in 0..Len(t) /\ (k # 0 => t[k] # Blank) /\ \A j \in (k + 1)..Len(t) : t[j] = Blank
  <2>1. CASE I = {}
    <3>1. k = 0
      BY <2>1
    <3> HIDE DEF I, k
    <3> QED BY <1>1, <1>3, <2>1, <3>1
  <2>2. CASE I # {}
    <3>1. k \in I /\ \A b \in I : b <= k
      BY <1>2, <2>2
    <3>2. k \in 1..Len(t) /\ t[k] # Blank
      BY <3>1
    <3> HIDE DEF I, k
    <3> QED BY <1>1, <1>3, <3>1, <3>2
  <2> QED BY <2>1, <2>2
<1> HIDE DEF k
<1>5. Stripped(t) = SubSeq(t, 1, k)
  BY <1>4, StrippedIs
<1> QED BY <1>4, <1>5

\* The header the builder looks for.
Sought == Header("Peer", TRUE)

LEMMA SplitsAre ==
  ASSUME NEW t, Len(t) \in Nat
  PROVE  /\ Splits(t) \in SUBSET Nat
         /\ \A i : i \in Splits(t) <=> i \in 2..Len(t) /\ t[i] = Sought
<1>1. Splits(t) = {i \in 2..Len(t) : t[i] = Sought}
  BY Zenon DEF Splits, Sought
<1> QED BY <1>1

\* Where the block ends: before it there is no header the builder looks for,
\* and its last line is not blank.
LEMMA BlockAt ==
  ASSUME NEW S, NEW t \in Seq(S)
  PROVE  \E k \in 0..Len(t) :
           /\ InterfaceBlock(t) = SubSeq(t, 1, k)
           /\ k # 0 => t[k] # Blank
           /\ \A j \in 2..k : t[j] # Sought
<1> DEFINE first == CHOOSE i \in Splits(t) : \A j \in Splits(t) : i <= j
<1>0. Len(t) \in Nat
  OBVIOUS
<1>1. CASE Splits(t) = {}
  <2>1. InterfaceBlock(t) = Stripped(t)
    BY <1>1 DEF InterfaceBlock
  <2>2. PICK k \in 0..Len(t) : (k # 0 => t[k] # Blank) /\ Stripped(t) = SubSeq(t, 1, k)
    BY StrippedAt
  <2>3. \A j \in 2..k : t[j] # Sought
    BY <1>0, <1>1, SplitsAre
  <2> QED BY <2>1, <2>2, <2>3
<1>2. CASE Splits(t) # {}
  <2>1. Splits(t) \in SUBSET Nat
    BY <1>0, SplitsAre
  <2>2. first \in Splits(t) /\ \A j \in Splits(t) : first <= j
    BY <1>2, <2>1, FirstIn DEF FirstOf
  <2>3. InterfaceBlock(t) = Stripped(SubSeq(t, 1, first - 1))
    BY <1>2 DEF InterfaceBlock
  <2> HIDE DEF first
  <2>4. first \in 2..Len(t)
    BY <1>0, <2>2, SplitsAre
  <2>5. PICK u : u = SubSeq(t, 1, first - 1)
    OBVIOUS
  <2>6. /\ u \in Seq(S) /\ Len(u) = first - 1
        /\ \A j \in 1..(first - 1) : u[j] = t[j]
    BY <2>4, <2>5
  <2>7. PICK k \in 0..Len(u) : (k # 0 => u[k] # Blank) /\ Stripped(u) = SubSeq(u, 1, k)
    BY <2>6, StrippedAt
  <2>8. SubSeq(u, 1, k) = SubSeq(t, 1, k)
    <3>1. k \in Nat /\ k <= first - 1 /\ first <= Len(t)
      BY <2>4, <2>6
    <3>2. SubSeq(u, 1, k) = [j \in 1..k |-> u[j]]
      BY <2>6, <3>1
    <3>3. SubSeq(t, 1, k) = [j \in 1..k |-> t[j]]
      BY <1>0, <2>4, <3>1
    <3>4. \A j \in 1..k : u[j] = t[j]
      BY <2>4, <2>6, <3>1
    <3> QED BY <3>2, <3>3, <3>4
  <2>9. k \in 0..Len(t) /\ (k # 0 => t[k] # Blank)
    BY <2>4, <2>6, <2>7
  <2>10. \A j \in 2..k : t[j] # Sought
    <3>1. ASSUME NEW j \in 2..k, t[j] = Sought PROVE FALSE
      <4>1. j \in Splits(t)
        BY <1>0, <2>9, <3>1, SplitsAre
      <4>2. first <= j /\ j <= first - 1
        BY <2>2, <2>4, <2>6, <4>1
      <4> QED BY <2>4, <4>2
    <3> QED BY <3>1
  <2> QED BY <2>3, <2>5, <2>7, <2>8, <2>9, <2>10
<1> QED BY <1>1, <1>2

(***************************************************************************)
(* The text that is built                                                  *)
(***************************************************************************)

\* The lines of texts and of the rows' keys.
Written(rows) == Lines \cup {Keys(rows[n])[j] : n \in 1..Len(rows), j \in 1..2}

\* The first line of the text, or its block.
Kept(t) == IF InterfaceBlock(t) = <<>> THEN <<Blank>> ELSE InterfaceBlock(t)

\* The texts built with the first n rows.
Writing(b, t, rows, n) ==
  b = [m \in 0..n |-> IF m = 0 THEN Kept(t) ELSE b[m - 1] \o Section(rows[m])]

LEMMA WritingExists ==
  ASSUME NEW t, NEW rows, NEW n \in Nat
  PROVE  \E b : Writing(b, t, rows, n)
<1> DEFINE Bad == {m \in Nat : ~ \E b : Writing(b, t, rows, m)}
<1>1. SUFFICES ASSUME Bad # {} PROVE FALSE
  OBVIOUS
<1>2. PICK a \in Nat : (~ \E b : Writing(b, t, rows, a)) /\ \A m \in Bad : a <= m
  BY <1>1, Minimum
<1>3. a # 0
  <2>1. Writing([m \in 0..0 |-> Kept(t)], t, rows, 0)
    BY DEF Writing
  <2> QED BY <1>2, <2>1
<1>4. a - 1 \in Nat /\ a - 1 \notin Bad
  BY <1>2, <1>3
<1>5. PICK b : Writing(b, t, rows, a - 1)
  BY <1>4
<1> DEFINE c == [m \in 0..a |-> IF m = a THEN b[a - 1] \o Section(rows[a]) ELSE b[m]]
<1>6. \A m \in 0..(a - 1) : b[m] = IF m = 0 THEN Kept(t) ELSE b[m - 1] \o Section(rows[m])
  BY <1>5 DEF Writing
<1>7. c = [m \in 0..a |-> c[m]]
  OBVIOUS
<1>8. \A m \in 0..a : c[m] = IF m = a THEN b[a - 1] \o Section(rows[a]) ELSE b[m]
  OBVIOUS
<1> HIDE DEF c
<1>9. ASSUME NEW m \in 0..a
      PROVE  c[m] = IF m = 0 THEN Kept(t) ELSE c[m - 1] \o Section(rows[m])
  <2>1. CASE m = 0
    BY <1>3, <1>4, <1>6, <1>8, <2>1
  <2>2. CASE m # 0
    <3>1. m - 1 \in 0..(a - 1) /\ m - 1 # a
      BY <2>2
    <3>2. c[m - 1] = b[m - 1]
      BY <1>8, <3>1
    <3>3. CASE m = a
      BY <1>8, <2>2, <3>2, <3>3
    <3>4. CASE m # a
      <4>1. m \in 0..(a - 1)
        BY <3>4
      <4>2. c[m] = b[m]
        BY <1>8, <3>4
      <4> QED BY <1>6, <2>2, <3>2, <4>1, <4>2
    <3> QED BY <3>3, <3>4
  <2> QED BY <2>1, <2>2
<1>10. Writing(c, t, rows, a)
  BY <1>7, <1>9 DEF Writing
<1> QED BY <1>2, <1>10

LEMMA BuildIs ==
  ASSUME NEW t, NEW rows, Len(rows) \in Nat
  PROVE  \E b : Writing(b, t, rows, Len(rows)) /\ Build(t, rows) = b[Len(rows)]
<1> DEFINE b == CHOOSE b : Writing(b, t, rows, Len(rows))
<1>1. Build(t, rows) = b[Len(rows)]
  BY DEF Build, Writing, Kept
<1>2. Writing(b, t, rows, Len(rows))
  <2>1. \E x : Writing(x, t, rows, Len(rows))
    BY WritingExists
  <2> QED BY <2>1
<1> QED BY <1>1, <1>2

\* The text built depends on the block only.
LEMMA BuildOfBlock ==
  ASSUME NEW t, NEW u, NEW rows, InterfaceBlock(t) = InterfaceBlock(u)
  PROVE  Build(t, rows) = Build(u, rows)
  BY DEF Build

\* The block is a prefix of the text, without the header that is sought.
LEMMA KeptIs ==
  ASSUME NEW t \in Seq(Lines)
  PROVE  /\ InterfaceBlock(t) \in Seq(Lines) /\ Kept(t) \in Seq(Lines)
         /\ Len(Kept(t)) \in Nat \ {0}
         /\ \A j \in 2..Len(Kept(t)) : Kept(t)[j] # Sought
         /\ InterfaceBlock(t) # <<>> => Kept(t)[Len(Kept(t))] # Blank
<1>1. PICK k \in 0..Len(t) : /\ InterfaceBlock(t) = SubSeq(t, 1, k)
                             /\ k # 0 => t[k] # Blank
                             /\ \A j \in 2..k : t[j] # Sought
  BY BlockAt
<1>2. PICK u : u = SubSeq(t, 1, k)
  OBVIOUS
<1>3. u \in Seq(Lines) /\ Len(u) = k /\ \A j \in 1..k : u[j] = t[j]
  BY <1>2
<1>4. CASE k = 0
  <2>1. u = <<>>
    BY <1>3, <1>4
  <2>2. Blank \in Lines
    BY DEF Lines
  <2>3. Kept(t) = <<Blank>>
    BY <1>1, <1>2, <2>1 DEF Kept
  <2> QED BY <1>1, <1>2, <2>1, <2>2, <2>3
<1>5. CASE k # 0
  <2>1. u # <<>>
    BY <1>3, <1>5
  <2>2. Kept(t) = u
    BY <1>1, <1>2, <2>1 DEF Kept
  <2> QED BY <1>1, <1>2, <1>3, <1>5, <2>2
<1> QED BY <1>4, <1>5

\* The text x, of lines of S, begins with the block b, then comes a section.
Begins(x, S, b) == /\ x \in Seq(S) /\ Len(x) >= Len(b)
                   /\ \A j \in 1..Len(b) : x[j] = b[j]

SectionNext(x, b) == /\ Len(x) >= Len(b) + 2
                     /\ x[Len(b) + 1] = Blank /\ x[Len(b) + 2] = Sought

LEMMA Joined ==
  ASSUME NEW S, NEW x \in Seq(S), NEW y \in Seq(S)
  PROVE  /\ x \o y \in Seq(S) /\ Len(x \o y) = Len(x) + Len(y)
         /\ \A j \in 1..Len(x) : (x \o y)[j] = x[j]
         /\ \A j \in 1..Len(y) : (x \o y)[Len(x) + j] = y[j]
  OBVIOUS

LEMMA TableRows ==
  ASSUME NEW rows \in Tables
  PROVE  /\ Len(rows) \in Nat /\ DOMAIN rows = 1..Len(rows)
         /\ \A n \in 1..Len(rows) : rows[n] = Peer(rows[n].key, rows[n].ips, rows[n].name)
         /\ \A n \in 1..Len(rows) : NameLines[rows[n].name] \in Seq(Lines)
<1>1. PICK R : R = {Peer(rows[n].key, rows[n].ips, rows[n].name) : n \in DOMAIN rows}
  OBVIOUS
<1>2. rows \in Seq(R)
  BY <1>1, TablesAssumption
<1>3. Len(rows) \in Nat /\ DOMAIN rows = 1..Len(rows) /\ \A n \in 1..Len(rows) : rows[n] \in R
  BY <1>2
<1>4. ASSUME NEW n \in 1..Len(rows)
      PROVE  rows[n] = Peer(rows[n].key, rows[n].ips, rows[n].name)
  <2>1. PICK m \in DOMAIN rows : rows[n] = Peer(rows[m].key, rows[m].ips, rows[m].name)
    BY <1>1, <1>3
  <2> QED BY <2>1 DEF Peer
<1>5. ASSUME NEW n \in 1..Len(rows)
      PROVE  NameLines[rows[n].name] \in Seq(Lines)
  BY <1>3, TablesAssumption, NamesAssumption
<1> QED BY <1>3, <1>4, <1>5

\* A row's section, whatever its name makes of it: the header and then lines.
LEMMA SectionIn ==
  ASSUME NEW rows \in Tables, NEW n \in 1..Len(rows)
  PROVE  /\ Section(rows[n]) \in Seq(Written(rows)) /\ Len(Section(rows[n])) >= 2
         /\ Section(rows[n])[1] = Blank /\ Section(rows[n])[2] = Sought
<1>1. PICK S : S = Written(rows)
  OBVIOUS
<1>2. PICK x : x = <<Blank, Sought>>
  OBVIOUS
<1>3. x \in Seq(S) /\ Len(x) = 2 /\ x[1] = Blank /\ x[2] = Sought
  <2>1. Blank \in Lines /\ Sought \in Lines
    BY DEF Lines, Sought
  <2>2. Blank \in S /\ Sought \in S
    BY <1>1, <2>1 DEF Written
  <2> QED BY <1>2, <2>2
<1>4. PICK y : y = NameLines[rows[n].name]
  OBVIOUS
<1>5. y \in Seq(S)
  <2>1. y \in Seq(Lines)
    BY <1>4, TableRows
  <2> QED BY <1>1, <2>1 DEF Written
<1>6. PICK z : z = Keys(rows[n])
  OBVIOUS
<1>7. z \in Seq(S)
  <2>1. \A j \in 1..2 : Keys(rows[n])[j] \in Written(rows)
    <3>1. PICK N : N = 1..Len(rows)
      OBVIOUS
    <3> QED BY <3>1 DEF Written
  <2>2. PICK a, b : z = <<a, b>>
    BY <1>6 DEF Keys
  <2>3. a \in S /\ b \in S
    BY <1>1, <1>6, <2>1, <2>2
  <2> QED BY <2>2, <2>3
<1>8. PICK u : u = x \o y
  OBVIOUS
<1>9. u \in Seq(S) /\ Len(u) >= 2 /\ u[1] = Blank /\ u[2] = Sought
  <2>1. u \in Seq(S) /\ Len(u) = Len(x) + Len(y) /\ \A j \in 1..Len(x) : u[j] = x[j]
    BY <1>3, <1>5, <1>8, Joined
  <2> QED BY <1>3, <1>5, <2>1
<1>10. PICK v : v = u \o z
  OBVIOUS
<1>11. v \in Seq(S) /\ Len(v) >= 2 /\ v[1] = Blank /\ v[2] = Sought
  <2>1. v \in Seq(S) /\ Len(v) = Len(u) + Len(z) /\ \A j \in 1..Len(u) : v[j] = u[j]
    BY <1>7, <1>9, <1>10, Joined
  <2> QED BY <1>7, <1>9, <2>1
<1>12. Section(rows[n]) = v
  BY <1>2, <1>4, <1>6, <1>8, <1>10 DEF Section, Sought
<1> QED BY <1>1, <1>11, <1>12

LEMMA BuildBegins ==
  ASSUME NEW t \in Seq(Lines), NEW rows \in Tables
  PROVE  /\ Begins(Build(t, rows), Written(rows), Kept(t))
         /\ IF Len(rows) = 0 THEN Build(t, rows) = Kept(t) ELSE SectionNext(Build(t, rows), Kept(t))
<1>0. Len(rows) \in Nat
  BY TableRows
<1>1. PICK b : Writing(b, t, rows, Len(rows)) /\ Build(t, rows) = b[Len(rows)]
  BY <1>0, BuildIs
<1>2. PICK k : k = Kept(t)
  OBVIOUS
<1>3. k \in Seq(Lines) /\ Len(k) \in Nat
  BY <1>2, KeptIs
<1> DEFINE Fine(x, m) == /\ Begins(x, Written(rows), k)
                         /\ IF m = 0 THEN x = k ELSE SectionNext(x, k)
           Bad == {m \in 0..Len(rows) : ~ Fine(b[m], m)}
<1>4. Bad = {}
  <2>1. SUFFICES ASSUME Bad # {} PROVE FALSE
    OBVIOUS
  <2>2. PICK a \in 0..Len(rows) : ~ Fine(b[a], a) /\ \A m \in Bad : a <= m
    <3>1. Bad \in SUBSET Nat
      BY <1>0
    <3> QED BY <2>1, <3>1, Minimum
  <2>3. b[a] = IF a = 0 THEN k ELSE b[a - 1] \o Section(rows[a])
    BY <1>1, <1>2 DEF Writing
  <2>4. Fine(k, 0)
    <3>1. k \in Seq(Written(rows))
      BY <1>3 DEF Written
    <3> QED BY <1>3, <3>1 DEF Begins
  <2>5. a # 0
    BY <2>2, <2>3, <2>4
  <2>6. a - 1 \in 0..Len(rows) /\ a - 1 \notin Bad /\ a \in 1..Len(rows)
    BY <1>0, <2>2, <2>5
  <2>7. PICK x : x = b[a - 1]
    OBVIOUS
  <2>8. Fine(x, a - 1)
    BY <2>6, <2>7
  <2>9. PICK y : y = Section(rows[a])
    OBVIOUS
  <2>10. y \in Seq(Written(rows)) /\ Len(y) >= 2 /\ y[1] = Blank /\ y[2] = Sought
    BY <2>6, <2>9, SectionIn
  <2>11. PICK z : z = x \o y
    OBVIOUS
  <2>12. x \in Seq(Written(rows)) /\ Len(x) >= Len(k) /\ \A j \in 1..Len(k) : x[j] = k[j]
    BY <2>8 DEF Begins
  <2>13. /\ z \in Seq(Written(rows)) /\ Len(z) >= Len(x) + 2
         /\ \A j \in 1..Len(x) : z[j] = x[j]
         /\ z[Len(x) + 1] = Blank /\ z[Len(x) + 2] = Sought
    <3>1. PICK S : S = Written(rows)
      OBVIOUS
    <3>2. x \in Seq(S) /\ y \in Seq(S)
      BY <2>10, <2>12, <3>1
    <3>3. /\ x \o y \in Seq(S) /\ Len(x \o y) = Len(x) + Len(y)
          /\ \A j \in 1..Len(x) : (x \o y)[j] = x[j]
          /\ \A j \in 1..Len(y) : (x \o y)[Len(x) + j] = y[j]
      BY <3>2, Joined
    <3>4. /\ z \in Seq(S) /\ Len(z) >= Len(x) + 2
          /\ \A j \in 1..Len(x) : z[j] = x[j]
          /\ \A j \in 1..2 : z[Len(x) + j] = y[j]
      BY <2>10, <2>11, <3>2, <3>3
    <3> QED BY <2>10, <3>1, <3>4
  <2>14. Len(x) \in Nat
    BY <2>12
  <2>15. Begins(z, Written(rows), k)
    <3>1. \A j \in 1..Len(k) : j \in 1..Len(x)
      BY <1>3, <2>12, <2>14
    <3>2. \A j \in 1..Len(k) : z[j] = k[j]
      BY <2>12, <2>13, <3>1
    <3>3. Len(z) >= Len(k)
      BY <1>3, <2>12, <2>13, <2>14
    <3> QED BY <2>13, <3>2, <3>3 DEF Begins
  <2>16. SectionNext(z, k)
    <3>1. CASE a - 1 = 0
      <4>1. x = k
        BY <2>8, <3>1
      <4> QED BY <2>13, <2>14, <4>1 DEF SectionNext
    <3>2. CASE a - 1 # 0
      <4>1. SectionNext(x, k)
        BY <2>8, <3>2
      <4>2. Len(k) + 1 \in 1..Len(x) /\ Len(k) + 2 \in 1..Len(x)
        BY <1>3, <2>14, <4>1 DEF SectionNext
      <4>3. z[Len(k) + 1] = x[Len(k) + 1] /\ z[Len(k) + 2] = x[Len(k) + 2]
        BY <2>13, <4>2
      <4>4. Len(z) >= Len(k) + 2
        BY <1>3, <2>13, <2>14, <4>2
      <4> QED BY <4>1, <4>3, <4>4 DEF SectionNext
    <3> QED BY <3>1, <3>2
  <2> QED BY <2>2, <2>3, <2>5, <2>7, <2>9, <2>11, <2>15, <2>16
<1> HIDE DEF Fine
<1>5. Fine(b[Len(rows)], Len(rows))
  BY <1>4
<1> QED BY <1>1, <1>2, <1>5 DEF Fine

\* What is built is cut where it was cut before.
LEMMA BlockOfBuilt ==
  ASSUME NEW t \in Seq(Lines), NEW rows \in Tables
  PROVE  InterfaceBlock(Build(t, rows)) = InterfaceBlock(t)
<1> DEFINE S == Written(rows)
<1>1. PICK x : x = Build(t, rows)
  OBVIOUS
<1>2. PICK k : k = Kept(t)
  OBVIOUS
<1>3. /\ Begins(x, S, k)
      /\ IF Len(rows) = 0 THEN x = k ELSE SectionNext(x, k)
  BY <1>1, <1>2, BuildBegins
<1>4. /\ k \in Seq(Lines) /\ Len(k) \in Nat \ {0}
      /\ \A j \in 2..Len(k) : k[j] # Sought
      /\ InterfaceBlock(t) # <<>> => k[Len(k)] # Blank
  BY <1>2, KeptIs
<1> HIDE DEF S
<1>5. /\ x \in Seq(S) /\ Len(x) \in Nat /\ Len(x) >= Len(k)
      /\ \A j \in 1..Len(k) : x[j] = k[j]
  BY <1>3 DEF Begins
<1>6. PICK u \in Seq(S) : /\ InterfaceBlock(x) = Stripped(u)
                          /\ Len(u) \in Len(k)..(Len(k) + 1)
                          /\ \A j \in 1..Len(k) : u[j] = k[j]
                          /\ \A j \in (Len(k) + 1)..Len(u) : u[j] = Blank
  <2>1. CASE Len(rows) = 0
    <3>1. x = k
      BY <1>3, <2>1
    <3>2. Splits(x) = {}
      BY <1>4, <3>1, SplitsAre
    <3>3. InterfaceBlock(x) = Stripped(x)
      BY <3>2 DEF InterfaceBlock
    <3> QED BY <1>4, <1>5, <3>1, <3>3
  <2>2. CASE Len(rows) # 0
    <3>1. Len(x) >= Len(k) + 2 /\ x[Len(k) + 1] = Blank /\ x[Len(k) + 2] = Sought
      BY <1>3, <2>2 DEF SectionNext
    <3> DEFINE first == FirstOf(Splits(x))
    <3>2. Len(k) + 2 \in Splits(x)
      <4>1. Len(k) + 2 \in 2..Len(x)
        BY <1>4, <1>5, <3>1
      <4> QED BY <1>5, <3>1, <4>1, SplitsAre
    <3>3. Blank # Sought
      BY DEF Blank, Sought, Header
    <3>4. ASSUME NEW j \in Splits(x) PROVE Len(k) + 2 <= j
      <4>1. j \in 2..Len(x) /\ x[j] = Sought
        BY <1>5, SplitsAre
      <4>2. j \notin 2..Len(k)
        BY <1>4, <1>5, <4>1
      <4>3. j # Len(k) + 1
        BY <3>1, <3>3, <4>1
      <4> QED BY <1>4, <4>1, <4>2, <4>3
    <3>5. Splits(x) \in SUBSET Nat
      BY <1>5, SplitsAre
    <3>6. first = Len(k) + 2
      BY <3>2, <3>4, <3>5, FirstIs
    <3>7. InterfaceBlock(x) = Stripped(SubSeq(x, 1, first - 1))
      BY <3>2 DEF InterfaceBlock, FirstOf
    <3> HIDE DEF first
    <3>8. first - 1 = Len(k) + 1
      BY <1>4, <3>6
    <3>9. PICK u : u = SubSeq(x, 1, Len(k) + 1)
      OBVIOUS
    <3>10. u \in Seq(S) /\ Len(u) = Len(k) + 1 /\ \A j \in 1..(Len(k) + 1) : u[j] = x[j]
      <4>1. Len(k) + 1 \in Nat /\ Len(k) + 1 <= Len(x)
        BY <1>4, <1>5, <3>1
      <4>2. u = [j \in 1..(Len(k) + 1) |-> x[j]]
        BY <1>5, <3>9, <4>1
      <4>3. \A j \in 1..(Len(k) + 1) : x[j] \in S
        BY <1>5, <4>1
      <4> QED BY <4>1, <4>2, <4>3
    <3>11. \A j \in 1..Len(k) : u[j] = k[j]
      BY <1>4, <1>5, <3>10
    <3>12. u[Len(k) + 1] = Blank
      BY <1>4, <3>1, <3>10
    <3>13. \A j \in (Len(k) + 1)..Len(u) : u[j] = Blank
      BY <1>4, <3>10, <3>12
    <3>14. InterfaceBlock(x) = Stripped(u) /\ Len(u) \in Len(k)..(Len(k) + 1)
      BY <1>4, <3>7, <3>8, <3>9, <3>10
    <3> QED BY <3>10, <3>11, <3>13, <3>14
  <2> QED BY <2>1, <2>2
<1>7. CASE InterfaceBlock(t) = <<>>
  <2>1. k = <<Blank>>
    BY <1>2, <1>7 DEF Kept
  <2>2. \A j \in 1..Len(u) : u[j] = Blank
    BY <1>6, <2>1
  <2>3. Stripped(u) = SubSeq(u, 1, 0)
    BY <2>2, StrippedIs
  <2>4. SubSeq(u, 1, 0) = <<>>
    OBVIOUS
  <2> QED BY <1>1, <1>6, <1>7, <2>3, <2>4
<1>8. CASE InterfaceBlock(t) # <<>>
  <2>1. k = InterfaceBlock(t)
    BY <1>2, <1>8 DEF Kept
  <2>2. Len(k) \in 0..Len(u) /\ u[Len(k)] # Blank
    BY <1>4, <1>6, <1>8
  <2>3. Stripped(u) = SubSeq(u, 1, Len(k))
    BY <1>6, <2>2, StrippedIs
  <2>4. SubSeq(u, 1, Len(k)) = k
    <3>1. SubSeq(u, 1, Len(k)) = [j \in 1..Len(k) |-> u[j]]
      BY <1>4, <1>6
    <3>2. k = [j \in 1..Len(k) |-> k[j]]
      BY <1>4
    <3> QED BY <1>6, <3>1, <3>2
  <2> QED BY <1>1, <1>6, <2>1, <2>3, <2>4
<1> QED BY <1>7, <1>8

(***************************************************************************)
(* Reading a row's section                                                 *)
(***************************************************************************)
Named(s, r) == OnComment(OnPeer(s), r.name)

ReadSection(s, r) == OnKey(OnKey(Named(s, r), "PublicKey", r.key), "AllowedIPs", r.ips)

LEMMA FiveLines ==
  ASSUME NEW S, NEW a \in S, NEW b \in S, NEW c \in S, NEW d \in S, NEW e \in S
  PROVE  (<<a, b>> \o <<c>>) \o <<d, e>> = <<a, b, c, d, e>>
<1>1. PICK p : p = <<a, b>>
  OBVIOUS
<1>2. PICK q : q = <<c>>
  OBVIOUS
<1>3. PICK u : u = <<d, e>>
  OBVIOUS
<1>4. /\ p \in Seq(S) /\ Len(p) = 2 /\ p[1] = a /\ p[2] = b
      /\ q \in Seq(S) /\ Len(q) = 1 /\ q[1] = c
      /\ u \in Seq(S) /\ Len(u) = 2 /\ u[1] = d /\ u[2] = e
  BY <1>1, <1>2, <1>3
<1>5. PICK v : v = p \o q
  OBVIOUS
<1>6. /\ v \in Seq(S) /\ Len(v) = Len(p) + Len(q)
      /\ \A j \in 1..Len(p) : v[j] = p[j]
      /\ \A j \in 1..Len(q) : v[Len(p) + j] = q[j]
  <2>1. /\ p \o q \in Seq(S) /\ Len(p \o q) = Len(p) + Len(q)
        /\ \A j \in 1..Len(p) : (p \o q)[j] = p[j]
        /\ \A j \in 1..Len(q) : (p \o q)[Len(p) + j] = q[j]
    <3>1. p \in Seq(S) /\ q \in Seq(S)
      BY <1>4
    <3> QED BY <3>1, Joined
  <2> QED BY <1>5, <2>1
<1>7. v \in Seq(S) /\ Len(v) = 3 /\ v[1] = a /\ v[2] = b /\ v[3] = c
  <2>1. v[2 + 1] = q[1]
    BY <1>4, <1>6
  <2> QED BY <1>4, <1>6, <2>1
<1>8. PICK w : w = v \o u
  OBVIOUS
<1>9. /\ w \in Seq(S) /\ Len(w) = Len(v) + Len(u)
      /\ \A j \in 1..Len(v) : w[j] = v[j]
      /\ \A j \in 1..Len(u) : w[Len(v) + j] = u[j]
  <2>1. /\ v \o u \in Seq(S) /\ Len(v \o u) = Len(v) + Len(u)
        /\ \A j \in 1..Len(v) : (v \o u)[j] = v[j]
        /\ \A j \in 1..Len(u) : (v \o u)[Len(v) + j] = u[j]
    <3>1. v \in Seq(S) /\ u \in Seq(S)
      BY <1>4, <1>7
    <3> QED BY <3>1, Joined
  <2> QED BY <1>8, <2>1
<1>10. w \in Seq(S) /\ Len(w) = 5 /\ w[1] = a /\ w[2] = b /\ w[3] = c /\ w[4] = d /\ w[5] = e
  <2>1. w[3 + 1] = u[1] /\ w[3 + 2] = u[2]
    BY <1>4, <1>7, <1>9
  <2> QED BY <1>4, <1>7, <1>9, <2>1
<1>11. w = <<a, b, c, d, e>>
  BY <1>10
<1> QED BY <1>1, <1>2, <1>3, <1>5, <1>8, <1>11

LEMMA AfterSection ==
  ASSUME NEW S, NEW x \in Seq(S), NEW r, Section(r) \in Seq(S), Plain(r.name)
  PROVE  After(x \o Section(r)) = ReadSection(After(x), r)
<1> DEFINE a == Comment(r.name)
           b == KeyValue("PublicKey", r.key)
           c == KeyValue("AllowedIPs", r.ips)
<1>1. Section(r) = <<Blank, Sought, a, b, c>>
  <2>1. Section(r) = (<<Blank, Sought>> \o <<a>>) \o <<b, c>>
    BY DEF Section, Keys, Plain, Sought
  <2>2. PICK A, B, C, D, E : A = Blank /\ B = Sought /\ C = a /\ D = b /\ E = c
    OBVIOUS
  <2>3. PICK T : T = {A, B, C, D, E}
    OBVIOUS
  <2>4. A \in T /\ B \in T /\ C \in T /\ D \in T /\ E \in T
    BY <2>3
  <2>5. (<<A, B>> \o <<C>>) \o <<D, E>> = <<A, B, C, D, E>>
    BY <2>4, FiveLines
  <2> QED BY <2>1, <2>2, <2>5
<1>2. /\ \A s : ParseLine(s, Blank) = s
      /\ \A s : ParseLine(s, Sought) = OnPeer(s)
      /\ \A s : ParseLine(s, a) = OnComment(s, r.name)
      /\ \A s : ParseLine(s, b) = OnKey(s, "PublicKey", r.key)
      /\ \A s : ParseLine(s, c) = OnKey(s, "AllowedIPs", r.ips)
  <2>1. \A s : ParseLine(s, Blank) = s
    BY ParseCases
  <2>2. \A s : ParseLine(s, Sought) = OnPeer(s)
    BY ParseCases DEF Sought
  <2>3. \A s : ParseLine(s, a) = OnComment(s, r.name)
    BY DEF ParseLine, Header, Comment
  <2>4. \A s : ParseLine(s, b) = OnKey(s, "PublicKey", r.key)
    BY KeyLine
  <2>5. \A s : ParseLine(s, c) = OnKey(s, "AllowedIPs", r.ips)
    BY KeyLine
  <2> QED BY <2>1, <2>2, <2>3, <2>4, <2>5
<1> HIDE DEF a, b, c
<1>3. Blank \in S /\ Sought \in S /\ a \in S /\ b \in S /\ c \in S
  BY <1>1
<1>4. ASSUME NEW t \in Seq(S), NEW l \in S
      PROVE  Append(t, l) \in Seq(S) /\ After(Append(t, l)) = ParseLine(After(t), l)
  BY AfterAppend
<1>5. PICK x1 \in Seq(S) : x1 = Append(x, Blank) /\ After(x1) = After(x)
  <2>1. Append(x, Blank) \in Seq(S) /\ After(Append(x, Blank)) = ParseLine(After(x), Blank)
    BY <1>3, <1>4
  <2> QED BY <1>2, <2>1
<1>6. PICK x2 \in Seq(S) : x2 = Append(x1, Sought) /\ After(x2) = OnPeer(After(x))
  <2>1. Append(x1, Sought) \in Seq(S) /\ After(Append(x1, Sought)) = ParseLine(After(x1), Sought)
    BY <1>3, <1>4
  <2> QED BY <1>2, <1>5, <2>1
<1>7. PICK x3 \in Seq(S) : x3 = Append(x2, a) /\ After(x3) = Named(After(x), r)
  <2>1. Append(x2, a) \in Seq(S) /\ After(Append(x2, a)) = ParseLine(After(x2), a)
    BY <1>3, <1>4
  <2> QED BY <1>2, <1>6, <2>1 DEF Named
<1>8. PICK x4 \in Seq(S) : /\ x4 = Append(x3, b)
                           /\ After(x4) = OnKey(Named(After(x), r), "PublicKey", r.key)
  <2>1. Append(x3, b) \in Seq(S) /\ After(Append(x3, b)) = ParseLine(After(x3), b)
    BY <1>3, <1>4
  <2> QED BY <1>2, <1>7, <2>1
<1>9. PICK x5 \in Seq(S) : x5 = Append(x4, c) /\ After(x5) = ReadSection(After(x), r)
  <2>1. Append(x4, c) \in Seq(S) /\ After(Append(x4, c)) = ParseLine(After(x4), c)
    BY <1>3, <1>4
  <2> QED BY <1>2, <1>8, <2>1 DEF ReadSection
<1>10. x \o <<Blank, Sought, a, b, c>> = x5
  BY <1>3, <1>5, <1>6, <1>7, <1>8, <1>9
<1> QED BY <1>1, <1>9, <1>10

Fields == {"state", "kv", "pending", "name", "interface", "peers"}

\* The name a row's section is read with, after the state s.
NameRead(s, r) == IF s.pending # NoText THEN s.pending ELSE r.name

LEMMA SectionRead ==
  ASSUME NEW s, DOMAIN s = Fields, NEW r, NEW y, y = ReadSection(s, r)
  PROVE  /\ DOMAIN y = Fields /\ y.pending = NoText
         /\ Saved(y) = Append(Saved(s), Peer(r.key, r.ips, NameRead(s, r)))
<1>1. PICK p : p = OnPeer(s)
  OBVIOUS
<1>2. /\ DOMAIN p = Fields /\ p.state = "peer" /\ p.kv = NoKeys /\ p.pending = NoText
      /\ p.name = s.pending /\ p.peers = Saved(s)
  BY <1>1 DEF OnPeer, Fields
<1>3. PICK q : q = Named(s, r)
  OBVIOUS
<1>4. /\ DOMAIN q = Fields /\ q.state = "peer" /\ q.kv = NoKeys /\ q.pending = NoText
      /\ q.name = NameRead(s, r) /\ q.peers = Saved(s)
  BY <1>1, <1>2, <1>3 DEF Named, OnComment, NameRead, Fields
<1>5. PICK k : k = OnKey(q, "PublicKey", r.key)
  OBVIOUS
<1>6. /\ DOMAIN k = Fields /\ k.state = "peer" /\ k.kv = Put(NoKeys, "PublicKey", r.key)
      /\ k.pending = NoText /\ k.name = NameRead(s, r) /\ k.peers = Saved(s)
  BY <1>4, <1>5 DEF OnKey, Fields
<1>7. y = OnKey(k, "AllowedIPs", r.ips)
  BY <1>3, <1>5 DEF ReadSection
<1>8. /\ DOMAIN y = Fields /\ y.state = "peer"
      /\ y.kv = Put(Put(NoKeys, "PublicKey", r.key), "AllowedIPs", r.ips)
      /\ y.pending = NoText /\ y.name = NameRead(s, r) /\ y.peers = Saved(s)
  BY <1>6, <1>7 DEF OnKey, Fields
<1>9. PICK d : d = Put(NoKeys, "PublicKey", r.key)
  OBVIOUS
<1>10. DOMAIN d = {"PublicKey"} /\ d["PublicKey"] = r.key
  BY <1>9 DEF Put, NoKeys
<1>11. /\ DOMAIN y.kv = {"PublicKey", "AllowedIPs"}
       /\ y.kv["PublicKey"] = r.key /\ y.kv["AllowedIPs"] = r.ips
  BY <1>8, <1>9, <1>10 DEF Put
<1>12. y.kv # NoKeys
  BY <1>11 DEF NoKeys
<1>13. MakePeer(y) = Peer(r.key, r.ips, NameRead(s, r))
  BY <1>8, <1>11 DEF MakePeer, Get
<1>14. Saved(y) = Append(Saved(s), Peer(r.key, r.ips, NameRead(s, r)))
  BY <1>8, <1>12, <1>13 DEF Saved
<1> QED BY <1>8, <1>14

(***************************************************************************)
(* The three properties of the builder                                     *)
(***************************************************************************)

\* What the row n of rows is read back as, after a block that ends with the
\* comment pending.
RowRead(rows, pending, n) ==
  IF n = 1 /\ pending # NoText THEN [rows[n] EXCEPT !.name = pending] ELSE rows[n]

LEMMA RowReadIs ==
  ASSUME NEW rows \in Tables, NEW pending, NEW n \in 1..Len(rows)
  PROVE  RowRead(rows, pending, n)
           = Peer(rows[n].key, rows[n].ips,
                  IF n = 1 /\ pending # NoText THEN pending ELSE rows[n].name)
<1>1. rows[n] = Peer(rows[n].key, rows[n].ips, rows[n].name)
  BY TableRows
<1> QED BY <1>1 DEF RowRead, Peer

\* The kept block is read as the block is.
LEMMA AfterKept ==
  ASSUME NEW t \in Seq(Lines)
  PROVE  After(Kept(t)) = After(InterfaceBlock(t)) /\ WellFormed(After(Kept(t)))
<1>1. CASE InterfaceBlock(t) = <<>>
  <2>1. Blank \in Lines /\ <<>> \in Seq(Lines) /\ Append(<<>>, Blank) = <<Blank>>
    BY DEF Lines
  <2>2. After(<<Blank>>) = ParseLine(After(<<>>), Blank)
    BY <2>1, AfterAppend
  <2>3. ParseLine(After(<<>>), Blank) = After(<<>>)
    BY ParseCases
  <2>4. Kept(t) = <<Blank>>
    BY <1>1 DEF Kept
  <2>5. WellFormed(After(Kept(t)))
    BY KeptIs, AfterType
  <2> QED BY <1>1, <2>2, <2>3, <2>4, <2>5
<1>2. CASE InterfaceBlock(t) # <<>>
  <2>1. Kept(t) = InterfaceBlock(t)
    BY <1>2 DEF Kept
  <2> QED BY <2>1, KeptIs, AfterType
<1> QED BY <1>1, <1>2

LEMMA OneMore ==
  ASSUME NEW S, NEW h \in Seq(S), NEW r \in Seq(S), NEW a \in 1..Len(r)
  PROVE  Append(h \o SubSeq(r, 1, a - 1), r[a]) = h \o SubSeq(r, 1, a)
<1>1. PICK p : p = SubSeq(r, 1, a - 1)
  OBVIOUS
<1>2. PICK q : q = SubSeq(r, 1, a)
  OBVIOUS
<1>3. p \in Seq(S) /\ Len(p) = a - 1 /\ \A j \in 1..(a - 1) : p[j] = r[j]
  BY <1>1
<1>4. q \in Seq(S) /\ Len(q) = a /\ \A j \in 1..a : q[j] = r[j]
  BY <1>2
<1>5. q = Append(p, r[a])
  BY <1>3, <1>4
<1>6. Append(h \o p, r[a]) = h \o Append(p, r[a])
  <2>1. r[a] \in S
    OBVIOUS
  <2>2. PICK e \in S : e = r[a]
    BY <2>1
  <2>3. Append(h \o p, e) = h \o Append(p, e)
    <3>1. <<e>> \in Seq(S) /\ h \o p \in Seq(S)
      BY <1>3
    <3>2. \A x \in Seq(S) : Append(x, e) = x \o <<e>>
      BY AppendIsConcat
    <3>3. (h \o p) \o <<e>> = h \o (p \o <<e>>)
      <4>1. PICK one \in Seq(S) : one = <<e>>
        BY <3>1
      <4>2. p \in Seq(S)
        BY <1>3
      <4>3. (h \o p) \o one = h \o (p \o one)
        BY <4>2, ConcatAssociative, SMTT(30)
      <4> QED BY <4>1, <4>3, Zenon
    <3>4. Append(h \o p, e) = (h \o p) \o <<e>>
      BY <3>1, <3>2
    <3>5. Append(p, e) = p \o <<e>>
      BY <1>3, <3>2
    <3> QED BY <3>3, <3>4, <3>5, Zenon
  <2> QED BY <2>2, <2>3
<1> QED BY <1>1, <1>2, <1>5, <1>6

LEMMA ReadBack ==
  ASSUME NEW t \in Seq(Lines), NEW rows \in Tables,
         \A n \in DOMAIN rows : Plain(rows[n].name)
  PROVE  LET block == After(InterfaceBlock(t))
         IN Parse(Build(t, rows))
              = Saved(block) \o [n \in DOMAIN rows |-> RowRead(rows, block.pending, n)]
<1>1. PICK b : Writing(b, t, rows, Len(rows)) /\ Build(t, rows) = b[Len(rows)]
  BY BuildIs, TableRows
<1>2. PICK s : s = After(InterfaceBlock(t))
  OBVIOUS
<1>3. s = After(Kept(t)) /\ WellFormed(s)
  BY <1>2, AfterKept
<1>4. DOMAIN s = Fields /\ Saved(s) \in Seq(FoundPeer)
  BY <1>3, SavedType DEF WellFormed, ParserState, Fields
<1>5. Len(rows) \in Nat /\ DOMAIN rows = 1..Len(rows)
  BY TableRows
<1>6. PICK h : h = Saved(s)
  OBVIOUS
<1>7. PICK R : R = [n \in 1..Len(rows) |-> RowRead(rows, s.pending, n)]
  OBVIOUS
<1>8. PICK F : F = FoundPeer \cup {R[n] : n \in 1..Len(rows)}
  OBVIOUS
<1>9. h \in Seq(F) /\ R \in Seq(F) /\ Len(R) = Len(rows)
  <2>1. h \in Seq(F)
    BY <1>4, <1>6, <1>8
  <2>2. \A n \in 1..Len(rows) : R[n] \in F
    BY <1>8
  <2>3. R \in [1..Len(rows) -> F]
    BY <1>7, <2>2
  <2> QED BY <1>5, <2>1, <2>3
<1> DEFINE W == Written(rows)
           Fine(x, n) == /\ x \in Seq(W)
                         /\ DOMAIN After(x) = Fields
                         /\ Saved(After(x)) = h \o SubSeq(R, 1, n)
                         /\ After(x).pending = IF n = 0 THEN s.pending ELSE NoText
           Bad == {n \in 0..Len(rows) : ~ Fine(b[n], n)}
<1>10. Bad = {}
  <2>1. SUFFICES ASSUME Bad # {} PROVE FALSE
    OBVIOUS
  <2>2. PICK a \in 0..Len(rows) : ~ Fine(b[a], a) /\ \A n \in Bad : a <= n
    <3>1. Bad \in SUBSET Nat
      BY <1>5
    <3> QED BY <2>1, <3>1, Minimum
  <2>3. b[a] = IF a = 0 THEN Kept(t) ELSE b[a - 1] \o Section(rows[a])
    BY <1>1 DEF Writing
  <2>4. Fine(Kept(t), 0)
    <3>1. Kept(t) \in Seq(W)
      BY KeptIs DEF Written
    <3>2. SubSeq(R, 1, 0) = <<>>
      BY <1>9
    <3>3. h \o <<>> = h
      BY <1>9, ConcatEmptySeq
    <3>4. Saved(After(Kept(t))) = h \o SubSeq(R, 1, 0)
      BY <1>3, <1>6, <3>2, <3>3
    <3> QED BY <1>3, <1>4, <3>1, <3>4
  <2>5. a # 0
    BY <2>2, <2>3, <2>4
  <2>6. a - 1 \in 0..Len(rows) /\ a - 1 \notin Bad /\ a \in 1..Len(rows)
    BY <1>5, <2>2, <2>5
  <2>7. PICK x : x = b[a - 1]
    OBVIOUS
  <2>8. Fine(x, a - 1)
    BY <2>6, <2>7
  <2>9. PICK e : e = After(x)
    OBVIOUS
  <2>10. PICK y : y = ReadSection(e, rows[a])
    OBVIOUS
  <2>11. PICK z : z = x \o Section(rows[a])
    OBVIOUS
  <2>12. Section(rows[a]) \in Seq(W)
    BY <2>6, SectionIn
  <2> HIDE DEF W
  <2>13. z \in Seq(W) /\ After(z) = y
    <3>1. Plain(rows[a].name)
      BY <1>5, <2>6
    <3> QED BY <2>8, <2>9, <2>10, <2>11, <2>12, <3>1, AfterSection
  <2>14. /\ DOMAIN y = Fields /\ y.pending = NoText
         /\ Saved(y) = Append(Saved(e), Peer(rows[a].key, rows[a].ips, NameRead(e, rows[a])))
    BY <2>8, <2>9, <2>10, SectionRead
  <2>15. Peer(rows[a].key, rows[a].ips, NameRead(e, rows[a])) = R[a]
    <3>1. e.pending = IF a - 1 = 0 THEN s.pending ELSE NoText
      BY <2>8, <2>9
    <3>2. NameRead(e, rows[a])
            = IF a = 1 /\ s.pending # NoText THEN s.pending ELSE rows[a].name
      BY <2>6, <3>1 DEF NameRead
    <3>3. R[a] = RowRead(rows, s.pending, a)
      BY <1>7, <2>6
    <3> QED BY <2>6, <3>2, <3>3, RowReadIs
  <2>16. Append(h \o SubSeq(R, 1, a - 1), R[a]) = h \o SubSeq(R, 1, a)
    <3>1. h \in Seq(F) /\ R \in Seq(F) /\ a \in 1..Len(R)
      BY <1>9, <2>6
    <3> HIDE DEF Fine
    <3> QED BY <3>1, OneMore
  <2>17. Saved(e) = h \o SubSeq(R, 1, a - 1)
    BY <2>8, <2>9
  <2>18. Fine(z, a)
    BY <2>5, <2>13, <2>14, <2>15, <2>16, <2>17
  <2> QED BY <2>2, <2>3, <2>5, <2>7, <2>11, <2>18
<1>11. Fine(b[Len(rows)], Len(rows))
  BY <1>5, <1>10
<1>12. SubSeq(R, 1, Len(rows)) = R
  BY <1>5, <1>9
<1>13. Parse(Build(t, rows)) = h \o R
  BY <1>1, <1>11, <1>12 DEF Parse
<1> QED BY <1>2, <1>5, <1>6, <1>7, <1>13

\* RebuildForgets, whatever the texts, the tables and the names in them: syncing twice writes what
\* the last sync alone would have written, and nothing of a table that was
\* written before is left.
THEOREM SyncForgetsTables == Spec => []RebuildForgets
<1>1. TypeInv => RebuildForgets
  <2> SUFFICES ASSUME TypeInv, NEW before \in Tables, NEW rows \in Tables
               PROVE  Build(Build(text, before), rows) = Build(text, rows)
    BY DEF RebuildForgets
  <2>1. text \in Seq(Lines)
    BY DEF TypeInv
  <2> QED BY <2>1, BlockOfBuilt, BuildOfBlock
<1> QED BY InitType, TypeStep, <1>1, PTL DEF Spec

\* RowsReadBack, whatever the texts and the tables of plain names: the import
\* finds every row in what a sync writes, in order, after the peers the block
\* hides, and only the first row's name can be another. (Of a name that is not
\* plain the run conf_row_name shows that the row can be missed.)
THEOREM ImportReadsTables == Spec => []RowsReadBack
<1>1. TypeInv => RowsReadBack
  <2> SUFFICES ASSUME TypeInv PROVE RowsReadBack
    OBVIOUS
  <2>1. text \in Seq(Lines)
    BY DEF TypeInv
  <2>2. \A rows \in {u \in Tables : \A n \in DOMAIN u : Plain(u[n].name)} :
          LET block == After(InterfaceBlock(text))
          IN Parse(Build(text, rows))
               = Saved(block) \o [n \in DOMAIN rows |-> RowRead(rows, block.pending, n)]
    BY <2>1, ReadBack
  <2> QED BY <2>2 DEF RowsReadBack, RowRead
<1> QED BY InitType, TypeStep, <1>1, PTL DEF Spec

\* HiddenOnlyByLayout, whatever the text: a sync leaves a peer in the file that
\* is not in the table only if its header is indented or the first line.
THEOREM LayoutHidesPeers == Spec => []HiddenOnlyByLayout
<1>1. TypeInv => HiddenOnlyByLayout
  <2> SUFFICES ASSUME TypeInv,
                      \A i \in DOMAIN text : IsPeer(i) => i # 1 /\ text[i].flush
               PROVE  Parse(InterfaceBlock(text)) = <<>>
    BY DEF HiddenOnlyByLayout
  <2>1. text \in Seq(Lines) /\ DOMAIN text = 1..Len(text)
    BY DEF TypeInv
  <2>2. PICK k \in 0..Len(text) : /\ InterfaceBlock(text) = SubSeq(text, 1, k)
                                  /\ \A j \in 2..k : text[j] # Sought
    BY <2>1, BlockAt
  <2>3. PICK u : u = SubSeq(text, 1, k)
    OBVIOUS
  <2>4. u \in Seq(Lines) /\ Len(u) = k /\ \A j \in 1..k : u[j] = text[j]
    BY <2>1, <2>3
  <2>5. ASSUME NEW j \in 1..k, text[j].kind = "header", text[j].name = "Peer"
        PROVE  FALSE
    <3>1. j \in DOMAIN text /\ IsPeer(j)
      BY <2>1, <2>5 DEF IsPeer
    <3>2. j \in 2..k /\ text[j].flush
      BY <3>1
    <3>3. text[j] \in Lines
      BY <2>1, <3>1
    <3>4. PICK f \in BOOLEAN : text[j] = Header("Peer", f)
      BY <2>5, <3>3, HeaderKinds
    <3>5. text[j] = Sought
      <4>1. f = TRUE
        BY <3>2, <3>4 DEF Header
      <4> QED BY <3>4, <4>1 DEF Sought
    <3> QED BY <2>2, <3>2, <3>5
  <2>6. \A j \in 1..Len(u) : ~(u[j].kind = "header" /\ u[j].name = "Peer")
    BY <2>4, <2>5
  <2> QED BY <2>2, <2>3, <2>4, <2>6, AfterPeerless
<1> QED BY InitType, TypeStep, <1>1, PTL DEF Spec

\* The loop of the parser and the function are the same: what _parse_conf
\* returns of the whole text are the sections with a key, in order, but those
\* an [Interface] section follows.
THEOREM ParseReturnsSections == Spec => [](/\ st = After(text)
                                           /\ Lists(Parse(text), PeerSections \ CutOff))
<1> DEFINE Inv == ParserInv /\ st = After(text)
<1>1. Init => Inv
  BY InitParsed, AfterNone DEF Init
<1>2. Inv /\ [ReadLine]_<<text, st>> => Inv'
  <2> SUFFICES ASSUME Inv, ReadLine PROVE st' = After(text')
    BY StepParsed
  <2>1. PICK l \in Lines : text' = Append(text, l) /\ st' = ParseLine(st, l)
    BY DEF ReadLine
  <2>2. text \in Seq(Lines)
    BY DEF ParserInv, TypeInv
  <2>3. After(Append(text, l)) = ParseLine(After(text), l)
    BY <2>2, AfterAppend
  <2> QED BY <2>1, <2>3
<1>3. Inv => st = After(text) /\ Lists(Parse(text), PeerSections \ CutOff)
  BY SavedLists DEF Listed, Parse
<1> QED BY <1>1, <1>2, <1>3, PTL DEF Spec

\* A sync that is made twice writes nothing the second time, whatever the rows
\* are called. If their names are plain and the file's block hides no peer and
\* does not end with a comment, the import finds exactly the rows of the table.
THEOREM SyncRoundTrip ==
  ASSUME NEW t \in Seq(Lines), NEW rows \in Tables
  PROVE  /\ Build(Build(t, rows), rows) = Build(t, rows)
         /\ (/\ \A n \in DOMAIN rows : Plain(rows[n].name)
             /\ Parse(InterfaceBlock(t)) = <<>>
             /\ After(InterfaceBlock(t)).pending = NoText) => Parse(Build(t, rows)) = rows
<1>1. Build(Build(t, rows), rows) = Build(t, rows)
  BY BlockOfBuilt, BuildOfBlock
<1> SUFFICES ASSUME \A n \in DOMAIN rows : Plain(rows[n].name),
                    Parse(InterfaceBlock(t)) = <<>>, After(InterfaceBlock(t)).pending = NoText
             PROVE  Parse(Build(t, rows)) = rows
  BY <1>1
<1>2. PICK R : R = [n \in DOMAIN rows |-> RowRead(rows, NoText, n)]
  OBVIOUS
<1>3. Len(rows) \in Nat /\ DOMAIN rows = 1..Len(rows) /\ rows = [n \in 1..Len(rows) |-> rows[n]]
  <2>1. PICK S : rows \in Seq(S)
    BY TablesAssumption
  <2> QED BY <2>1
<1>4. R = rows
  BY <1>2, <1>3 DEF RowRead
<1>5. Parse(Build(t, rows)) = <<>> \o R
  BY <1>2, ReadBack DEF Parse
<1>6. <<>> \o rows = rows
  <2>1. PICK S : rows \in Seq(S)
    BY TablesAssumption
  <2> QED BY <2>1, ConcatEmptySeq
<1> QED BY <1>4, <1>5, <1>6
=============================================================================
