------------------------------ MODULE ConfText ------------------------------
(***************************************************************************)
(* The text of the interface's conf file: the parser of import_wg_config   *)
(* (_parse_conf), which reads it line by line, and the builder of the      *)
(* services (_build_server_conf), which keeps what comes before the first  *)
(* peer section and rewrites the peer sections from the table.             *)
(*                                                                         *)
(* A text is a sequence of lines, a line a record of its kind and of what  *)
(* the two of them look at.                                                *)
(***************************************************************************)
EXTENDS Naturals, Sequences, SequencesExt

CONSTANTS
  Names,       \* the texts of comments
  PeerKeys,    \* the values of PublicKey lines
  Addresses,   \* the values of AllowedIPs lines
  NoText,      \* the empty string
  Tables,      \* the rows, in order, the peer sections are rebuilt from
  NameLines,   \* a row's name |-> the lines "# name (e-mail)" makes of it
  MaxLines     \* bound on the length of the text that is read

ASSUME BoundAssumption == MaxLines \in Nat

-----------------------------------------------------------------------------
(* Lines *)

Blank == [kind |-> "blank"]

\* A section header; the parser strips the line, the builder looks for [Peer]
\* at the very start of one.
Header(n, flush) == [kind |-> "header", name |-> n, flush |-> flush]

\* "#[Peer]", "# [Interface]": the header of a section commented out.
CommentedHeader == [kind |-> "commented"]

Comment(c) == [kind |-> "comment", text |-> c]

KeyValue(k, v) == [kind |-> "key", key |-> k, value |-> v]

Lines == {Blank, CommentedHeader, Header("Interface", TRUE), Header("Other", TRUE)}
           \cup {Header("Peer", flush) : flush \in BOOLEAN}
           \cup {Comment(c) : c \in Names \cup {NoText}}
           \cup {KeyValue("PublicKey", k) : k \in PeerKeys}
           \cup {KeyValue("AllowedIPs", a) : a \in Addresses}

\* A section the parser found: a peer's dict.
Peer(key, ips, name) == [key |-> key, ips |-> ips, name |-> name]

\* A name is any text the owner gave: one with a line break makes several
\* lines, "[Phone]" the header of a section commented out.
ASSUME NamesAssumption == \A n \in DOMAIN NameLines : NameLines[n] \in Seq(Lines)

\* The names that make one comment.
Plain(n) == NameLines[n] = <<Comment(n)>>

\* A table is a sequence of rows, each what a peer's section is written from.
ASSUME TablesAssumption ==
  \A rows \in Tables :
    /\ rows \in Seq({Peer(rows[n].key, rows[n].ips, rows[n].name) : n \in DOMAIN rows})
    /\ \A n \in DOMAIN rows : rows[n].name \in DOMAIN NameLines

-----------------------------------------------------------------------------
(* The parser *)

NoKeys == <<>>      \* the empty dict

Start == [state |-> "none", kv |-> NoKeys, pending |-> NoText, name |-> NoText,
          interface |-> NoKeys, peers |-> <<>>]

Get(kv, k) == IF k \in DOMAIN kv THEN kv[k] ELSE NoText

\* kv[k] = v
Put(kv, k, v) == [x \in DOMAIN kv \cup {k} |-> IF x = k THEN v ELSE kv[x]]

\* _make_peer
MakePeer(st) == Peer(Get(st.kv, "PublicKey"), Get(st.kv, "AllowedIPs"), st.name)

\* The peers found so far, with the one being read if it has a key.
Saved(st) == IF st.state = "peer" /\ st.kv # NoKeys
             THEN Append(st.peers, MakePeer(st)) ELSE st.peers

\* Mutant: the keys read so far are kept.
OnInterfaceKeepsKeys(st) == [st EXCEPT !.state = "interface", !.pending = NoText]

\* [Interface]: a peer that is being read is not saved.
OnInterface(st) == [st EXCEPT !.state = "interface", !.kv = NoKeys, !.pending = NoText]

OnPeer(st) == [st EXCEPT !.peers = Saved(st), !.state = "peer", !.kv = NoKeys,
                         !.name = st.pending, !.pending = NoText]

\* Mutant: a commented-out section does not end the section before it.
OnCommentedIgnored(st) == st

OnCommented(st) == [st EXCEPT !.peers = Saved(st), !.state = "commented", !.kv = NoKeys,
                              !.name = NoText, !.pending = NoText]

\* A comment names the peer being read until its first key, after that the
\* next peer.
OnComment(st, c) ==
  IF st.state \in {"none", "interface"} \/ (st.state = "peer" /\ st.kv # NoKeys)
  THEN [st EXCEPT !.pending = c]
  ELSE IF st.state = "peer" /\ st.name = NoText THEN [st EXCEPT !.name = c] ELSE st

OnKey(st, k, v) ==
  CASE st.state = "interface" -> [st EXCEPT !.interface = Put(@, k, v)]
    [] st.state = "peer"      -> [st EXCEPT !.kv = Put(@, k, v)]
    [] OTHER                  -> st

\* The body of the loop over the lines. Other headers match nothing.
ParseLine(st, l) ==
  CASE l = Header("Interface", TRUE)              -> OnInterface(st)
    [] l \in {Header("Peer", f) : f \in BOOLEAN}  -> OnPeer(st)
    [] l.kind = "commented"                       -> OnCommented(st)
    [] l.kind = "comment"                         -> OnComment(st, l.text)
    [] l.kind = "key"                             -> OnKey(st, l.key, l.value)
    [] OTHER                                      -> st

\* The parser's state after the text t, and the peers _parse_conf returns.
After(t) ==
  LET s[n \in 0..Len(t)] == IF n = 0 THEN Start ELSE ParseLine(s[n - 1], t[n])
  IN s[Len(t)]
Parse(t) == Saved(After(t))

-----------------------------------------------------------------------------
(* The builder *)

\* Mutant: an empty line before the header is expected.
SplitsAfterBlank(t) == {i \in 3..Len(t) : t[i] = Header("Peer", TRUE) /\ t[i - 1] = Blank}

\* Where a line break is followed by "[Peer]".
Splits(t) == {i \in 2..Len(t) : t[i] = Header("Peer", TRUE)}

\* rstrip
Stripped(t) == SubSeq(t, 1, SelectLastInSeq(t, LAMBDA l : l # Blank))

\* Mutant: the block keeps its trailing blank lines.
UnstrippedBlock(t) ==
  IF Splits(t) = {} THEN t
  ELSE SubSeq(t, 1, (CHOOSE i \in Splits(t) : \A j \in Splits(t) : i <= j) - 1)

\* The text before the first split, without the blank lines at its end.
InterfaceBlock(t) ==
  Stripped(IF Splits(t) = {} THEN t
           ELSE SubSeq(t, 1, (CHOOSE i \in Splits(t) : \A j \in Splits(t) : i <= j) - 1))

\* The keys at the end of a row's section.
Keys(r) == <<KeyValue("PublicKey", r.key), KeyValue("AllowedIPs", r.ips)>>

\* Mutant: the name is written before the header.
SectionNameFirst(r) == <<Blank>> \o NameLines[r.name] \o <<Header("Peer", TRUE)>> \o Keys(r)

\* The lines of one row's section, the name's after its header.
Section(r) == <<Blank, Header("Peer", TRUE)>> \o NameLines[r.name] \o Keys(r)

\* _build_server_conf, from the text t of the file and the rows in order. An
\* empty block still is a line.
Build(t, rows) ==
  LET b[n \in 0..Len(rows)] ==
        IF n = 0 THEN IF InterfaceBlock(t) = <<>> THEN <<Blank>> ELSE InterfaceBlock(t)
        ELSE b[n - 1] \o Section(rows[n])
  IN b[Len(rows)]

-----------------------------------------------------------------------------
(* Reading a text line by line *)

VARIABLES
  text,   \* the lines read
  st      \* the parser's state

Init == text = <<>> /\ st = Start

ReadLine == /\ Len(text) < MaxLines
            /\ \E l \in Lines : /\ text' = Append(text, l)
                                /\ st' = ParseLine(st, l)

Spec == Init /\ [][ReadLine]_<<text, st>>

-----------------------------------------------------------------------------
(* What a text says, without reading it in order *)

SectionStart(l) == l.kind = "commented" \/ (l.kind = "header" /\ l.name # "Other")

\* The lines after i up to the next section.
Body(i) == {j \in (i + 1)..Len(text) : \A h \in (i + 1)..j : ~SectionStart(text[h])}

OfKind(I, kind) == {i \in I : text[i].kind = kind}

IsPeer(i) == text[i].kind = "header" /\ text[i].name = "Peer"

FirstOf(I) == CHOOSE i \in I : \A j \in I : i <= j
LastOf(I)  == CHOOSE i \in I : \A j \in I : j <= i

\* The value of the last line of the section with key k.
Value(i, k) == LET at == {j \in OfKind(Body(i), "key") : text[j].key = k}
               IN IF at = {} THEN NoText ELSE text[LastOf(at)].value

\* The comments that are a section's own: those before its first key.
Own(i) == {c \in OfKind(Body(i), "comment") :
             \A k \in OfKind(Body(i), "key") : c < k}

\* The comments before section i that the code gives it: those between the
\* previous peer's keys and i, any of an [Interface] section, and none if the
\* previous section is commented out.
Before(i) ==
  LET starts == {h \in 1..(i - 1) : SectionStart(text[h])}
      prev   == IF starts = {} THEN 0 ELSE LastOf(starts)
  IN IF prev = 0 THEN OfKind(1..(i - 1), "comment")
     ELSE IF text[prev].kind = "commented" THEN {}
     ELSE OfKind(Body(prev), "comment") \ (IF IsPeer(prev) THEN Own(prev) ELSE {})

\* The last comment before the section, or else its first own comment.
NameOf(i) ==
  LET named == {c \in Own(i) : text[c].text # NoText}
  IN IF Before(i) # {} /\ text[LastOf(Before(i))].text # NoText
     THEN text[LastOf(Before(i))].text
     ELSE IF named # {} THEN text[FirstOf(named)].text ELSE NoText

\* The sections [Peer] with a key.
PeerSections == {i \in DOMAIN text : IsPeer(i) /\ OfKind(Body(i), "key") # {}}

\* Those an [Interface] section follows next.
CutOff == {i \in PeerSections :
             \E j \in DOMAIN text : /\ j > i /\ text[j] = Header("Interface", TRUE)
                                    /\ \A h \in (i + 1)..(j - 1) : ~SectionStart(text[h])}

\* What section i says, read as a whole.
Says(i) == Peer(Value(i, "PublicKey"), Value(i, "AllowedIPs"), NameOf(i))

\* The peers found are what the sections I say, one after the other.
Lists(found, I) ==
  \E at \in [DOMAIN found -> I] :
    /\ I = {at[n] : n \in DOMAIN found}
    /\ \A m, n \in DOMAIN found : m < n => at[m] < at[n]
    /\ \A n \in DOMAIN found : found[n] = Says(at[n])

-----------------------------------------------------------------------------
(* Properties *)

TypeOK ==
  /\ text \in Seq(Lines) /\ Len(text) <= MaxLines
  /\ st.state \in {"none", "interface", "peer", "commented"}
  /\ {st.pending, st.name} \subseteq Names \cup {NoText}
  /\ \A kv \in {st.kv, st.interface} :
       \A k \in DOMAIN kv : KeyValue(k, kv[k]) \in Lines
  /\ st.state # "peer" => st.kv = NoKeys

\* What the parser's single pass amounts to, section by section: it finds the
\* [Peer] sections with a key, in order, each with its own keys and the name its
\* comments give it (import_wg_config.py:47-151). Two things a reader of the file
\* would not expect are part of it: the section an [Interface] section follows is
\* dropped, and a comment of an [Interface] section names the peer after it. The
\* next two properties say what the code's own text has of each.
SectionsFound == Lists(Saved(st), PeerSections \ CutOff)

\* "Parses all [Peer] sections" (import_wg_config.py:13). It does not: the section
\* before an [Interface] section is lost.
AllSectionsFound == Lists(Saved(st), PeerSections)

\* "In STATE_INTERFACE, comments are ignored" (import_wg_config.py:132): a peer's
\* name comes from a comment outside the [Interface] sections. It does not:
\* lines 115-117 keep such a comment for the next peer.
InterfaceCommentsIgnored ==
  \A n \in DOMAIN Saved(st) :
    Saved(st)[n].name # NoText =>
      \E c \in OfKind(DOMAIN text, "comment") :
        /\ text[c].text = Saved(st)[n].name
        /\ \A i \in 1..c : text[i] = Header("Interface", TRUE) => c \notin Body(i)

\* What the program writes, the import reads back, if the names are plain: the
\* sections of the rows with their keys, addresses and names, after those the
\* block hides, whatever text was there before (services.py:296-326,
\* import_wg_config.py:41-151). Only the first row's name is lost if the block
\* ends with a comment.
RowsReadBack ==
  \A rows \in {t \in Tables : \A n \in DOMAIN t : Plain(t[n].name)} :
    LET block  == After(InterfaceBlock(text))
        hidden == Saved(block)
        named  == [n \in DOMAIN rows |->
                     IF n = 1 /\ block.pending # NoText
                     THEN [rows[n] EXCEPT !.name = block.pending] ELSE rows[n]]
    IN Parse(Build(text, rows)) = hidden \o named

\* "Comments inside a [Peer] block before any keys" are its name
\* (import_wg_config.py:49), so whatever a row is called, the section written for
\* it, with its name as the comment, is found again. It is not if the name is one
\* like "[Phone]" (line 100).
EveryRowFound ==
  (\E i \in DOMAIN text : text[i] = Header("Interface", TRUE)) =>
    \A rows \in Tables : \A n \in DOMAIN rows :
      \E m \in DOMAIN Parse(Build(text, rows)) :
        Parse(Build(text, rows))[m].key = rows[n].key

\* The file depends on its interface block and the table only: syncing again
\* changes nothing, and no earlier table leaves a trace, whatever the rows are
\* called (services.py:287-293).
RebuildForgets ==
  \A before, rows \in Tables :
    Build(Build(text, before), rows) = Build(text, rows)

\* The block hides a peer section only if its header is indented or is the
\* first line: otherwise a peer that is not in the table is not in the file.
HiddenOnlyByLayout ==
  Parse(InterfaceBlock(text)) # <<>> =>
    \E i \in DOMAIN text : IsPeer(i) /\ (i = 1 \/ ~text[i].flush)
=============================================================================
