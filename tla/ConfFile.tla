------------------------------ MODULE ConfFile ------------------------------
(***************************************************************************)
(* One _sync_conf_file (wireguard/services.py) file operation by file      *)
(* operation: the text is built around the [Interface] section of the file *)
(* that is there, atomic_write writes it to a temporary file that replaces *)
(* the conf file, and syncconf applies a stripped copy, from a temporary   *)
(* file of its own. PeerLifecycle takes each of the three as one step;     *)
(* this module shows what that rests on, and what stays behind when a      *)
(* worker is stopped. The [Interface] section holds the server's private   *)
(* key, which is stored nowhere else, and so does every temporary file.    *)
(***************************************************************************)
EXTENDS Naturals

CONSTANTS
  Workers,
  Peers,      \* what the table's peers look like, one value per version
  Modes,      \* the permissions a conf file may have
  Private,    \* 0600, which mkstemp gives and a new conf file gets
  Shared,     \* 0640, which docker-entrypoint.sh gives every conf file
  Cut,        \* stands for a text that is cut off in the middle
  NoText, NoMode

ASSUME ModesAssumption == {Private, Shared} \subseteq Modes
ASSUME NullAssumption ==
  /\ {NoText, Cut} \cap [keyed : BOOLEAN, peers : Peers] = {} /\ NoText # Cut
  /\ NoMode \notin Modes

VARIABLES
  file,       \* the text of the conf file, NoText if there is none
  mode,       \* its permissions
  pc,         \* where each worker is in _sync_conf_file
  text,       \* the text each worker has in memory
  temp,       \* the temporary file each worker has: its text and permissions
  left,       \* temporary files that stayed behind: their permissions
  applied,    \* the text wg syncconf was last given
  \* History.
  first       \* the text of the conf file at the start

vars == <<file, mode, pc, text, temp, left, applied, first>>

-----------------------------------------------------------------------------
(* Data *)

\* keyed: the text has the [Interface] section, before its first peer. One that
\* is anywhere else is not kept by a sync.
Text == [keyed : BOOLEAN, peers : Peers]

\* A file's text is cut off until it is closed.
Temp   == [text : Text \cup {Cut}, mode : Modes]
NoTemp == [text |-> Cut, mode |-> NoMode]

Labels == {"idle", "temp", "fill", "chmod", "replace",
           "read", "stemp", "sfill", "run", "unlink"}

Init ==
  /\ \/ file \in Text /\ mode \in Modes
     \/ file = NoText /\ mode = NoMode
  /\ pc = [w \in Workers |-> "idle"] /\ text = [w \in Workers |-> NoText]
  /\ temp = [w \in Workers |-> NoTemp] /\ left = {} /\ applied = NoText
  /\ first = file

Goto(w, l) == pc' = [pc EXCEPT ![w] = l]

-----------------------------------------------------------------------------
(* _build_server_conf *)

\* The [Interface] section is what the file has up to the first peer; there
\* is none if there is no file. The peers are those of the table.
Build(w) ==
  /\ pc[w] = "idle"
  /\ \E p \in Peers :
       text' = [text EXCEPT ![w] = [keyed |-> file # NoText /\ file.keyed, peers |-> p]]
  /\ Goto(w, "temp")
  /\ UNCHANGED <<file, mode, temp, left, applied, first>>

-----------------------------------------------------------------------------
(* atomic_write *)

\* mkstemp: an empty file of its own name, readable by its owner only.
Mkstemp(w, from, to) ==
  /\ pc[w] = from
  /\ temp' = [temp EXCEPT ![w] = [text |-> Cut, mode |-> Private]]
  /\ Goto(w, to)
  /\ UNCHANGED <<file, mode, text, left, applied, first>>

WriteTemp(w) == Mkstemp(w, "temp", "fill")

\* Mutant: the conf file itself is opened and truncated.
FillInPlace(w) ==
  /\ pc[w] = "fill"
  /\ file' = [keyed |-> FALSE, peers |-> CHOOSE p \in Peers : TRUE]
  /\ temp' = [temp EXCEPT ![w].text = text[w]]
  /\ Goto(w, "chmod")
  /\ UNCHANGED <<mode, text, left, applied, first>>

\* The text is written and the file closed.
Fill(w) ==
  /\ pc[w] = "fill"
  /\ temp' = [temp EXCEPT ![w].text = text[w]]
  /\ Goto(w, "chmod")
  /\ UNCHANGED <<file, mode, text, left, applied, first>>

\* Mutant: the permissions are left as mkstemp made them.
AlwaysPrivate == Private

\* Those of the conf file, if it exists.
WantedMode == IF file = NoText THEN Private ELSE mode

Chmod(w) ==
  /\ pc[w] = "chmod"
  /\ temp' = [temp EXCEPT ![w].mode = WantedMode]
  /\ Goto(w, "replace")
  /\ UNCHANGED <<file, mode, text, left, applied, first>>

\* os.replace: the temporary file becomes the conf file.
Replace(w) ==
  /\ pc[w] = "replace"
  /\ file' = temp[w].text /\ mode' = temp[w].mode
  /\ temp' = [temp EXCEPT ![w] = NoTemp]
  /\ Goto(w, "read")
  /\ UNCHANGED <<text, left, applied, first>>

-----------------------------------------------------------------------------
(* syncconf *)

\* The file is read back (without the lines only wg-quick understands).
Read(w) ==
  /\ pc[w] = "read"
  /\ text' = [text EXCEPT ![w] = file]
  /\ Goto(w, "stemp")
  /\ UNCHANGED <<file, mode, temp, left, applied, first>>

SyncTemp(w) == Mkstemp(w, "stemp", "sfill")

\* Mutant: wg is run before the file is closed.
Unflushed(w) == Cut

Flushed(w) == text[w]

SyncFill(w) ==
  /\ pc[w] = "sfill"
  /\ temp' = [temp EXCEPT ![w].text = Flushed(w)]
  /\ Goto(w, "run")
  /\ UNCHANGED <<file, mode, text, left, applied, first>>

Run(w) ==
  /\ pc[w] = "run"
  /\ applied' = temp[w].text
  /\ Goto(w, "unlink")
  /\ UNCHANGED <<file, mode, text, temp, left, first>>

\* The temporary file is removed and the request goes on, or raises.
Leave(w) ==
  /\ temp' = [temp EXCEPT ![w] = NoTemp] /\ text' = [text EXCEPT ![w] = NoText]
  /\ Goto(w, "idle")

InTry == {"fill", "chmod", "replace", "sfill", "run", "unlink"}

StaysBehind(w) == left' = left \cup {temp[w].mode}

\* os.unlink, whose own failure is swallowed: the file stays.
RemoveTemp(w) == left' = left \/ (pc[w] \in InTry /\ StaysBehind(w))

Unlink(w) ==
  /\ pc[w] = "unlink"
  /\ RemoveTemp(w) /\ Leave(w)
  /\ UNCHANGED <<file, mode, applied, first>>

-----------------------------------------------------------------------------
(* Failures *)

\* An operation raises: no file can be made, the disk is full, wg fails. The
\* except and finally clauses remove the temporary file.
Fails(w) ==
  /\ pc[w] \notin {"idle", "unlink"}
  /\ RemoveTemp(w) /\ Leave(w)
  /\ UNCHANGED <<file, mode, applied, first>>

\* gunicorn's timeout: the worker gets SIGABRT, whose handler raises SystemExit
\* where the worker is. A finally clause runs, an except Exception does not.
Abort(w) ==
  /\ pc[w] # "idle"
  /\ IF pc[w] \in {"fill", "chmod", "replace"} THEN StaysBehind(w) ELSE RemoveTemp(w)
  /\ Leave(w)
  /\ UNCHANGED <<file, mode, applied, first>>

\* The worker is killed, or the host goes down: nothing is cleaned up.
Kill(w) ==
  /\ pc[w] # "idle"
  /\ IF pc[w] \in InTry THEN StaysBehind(w) ELSE left' = left
  /\ Leave(w)
  /\ UNCHANGED <<file, mode, applied, first>>

\* The container is restarted: docker-entrypoint.sh sets the permissions of the
\* files named *.conf before the new workers start.
Restart ==
  /\ left' = left \cup {temp[w].mode : w \in {v \in Workers : pc[v] \in InTry}}
  /\ mode' = IF file = NoText THEN mode ELSE Shared
  /\ pc' = [w \in Workers |-> "idle"] /\ text' = [w \in Workers |-> NoText]
  /\ temp' = [w \in Workers |-> NoTemp]
  /\ UNCHANGED <<file, applied, first>>

-----------------------------------------------------------------------------
Next == Restart \/ \E w \in Workers :
  \/ Build(w) \/ WriteTemp(w) \/ Fill(w) \/ Chmod(w) \/ Replace(w)
  \/ Read(w) \/ SyncTemp(w) \/ SyncFill(w) \/ Run(w) \/ Unlink(w)
  \/ Fails(w) \/ Abort(w) \/ Kill(w)

Spec == Init /\ [][Next]_vars

-----------------------------------------------------------------------------
(* Properties *)

TypeOK ==
  /\ file \in Text \cup {NoText} /\ mode \in Modes \cup {NoMode}
  /\ pc \in [Workers -> Labels] /\ text \in [Workers -> Text \cup {NoText}]
  /\ temp \in [Workers -> Temp \cup {NoTemp}] /\ left \subseteq Modes
  /\ applied \in Text \cup {NoText}
  /\ first \in Text \cup {NoText}

\* The [Interface] section with the server's private key is in the file, and in
\* what wg syncconf is given, if it was in front of the peers at the start:
\* although every sync builds the new file from the old one, no worker ever
\* reads a file another has half written (services.py:299-314, wg_sync.py:43).
KeyKept ==
  first # NoText /\ first.keyed =>
    /\ file # NoText /\ file.keyed
    /\ applied # NoText => applied.keyed

\* A sync gives the new conf file the permissions of the old one, although it
\* asks for them long before it puts the new file in its place, and a conf file
\* that was not there is private (wg_sync.py:49-56). Only the entrypoint changes
\* them. A temporary file that stays behind, with the private key in it, is
\* private or has the permissions the conf file has at that moment.
ModeKept ==
  [][/\ file # NoText => mode' = mode \/ Restart
     /\ file = NoText /\ file' # NoText => mode' = Private
     /\ left' \subseteq left \cup {Private, mode}]_vars

\* atomic_write keeps the promise of AtomicFile: the conf file goes from one
\* whole text to another whole text (wg_sync.py:43).
Atomic == INSTANCE AtomicFile WITH
  Writers <- Workers, Texts <- Text,
  asked <- [w \in Workers |-> IF pc[w] \in {"temp", "fill", "chmod", "replace"}
                              THEN text[w] ELSE NoText]

ImplementsAtomicFile == Atomic!Spec
=============================================================================
