----------------------------- MODULE AtomicFile -----------------------------
(***************************************************************************)
(* What atomic_write (wireguard/wg_sync.py) promises of the conf file: the *)
(* file goes from one whole text to another, the one a caller asked to be  *)
(* written, or stays as it is. Nothing in between is ever in the file.     *)
(***************************************************************************)
CONSTANTS Writers, Texts, NoText

VARIABLES
  file,      \* the text of the file, NoText if there is no file
  asked      \* the text each writer has asked to be written, NoText for none

Init == file \in Texts \cup {NoText} /\ asked = [w \in Writers |-> NoText]

Ask(w) ==
  /\ asked[w] = NoText
  /\ \E t \in Texts : asked' = [asked EXCEPT ![w] = t]
  /\ file' = file

Commit(w) ==
  /\ asked[w] # NoText
  /\ file' = asked[w] /\ asked' = [asked EXCEPT ![w] = NoText]

\* Writes that fail, or whose writers are stopped.
GiveUp(W) ==
  /\ asked' = [w \in Writers |-> IF w \in W THEN NoText ELSE asked[w]]
  /\ file' = file

Next == \/ \E w \in Writers : Ask(w) \/ Commit(w)
        \/ \E W \in SUBSET Writers : GiveUp(W)

Spec == Init /\ [][Next]_<<file, asked>>
=============================================================================
