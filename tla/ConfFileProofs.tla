-------------------------- MODULE ConfFileProofs --------------------------
(***************************************************************************)
(* Theorems about ConfFile, for any number of workers, any peers and any   *)
(* permissions, with workers stopped anywhere.                             *)
(***************************************************************************)
EXTENDS ConfFile, TLAPS

(***************************************************************************)
(* The inductive invariant: what the file and every worker may hold, and   *)
(* that a temporary file is whole, and has the permissions the conf file   *)
(* has by now, when it replaces the conf file.                             *)
(***************************************************************************)
Whole == IF first # NoText /\ first.keyed THEN {t \in Text : t.keyed} ELSE Text

FileInv ==
  /\ file \in Whole \cup {NoText} /\ (file = NoText => first = NoText)
  /\ applied \in Whole \cup {NoText}
  /\ file # NoText => mode \in Modes

WorkerInv(w) ==
  /\ text[w] \in Whole \cup {NoText}
  /\ text[w] = NoText <=> pc[w] = "idle"
  /\ pc[w] \in {"read", "stemp", "sfill", "run", "unlink"} => file # NoText
  /\ pc[w] \in {"chmod", "replace", "run"} => temp[w].text = text[w]
  /\ pc[w] \in {"fill", "chmod", "sfill", "run", "unlink"} => temp[w].mode = Private
  /\ pc[w] = "replace" => temp[w].mode = WantedMode
  /\ pc[w] \in {"fill", "chmod", "replace", "sfill", "run", "unlink"} => temp[w] \in Temp

Inv == TypeOK /\ FileInv /\ \A w \in Workers : WorkerInv(w)

LEMMA InitInv == Init => Inv
<1> SUFFICES ASSUME Init PROVE Inv
  OBVIOUS
<1>1. Text \cap {NoText} = {} /\ NoText \notin Text
  BY NullAssumption DEF Text
<1>2. TypeOK
  BY <1>1 DEF Init, TypeOK, Labels, NoTemp
<1>3. FileInv
  BY <1>1 DEF Init, FileInv, Whole
<1>4. ASSUME NEW w \in Workers PROVE WorkerInv(w)
  BY DEF Init, WorkerInv
<1> QED BY <1>2, <1>3, <1>4 DEF Inv

\* A step of one worker leaves what the others hold alone.
LEMMA OneWorker ==
  ASSUME Inv, NEW w \in Workers, first' = first, file # NoText => file' # NoText,
         WantedMode' = WantedMode, TypeOK', FileInv', WorkerInv(w)',
         \A v \in Workers : v # w => /\ pc'[v] = pc[v] /\ text'[v] = text[v]
                                     /\ temp'[v] = temp[v]
  PROVE  Inv'
<1>1. Whole' = Whole
  BY DEF Whole
<1>2. ASSUME NEW v \in Workers PROVE WorkerInv(v)'
  <2>1. CASE v = w
    BY <2>1
  <2>2. CASE v # w
    <3>1. WorkerInv(v) /\ pc'[v] = pc[v] /\ text'[v] = text[v] /\ temp'[v] = temp[v]
      BY <2>2 DEF Inv
    <3> QED BY <1>1, <3>1 DEF WorkerInv
  <2> QED BY <2>1, <2>2
<1> QED BY <1>2 DEF Inv

\* What a step of w that leaves the conf file alone must show.
LEMMA QuietStep ==
  ASSUME Inv, NEW w \in Workers, UNCHANGED <<file, mode, applied, first>>,
         NEW l \in Labels, NEW t \in Text \cup {NoText}, NEW f \in Temp \cup {NoTemp},
         pc' = [pc EXCEPT ![w] = l], text' = [text EXCEPT ![w] = t],
         temp' = [temp EXCEPT ![w] = f],
         left' \subseteq Modes,
         t \in Whole \cup {NoText}, t = NoText <=> l = "idle",
         l \in {"read", "stemp", "sfill", "run", "unlink"} => file # NoText,
         l \in {"chmod", "replace", "run"} => f.text = t,
         l \in {"fill", "chmod", "sfill", "run", "unlink"} => f.mode = Private,
         l = "replace" => f.mode = WantedMode,
         l \in {"fill", "chmod", "replace", "sfill", "run", "unlink"} => f \in Temp
  PROVE  Inv'
<1>1. Whole' = Whole /\ WantedMode' = WantedMode
  BY DEF Whole, WantedMode
<1>2. /\ pc'[w] = l /\ text'[w] = t /\ temp'[w] = f
      /\ \A v \in Workers : v # w => /\ pc'[v] = pc[v] /\ text'[v] = text[v]
                                     /\ temp'[v] = temp[v]
  BY DEF Inv, TypeOK
<1>3. TypeOK'
  BY DEF Inv, TypeOK
<1>4. FileInv'
  BY <1>1 DEF Inv, FileInv
<1>5. WorkerInv(w)'
  BY <1>1, <1>2 DEF WorkerInv
<1> QED BY <1>1, <1>2, <1>3, <1>4, <1>5, OneWorker

LEMMA WholeIsText == Whole \subseteq Text /\ NoText \notin Text /\ Cut \notin Text /\ NoText # Cut
  BY NullAssumption DEF Whole, Text

LEMMA SyncStep ==
  ASSUME Inv, NEW w \in Workers,
         \/ Build(w) \/ WriteTemp(w) \/ Fill(w) \/ Chmod(w)
         \/ Read(w) \/ SyncTemp(w) \/ SyncFill(w)
  PROVE  Inv'
<1> USE WholeIsText, ModesAssumption
<1>0. /\ WorkerInv(w) /\ FileInv /\ left \subseteq Modes
      /\ pc[w] \in Labels /\ text[w] \in Text \cup {NoText} /\ temp[w] \in Temp \cup {NoTemp}
      /\ pc \in [Workers -> Labels] /\ text \in [Workers -> Text \cup {NoText}]
      /\ temp \in [Workers -> Temp \cup {NoTemp}]
  BY DEF Inv, TypeOK
<1>a. text = [text EXCEPT ![w] = text[w]] /\ temp = [temp EXCEPT ![w] = temp[w]]
  BY <1>0
<1>1. CASE Build(w)
  <2>1. PICK p \in Peers : text' = [text EXCEPT ![w] = [keyed |-> file # NoText /\ file.keyed, peers |-> p]]
    BY <1>1 DEF Build
  <2> DEFINE b == file # NoText /\ file.keyed
  <2> DEFINE t == [keyed |-> b, peers |-> p]
  <2>2. b \in BOOLEAN /\ (first # NoText /\ first.keyed => b)
    BY <1>0 DEF FileInv, Whole, Text
  <2> HIDE DEF b
  <2>3. t \in Text /\ t \in Whole
    BY <2>2 DEF Text, Whole
  <2>4. text' = [text EXCEPT ![w] = t]
    BY <2>1 DEF b
  <2> HIDE DEF t
  <2>5. /\ pc' = [pc EXCEPT ![w] = "temp"] /\ temp' = [temp EXCEPT ![w] = temp[w]]
        /\ UNCHANGED <<file, mode, applied, first, left>>
    BY <1>1, <1>a DEF Build, Goto
  <2> QED BY <1>0, <2>3, <2>4, <2>5, QuietStep DEF Labels
<1>2. CASE WriteTemp(w)
  <2> DEFINE f == [text |-> Cut, mode |-> Private]
  <2>1. f \in Temp /\ f.mode = Private
    BY DEF Temp
  <2>2. /\ pc[w] = "temp" /\ pc' = [pc EXCEPT ![w] = "fill"] /\ temp' = [temp EXCEPT ![w] = f]
        /\ text' = [text EXCEPT ![w] = text[w]]
        /\ UNCHANGED <<file, mode, applied, first, left>>
    BY <1>2, <1>a DEF WriteTemp, Mkstemp, Goto
  <2> HIDE DEF f
  <2> QED BY <1>0, <2>1, <2>2, QuietStep DEF Labels, WorkerInv
<1>3. CASE Fill(w)
  <2> DEFINE f == [temp[w] EXCEPT !.text = text[w]]
  <2>1. pc[w] = "fill" /\ text[w] \in Text
    BY <1>0, <1>3 DEF Fill, WorkerInv
  <2>2. f \in Temp /\ f.text = text[w] /\ f.mode = Private
    BY <1>0, <2>1 DEF Temp, WorkerInv
  <2>3. /\ pc' = [pc EXCEPT ![w] = "chmod"] /\ temp' = [temp EXCEPT ![w] = f]
        /\ text' = [text EXCEPT ![w] = text[w]]
        /\ UNCHANGED <<file, mode, applied, first, left>>
    BY <1>3, <1>a DEF Fill, Goto
  <2> HIDE DEF f
  <2> QED BY <1>0, <2>1, <2>2, <2>3, QuietStep DEF Labels, WorkerInv
<1>4. CASE Chmod(w)
  <2> DEFINE f == [temp[w] EXCEPT !.mode = WantedMode]
  <2>1. pc[w] = "chmod" /\ WantedMode \in Modes
    BY <1>0, <1>4 DEF Chmod, WantedMode, FileInv
  <2>2. f \in Temp /\ f.text = text[w] /\ f.mode = WantedMode
    BY <1>0, <2>1 DEF Temp, WorkerInv
  <2>3. /\ pc' = [pc EXCEPT ![w] = "replace"] /\ temp' = [temp EXCEPT ![w] = f]
        /\ text' = [text EXCEPT ![w] = text[w]]
        /\ UNCHANGED <<file, mode, applied, first, left>>
    BY <1>4, <1>a DEF Chmod, Goto
  <2> HIDE DEF f
  <2> QED BY <1>0, <2>1, <2>2, <2>3, QuietStep DEF Labels, WorkerInv
<1>5. CASE Read(w)
  <2>1. /\ pc[w] = "read" /\ pc' = [pc EXCEPT ![w] = "stemp"] /\ temp' = [temp EXCEPT ![w] = temp[w]]
        /\ text' = [text EXCEPT ![w] = file]
        /\ UNCHANGED <<file, mode, applied, first, left>>
    BY <1>5, <1>a DEF Read, Goto
  <2>2. file # NoText /\ file \in Whole /\ file \in Text
    BY <1>0, <2>1 DEF WorkerInv, FileInv
  <2> QED BY <1>0, <2>1, <2>2, QuietStep DEF Labels
<1>6. CASE SyncTemp(w)
  <2> DEFINE f == [text |-> Cut, mode |-> Private]
  <2>1. f \in Temp /\ f.mode = Private
    BY DEF Temp
  <2>2. /\ pc[w] = "stemp" /\ pc' = [pc EXCEPT ![w] = "sfill"] /\ temp' = [temp EXCEPT ![w] = f]
        /\ text' = [text EXCEPT ![w] = text[w]]
        /\ UNCHANGED <<file, mode, applied, first, left>>
    BY <1>6, <1>a DEF SyncTemp, Mkstemp, Goto
  <2> HIDE DEF f
  <2> QED BY <1>0, <2>1, <2>2, QuietStep DEF Labels, WorkerInv
<1>7. CASE SyncFill(w)
  <2> DEFINE f == [temp[w] EXCEPT !.text = Flushed(w)]
  <2>1. pc[w] = "sfill" /\ text[w] \in Text
    BY <1>0, <1>7 DEF SyncFill, WorkerInv
  <2>2. f \in Temp /\ f.text = text[w] /\ f.mode = Private
    BY <1>0, <2>1 DEF Temp, WorkerInv, Flushed
  <2>3. /\ pc' = [pc EXCEPT ![w] = "run"] /\ temp' = [temp EXCEPT ![w] = f]
        /\ text' = [text EXCEPT ![w] = text[w]]
        /\ UNCHANGED <<file, mode, applied, first, left>>
    BY <1>7, <1>a DEF SyncFill, Goto
  <2> HIDE DEF f
  <2> QED BY <1>0, <2>1, <2>2, <2>3, QuietStep DEF Labels, WorkerInv
<1> QED BY <1>1, <1>2, <1>3, <1>4, <1>5, <1>6, <1>7

LEMMA ReplaceStep == ASSUME Inv, NEW w \in Workers, Replace(w) PROVE Inv'
<1>1. /\ WorkerInv(w) /\ FileInv /\ pc[w] = "replace"
      /\ pc' = [pc EXCEPT ![w] = "read"] /\ temp' = [temp EXCEPT ![w] = NoTemp]
      /\ file' = temp[w].text /\ mode' = temp[w].mode
      /\ UNCHANGED <<text, left, applied, first>>
  BY DEF Inv, Replace, Goto
<1>2. file' \in Whole /\ file' = text[w] /\ mode' \in Modes /\ mode' = WantedMode
  BY <1>1 DEF WorkerInv, Temp
<1>3. Whole' = Whole /\ WantedMode' = WantedMode
  BY <1>1, <1>2, WholeIsText DEF Whole, WantedMode
<1>4. TypeOK'
  BY <1>1, <1>2, WholeIsText DEF Inv, TypeOK, Labels
<1>5. FileInv'
  BY <1>1, <1>2, <1>3, WholeIsText DEF FileInv
<1>6. pc'[w] = "read" /\ text'[w] = text[w] /\ file' # NoText
  BY <1>1, <1>2, WholeIsText DEF Inv, TypeOK
<1>7. WorkerInv(w)'
  BY <1>1, <1>3, <1>6 DEF WorkerInv
<1>8. \A v \in Workers : v # w => /\ pc'[v] = pc[v] /\ text'[v] = text[v] /\ temp'[v] = temp[v]
  BY <1>1 DEF Inv, TypeOK
<1> QED BY <1>1, <1>3, <1>4, <1>5, <1>6, <1>7, <1>8, OneWorker

LEMMA RunStep == ASSUME Inv, NEW w \in Workers, Run(w) PROVE Inv'
<1>1. /\ WorkerInv(w) /\ FileInv /\ pc[w] = "run"
      /\ pc' = [pc EXCEPT ![w] = "unlink"] /\ applied' = temp[w].text
      /\ UNCHANGED <<file, mode, text, temp, left, first>>
  BY DEF Inv, Run, Goto
<1>2. applied' \in Whole
  BY <1>1 DEF WorkerInv
<1>3. Whole' = Whole /\ WantedMode' = WantedMode
  BY <1>1 DEF Whole, WantedMode
<1>4. TypeOK'
  BY <1>1, <1>2, WholeIsText DEF Inv, TypeOK, Labels
<1>5. FileInv'
  BY <1>1, <1>2, <1>3 DEF FileInv
<1>6. pc'[w] = "unlink" /\ \A v \in Workers : v # w => pc'[v] = pc[v]
  BY <1>1 DEF Inv, TypeOK
<1>7. WorkerInv(w)'
  BY <1>1, <1>3, <1>6 DEF WorkerInv
<1> QED BY <1>1, <1>3, <1>4, <1>5, <1>6, <1>7, OneWorker

\* A file that stays behind was private or as the conf file.
LEMMA StaysStep ==
  ASSUME Inv, NEW w \in Workers, pc[w] \in InTry
  PROVE  /\ temp[w].mode \in {Private, WantedMode} /\ temp[w].mode \in Modes
         /\ WantedMode \in {Private, mode}
  BY ModesAssumption DEF Inv, WorkerInv, InTry, WantedMode, Temp

LEMMA LeaveStep ==
  ASSUME Inv, NEW w \in Workers,
         Unlink(w) \/ Fails(w) \/ Abort(w) \/ Kill(w)
  PROVE  /\ Inv'
         /\ UNCHANGED <<file, mode>> /\ left' \subseteq left \cup {Private, mode}
<1>1. left' = left \/ (pc[w] \in InTry /\ left' = left \cup {temp[w].mode})
  BY DEF Unlink, Fails, Abort, Kill, RemoveTemp, StaysBehind, InTry
<1>2. /\ pc' = [pc EXCEPT ![w] = "idle"] /\ text' = [text EXCEPT ![w] = NoText]
      /\ temp' = [temp EXCEPT ![w] = NoTemp]
      /\ UNCHANGED <<file, mode, applied, first>>
  BY DEF Unlink, Fails, Abort, Kill, Leave, Goto
<1>3. left' \subseteq left \cup {Private, mode} /\ left' \subseteq Modes
  BY <1>1, StaysStep DEF Inv, TypeOK
<1>4. Inv'
  BY <1>2, <1>3, QuietStep DEF Labels
<1> QED BY <1>2, <1>3, <1>4

LEMMA RestartStep ==
  ASSUME Inv, Restart
  PROVE  Inv' /\ left' \subseteq left \cup {Private, mode}
<1> USE WholeIsText
<1>1. /\ FileInv /\ file' = file /\ applied' = applied /\ first' = first
      /\ mode' = IF file = NoText THEN mode ELSE Shared
      /\ pc' = [w \in Workers |-> "idle"] /\ text' = [w \in Workers |-> NoText]
      /\ temp' = [w \in Workers |-> NoTemp]
  BY DEF Inv, Restart
<1>2. Whole' = Whole
  BY <1>1 DEF Whole
<1>3. left' \subseteq left \cup {Private, mode} /\ left' \subseteq Modes
  BY StaysStep DEF Restart, Inv, TypeOK
<1>4. TypeOK'
  BY <1>1, <1>3, ModesAssumption DEF Inv, TypeOK, Labels
<1>5. FileInv'
  BY <1>1, <1>2, ModesAssumption DEF FileInv
<1>6. ASSUME NEW w \in Workers PROVE WorkerInv(w)'
  BY <1>1 DEF WorkerInv
<1> QED BY <1>3, <1>4, <1>5, <1>6 DEF Inv

LEMMA StepInv == Inv /\ [Next]_vars => Inv'
<1> SUFFICES ASSUME Inv, [Next]_vars PROVE Inv'
  OBVIOUS
<1>1. CASE UNCHANGED vars
  BY <1>1 DEF vars, Inv, TypeOK, FileInv, WorkerInv, Whole, WantedMode
<1>2. CASE Next
  BY <1>2, SyncStep, ReplaceStep, RunStep, LeaveStep, RestartStep DEF Next
<1> QED BY <1>1, <1>2

THEOREM Invariance == Spec => []Inv
  BY InitInv, StepInv, PTL DEF Spec

\* Every value keeps its type: what is in the file and what wg is given is
\* never a text that is cut off.
THEOREM TypeCorrect == Spec => []TypeOK
  BY Invariance, PTL DEF Inv

\* The server's private key is never lost by a sync (services.py:299-314).
THEOREM KeySurvives == Spec => []KeyKept
<1>1. Inv => KeyKept
  BY WholeIsText DEF Inv, FileInv, KeyKept, Whole
<1> QED BY <1>1, Invariance, PTL

\* What a step does to the permissions of the conf file, and of the files that
\* stay behind.
LEMMA ModeStep ==
  ASSUME Inv, Next
  PROVE  /\ file # NoText => mode' = mode \/ Restart
         /\ file = NoText /\ file' # NoText => mode' = Private
         /\ left' \subseteq left \cup {Private, mode}
<1>1. CASE Restart
  BY <1>1, RestartStep DEF Restart
<1>2. ASSUME NEW w \in Workers, Replace(w)
      PROVE  mode' = WantedMode /\ left' = left
  BY <1>2 DEF Replace, Inv, WorkerInv
<1>3. ASSUME NEW w \in Workers, Unlink(w) \/ Fails(w) \/ Abort(w) \/ Kill(w)
      PROVE  UNCHANGED <<file, mode>> /\ left' \subseteq left \cup {Private, mode}
  BY <1>3, LeaveStep
<1>4. ASSUME NEW w \in Workers,
             \/ Build(w) \/ WriteTemp(w) \/ Fill(w) \/ Chmod(w)
             \/ Read(w) \/ SyncTemp(w) \/ SyncFill(w) \/ Run(w)
      PROVE  UNCHANGED <<file, mode, left>>
  BY <1>4 DEF Build, WriteTemp, SyncTemp, Mkstemp, Fill, Chmod, Read, SyncFill, Run
<1> QED BY <1>1, <1>2, <1>3, <1>4 DEF Next, WantedMode

\* No sync changes the permissions of the conf file, however the syncs of
\* several workers overlap, and a file that stays behind has no others than
\* the conf file has then (wg_sync.py:44-64, 103-107).
THEOREM PermissionsSurvive == Spec => ModeKept
<1>1. Inv /\ [Next]_vars =>
        [/\ file # NoText => mode' = mode \/ Restart
         /\ file = NoText /\ file' # NoText => mode' = Private
         /\ left' \subseteq left \cup {Private, mode}]_vars
  BY ModeStep
<1> QED BY <1>1, Invariance, PTL DEF Spec, ModeKept

(***************************************************************************)
(* The refinement. A worker has asked for a text from the moment it built  *)
(* it until the conf file is replaced or it gives up.                      *)
(***************************************************************************)
Asking == {"temp", "fill", "chmod", "replace"}

Asked == [w \in Workers |-> IF pc[w] \in {"temp", "fill", "chmod", "replace"}
                            THEN text[w] ELSE NoText]

LEMMA AskedOthers ==
  ASSUME Inv, NEW w \in Workers, NEW l, NEW t, pc' = [pc EXCEPT ![w] = l],
         text' = [text EXCEPT ![w] = t]
  PROVE  Asked' = [Asked EXCEPT ![w] = IF l \in Asking THEN t ELSE NoText]
  BY DEF Inv, TypeOK, Asked, Asking

LEMMA FileStep ==
  Inv /\ [Next]_vars => [Atomic!Next]_<<file, Asked>>
<1> SUFFICES ASSUME Inv, [Next]_vars PROVE Atomic!Next \/ UNCHANGED <<file, Asked>>
  OBVIOUS
<1> USE DEF Asked
<1>1. CASE UNCHANGED vars
  BY <1>1 DEF vars
<1>2. CASE Restart
  <2>1. file' = file /\ Asked' = [w \in Workers |-> IF w \in Workers THEN NoText ELSE Asked[w]]
    BY <1>2 DEF Restart
  <2>2. Atomic!GiveUp(Workers)
    BY <2>1 DEF Atomic!GiveUp
  <2> QED BY <2>2 DEF Atomic!Next
<1>3. ASSUME NEW w \in Workers, Build(w) PROVE Atomic!Next
  <2>1. Asked[w] = NoText /\ file' = file
    BY <1>3 DEF Build
  <2>2. PICK p \in Peers : text' = [text EXCEPT ![w] = [keyed |-> file # NoText /\ file.keyed, peers |-> p]]
    BY <1>3 DEF Build
  <2> DEFINE b == file # NoText /\ file.keyed
  <2> DEFINE t == [keyed |-> b, peers |-> p]
  <2>3. b \in BOOLEAN
    BY DEF Inv, TypeOK, Text
  <2> HIDE DEF b
  <2>4. t \in Text /\ text' = [text EXCEPT ![w] = t]
    BY <2>2, <2>3 DEF Text, b
  <2> HIDE DEF t
  <2>5. Asked' = [Asked EXCEPT ![w] = t]
    BY <1>3, <2>4, AskedOthers DEF Build, Goto, Asking
  <2>6. Atomic!Ask(w)
    BY <2>1, <2>4, <2>5 DEF Atomic!Ask
  <2> QED BY <2>6 DEF Atomic!Next
<1>4. ASSUME NEW w \in Workers, Replace(w) PROVE Atomic!Next
  <2>1. /\ pc[w] = "replace" /\ text[w] # NoText /\ temp[w].text = text[w]
        /\ text' = [text EXCEPT ![w] = text[w]]
    BY <1>4 DEF Replace, Inv, WorkerInv, TypeOK
  <2>2. Asked[w] = text[w] /\ file' = text[w]
    BY <1>4, <2>1 DEF Replace
  <2>3. Asked' = [Asked EXCEPT ![w] = NoText]
    BY <1>4, <2>1, AskedOthers DEF Replace, Goto, Asking
  <2>4. Atomic!Commit(w)
    BY <2>1, <2>2, <2>3 DEF Atomic!Commit
  <2> QED BY <2>4 DEF Atomic!Next
<1>5. ASSUME NEW w \in Workers, Unlink(w) \/ Fails(w) \/ Abort(w) \/ Kill(w) PROVE Atomic!Next
  <2>0. /\ file' = file /\ pc' = [pc EXCEPT ![w] = "idle"]
        /\ text' = [text EXCEPT ![w] = NoText]
    BY <1>5 DEF Unlink, Fails, Abort, Kill, Leave, Goto
  <2>1. file' = file /\ Asked' = [Asked EXCEPT ![w] = NoText]
    <3> HIDE DEF Asked
    <3> QED BY <2>0, AskedOthers DEF Asking
  <2>2. Asked' = [v \in Workers |-> IF v \in {w} THEN NoText ELSE Asked[v]]
    BY <2>1
  <2>3. Atomic!GiveUp({w})
    BY <2>1, <2>2 DEF Atomic!GiveUp
  <2> QED BY <2>3 DEF Atomic!Next
<1>6. ASSUME NEW w \in Workers, WriteTemp(w) \/ Fill(w) \/ Chmod(w)
      PROVE  UNCHANGED <<file, Asked>>
  BY <1>6 DEF WriteTemp, Mkstemp, Fill, Chmod, Goto, Inv, TypeOK
<1>7. ASSUME NEW w \in Workers, Read(w) \/ SyncTemp(w) \/ SyncFill(w) \/ Run(w)
      PROVE  UNCHANGED <<file, Asked>>
  BY <1>7 DEF Read, SyncTemp, Mkstemp, SyncFill, Run, Goto, Inv, TypeOK
<1> QED BY <1>1, <1>2, <1>3, <1>4, <1>5, <1>6, <1>7 DEF Next

\* atomic_write keeps its promise: the conf file goes from one whole text to
\* another that some worker asked for (wg_sync.py:41-64).
THEOREM FileImplementsAtomic == Spec => ImplementsAtomicFile
<1>1. Init => Atomic!Init
  BY DEF Init, Atomic!Init
<1>2. Inv /\ [Next]_vars => [Atomic!Next]_<<file, Asked>>
  BY FileStep
<1> QED BY <1>1, <1>2, Invariance, PTL DEF Spec, ImplementsAtomicFile, Atomic!Spec, Asked
===========================================================================
