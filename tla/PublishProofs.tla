--------------------------- MODULE PublishProofs ---------------------------
(***************************************************************************)
(* What publish() and rollback() keep safe, for every number of runs,       *)
(* modules, faults and crashes and every reuse of staging names, as long as *)
(* no two builds of one module are in progress together.                    *)
(***************************************************************************)
EXTENDS Publish, TLAPS

\* Where publish meets each artifact.
Pos == [dll |-> 1, h |-> 2, pas |-> 3, lib |-> 4]

Early    == {"idle", "mkdir", "clear", "mkstage", "build", "copydll",
             "copylib", "untree", "header", "unit"}
Moving   == {"probe", "displace", "install"}
Undoing  == {"putback", "undo", "restore"}
Ended    == {"cleanup", "done", "crashed"}

----------------------------------------------------------------------------
(* The inductive invariant.  Between two filesystem calls every artifact of *)
(* the run that is publishing is in one of four states.                     *)

\* What publish knows of a file it keeps no backup of: there was none, or a probe
\* did not see it.
Unseen(r, a) == before[r][a] \notin Files \/ a \in misread[r]

Untouched(r, a) ==
  /\ Dest(r, a) = before[r][a]
  /\ a \notin kept[r] /\ a \notin stranded[r] /\ suspect[r] # a

\* A move that reported failure late, or a file that could not be removed, may
\* have left this run's own file at the destination.
Displaced(r, a) ==
  /\ before[r][a] \in Files /\ Backup(r, a) = before[r][a]
  /\ a \in kept[r] /\ a \notin stranded[r]

Replaced(r, a) ==
  /\ Dest(r, a) = r /\ a \notin stranded[r] /\ suspect[r] # a
  /\ IF a \in kept[r]
     THEN before[r][a] \in Files /\ Backup(r, a) = before[r][a]
     ELSE Unseen(r, a)

Settled(r, a) ==
  \/ Unseen(r, a) /\ a \notin stranded[r] /\ suspect[r] # a
  \/ before[r][a] \in Files /\ Dest(r, a) = before[r][a]
  \/ /\ before[r][a] \in Files /\ Backup(r, a) = before[r][a]
     /\ a \in stranded[r] \/ suspect[r] = a

\* Nothing of a run that has not reached publish is anywhere yet.
BeforePublish(r) == pc[r] \in Early =>
  /\ latest[ModuleOf[r]] # r
  /\ moved[r] = 0 /\ kept[r] = {} /\ suspect[r] = Absent /\ stranded[r] = {}
  /\ pc[r] # "untree" => err[r] = "none"
  /\ pc[r] = "copylib" => Ready(r, "dll") = r
  /\ pc[r] \in {"untree", "header", "unit"} /\ err[r] = "none"
       => Ready(r, "dll") = r /\ Ready(r, "lib") = r
  /\ pc[r] = "unit" => Ready(r, "h") = r

\* From its own clearing of the staging directory to its end, the name is the run's.
Owning(r) == pc[r] \notin {"idle", "mkdir", "clear", "done", "crashed"} => OwnsStage(r)

\* A publishing run is the latest of its module, and has no error yet.
AtPublish(r) == pc[r] \in Moving \union Undoing =>
  /\ latest[ModuleOf[r]] = r
  /\ err[r] = "none"

ForwardPart(r) == pc[r] \in Moving =>
  /\ moved[r] < 4 /\ suspect[r] = Absent
  /\ \A a \in Arts : Pos[a] > moved[r] => Ready(r, a) = r
  /\ \A a \in Arts : Pos[a] <= moved[r] => Replaced(r, a)
  /\ \A a \in Arts : Pos[a] > moved[r] + 1 => Untouched(r, a)
  /\ pc[r] \in {"probe", "displace"} =>
       \A a \in Arts : Pos[a] = moved[r] + 1 => Untouched(r, a)
  /\ pc[r] = "displace" =>
       \A a \in Arts : Pos[a] = moved[r] + 1 => before[r][a] \in Files
  /\ pc[r] = "install" =>
       \A a \in Arts : Pos[a] = moved[r] + 1 =>
         Displaced(r, a) \/ (Untouched(r, a) /\ Unseen(r, a))

BackwardPart(r) == pc[r] \in Undoing =>
  /\ pc[r] = "putback" =>
       /\ moved[r] < 4
       /\ \A a \in Arts : Pos[a] <= moved[r] => Replaced(r, a)
       /\ \A a \in Arts : Pos[a] = moved[r] + 1 => Displaced(r, a)
       /\ \A a \in Arts : Pos[a] > moved[r] + 1 => Untouched(r, a)
  /\ pc[r] = "undo" =>
       /\ \A a \in Arts : Pos[a] <= moved[r] => Replaced(r, a)
       /\ \A a \in Arts : Pos[a] > moved[r] => Settled(r, a)
  /\ pc[r] = "restore" =>
       /\ moved[r] > 0
       /\ \A a \in Arts : Pos[a] < moved[r] => Replaced(r, a)
       /\ \A a \in Arts : Pos[a] = moved[r] => Displaced(r, a)
       /\ \A a \in Arts : Pos[a] > moved[r] => Settled(r, a)

\* What has become of the files publish saw.
Found(r, a) == before[r][a] \in Files /\ a \notin misread[r] =>
  before[r][a] \in {Dest(r, a), Backup(r, a)}
InPlace(r, a) == before[r][a] \in Files /\ a \notin misread[r] => Dest(r, a) = before[r][a]

EndPart(r) == pc[r] \in Ended /\ latest[ModuleOf[r]] = r =>
  /\ err[r] # "compile"
  /\ pc[r] = "cleanup" /\ err[r] = "none" => \A a \in Arts : Replaced(r, a)
  /\ pc[r] = "done" /\ err[r] = "none" => \A a \in Arts : Dest(r, a) = r
  /\ (pc[r] = "crashed" \/ err[r] # "none") /\ OwnsStage(r) => \A a \in Arts : Found(r, a)
  /\ err[r] = "io" => \A a \in Arts : InPlace(r, a)

StrandedPart(r) == err[r] = "stranded" =>
  /\ pc[r] \in Ended
  /\ stranded[r] # {}
  /\ \A a \in stranded[r] \ intact[r] :
       before[r][a] \in Files /\ (OwnsStage(r) => Backup(r, a) = before[r][a])
  /\ \A a \in intact[r] :
       before[r][a] \in Files /\ (latest[ModuleOf[r]] = r => Dest(r, a) = before[r][a])

RunInv(r) ==
  /\ Owning(r) /\ BeforePublish(r) /\ AtPublish(r) /\ ForwardPart(r)
  /\ BackwardPart(r) /\ EndPart(r) /\ StrandedPart(r)

\* What Begin looks for among the live runs.
Apart ==
  \A r, q \in Runs : r # q /\ Live(r) /\ Live(q) =>
    ModuleOf[r] # ModuleOf[q] /\ StageOf[r] # StageOf[q]

----------------------------------------------------------------------------
(* Types.                                                                   *)

\* The four names, in publish's order, are the four artifacts.
LEMMA NamesFacts ==
  /\ Len(Names) = 4
  /\ \A i \in 1..4 : Names[i] \in Arts /\ Pos[Names[i]] = i
  /\ \A a \in Arts : Pos[a] \in 1..4 /\ Names[Pos[a]] = a
BY DEF Names, Arts, Pos

\* The cursor of publish stays inside its list: each name is moved once, and
\* the rollback never undoes a move that was not made.
CursorInRange(r) ==
  /\ pc[r] \in Early => moved[r] = 0
  /\ pc[r] \in Moving \union {"putback"} => moved[r] < 4
  /\ pc[r] = "restore" => moved[r] > 0

TypeInv == TypeOK /\ \A r \in Runs : CursorInRange(r)

LEMMA TypeInit == Init => TypeInv
BY ConstantsAssumption
   DEF Init, TypeInv, TypeOK, Contents, Labels, Errors, NoFiles, CursorInRange,
       Early, Moving

\* The vocabulary's values have their types.
LEMMA ValueTypes == ASSUME TypeOK, NEW r \in Runs
  PROVE  /\ ModuleOf[r] \in Modules /\ StageOf[r] \in Stages
         /\ NoFiles \in [Arts -> Contents] /\ Absent \in Contents /\ r \in Contents
         /\ \A a \in Arts : /\ Dest(r, a) \in Contents
                            /\ Ready(r, a) \in Contents
                            /\ Backup(r, a) \in Contents
         /\ moved[r] < 4 => Current(r) \in Arts
         /\ moved[r] > 0 => Newest(r) \in Arts
BY ConstantsAssumption, NamesFacts
   DEF TypeOK, Contents, NoFiles, Dest, Ready, Backup, Current, Newest

\* One file set keeps the file maps' types.
LEMMA SlotTypes == ASSUME TypeOK, NEW r \in Runs, NEW a \in Arts, NEW c \in Contents
  PROVE  /\ SetDest(r, a, c) => out' \in [Modules -> [Arts -> Contents]]
         /\ SetReady(r, a, c) => staged' \in [Stages -> [Arts -> Contents]]
         /\ SetBackup(r, a, c) => prev' \in [Stages -> [Arts -> Contents]]
<1>1. SetDest(r, a, c) => out' \in [Modules -> [Arts -> Contents]]
  BY ConstantsAssumption DEF TypeOK, SetDest
<1>2. SetReady(r, a, c) => staged' \in [Stages -> [Arts -> Contents]]
  BY ConstantsAssumption DEF TypeOK, SetReady
<1>3. SetBackup(r, a, c) => prev' \in [Stages -> [Arts -> Contents]]
  BY ConstantsAssumption DEF TypeOK, SetBackup
<1> QED BY <1>1, <1>2, <1>3

LEMMA TypeStep ==
  ASSUME TypeInv, NEW r \in Runs, Reject(r) \/ Begin(r) \/ Step(r) \/ Crash(r)
  PROVE  TypeOK'
<1> TypeOK /\ CursorInRange(r)
  BY DEF TypeInv
<1> USE ConstantsAssumption, ValueTypes
<1>1. CASE Reject(r)
  <2>1. pc' \in [Runs -> Labels]
    BY <1>1 DEF TypeOK, Reject, Goto, Labels
  <2>2. err' \in [Runs -> Errors]
    BY <1>1 DEF TypeOK, Reject, FailWith, Errors
  <2>3. UNCHANGED <<disk, local, ghost, faults>>
    BY <1>1 DEF Reject
  <2> QED BY <2>1, <2>2, <2>3 DEF TypeOK, Errors, disk, local, ghost
<1>2. CASE Begin(r)
  <2>1. pc' \in [Runs -> Labels]
    BY <1>2 DEF TypeOK, Begin, Goto, Labels
  <2>2. UNCHANGED <<disk, local, ghost, err, faults>>
    BY <1>2 DEF Begin
  <2> QED BY <2>1, <2>2 DEF TypeOK, Errors, disk, local, ghost
<1>3. CASE MakeOutDir(r)
  <2>1. pc' \in [Runs -> Labels]
    BY <1>3 DEF TypeOK, MakeOutDir, Goto, Labels
  <2>2. err' \in [Runs -> Errors]
    BY <1>3 DEF TypeOK, MakeOutDir, FailWith, Errors
  <2>3. faults' \in Nat
    BY <1>3 DEF TypeOK, MakeOutDir, Fault, Faults, NoFault
  <2>4. UNCHANGED <<disk, local, ghost>>
    BY <1>3 DEF MakeOutDir
  <2> QED BY <2>1, <2>2, <2>3, <2>4 DEF TypeOK, Errors, disk, local, ghost
<1>4. CASE ClearStage(r)
  <2>1. pc' \in [Runs -> Labels]
    BY <1>4 DEF TypeOK, ClearStage, Goto, Labels
  <2>2. faults' \in Nat
    BY <1>4 DEF TypeOK, ClearStage, Fault, Faults, NoFault
  <2>3. dirs' \subseteq Stages
    BY <1>4 DEF TypeOK, ClearStage
  <2>4. staged' \in [Stages -> [Arts -> Contents]]
    BY <1>4 DEF TypeOK, ClearStage
  <2>5. prev' \in [Stages -> [Arts -> Contents]]
    BY <1>4 DEF TypeOK, ClearStage
  <2>6. owner' \in [Stages -> Runs \union {NoRun}]
    BY <1>4 DEF TypeOK, ClearStage
  <2>7. UNCHANGED <<local, before, latest, misread, intact, out, trees, err>>
    BY <1>4 DEF ClearStage
  <2> QED BY <2>1, <2>2, <2>3, <2>4, <2>5, <2>6, <2>7 DEF TypeOK, Errors, local
<1>5. CASE MakeStage(r)
  <2>1. pc' \in [Runs -> Labels]
    BY <1>5 DEF TypeOK, MakeStage, Goto, Labels
  <2>2. err' \in [Runs -> Errors]
    BY <1>5 DEF TypeOK, MakeStage, FailWith, Errors
  <2>3. faults' \in Nat
    BY <1>5 DEF TypeOK, MakeStage, Fault, Faults, NoFault
  <2>4. dirs' \subseteq Stages
    BY <1>5 DEF TypeOK, MakeStage
  <2>5. UNCHANGED <<local, ghost, out, staged, prev, trees>>
    BY <1>5 DEF MakeStage
  <2> QED BY <2>1, <2>2, <2>3, <2>4, <2>5 DEF TypeOK, Errors, local, ghost
<1>6. CASE Build(r)
  <2>1. pc' \in [Runs -> Labels]
    BY <1>6 DEF TypeOK, Build, Goto, Labels
  <2>2. err' \in [Runs -> Errors]
    BY <1>6 DEF TypeOK, Build, FailWith, Errors
  <2>3. faults' \in Nat
    BY <1>6 DEF TypeOK, Build, Fault, Faults, NoFault
  <2>4. trees' \subseteq Stages
    BY <1>6 DEF TypeOK, Build
  <2>5. UNCHANGED <<local, ghost, out, dirs, staged, prev>>
    BY <1>6 DEF Build
  <2> QED BY <2>1, <2>2, <2>3, <2>4, <2>5 DEF TypeOK, Errors, local, ghost
<1>7. CASE CopyModule(r)
  <2>1. pc' \in [Runs -> Labels]
    BY <1>7 DEF TypeOK, CopyModule, StageFile, Goto, Labels
  <2>2. err' \in [Runs -> Errors]
    BY <1>7 DEF TypeOK, CopyModule, StageFile, FailWith, Errors
  <2>3. faults' \in Nat
    BY <1>7 DEF TypeOK, CopyModule, StageFile, Fault, Faults, NoFault
  <2>4. staged' \in [Stages -> [Arts -> Contents]]
    BY <1>7, SlotTypes DEF TypeOK, CopyModule, StageFile, Arts
  <2>5. UNCHANGED <<local, ghost, out, dirs, prev, trees>>
    BY <1>7 DEF CopyModule, StageFile
  <2> QED BY <2>1, <2>2, <2>3, <2>4, <2>5 DEF TypeOK, Errors, local, ghost
<1>8. CASE CopyImportLib(r)
  <2>1. pc' \in [Runs -> Labels]
    BY <1>8 DEF TypeOK, CopyImportLib, StageFile, Goto, Labels
  <2>2. err' \in [Runs -> Errors]
    BY <1>8 DEF TypeOK, CopyImportLib, StageFile, FailWith, Errors
  <2>3. faults' \in Nat
    BY <1>8 DEF TypeOK, CopyImportLib, StageFile, Fault, Faults, NoFault
  <2>4. staged' \in [Stages -> [Arts -> Contents]]
    BY <1>8, SlotTypes DEF TypeOK, CopyImportLib, StageFile, Arts
  <2>5. UNCHANGED <<local, ghost, out, dirs, prev, trees>>
    BY <1>8 DEF CopyImportLib, StageFile
  <2> QED BY <2>1, <2>2, <2>3, <2>4, <2>5 DEF TypeOK, Errors, local, ghost
<1>9. CASE RemoveTree(r)
  <2>1. pc' \in [Runs -> Labels]
    BY <1>9 DEF TypeOK, RemoveTree, Goto, Labels
  <2>2. faults' \in Nat
    BY <1>9 DEF TypeOK, RemoveTree, Fault, Faults, NoFault
  <2>3. trees' \subseteq Stages
    BY <1>9 DEF TypeOK, RemoveTree
  <2>4. UNCHANGED <<local, ghost, out, dirs, staged, prev, err>>
    BY <1>9 DEF RemoveTree
  <2> QED BY <2>1, <2>2, <2>3, <2>4 DEF TypeOK, Errors, local, ghost
<1>10. CASE WriteHeader(r)
  <2>1. pc' \in [Runs -> Labels]
    BY <1>10 DEF TypeOK, WriteHeader, StageFile, Goto, Labels
  <2>2. err' \in [Runs -> Errors]
    BY <1>10 DEF TypeOK, WriteHeader, StageFile, FailWith, Errors
  <2>3. faults' \in Nat
    BY <1>10 DEF TypeOK, WriteHeader, StageFile, Fault, Faults, NoFault
  <2>4. staged' \in [Stages -> [Arts -> Contents]]
    BY <1>10, SlotTypes DEF TypeOK, WriteHeader, StageFile, Arts
  <2>5. UNCHANGED <<local, ghost, out, dirs, prev, trees>>
    BY <1>10 DEF WriteHeader, StageFile
  <2> QED BY <2>1, <2>2, <2>3, <2>4, <2>5 DEF TypeOK, Errors, local, ghost
<1>11. CASE WriteUnit(r)
  <2>1. pc' \in [Runs -> Labels]
    BY <1>11 DEF TypeOK, WriteUnit, StageFile, Goto, Labels
  <2>2. err' \in [Runs -> Errors]
    BY <1>11 DEF TypeOK, WriteUnit, StageFile, FailWith, Errors
  <2>3. faults' \in Nat
    BY <1>11 DEF TypeOK, WriteUnit, StageFile, Fault, Faults, NoFault
  <2>4. staged' \in [Stages -> [Arts -> Contents]]
    BY <1>11, SlotTypes DEF TypeOK, WriteUnit, StageFile, Arts
  <2>5. before' \in [Runs -> [Arts -> Contents]]
    <3>1. before' = before \/ before' = [before EXCEPT ![r] = out[ModuleOf[r]]]
      BY <1>11 DEF WriteUnit, ghost
    <3> QED BY <3>1 DEF TypeOK
  <2>6. latest' \in [Modules -> Runs \union {NoRun}]
    BY <1>11 DEF TypeOK, WriteUnit, ghost
  <2>7. UNCHANGED <<local, out, dirs, prev, trees, owner, misread, intact>>
    BY <1>11 DEF WriteUnit, StageFile, ghost
  <2> QED BY <2>1, <2>2, <2>3, <2>4, <2>5, <2>6, <2>7 DEF TypeOK, Errors, local
<1>12. CASE Probe(r)
  <2>1. Current(r) \in Arts
    BY <1>12 DEF Probe, CursorInRange, Moving, TypeOK
  <2>2. pc' \in [Runs -> Labels]
    BY <1>12 DEF TypeOK, Probe, Goto, Labels
  <2>3. faults' \in Nat
    BY <1>12 DEF TypeOK, Probe, Fault, Faults, NoFault
  <2>4. misread' \in [Runs -> SUBSET Arts]
    <3>1. misread[r] \in SUBSET Arts /\ misread[r] \union {Current(r)} \in SUBSET Arts
      BY <2>1 DEF TypeOK
    <3>2. \E S \in SUBSET Arts : misread' = misread \/ misread' = [misread EXCEPT ![r] = S]
      BY <1>12, <3>1 DEF Probe, Misread
    <3>3. misread \in [Runs -> SUBSET Arts]
      BY DEF TypeOK
    <3> QED BY <3>2, <3>3
  <2>5. UNCHANGED <<disk, local, before, latest, owner, intact, err>>
    BY <1>12 DEF Probe
  <2> QED BY <2>2, <2>3, <2>4, <2>5 DEF TypeOK, Errors, disk, local
<1>13. CASE Displace(r)
  <2>1. Current(r) \in Arts /\ moved[r] < 4
    BY <1>13 DEF Displace, CursorInRange, Moving, TypeOK
  <2>2. pc' \in [Runs -> Labels]
    BY <1>13 DEF TypeOK, Displace, Goto, Labels
  <2>3. faults' \in Nat
    BY <1>13 DEF TypeOK, Displace, Fault, Faults, NoFault
  <2>4. out' \in [Modules -> [Arts -> Contents]]
    BY <1>13, <2>1, SlotTypes DEF TypeOK, Displace
  <2>5. prev' \in [Stages -> [Arts -> Contents]]
    BY <1>13, <2>1, SlotTypes DEF TypeOK, Displace
  <2>6. kept' \in [Runs -> SUBSET Arts]
    <3>1. kept[r] \union {Current(r)} \in SUBSET Arts
      BY <2>1 DEF TypeOK
    <3>2. \E S \in SUBSET Arts : kept' = kept \/ kept' = [kept EXCEPT ![r] = S]
      BY <1>13, <3>1 DEF Displace
    <3>3. kept \in [Runs -> SUBSET Arts]
      BY DEF TypeOK
    <3> QED BY <3>2, <3>3
  <2>7. suspect' \in [Runs -> Arts \union {Absent}]
    BY <1>13, <2>1 DEF TypeOK, Displace
  <2>8. UNCHANGED <<ghost, dirs, staged, trees, moved, stranded, err>>
    BY <1>13 DEF Displace
  <2> QED BY <2>1, <2>2, <2>3, <2>4, <2>5, <2>6, <2>7, <2>8 DEF TypeOK, Errors, ghost
<1>14. CASE Install(r)
  <2>1. Current(r) \in Arts /\ moved[r] < 4
    BY <1>14 DEF Install, CursorInRange, Moving, TypeOK
  <2>2. pc' \in [Runs -> Labels]
    BY <1>14 DEF TypeOK, Install, Goto, Labels, AfterFailedMove
  <2>3. faults' \in Nat
    BY <1>14 DEF TypeOK, Install, Fault, Faults, NoFault
  <2>4. out' \in [Modules -> [Arts -> Contents]]
    BY <1>14, <2>1, SlotTypes DEF TypeOK, Install
  <2>5. staged' \in [Stages -> [Arts -> Contents]]
    BY <1>14, <2>1, SlotTypes DEF TypeOK, Install
  <2>6. moved' \in [Runs -> 0..4]
    <3>0. moved[r] \in 0..4
      BY DEF TypeOK
    <3>1. moved[r] + 1 \in 0..4
      BY <3>0, <2>1
    <3>2. moved' = moved \/ moved' = [moved EXCEPT ![r] = @ + 1]
      BY <1>14 DEF Install
    <3>3. moved \in [Runs -> 0..4]
      BY DEF TypeOK
    <3> QED BY <3>1, <3>2, <3>3
  <2>7. UNCHANGED <<ghost, dirs, prev, trees, kept, suspect, stranded, err>>
    BY <1>14 DEF Install
  <2> QED BY <2>1, <2>2, <2>3, <2>4, <2>5, <2>6, <2>7 DEF TypeOK, Errors, ghost
<1>15. CASE PutBack(r)
  <2>1. Current(r) \in Arts /\ moved[r] < 4
    BY <1>15 DEF PutBack, CursorInRange, Moving, TypeOK
  <2>2. pc' \in [Runs -> Labels]
    BY <1>15 DEF TypeOK, PutBack, MoveBack, Goto, Labels
  <2>3. faults' \in Nat
    BY <1>15 DEF TypeOK, PutBack, MoveBack, Fault, Faults, NoFault
  <2>4. out' \in [Modules -> [Arts -> Contents]]
    BY <1>15, <2>1, SlotTypes DEF TypeOK, PutBack, MoveBack
  <2>5. prev' \in [Stages -> [Arts -> Contents]]
    BY <1>15, <2>1, SlotTypes DEF TypeOK, PutBack, MoveBack
  <2>6. stranded' \in [Runs -> SUBSET Arts]
    <3>1. stranded[r] \in SUBSET Arts /\ stranded[r] \union {Current(r)} \in SUBSET Arts
      BY <2>1 DEF TypeOK
    <3>2. \E S \in SUBSET Arts : stranded' = [stranded EXCEPT ![r] = S]
      BY <1>15, <3>1 DEF PutBack, MoveBack, TypeOK
    <3>3. stranded \in [Runs -> SUBSET Arts]
      BY DEF TypeOK
    <3> QED BY <3>2, <3>3
  <2>7. UNCHANGED <<ghost, dirs, staged, trees, moved, kept, suspect, err>>
    BY <1>15 DEF PutBack, MoveBack
  <2> QED BY <2>1, <2>2, <2>3, <2>4, <2>5, <2>6, <2>7 DEF TypeOK, Errors, ghost
<1>16. CASE Undo(r)
  <2>1. Newest(r) \in Arts /\ moved[r] > 0
    BY <1>16 DEF Undo, CursorInRange, Moving, TypeOK
  <2>2. pc' \in [Runs -> Labels]
    <3>1. pc' = pc \/ pc' = [pc EXCEPT ![r] = "restore"]
      BY <1>16 DEF Undo, Goto
    <3> QED BY <3>1 DEF TypeOK, Labels
  <2>3. faults' \in Nat
    BY <1>16 DEF TypeOK, Undo, Fault, Faults, NoFault
  <2>4. out' \in [Modules -> [Arts -> Contents]]
    BY <1>16, <2>1, SlotTypes DEF TypeOK, Undo
  <2>5. moved' \in [Runs -> 0..4]
    <3>1. moved[r] - 1 \in 0..4
      BY <2>1 DEF TypeOK
    <3> QED BY <1>16, <3>1 DEF TypeOK, Undo, Popped
  <2>6. stranded' \in [Runs -> SUBSET Arts]
    <3>1. stranded[r] \in SUBSET Arts /\ stranded[r] \union {Newest(r)} \in SUBSET Arts
      BY <2>1 DEF TypeOK
    <3>2. \E S \in SUBSET Arts : stranded' = [stranded EXCEPT ![r] = S]
      BY <1>16, <3>1 DEF Undo, TypeOK
    <3>3. stranded \in [Runs -> SUBSET Arts]
      BY DEF TypeOK
    <3> QED BY <3>2, <3>3
  <2>7. UNCHANGED <<ghost, dirs, staged, prev, trees, kept, suspect, err>>
    BY <1>16 DEF Undo
  <2> QED BY <2>1, <2>2, <2>3, <2>4, <2>5, <2>6, <2>7 DEF TypeOK, Errors, ghost
<1>17. CASE Restore(r)
  <2>1. Newest(r) \in Arts /\ moved[r] > 0
    BY <1>17 DEF Restore, CursorInRange, Moving, TypeOK
  <2>2. pc' \in [Runs -> Labels]
    BY <1>17 DEF TypeOK, Restore, MoveBack, Goto, Labels
  <2>3. faults' \in Nat
    BY <1>17 DEF TypeOK, Restore, MoveBack, Fault, Faults, NoFault
  <2>4. out' \in [Modules -> [Arts -> Contents]]
    BY <1>17, <2>1, SlotTypes DEF TypeOK, Restore, MoveBack
  <2>5. prev' \in [Stages -> [Arts -> Contents]]
    BY <1>17, <2>1, SlotTypes DEF TypeOK, Restore, MoveBack
  <2>6. moved' \in [Runs -> 0..4]
    BY <1>17, <2>1 DEF TypeOK, Restore, MoveBack, Popped
  <2>7. stranded' \in [Runs -> SUBSET Arts]
    <3>1. stranded[r] \in SUBSET Arts /\ stranded[r] \union {Newest(r)} \in SUBSET Arts
      BY <2>1 DEF TypeOK
    <3>2. \E S \in SUBSET Arts : stranded' = [stranded EXCEPT ![r] = S]
      BY <1>17, <3>1 DEF Restore, MoveBack, TypeOK
    <3>3. stranded \in [Runs -> SUBSET Arts]
      BY DEF TypeOK
    <3> QED BY <3>2, <3>3
  <2>8. UNCHANGED <<ghost, dirs, staged, trees, kept, suspect, err>>
    BY <1>17 DEF Restore, MoveBack
  <2> QED BY <2>1, <2>2, <2>3, <2>4, <2>5, <2>6, <2>7, <2>8 DEF TypeOK, Errors, ghost
<1>18. CASE Conclude(r)
  <2>1. pc' \in [Runs -> Labels]
    BY <1>18 DEF TypeOK, Conclude, Goto, Labels
  <2>2. PICK found \in {Doubtful(r), {}} :
          /\ IF found = Doubtful(r) THEN NoFault /\ UNCHANGED misread
                                    ELSE Fault /\ Misread(r, suspect[r])
          /\ stranded' = [stranded EXCEPT ![r] = stranded[r] \union found]
          /\ FailWith(r, IF stranded[r] \union found = {} THEN "io" ELSE "stranded")
          /\ intact' = [intact EXCEPT ![r] =
                         {a \in stranded[r] \union found : Dest(r, a) = before[r][a]}]
    BY <1>18 DEF Conclude
  <2>3. found \subseteq Arts /\ (found # Doubtful(r) => suspect[r] \in Arts)
    BY DEF Doubtful
  <2>4. err' \in [Runs -> Errors]
    BY <2>2 DEF TypeOK, FailWith, Errors
  <2>5. faults' \in Nat
    BY <2>2 DEF TypeOK, Fault, Faults, NoFault
  <2>6. misread' \in [Runs -> SUBSET Arts]
    <3>1. misread[r] \in SUBSET Arts
      BY DEF TypeOK
    <3>2. \E S \in SUBSET Arts : misread' = misread \/ misread' = [misread EXCEPT ![r] = S]
      <4>1. CASE found = Doubtful(r)
        BY <2>2, <3>1, <4>1
      <4>2. CASE found # Doubtful(r)
        <5>1. misread[r] \union {suspect[r]} \in SUBSET Arts
          BY <2>3, <3>1, <4>2
        <5> QED BY <2>2, <4>2, <5>1 DEF Misread
      <4> QED BY <4>1, <4>2
    <3>3. misread \in [Runs -> SUBSET Arts]
      BY DEF TypeOK
    <3> QED BY <3>2, <3>3
  <2>7. stranded' \in [Runs -> SUBSET Arts] /\ intact' \in [Runs -> SUBSET Arts]
    BY <2>2, <2>3 DEF TypeOK
  <2>8. UNCHANGED <<disk, moved, kept, suspect, before, latest, owner>>
    BY <1>18 DEF Conclude
  <2> QED BY <2>1, <2>4, <2>5, <2>6, <2>7, <2>8 DEF TypeOK, Errors, disk
<1>19. CASE Cleanup(r)
  <2>1. pc' \in [Runs -> Labels]
    BY <1>19 DEF TypeOK, Cleanup, Goto, Labels
  <2>2. faults' \in Nat
    BY <1>19 DEF TypeOK, Cleanup, Fault, Faults, NoFault
  <2>3. dirs' \subseteq Stages
    BY <1>19 DEF TypeOK, Cleanup
  <2>4. staged' \in [Stages -> [Arts -> Contents]]
    BY <1>19 DEF TypeOK, Cleanup
  <2>5. prev' \in [Stages -> [Arts -> Contents]]
    BY <1>19 DEF TypeOK, Cleanup
  <2>6. UNCHANGED <<local, ghost, out, trees, err>>
    BY <1>19 DEF Cleanup
  <2> QED BY <2>1, <2>2, <2>3, <2>4, <2>5, <2>6 DEF TypeOK, Errors, local, ghost
<1>20. CASE Crash(r)
  <2>1. pc' \in [Runs -> Labels]
    BY <1>20 DEF TypeOK, Crash, Goto, Labels
  <2>2. UNCHANGED <<disk, local, ghost, err, faults>>
    BY <1>20 DEF Crash
  <2> QED BY <2>1, <2>2 DEF TypeOK, Errors, disk, local, ghost
<1> QED BY <1>1, <1>2, <1>3, <1>4, <1>5, <1>6, <1>7, <1>8, <1>9, <1>10, <1>11, <1>12, <1>13, <1>14, <1>15, <1>16, <1>17, <1>18, <1>19, <1>20 DEF Step

LEMMA CursorStep ==
  ASSUME TypeInv, NEW r \in Runs, Reject(r) \/ Begin(r) \/ Step(r) \/ Crash(r),
         NEW q \in Runs
  PROVE  CursorInRange(q)'
<1> TypeOK /\ CursorInRange(q) /\ CursorInRange(r)
  BY DEF TypeInv
<1> USE DEF TypeOK, CursorInRange, Early, Moving, Goto
<1>1. CASE Reject(r)
  BY <1>1 DEF Reject, local
<1>2. CASE Begin(r)
  BY <1>2 DEF Begin, local
<1>3. CASE MakeOutDir(r)
  BY <1>3 DEF MakeOutDir, local
<1>4. CASE ClearStage(r)
  BY <1>4 DEF ClearStage, local
<1>5. CASE MakeStage(r)
  BY <1>5 DEF MakeStage, local
<1>6. CASE Build(r)
  BY <1>6 DEF Build, local
<1>7. CASE CopyModule(r)
  BY <1>7 DEF CopyModule, StageFile, local
<1>8. CASE CopyImportLib(r)
  BY <1>8 DEF CopyImportLib, StageFile, local
<1>9. CASE RemoveTree(r)
  BY <1>9 DEF RemoveTree, local
<1>10. CASE WriteHeader(r)
  BY <1>10 DEF WriteHeader, StageFile, local
<1>11. CASE WriteUnit(r)
  BY <1>11 DEF WriteUnit, StageFile, local
<1>12. CASE Probe(r)
  BY <1>12 DEF Probe, local
<1>13. CASE Displace(r)
  <2>1. /\ pc[r] = "displace" /\ UNCHANGED moved
        /\ pc' = [pc EXCEPT ![r] = "install"] \/ pc' = [pc EXCEPT ![r] = "undo"]
    BY <1>13 DEF Displace
  <2> QED BY <2>1
<1>14. CASE Install(r)
  <2>1. /\ pc[r] = "install"
        /\ \/ UNCHANGED moved /\ pc' = [pc EXCEPT ![r] = "putback"]
           \/ UNCHANGED moved /\ pc' = [pc EXCEPT ![r] = "undo"]
           \/ moved' = [moved EXCEPT ![r] = @ + 1] /\ pc' = [pc EXCEPT ![r] = "cleanup"]
           \/ /\ moved[r] + 1 # 4 /\ moved' = [moved EXCEPT ![r] = @ + 1]
              /\ pc' = [pc EXCEPT ![r] = "probe"]
    BY <1>14, NamesFacts DEF Install, AfterFailedMove
  <2>2. moved[r] \in 0..4
    OBVIOUS
  <2> QED BY <2>1, <2>2
<1>15. CASE PutBack(r)
  BY <1>15 DEF PutBack
<1>16. CASE Undo(r)
  BY <1>16 DEF Undo
<1>17. CASE Restore(r)
  BY <1>17 DEF Restore
<1>18. CASE Conclude(r)
  BY <1>18 DEF Conclude
<1>19. CASE Cleanup(r)
  BY <1>19 DEF Cleanup, local
<1>20. CASE Crash(r)
  BY <1>20 DEF Crash, local
<1> QED BY <1>1, <1>2, <1>3, <1>4, <1>5, <1>6, <1>7, <1>8, <1>9, <1>10, <1>11, <1>12, <1>13, <1>14, <1>15, <1>16, <1>17, <1>18, <1>19, <1>20 DEF Step

\* The types and the cursor hold whatever the constants are: overlapping
\* builds, reused staging names, any number of faults and crashes included.
THEOREM TypeCorrect == Spec => [](TypeOK /\ \A r \in Runs : CursorInRange(r))
<1>1. TypeInv /\ [Next]_vars => TypeInv'
  <2> SUFFICES ASSUME TypeInv, [Next]_vars PROVE TypeInv'
    OBVIOUS
  <2>1. CASE Next
    BY <2>1, TypeStep, CursorStep DEF Next, TypeInv
  <2>2. CASE UNCHANGED vars
    BY <2>2 DEF TypeInv, TypeOK, CursorInRange, vars, disk, local, ghost
  <2> QED BY <2>1, <2>2
<1> QED BY TypeInit, <1>1, PTL DEF Spec, TypeInv

----------------------------------------------------------------------------
(* A step of one run leaves the others alone.                               *)

IInv == TypeInv /\ Apart /\ \A r \in Runs : RunInv(r)

Act(r) == Reject(r) \/ Begin(r) \/ Step(r) \/ Crash(r)

\* What run q sees of a step of another run: its own variables stay, its stage
\* stays while it runs and afterwards until the name is cleared again, and so do
\* the destinations while it is the latest to publish them.
Same(q) ==
  /\ pc'[q] = pc[q] /\ err'[q] = err[q] /\ before'[q] = before[q]
  /\ moved'[q] = moved[q] /\ kept'[q] = kept[q]
  /\ suspect'[q] = suspect[q] /\ stranded'[q] = stranded[q]
  /\ misread'[q] = misread[q] /\ intact'[q] = intact[q]
  /\ Live(q) => /\ staged'[StageOf[q]] = staged[StageOf[q]]
                /\ prev'[StageOf[q]] = prev[StageOf[q]]
                /\ owner'[StageOf[q]] = owner[StageOf[q]]
  /\ OwnsStage(q)' => OwnsStage(q) /\ prev'[StageOf[q]] = prev[StageOf[q]]
  /\ latest'[ModuleOf[q]] = q => latest[ModuleOf[q]] = q
  /\ Live(q) /\ latest[ModuleOf[q]] = q => latest'[ModuleOf[q]] = q
  /\ latest[ModuleOf[q]] = q => out'[ModuleOf[q]] = out[ModuleOf[q]]

LEMMA Frame ==
  ASSUME IInv, NEW r \in Runs, Act(r), NEW q \in Runs, q # r
  PROVE  Same(q)
<1>0. TypeOK /\ AtPublish(r) /\ ModuleOf[r] \in Modules /\ ModuleOf[q] \in Modules
      /\ StageOf[q] \in Stages /\ StageOf[r] \in Stages
  BY ConstantsAssumption DEF IInv, TypeInv, RunInv
<1>1. Live(q) /\ Live(r) => ModuleOf[q] # ModuleOf[r] /\ StageOf[q] # StageOf[r]
  BY DEF IInv, Apart
<1>2. latest[ModuleOf[q]] = q /\ pc[r] \in Moving \union Undoing => ModuleOf[q] # ModuleOf[r]
  BY <1>0 DEF AtPublish
<1>3. Live(q) /\ pc[r] \notin {"idle", "done", "crashed"} => StageOf[q] # StageOf[r]
  BY <1>1 DEF Live
<1>4. OwnsStage(q) /\ pc[r] \notin {"idle", "mkdir", "clear", "done", "crashed"}
        => StageOf[q] # StageOf[r]
  BY DEF IInv, RunInv, Owning, OwnsStage
<1> USE <1>0 DEF TypeOK, Same, OwnsStage, Goto, FailWith
<1>10. CASE Reject(r)
  BY <1>10 DEF Reject, disk, local, ghost
<1>11. CASE Begin(r)
  BY <1>11 DEF Begin, disk, local, ghost
<1>12. CASE MakeOutDir(r)
  BY <1>12 DEF MakeOutDir, disk, local, ghost
<1>13. CASE ClearStage(r)
  BY <1>3, <1>4, <1>13 DEF ClearStage, local, ghost
<1>14. CASE MakeStage(r)
  BY <1>3, <1>4, <1>14 DEF MakeStage, local, ghost
<1>15. CASE Build(r)
  BY <1>3, <1>4, <1>15 DEF Build, local, ghost
<1>16. CASE CopyModule(r)
  BY <1>3, <1>4, <1>16 DEF CopyModule, StageFile, SetReady, local, ghost
<1>17. CASE CopyImportLib(r)
  BY <1>3, <1>4, <1>17 DEF CopyImportLib, StageFile, SetReady, local, ghost
<1>18. CASE RemoveTree(r)
  BY <1>3, <1>4, <1>18 DEF RemoveTree, local, ghost
<1>19. CASE WriteHeader(r)
  BY <1>3, <1>4, <1>19 DEF WriteHeader, StageFile, SetReady, local, ghost
<1>20. CASE WriteUnit(r)
  BY <1>1, <1>3, <1>4, <1>20 DEF WriteUnit, StageFile, SetReady, local, ghost, Live
<1>21. CASE Probe(r)
  BY <1>21 DEF Probe, Misread, disk, local, ghost
<1>22. CASE Displace(r)
  BY <1>2, <1>3, <1>4, <1>22 DEF Displace, SetDest, SetBackup, ghost, Moving
<1>23. CASE Install(r)
  BY <1>2, <1>3, <1>4, <1>23 DEF Install, SetDest, SetReady, ghost, Moving
<1>24. CASE PutBack(r)
  BY <1>2, <1>3, <1>4, <1>24 DEF PutBack, MoveBack, SetDest, SetBackup, ghost, Undoing
<1>25. CASE Undo(r)
  BY <1>2, <1>25 DEF Undo, SetDest, ghost, Undoing
<1>26. CASE Restore(r)
  BY <1>2, <1>3, <1>4, <1>26 DEF Restore, MoveBack, SetDest, SetBackup, ghost, Undoing
<1>27. CASE Conclude(r)
  BY <1>27 DEF Conclude, Misread, disk
<1>28. CASE Cleanup(r)
  BY <1>3, <1>4, <1>28 DEF Cleanup, local, ghost
<1>29. CASE Crash(r)
  BY <1>29 DEF Crash, disk, local, ghost
<1> QED BY <1>10, <1>11, <1>12, <1>13, <1>14, <1>15, <1>16, <1>17, <1>18, <1>19, <1>20, <1>21, <1>22, <1>23, <1>24, <1>25, <1>26, <1>27, <1>28, <1>29 DEF Act, Step

LEMMA OthersKeepInv ==
  ASSUME NEW q \in Runs, RunInv(q), Same(q)
  PROVE  RunInv(q)'
<1> USE DEF RunInv, Same, Dest, Ready, Backup, Unseen
<1>0. Owning(q)'
  BY DEF Owning, OwnsStage, Live
<1>1. BeforePublish(q)'
  BY DEF BeforePublish, Live
<1>2. AtPublish(q)'
  BY DEF AtPublish, Live, Moving, Undoing
<1>3. ForwardPart(q)'
  BY DEF ForwardPart, AtPublish, Replaced, Untouched, Displaced, Live, Moving
<1>4. BackwardPart(q)'
  BY DEF BackwardPart, AtPublish, Replaced, Untouched, Displaced, Settled, Live, Undoing
<1>5. EndPart(q)'
  BY DEF EndPart, Replaced, Found, InPlace, Live
<1>6. StrandedPart(q)'
  BY DEF StrandedPart
<1> QED BY <1>0, <1>1, <1>2, <1>3, <1>4, <1>5, <1>6

----------------------------------------------------------------------------
(* A run's own step keeps its own invariant.                                *)

\* What setting one file does to the run that sets it.
LEMMA SlotUpdates == ASSUME TypeOK, NEW r \in Runs, NEW a \in Arts, NEW c
  PROVE  /\ SetDest(r, a, c) => \A b \in Arts : Dest(r, b)' = IF b = a THEN c ELSE Dest(r, b)
         /\ SetReady(r, a, c) => \A b \in Arts : Ready(r, b)' = IF b = a THEN c ELSE Ready(r, b)
         /\ SetBackup(r, a, c) => \A b \in Arts : Backup(r, b)' = IF b = a THEN c ELSE Backup(r, b)
<1> USE ValueTypes DEF TypeOK, Dest, Ready, Backup
<1>1. SetDest(r, a, c) => \A b \in Arts : Dest(r, b)' = IF b = a THEN c ELSE Dest(r, b)
  BY DEF SetDest
<1>2. SetReady(r, a, c) => \A b \in Arts : Ready(r, b)' = IF b = a THEN c ELSE Ready(r, b)
  BY DEF SetReady
<1>3. SetBackup(r, a, c) => \A b \in Arts : Backup(r, b)' = IF b = a THEN c ELSE Backup(r, b)
  BY DEF SetBackup
<1> QED BY <1>1, <1>2, <1>3

\* Positions of the artifacts the cursor points at.
LEMMA CursorPos == ASSUME TypeInv, NEW r \in Runs
  PROVE  /\ moved[r] \in 0..4 /\ \A a \in Arts : Pos[a] \in 1..4
         /\ moved[r] < 4 => /\ Current(r) \in Arts
                            /\ \A a \in Arts : Pos[a] = moved[r] + 1 <=> a = Current(r)
         /\ moved[r] > 0 => /\ Newest(r) \in Arts
                            /\ \A a \in Arts : Pos[a] = moved[r] <=> a = Newest(r)
<1>1. moved[r] \in 0..4
  BY DEF TypeInv, TypeOK
<1>2. moved[r] < 4 => moved[r] + 1 \in 1..4
  BY <1>1
<1>3. moved[r] > 0 => moved[r] \in 1..4
  BY <1>1
<1> QED BY <1>1, <1>2, <1>3, NamesFacts DEF Current, Newest

\* The steps before publish: nothing of the run is anywhere yet.
LEMMA EarlyOwn ==
  ASSUME TypeInv, NEW r \in Runs, RunInv(r),
         \/ Reject(r) \/ Begin(r) \/ MakeOutDir(r) \/ ClearStage(r) \/ MakeStage(r)
         \/ Build(r) \/ CopyModule(r) \/ CopyImportLib(r) \/ RemoveTree(r) \/ WriteHeader(r)
  PROVE  RunInv(r)'
<1>0. TypeOK /\ Owning(r) /\ BeforePublish(r) /\ StrandedPart(r) /\ StageOf[r] \in Stages
  BY ValueTypes DEF RunInv, TypeInv
<1>1. pc[r] \in Early /\ err[r] # "stranded"
  BY <1>0 DEF Reject, Begin, MakeOutDir, ClearStage, MakeStage, Build, CopyModule,
     CopyImportLib, RemoveTree, WriteHeader, StageFile, Early, Ended, StrandedPart
<1>2. UNCHANGED <<local, before, latest, misread, intact>>
  BY DEF ghost, Reject, Begin, MakeOutDir, ClearStage, MakeStage, Build, CopyModule,
     CopyImportLib, RemoveTree, WriteHeader, StageFile
<1>3. pc'[r] \in Early \union Ended /\ err'[r] # "stranded"
  <2> USE <1>0, <1>1 DEF Goto, FailWith, Early, Ended, TypeOK
  <2>1. CASE Reject(r) \/ Begin(r) \/ MakeOutDir(r) \/ ClearStage(r) \/ MakeStage(r)
    BY <2>1 DEF Reject, Begin, MakeOutDir, ClearStage, MakeStage
  <2>2. CASE Build(r) \/ CopyModule(r) \/ CopyImportLib(r) \/ RemoveTree(r) \/ WriteHeader(r)
    BY <2>2 DEF Build, CopyModule, CopyImportLib, RemoveTree, WriteHeader, StageFile
  <2> QED BY <2>1, <2>2
<1>4. BeforePublish(r)'
  <2> USE <1>0, <1>1, <1>2 DEF Goto, FailWith, TypeOK, BeforePublish, local, Ready, Early
  <2>1. CASE Reject(r)
    BY <2>1 DEF Reject, disk
  <2>2. CASE Begin(r)
    BY <2>2 DEF Begin, disk
  <2>3. CASE MakeOutDir(r)
    BY <2>3 DEF MakeOutDir, disk
  <2>4. CASE ClearStage(r)
    BY <2>4 DEF ClearStage, NoFiles
  <2>5. CASE MakeStage(r)
    BY <2>5 DEF MakeStage
  <2>6. CASE Build(r)
    BY <2>6 DEF Build
  <2>7. CASE CopyModule(r)
    BY <2>7 DEF CopyModule, StageFile, SetReady, Arts
  <2>8. CASE CopyImportLib(r)
    BY <2>8 DEF CopyImportLib, StageFile, SetReady, Arts
  <2>9. CASE RemoveTree(r)
    BY <2>9 DEF RemoveTree
  <2>10. CASE WriteHeader(r)
    BY <2>10 DEF WriteHeader, StageFile, SetReady, Arts
  <2> QED BY <2>1, <2>2, <2>3, <2>4, <2>5, <2>6, <2>7, <2>8, <2>9, <2>10
<1>5. latest'[ModuleOf[r]] # r
  BY <1>0, <1>1, <1>2 DEF BeforePublish
<1>6. Owning(r)'
  <2> USE <1>0 DEF Owning, OwnsStage, Goto, TypeOK
  <2>1. CASE Reject(r) \/ Begin(r) \/ MakeOutDir(r) \/ ClearStage(r)
    BY <2>1 DEF Reject, Begin, MakeOutDir, ClearStage
  <2>2. CASE \/ MakeStage(r) \/ Build(r) \/ CopyModule(r) \/ CopyImportLib(r)
             \/ RemoveTree(r) \/ WriteHeader(r)
    BY <2>2 DEF MakeStage, Build, CopyModule, CopyImportLib, RemoveTree, WriteHeader,
       StageFile, ghost
  <2> QED BY <2>1, <2>2
<1> QED
  BY <1>3, <1>4, <1>5, <1>6 DEF RunInv, AtPublish, ForwardPart, BackwardPart, EndPart,
     StrandedPart, Early, Moving, Undoing, Ended

\* Entering publish: all four files are ready, nothing is displaced yet.
LEMMA EnterOwn ==
  ASSUME TypeInv, NEW r \in Runs, RunInv(r), WriteUnit(r)
  PROVE  RunInv(r)'
<1>0. TypeOK /\ BeforePublish(r) /\ StrandedPart(r) /\ ModuleOf[r] \in Modules /\ pc[r] = "unit"
  BY ValueTypes DEF RunInv, TypeInv, WriteUnit, StageFile
<1>5. Owning(r)'
  BY <1>0 DEF RunInv, Owning, OwnsStage, WriteUnit, ghost
<1>1. /\ err[r] = "none" /\ latest[ModuleOf[r]] # r /\ moved[r] = 0 /\ kept[r] = {}
      /\ suspect[r] = Absent /\ stranded[r] = {}
      /\ \A a \in Arts \ {"pas"} : Ready(r, a) = r
  BY <1>0 DEF BeforePublish, Early, Arts
<1>2. UNCHANGED <<local, out, prev>>
  BY DEF WriteUnit, StageFile
<1>3. CASE SetReady(r, "pas", r) /\ Goto(r, "probe") /\ UNCHANGED err
  <2>1. pc'[r] = "probe" /\ before'[r] = out[ModuleOf[r]] /\ latest'[ModuleOf[r]] = r
    BY <1>0, <1>3 DEF Goto, TypeOK, WriteUnit
  <2>2. \A a \in Arts : Ready(r, a)' = r
    BY <1>1, <1>3, <1>0, SlotUpdates DEF Arts
  <2>3. \A a \in Arts : Untouched(r, a)'
    BY <1>1, <1>2, <2>1, ConstantsAssumption DEF Untouched, Dest, local
  <2>4. moved'[r] = 0 /\ suspect'[r] = Absent /\ err'[r] = "none"
    BY <1>1, <1>2, <1>3 DEF local
  <2>5. \A a \in Arts : Pos[a] \in 1..4
    BY CursorPos
  <2>6. ForwardPart(r)'
    BY <2>1, <2>2, <2>3, <2>4, <2>5 DEF ForwardPart
  <2> QED
    BY <1>5, <2>1, <2>4, <2>6 DEF RunInv, BeforePublish, AtPublish,
       BackwardPart, EndPart, StrandedPart, Early, Moving, Undoing, Ended
<1>4. CASE Goto(r, "cleanup") /\ FailWith(r, "io") /\ UNCHANGED ghost
  <2>1. pc'[r] = "cleanup" /\ err'[r] = "io" /\ latest'[ModuleOf[r]] # r
    BY <1>0, <1>1, <1>4 DEF Goto, FailWith, TypeOK, ghost
  <2> QED
    BY <1>5, <2>1 DEF RunInv, BeforePublish, AtPublish, ForwardPart, BackwardPart, EndPart,
       StrandedPart, Early, Moving, Undoing, Ended
<1> QED BY <1>0, <1>3, <1>4 DEF WriteUnit, StageFile, Goto, TypeOK

\* The state of a run that is moving files, unfolded.
LEMMA MovingState ==
  ASSUME TypeInv, NEW r \in Runs, RunInv(r), pc[r] \in Moving \union Undoing
  PROVE  /\ TypeOK /\ ModuleOf[r] \in Modules /\ StageOf[r] \in Stages
         /\ latest[ModuleOf[r]] = r /\ err[r] = "none" /\ OwnsStage(r)
         /\ ForwardPart(r) /\ BackwardPart(r)
         /\ moved[r] \in 0..4 /\ \A a \in Arts : Pos[a] \in 1..4
BY ValueTypes, CursorPos DEF RunInv, TypeInv, AtPublish, Owning, Moving, Undoing

\* Where a step of publish or rollback that stays inside them leads.
LEMMA StaysInPublish ==
  ASSUME TypeInv, NEW r \in Runs, pc'[r] \in Moving \union Undoing,
         latest'[ModuleOf[r]] = r, err'[r] = "none", RunInv(r), UNCHANGED owner,
         pc[r] \in Moving \union Undoing, ForwardPart(r)', BackwardPart(r)'
  PROVE  RunInv(r)'
<1>1. Owning(r)'
  BY DEF RunInv, Owning, OwnsStage, Moving, Undoing
<1> QED BY <1>1
  DEF RunInv, BeforePublish, AtPublish, EndPart, StrandedPart, Early, Moving, Undoing, Ended

LEMMA ProbeOwn ==
  ASSUME TypeInv, NEW r \in Runs, RunInv(r), Probe(r)
  PROVE  RunInv(r)'
<1>0. pc[r] = "probe" /\ UNCHANGED <<disk, local, err, before, latest, owner>>
  BY DEF Probe
<1>1. /\ TypeOK /\ latest[ModuleOf[r]] = r /\ err[r] = "none" /\ ForwardPart(r)
      /\ moved[r] \in 0..4
  BY <1>0, MovingState DEF Moving
<1>2. \/ Dest(r, Current(r)) \in Files /\ pc'[r] = "displace" /\ misread' = misread
      \/ Dest(r, Current(r)) \notin Files /\ pc'[r] = "install" /\ misread' = misread
      \/ pc'[r] = "install" /\ Current(r) \in misread'[r] /\ misread[r] \subseteq misread'[r]
  BY <1>1 DEF Probe, Misread, Goto, TypeOK
<1>3. \A a \in Arts : Pos[a] = moved[r] + 1 => a = Current(r)
  BY <1>0, <1>1, CursorPos DEF ForwardPart, Moving
<1>4. /\ \A a \in Arts : Untouched(r, a) => Untouched(r, a)'
      /\ \A a \in Arts : Replaced(r, a) => Replaced(r, a)'
      /\ \A a \in Arts : Ready(r, a)' = Ready(r, a)
  <2>1. /\ misread[r] \subseteq misread'[r]
        /\ UNCHANGED <<moved, kept, suspect, stranded, before>>
    BY <1>0, <1>2 DEF local
  <2>2. \A a \in Arts : /\ Dest(r, a)' = Dest(r, a) /\ Backup(r, a)' = Backup(r, a)
                       /\ Ready(r, a)' = Ready(r, a)
    BY <1>0 DEF Dest, Ready, Backup, disk
  <2> QED BY <2>1, <2>2 DEF Untouched, Replaced, Unseen
<1>5. pc'[r] = "displace" => before[r][Current(r)] \in Files \/ ~Untouched(r, Current(r))
  BY <1>2 DEF Untouched
<1>6. pc'[r] = "install" => \A a \in Arts :
        Pos[a] = moved[r] + 1 /\ Untouched(r, a) => Unseen(r, a)'
  BY <1>0, <1>2, <1>3 DEF Untouched, Unseen
<1>7. moved'[r] = moved[r] /\ suspect'[r] = suspect[r] /\ before'[r] = before[r]
  BY <1>0 DEF local
<1>8. \A a \in Arts : Pos[a] \in 1..4
  BY CursorPos
<1>9. ForwardPart(r)'
  <2>0. pc'[r] \in {"displace", "install"}
    BY <1>2
  <2>1. /\ moved[r] < 4 /\ suspect[r] = Absent
        /\ \A a \in Arts : Pos[a] > moved[r] => Ready(r, a) = r
        /\ \A a \in Arts : Pos[a] <= moved[r] => Replaced(r, a)
        /\ \A a \in Arts : Pos[a] > moved[r] + 1 => Untouched(r, a)
        /\ \A a \in Arts : Pos[a] = moved[r] + 1 => Untouched(r, a)
    BY <1>0, <1>1 DEF ForwardPart, Moving
  <2>2. /\ moved'[r] < 4 /\ suspect'[r] = Absent
        /\ \A a \in Arts : Pos[a] > moved'[r] => Ready(r, a)' = r
    BY <1>1, <1>4, <1>7, <1>8, <2>1
  <2>3. \A a \in Arts : Pos[a] <= moved'[r] => Replaced(r, a)'
    BY <1>1, <1>4, <1>7, <1>8, <2>1
  <2>4. \A a \in Arts : Pos[a] > moved'[r] + 1 => Untouched(r, a)'
    BY <1>1, <1>4, <1>7, <1>8, <2>1
  <2>5. \A a \in Arts : Pos[a] = moved'[r] + 1 => Untouched(r, a) /\ Untouched(r, a)'
    BY <1>1, <1>4, <1>7, <1>8, <2>1
  <2>6. pc'[r] = "displace" =>
          \A a \in Arts : Pos[a] = moved'[r] + 1 => before'[r][a] \in Files
    BY <1>3, <1>5, <1>7, <2>5
  <2>7. pc'[r] = "install" => \A a \in Arts : Pos[a] = moved'[r] + 1 => Unseen(r, a)'
    BY <1>6, <1>7, <2>5
  <2> QED BY <2>0, <2>2, <2>3, <2>4, <2>5, <2>6, <2>7 DEF ForwardPart
<1> QED
  BY <1>0, <1>1, <1>2, <1>9, StaysInPublish DEF Moving, Undoing, BackwardPart

LEMMA DisplaceOwn ==
  ASSUME TypeInv, NEW r \in Runs, RunInv(r), Displace(r)
  PROVE  RunInv(r)'
<1>0. pc[r] = "displace" /\ UNCHANGED <<staged, moved, stranded, err, before, latest, owner, misread>>
  BY DEF Displace, ghost
<1>1. /\ TypeOK /\ latest[ModuleOf[r]] = r /\ err[r] = "none" /\ ForwardPart(r)
      /\ moved[r] \in 0..4 /\ StageOf[r] \in Stages /\ ModuleOf[r] \in Modules
  BY <1>0, MovingState DEF Moving
<1>2. moved[r] < 4
  BY <1>0, <1>1 DEF ForwardPart, Moving
<1>3. PICK a \in Arts : a = Current(r) /\ \A b \in Arts : Pos[b] = moved[r] + 1 <=> b = a
  BY <1>2, CursorPos
<1>4. /\ Untouched(r, a) /\ before[r][a] \in Files /\ suspect[r] = Absent
      /\ \A b \in Arts : /\ Pos[b] > moved[r] => Ready(r, b) = r
                         /\ Pos[b] <= moved[r] => Replaced(r, b)
                         /\ Pos[b] > moved[r] + 1 => Untouched(r, b)
  BY <1>0, <1>1, <1>3 DEF ForwardPart, Moving
<1>5. \A b \in Arts : Pos[b] \in 1..4
  BY CursorPos
<1>6. CASE /\ SetDest(r, a, Absent) /\ SetBackup(r, a, Dest(r, a))
           /\ kept' = [kept EXCEPT ![r] = kept[r] \union {a}]
           /\ Goto(r, "install") /\ UNCHANGED suspect
  <2>1. \A b \in Arts : Dest(r, b)' = IF b = a THEN Absent ELSE Dest(r, b)
    BY <1>1, <1>6, SlotUpdates
  <2>2. \A b \in Arts : Backup(r, b)' = IF b = a THEN Dest(r, a) ELSE Backup(r, b)
    BY <1>1, <1>6, SlotUpdates
  <2>3. pc'[r] = "install" /\ kept'[r] = kept[r] \union {a}
    BY <1>1, <1>6 DEF Goto, TypeOK
  <2>4. Displaced(r, a)'
    BY <1>0, <1>4, <2>1, <2>2, <2>3 DEF Displaced, Untouched
  <2>5. \A b \in Arts : b # a => /\ Replaced(r, b) => Replaced(r, b)'
                                 /\ Untouched(r, b) => Untouched(r, b)'
    BY <1>0, <1>6, <2>1, <2>2, <2>3 DEF Replaced, Untouched, Unseen
  <2>6. \A b \in Arts : Ready(r, b)' = Ready(r, b)
    BY <1>0 DEF Ready
  <2>7. ForwardPart(r)'
    <3>1. moved'[r] = moved[r] /\ suspect'[r] = Absent
      BY <1>0, <1>4, <1>6
    <3>2. \A b \in Arts : Pos[b] <= moved[r] => Replaced(r, b)'
      BY <1>1, <1>3, <1>4, <1>5, <2>5
    <3>3. \A b \in Arts : Pos[b] > moved[r] + 1 => Untouched(r, b)'
      BY <1>1, <1>3, <1>4, <1>5, <2>5
    <3> QED
      BY <1>2, <1>3, <1>4, <2>3, <2>4, <2>6, <3>1, <3>2, <3>3 DEF ForwardPart
  <2> QED
    BY <1>0, <1>1, <2>3, <2>7, StaysInPublish DEF Moving, Undoing, BackwardPart
<1>7. CASE /\ Goto(r, "undo") /\ suspect' = [suspect EXCEPT ![r] = a] /\ UNCHANGED kept
           /\ \/ UNCHANGED <<out, prev>>
              \/ SetDest(r, a, Absent) /\ SetBackup(r, a, Dest(r, a))
  <2>1. \A b \in Arts : b # a => Dest(r, b)' = Dest(r, b) /\ Backup(r, b)' = Backup(r, b)
    <3>1. CASE UNCHANGED <<out, prev>>
      BY <3>1 DEF Dest, Backup
    <3>2. CASE SetDest(r, a, Absent) /\ SetBackup(r, a, Dest(r, a))
      BY <1>1, <3>2, SlotUpdates
    <3> QED BY <1>7, <3>1, <3>2
  <2>2. pc'[r] = "undo" /\ suspect'[r] = a
    BY <1>1, <1>7 DEF Goto, TypeOK
  <2>3. Settled(r, a)'
    <3>1. CASE UNCHANGED <<out, prev>>
      <4>1. Dest(r, a)' = Dest(r, a) /\ Backup(r, a)' = Backup(r, a)
        BY <3>1 DEF Dest, Backup
      <4> QED BY <1>0, <1>4, <4>1 DEF Settled, Untouched
    <3>2. CASE SetDest(r, a, Absent) /\ SetBackup(r, a, Dest(r, a))
      <4>1. Backup(r, a)' = Dest(r, a)
        BY <1>1, <3>2, SlotUpdates
      <4> QED BY <1>0, <1>4, <2>2, <4>1 DEF Settled, Untouched
    <3> QED BY <1>7, <3>1, <3>2
  <2>4. \A b \in Arts : b # a => /\ Replaced(r, b) => Replaced(r, b)'
                                 /\ Untouched(r, b) => Settled(r, b)'
    BY <1>0, <1>7, <2>1, <2>2 DEF Replaced, Untouched, Settled, Unseen
  <2>5. BackwardPart(r)'
    <3>1. moved'[r] = moved[r]
      BY <1>0
    <3>2. \A b \in Arts : Pos[b] <= moved[r] => Replaced(r, b)'
      BY <1>1, <1>3, <1>4, <1>5, <2>4
    <3>3. \A b \in Arts : Pos[b] > moved[r] => Settled(r, b)'
      BY <1>1, <1>3, <1>4, <1>5, <2>3, <2>4
    <3> QED BY <2>2, <3>1, <3>2, <3>3 DEF BackwardPart
  <2> QED
    BY <1>0, <1>1, <2>2, <2>5, StaysInPublish DEF Moving, Undoing, ForwardPart
<1> QED
  BY <1>3, <1>6, <1>7 DEF Displace

LEMMA InstallOwn ==
  ASSUME TypeInv, NEW r \in Runs, RunInv(r), Install(r)
  PROVE  RunInv(r)'
<1>0. pc[r] = "install" /\ UNCHANGED <<prev, kept, suspect, stranded, err, before, latest, owner, misread>>
  BY DEF Install, ghost
<1>1. /\ TypeOK /\ latest[ModuleOf[r]] = r /\ err[r] = "none" /\ ForwardPart(r) /\ OwnsStage(r)
      /\ moved[r] \in 0..4 /\ StageOf[r] \in Stages /\ ModuleOf[r] \in Modules
  BY <1>0, MovingState DEF Moving
<1>2. moved[r] < 4
  BY <1>0, <1>1 DEF ForwardPart, Moving
<1>3. PICK a \in Arts : a = Current(r) /\ \A b \in Arts : Pos[b] = moved[r] + 1 <=> b = a
  BY <1>2, CursorPos
<1>4. /\ Displaced(r, a) \/ (Untouched(r, a) /\ Unseen(r, a))
      /\ suspect[r] = Absent
      /\ \A b \in Arts : Pos[b] > moved[r] => Ready(r, b) = r
      /\ \A b \in Arts : Pos[b] <= moved[r] => Replaced(r, b)
      /\ \A b \in Arts : Pos[b] > moved[r] + 1 => Untouched(r, b)
  <2>1. Pos[a] = moved[r] + 1
    BY <1>3
  <2>2. Displaced(r, a) \/ (Untouched(r, a) /\ Unseen(r, a))
    BY <1>0, <1>1, <2>1 DEF ForwardPart, Moving
  <2> QED BY <1>0, <1>1, <2>2 DEF ForwardPart, Moving
<1>5. \A b \in Arts : Pos[b] \in 1..4 /\ Backup(r, b)' = Backup(r, b) /\ suspect[r] # b
  BY <1>0, <1>4, CursorPos, ConstantsAssumption DEF Backup
<1>6. CASE /\ SetDest(r, a, Ready(r, a)) /\ SetReady(r, a, Absent)
           /\ moved' = [moved EXCEPT ![r] = moved[r] + 1]
           /\ Goto(r, IF moved[r] + 1 = 4 THEN "cleanup" ELSE "probe")
  <2>1. \A b \in Arts : Dest(r, b)' = IF b = a THEN r ELSE Dest(r, b)
    BY <1>1, <1>3, <1>4, <1>6, SlotUpdates
  <2>2. \A b \in Arts : b # a => Ready(r, b)' = Ready(r, b)
    BY <1>1, <1>6, SlotUpdates
  <2>3. moved'[r] = moved[r] + 1 /\ pc'[r] = IF moved[r] + 1 = 4 THEN "cleanup" ELSE "probe"
    BY <1>1, <1>6 DEF Goto, TypeOK
  <2>4. Replaced(r, a)'
    BY <1>0, <1>4, <1>5, <2>1 DEF Displaced, Untouched, Replaced, Unseen
  <2>5. \A b \in Arts : b # a => /\ Replaced(r, b) => Replaced(r, b)'
                                 /\ Untouched(r, b) => Untouched(r, b)'
    BY <1>0, <1>5, <2>1 DEF Replaced, Untouched, Unseen
  <2>6. \A b \in Arts : Pos[b] <= moved'[r] => Replaced(r, b)'
    BY <1>1, <1>3, <1>4, <1>5, <2>3, <2>4, <2>5
  <2>7. CASE moved[r] + 1 = 4
    <3>1. pc'[r] = "cleanup" /\ \A b \in Arts : Replaced(r, b)'
      BY <1>5, <2>3, <2>6, <2>7
    <3> QED
      BY <1>0, <1>1, <3>1 DEF RunInv, Owning, OwnsStage, BeforePublish, AtPublish,
         ForwardPart, BackwardPart, EndPart, StrandedPart, Early, Moving, Undoing, Ended
  <2>8. CASE moved[r] + 1 # 4
    <3>1. pc'[r] = "probe" /\ moved'[r] < 4
      BY <1>1, <1>2, <2>3, <2>8
    <3>2. \A b \in Arts : Pos[b] > moved'[r] => Ready(r, b)' = r /\ Untouched(r, b)'
      BY <1>1, <1>3, <1>4, <1>5, <2>2, <2>3, <2>5
    <3>3. suspect'[r] = Absent
      BY <1>0, <1>4
    <3>4. \A b \in Arts : Pos[b] > moved'[r] + 1 => Pos[b] > moved'[r]
      BY <1>1, <1>5, <2>3
    <3>5. \A b \in Arts : Pos[b] = moved'[r] + 1 => Pos[b] > moved'[r]
      BY <1>1, <1>5, <2>3
    <3>6. ForwardPart(r)'
      BY <3>1, <3>2, <3>3, <3>4, <3>5, <2>6 DEF ForwardPart
    <3> QED
      BY <1>0, <1>1, <3>1, <3>6, StaysInPublish DEF Moving, Undoing, BackwardPart
  <2> QED BY <2>7, <2>8
<1>7. CASE /\ Goto(r, IF a \in kept[r] THEN "putback" ELSE "undo") /\ UNCHANGED moved
           /\ UNCHANGED out \/ SetDest(r, a, Ready(r, a))
  <2>1. \A b \in Arts : b # a => Dest(r, b)' = Dest(r, b)
    <3>1. CASE UNCHANGED out
      BY <3>1 DEF Dest
    <3>2. CASE SetDest(r, a, Ready(r, a))
      BY <1>1, <3>2, SlotUpdates
    <3> QED BY <1>7, <3>1, <3>2
  <2>2. pc'[r] = (IF a \in kept[r] THEN "putback" ELSE "undo") /\ moved'[r] = moved[r]
    BY <1>1, <1>7 DEF Goto, TypeOK
  <2>3. \A b \in Arts : b # a /\ Replaced(r, b) => Replaced(r, b)'
    BY <1>0, <1>5, <2>1 DEF Replaced, Unseen
  <2>4. \A b \in Arts : Pos[b] <= moved[r] => Replaced(r, b)'
    BY <1>1, <1>3, <1>4, <1>5, <2>3
  <2>5. \A b \in Arts : Pos[b] > moved[r] + 1 => Untouched(r, b)' /\ Settled(r, b)'
    <3>1. \A b \in Arts : b # a /\ Untouched(r, b) => Untouched(r, b)' /\ Settled(r, b)'
      BY <1>0, <1>5, <2>1 DEF Untouched, Settled, Unseen
    <3> QED BY <1>1, <1>3, <1>4, <1>5, <3>1
  <2>6. CASE a \in kept[r]
    <3>1. Displaced(r, a)'
      BY <1>0, <1>4, <1>5, <2>1, <2>6 DEF Untouched, Displaced
    <3>2. pc'[r] = "putback" /\ moved'[r] = moved[r]
      BY <2>2, <2>6
    <3>3. \A b \in Arts : Pos[b] = moved[r] + 1 => Displaced(r, b)'
      BY <1>1, <1>3, <1>5, <3>1
    <3>4. BackwardPart(r)'
      BY <1>1, <1>2, <1>5, <2>4, <2>5, <3>2, <3>3 DEF BackwardPart
    <3> QED
      BY <1>0, <1>1, <3>2, <3>4, StaysInPublish DEF Moving, Undoing, ForwardPart
  <2>7. CASE a \notin kept[r]
    <3>1. Settled(r, a)'
      BY <1>0, <1>4, <1>5, <2>1, <2>7 DEF Untouched, Settled, Displaced, Unseen
    <3>2. pc'[r] = "undo" /\ moved'[r] = moved[r]
      BY <2>2, <2>7
    <3>3. \A b \in Arts : Pos[b] > moved[r] => b = a \/ Pos[b] > moved[r] + 1
      BY <1>1, <1>3, <1>5
    <3>4. \A b \in Arts : Pos[b] > moved[r] => Settled(r, b)'
      BY <1>1, <1>5, <2>5, <3>1, <3>3
    <3>5. BackwardPart(r)'
      BY <1>1, <1>5, <2>4, <3>2, <3>4 DEF BackwardPart
    <3> QED
      BY <1>0, <1>1, <3>2, <3>5, StaysInPublish DEF Moving, Undoing, ForwardPart
  <2> QED BY <2>6, <2>7
<1> QED
  BY <1>3, <1>6, <1>7, NamesFacts DEF Install, AfterFailedMove

\* A backup moved back settles its artifact, and a failure strands it.
LEMMA MoveBackSettles ==
  ASSUME TypeOK, NEW r \in Runs, NEW a \in Arts, Displaced(r, a), MoveBack(r, a),
         UNCHANGED <<kept, suspect, before, misread>>
  PROVE  /\ Settled(r, a)'
         /\ \A b \in Arts : b # a => /\ Replaced(r, b) => Replaced(r, b)'
                                     /\ Untouched(r, b) => Settled(r, b)'
                                     /\ Settled(r, b) => Settled(r, b)'
<1>0. Backup(r, a) = before[r][a] /\ before[r][a] \in Files /\ a \notin stranded[r]
  BY DEF Displaced
<1>1. CASE SetDest(r, a, Backup(r, a)) /\ SetBackup(r, a, Absent) /\ UNCHANGED stranded
  <2>1. \A b \in Arts : Dest(r, b)' = IF b = a THEN Backup(r, a) ELSE Dest(r, b)
    BY <1>1, SlotUpdates
  <2>2. \A b \in Arts : Backup(r, b)' = IF b = a THEN Absent ELSE Backup(r, b)
    BY <1>1, SlotUpdates
  <2>3. Settled(r, a)'
    BY <1>0, <1>1, <2>1, <2>2 DEF Settled
  <2> QED BY <1>0, <1>1, <2>1, <2>2, <2>3 DEF Settled, Replaced, Untouched, Unseen
<1>2. CASE /\ stranded' = [stranded EXCEPT ![r] = stranded[r] \union {a}]
           /\ UNCHANGED <<out, prev>>
  <2>1. \A b \in Arts : Dest(r, b)' = Dest(r, b) /\ Backup(r, b)' = Backup(r, b)
    BY <1>2 DEF Dest, Backup
  <2>2. stranded'[r] = stranded[r] \union {a}
    BY <1>2 DEF TypeOK
  <2> QED BY <1>0, <2>1, <2>2 DEF Settled, Replaced, Untouched, Unseen
<1>3. CASE /\ SetDest(r, a, Backup(r, a)) /\ SetBackup(r, a, Absent)
           /\ stranded' = [stranded EXCEPT ![r] = stranded[r] \union {a}]
  <2>1. \A b \in Arts : Dest(r, b)' = IF b = a THEN Backup(r, a) ELSE Dest(r, b)
    BY <1>3, SlotUpdates
  <2>2. \A b \in Arts : Backup(r, b)' = IF b = a THEN Absent ELSE Backup(r, b)
    BY <1>3, SlotUpdates
  <2>3. stranded'[r] = stranded[r] \union {a}
    BY <1>3 DEF TypeOK
  <2>4. Settled(r, a)'
    BY <1>0, <2>1 DEF Settled
  <2> QED BY <1>0, <2>1, <2>2, <2>3, <2>4 DEF Settled, Replaced, Untouched, Unseen
<1> QED BY <1>1, <1>2, <1>3 DEF MoveBack

LEMMA PutBackOwn ==
  ASSUME TypeInv, NEW r \in Runs, RunInv(r), PutBack(r)
  PROVE  RunInv(r)'
<1>0. pc[r] = "putback" /\ UNCHANGED <<moved, kept, suspect, err, before, latest, owner, misread>>
  BY DEF PutBack, ghost
<1>1. /\ TypeOK /\ latest[ModuleOf[r]] = r /\ err[r] = "none" /\ BackwardPart(r)
      /\ moved[r] \in 0..4
  BY <1>0, MovingState DEF Undoing
<1>2. moved[r] < 4
  BY <1>0, <1>1 DEF BackwardPart, Undoing
<1>3. PICK a \in Arts : a = Current(r) /\ \A b \in Arts : Pos[b] = moved[r] + 1 <=> b = a
  BY <1>2, CursorPos
<1>4. /\ Displaced(r, a)
      /\ \A b \in Arts : Pos[b] <= moved[r] => Replaced(r, b)
      /\ \A b \in Arts : Pos[b] > moved[r] + 1 => Untouched(r, b)
  BY <1>0, <1>1, <1>3 DEF BackwardPart, Undoing
<1>5. \A b \in Arts : Pos[b] \in 1..4
  BY CursorPos
<1>6. /\ Settled(r, a)'
      /\ \A b \in Arts : b # a => /\ Replaced(r, b) => Replaced(r, b)'
                                  /\ Untouched(r, b) => Settled(r, b)'
  BY <1>0, <1>1, <1>3, <1>4, MoveBackSettles DEF PutBack
<1>7. pc'[r] = "undo" /\ moved'[r] = moved[r]
  BY <1>0, <1>1 DEF PutBack, Goto, TypeOK
<1>8. \A b \in Arts : Pos[b] <= moved[r] => Replaced(r, b)'
  BY <1>1, <1>3, <1>4, <1>5, <1>6
<1>9. \A b \in Arts : Pos[b] > moved[r] => Settled(r, b)'
  BY <1>1, <1>3, <1>4, <1>5, <1>6
<1>10. BackwardPart(r)'
  BY <1>1, <1>5, <1>7, <1>8, <1>9 DEF BackwardPart
<1> QED
  BY <1>0, <1>1, <1>7, <1>10, StaysInPublish DEF Moving, Undoing, ForwardPart

LEMMA RestoreOwn ==
  ASSUME TypeInv, NEW r \in Runs, RunInv(r), Restore(r)
  PROVE  RunInv(r)'
<1>0. pc[r] = "restore" /\ UNCHANGED <<kept, suspect, err, before, latest, owner, misread>>
  BY DEF Restore, ghost
<1>1. /\ TypeOK /\ latest[ModuleOf[r]] = r /\ err[r] = "none" /\ BackwardPart(r)
      /\ moved[r] \in 0..4
  BY <1>0, MovingState DEF Undoing
<1>2. moved[r] > 0
  BY <1>0, <1>1 DEF BackwardPart, Undoing
<1>3. PICK a \in Arts : a = Newest(r) /\ \A b \in Arts : Pos[b] = moved[r] <=> b = a
  BY <1>2, CursorPos
<1>4. /\ Displaced(r, a)
      /\ \A b \in Arts : Pos[b] < moved[r] => Replaced(r, b)
      /\ \A b \in Arts : Pos[b] > moved[r] => Settled(r, b)
  BY <1>0, <1>1, <1>3 DEF BackwardPart, Undoing
<1>5. \A b \in Arts : Pos[b] \in 1..4
  BY CursorPos
<1>6. /\ Settled(r, a)'
      /\ \A b \in Arts : b # a => /\ Replaced(r, b) => Replaced(r, b)'
                                  /\ Settled(r, b) => Settled(r, b)'
  BY <1>0, <1>1, <1>3, <1>4, MoveBackSettles DEF Restore
<1>7. pc'[r] = "undo" /\ moved'[r] = moved[r] - 1
  BY <1>0, <1>1 DEF Restore, Goto, TypeOK, Popped
<1>8. \A b \in Arts : Pos[b] <= moved[r] - 1 => Replaced(r, b)'
  BY <1>1, <1>3, <1>4, <1>5, <1>6
<1>9. \A b \in Arts : Pos[b] > moved[r] - 1 => Settled(r, b)'
  BY <1>1, <1>3, <1>4, <1>5, <1>6
<1>10. BackwardPart(r)'
  BY <1>1, <1>5, <1>7, <1>8, <1>9 DEF BackwardPart
<1> QED
  BY <1>0, <1>1, <1>7, <1>10, StaysInPublish DEF Moving, Undoing, ForwardPart

LEMMA UndoOwn ==
  ASSUME TypeInv, NEW r \in Runs, RunInv(r), Undo(r)
  PROVE  RunInv(r)'
<1>0. /\ pc[r] = "undo" /\ moved[r] > 0
      /\ UNCHANGED <<prev, kept, suspect, err, before, latest, owner, misread>>
  BY DEF Undo, ghost
<1>1. /\ TypeOK /\ latest[ModuleOf[r]] = r /\ err[r] = "none" /\ BackwardPart(r)
      /\ moved[r] \in 0..4 /\ \A b \in Arts : Pos[b] \in 1..4
  BY <1>0, MovingState DEF Undoing
<1>2. PICK a \in Arts : a = Newest(r) /\ \A b \in Arts : Pos[b] = moved[r] <=> b = a
  BY <1>0, CursorPos
<1>3. /\ \A b \in Arts : Pos[b] <= moved[r] => Replaced(r, b)
      /\ \A b \in Arts : Pos[b] > moved[r] => Settled(r, b)
  BY <1>0, <1>1 DEF BackwardPart, Undoing
<1>4. Replaced(r, a)
  BY <1>1, <1>2, <1>3
<1>5. \A b \in Arts : Backup(r, b)' = Backup(r, b)
  BY <1>0 DEF Backup
<1>6. CASE /\ a \in kept[r] /\ Goto(r, "restore") /\ UNCHANGED <<moved, stranded>>
           /\ SetDest(r, a, Absent) \/ UNCHANGED out
  <2>1. \A b \in Arts : b # a => Dest(r, b)' = Dest(r, b)
    <3>1. CASE SetDest(r, a, Absent)
      BY <1>1, <3>1, SlotUpdates
    <3>2. CASE UNCHANGED out
      BY <3>2 DEF Dest
    <3> QED BY <1>6, <3>1, <3>2
  <2>2. Displaced(r, a)'
    BY <1>0, <1>4, <1>5, <1>6, <2>1 DEF Displaced, Replaced
  <2>3. \A b \in Arts : b # a => (Replaced(r, b) => Replaced(r, b)')
    BY <1>0, <1>5, <1>6, <2>1 DEF Replaced, Unseen
  <2>4. \A b \in Arts : b # a => (Settled(r, b) => Settled(r, b)')
    BY <1>0, <1>5, <1>6, <2>1 DEF Settled, Unseen
  <2>5. \A b \in Arts : Pos[b] < moved[r] => Replaced(r, b)'
    BY <1>1, <1>2, <1>3, <2>3
  <2>6. \A b \in Arts : Pos[b] = moved[r] => Displaced(r, b)'
    BY <1>1, <1>2, <2>2
  <2>7. \A b \in Arts : Pos[b] > moved[r] => Settled(r, b)'
    BY <1>1, <1>2, <1>3, <2>4
  <2>8. pc'[r] = "restore" /\ moved'[r] = moved[r]
    BY <1>1, <1>6 DEF Goto, TypeOK
  <2>9. BackwardPart(r)'
    BY <1>0, <1>1, <2>5, <2>6, <2>7, <2>8 DEF BackwardPart
  <2> QED
    BY <1>0, <1>1, <2>8, <2>9, StaysInPublish DEF Moving, Undoing, ForwardPart
<1>7. ASSUME UNCHANGED pc, moved' = [moved EXCEPT ![r] = moved[r] - 1], Settled(r, a)',
             \A b \in Arts : b # a => Dest(r, b)' = Dest(r, b),
             \A b \in Arts : b # a => (b \in stranded[r] <=> b \in stranded'[r])
      PROVE  RunInv(r)'
  <2>1. \A b \in Arts : b # a => (Replaced(r, b) => Replaced(r, b)')
    BY <1>0, <1>5, <1>7 DEF Replaced, Unseen
  <2>2. \A b \in Arts : b # a => (Settled(r, b) => Settled(r, b)')
    BY <1>0, <1>5, <1>7 DEF Settled, Unseen
  <2>3. moved'[r] = moved[r] - 1 /\ pc'[r] = "undo"
    BY <1>0, <1>1, <1>7 DEF TypeOK
  <2>4. \A b \in Arts : Pos[b] <= moved[r] - 1 => Replaced(r, b)'
    BY <1>1, <1>2, <1>3, <2>1
  <2>5. \A b \in Arts : Pos[b] > moved[r] - 1 => Settled(r, b)'
    BY <1>1, <1>2, <1>3, <2>2, <1>7
  <2>6. BackwardPart(r)'
    BY <1>1, <2>3, <2>4, <2>5 DEF BackwardPart
  <2> QED
    BY <1>0, <1>1, <2>3, <2>6, StaysInPublish DEF Moving, Undoing, ForwardPart
<1>8. CASE /\ a \notin kept[r] /\ UNCHANGED <<pc, stranded>>
           /\ SetDest(r, a, Absent) \/ UNCHANGED out
           /\ moved' = [moved EXCEPT ![r] = moved[r] - 1]
  <2>1. \A b \in Arts : b # a => Dest(r, b)' = Dest(r, b)
    <3>1. CASE SetDest(r, a, Absent)
      BY <1>1, <3>1, SlotUpdates
    <3>2. CASE UNCHANGED out
      BY <3>2 DEF Dest
    <3> QED BY <1>8, <3>1, <3>2
  <2>2. Settled(r, a)'
    BY <1>0, <1>4, <1>5, <1>8 DEF Replaced, Settled, Unseen
  <2> QED BY <1>7, <1>8, <2>1, <2>2
<1>9. CASE /\ UNCHANGED <<out, pc>> /\ moved' = [moved EXCEPT ![r] = moved[r] - 1]
           /\ stranded' = [stranded EXCEPT ![r] =
                             IF a \in kept[r] THEN stranded[r] \union {a} ELSE stranded[r]]
  <2>1. stranded'[r] = IF a \in kept[r] THEN stranded[r] \union {a} ELSE stranded[r]
    BY <1>1, <1>9 DEF TypeOK
  <2>2. Settled(r, a)'
    BY <1>0, <1>4, <1>5, <2>1 DEF Replaced, Settled, Unseen
  <2>3. \A b \in Arts : b # a => Dest(r, b)' = Dest(r, b)
    BY <1>9 DEF Dest
  <2> QED BY <1>7, <1>9, <2>1, <2>2, <2>3
<1> QED
  BY <1>2, <1>6, <1>8, <1>9 DEF Undo, Popped

LEMMA ConcludeOwn ==
  ASSUME TypeInv, NEW r \in Runs, RunInv(r), Conclude(r)
  PROVE  RunInv(r)'
<1>0. /\ pc[r] = "undo" /\ moved[r] = 0
      /\ UNCHANGED <<out, prev, suspect, before, latest, owner>>
  BY DEF Conclude, disk
<1>1. /\ TypeOK /\ latest[ModuleOf[r]] = r /\ BackwardPart(r) /\ OwnsStage(r)
      /\ \A b \in Arts : Pos[b] \in 1..4
  BY <1>0, MovingState DEF Undoing
<1>2. \A b \in Arts : Settled(r, b)
  BY <1>0, <1>1 DEF BackwardPart, Undoing
<1>3. PICK found \in {Doubtful(r), {}} :
        /\ IF found = Doubtful(r) THEN UNCHANGED misread ELSE Misread(r, suspect[r])
        /\ stranded' = [stranded EXCEPT ![r] = stranded[r] \union found]
        /\ FailWith(r, IF stranded[r] \union found = {} THEN "io" ELSE "stranded")
        /\ intact' = [intact EXCEPT ![r] =
                       {a \in stranded[r] \union found : Dest(r, a) = before[r][a]}]
  BY DEF Conclude
<1> DEFINE all == stranded[r] \union found
<1>4. /\ pc'[r] = "cleanup" /\ stranded'[r] = all
      /\ err'[r] = IF all = {} THEN "io" ELSE "stranded"
      /\ intact'[r] = {a \in all : Dest(r, a) = before[r][a]}
  BY <1>1, <1>3 DEF Conclude, Goto, FailWith, TypeOK
<1>5. \A b \in Arts : Dest(r, b)' = Dest(r, b) /\ Backup(r, b)' = Backup(r, b)
  BY <1>0 DEF Dest, Backup
<1>6. Absent \notin Files /\ stranded[r] \subseteq Arts
  BY <1>1, ConstantsAssumption DEF Files, TypeOK
<1>7. found = Doubtful(r) \/ found = {}
  BY <1>3
<1>8. \A b \in all : /\ b \in Arts /\ before[r][b] \in Files
                     /\ Dest(r, b) # before[r][b] => Backup(r, b) = before[r][b]
  BY <1>2, <1>6, <1>7 DEF Settled, Doubtful
\* What is left in place: all but the stranded files and those not seen.
<1>9. misread[r] \subseteq misread'[r]
      /\ (found # Doubtful(r) => suspect[r] \in misread'[r])
  BY <1>1, <1>3 DEF Misread, TypeOK
<1>10. \A b \in Arts : before[r][b] \in Files /\ b \notin all /\ b \notin misread'[r]
        => Dest(r, b) = before[r][b]
  BY <1>2, <1>6, <1>9 DEF Settled, Unseen, Doubtful
<1>11. StrandedPart(r)'
  BY <1>0, <1>1, <1>4, <1>5, <1>8 DEF StrandedPart, OwnsStage, Ended
<1>12. EndPart(r)'
  <2>1. \A b \in Arts : before[r][b] \in Files /\ b \notin misread'[r]
          => before[r][b] \in {Dest(r, b), Backup(r, b)}
    BY <1>8, <1>10
  <2>2. err'[r] # "compile" /\ err'[r] # "none"
    BY <1>4
  <2>3. err'[r] = "io" => \A b \in Arts : before[r][b] \in Files /\ b \notin misread'[r]
                                           => Dest(r, b) = before[r][b]
    BY <1>4, <1>10
  <2> QED BY <1>0, <1>5, <2>1, <2>2, <2>3 DEF EndPart, Found, InPlace
<1>13. Owning(r)'
  BY <1>0, <1>1 DEF Owning, OwnsStage
<1> QED
  BY <1>4, <1>11, <1>12, <1>13
     DEF RunInv, BeforePublish, AtPublish, ForwardPart, BackwardPart, Early, Moving, Undoing

LEMMA CleanupOwn ==
  ASSUME TypeInv, NEW r \in Runs, RunInv(r), Cleanup(r)
  PROVE  RunInv(r)'
<1>0. /\ pc[r] = "cleanup"
      /\ UNCHANGED <<out, stranded, err, before, latest, owner, misread, intact>>
      /\ err[r] = "stranded" => UNCHANGED prev
  BY DEF Cleanup, ghost, local, KeepsStage
<1>1. TypeOK /\ Owning(r) /\ EndPart(r) /\ StrandedPart(r) /\ StageOf[r] \in Stages
  BY ValueTypes DEF RunInv, TypeInv
<1>2. pc'[r] = "done"
  BY <1>1 DEF Cleanup, Goto, TypeOK
<1>3. \A b \in Arts : Dest(r, b)' = Dest(r, b)
  BY <1>0 DEF Dest
<1>4. err[r] = "stranded" => \A b \in Arts : Backup(r, b)' = Backup(r, b)
  BY <1>0 DEF Backup
<1>5. StrandedPart(r)'
  BY <1>0, <1>1, <1>2 DEF StrandedPart, OwnsStage, Ended, Backup, Dest
<1>6. EndPart(r)'
  <2> SUFFICES ASSUME latest[ModuleOf[r]] = r PROVE EndPart(r)'
    BY <1>0 DEF EndPart
  <2>1. err[r] \in {"none", "io", "stranded"}
    BY <1>0, <1>1 DEF EndPart, TypeOK, Errors, Ended
  <2>2. CASE err[r] = "none"
    <3>1. \A b \in Arts : Replaced(r, b)
      BY <1>0, <1>1, <2>2 DEF EndPart, Ended
    <3>2. \A b \in Arts : Dest(r, b)' = r
      BY <1>3, <3>1 DEF Replaced
    <3> QED BY <1>0, <1>2, <2>2, <3>2 DEF EndPart
  <2>3. CASE err[r] = "io"
    <3>1. \A b \in Arts : InPlace(r, b)
      BY <1>0, <1>1, <2>3 DEF EndPart, Ended
    <3>2. \A b \in Arts : InPlace(r, b)' /\ Found(r, b)'
      BY <1>0, <1>3, <3>1 DEF InPlace, Found
    <3> QED BY <1>0, <1>2, <2>3, <3>2 DEF EndPart
  <2>4. CASE err[r] = "stranded"
    <3>1. \A b \in Arts : Found(r, b)
      BY <1>0, <1>1, <2>4 DEF EndPart, Ended, Owning
    <3>2. \A b \in Arts : Found(r, b)'
      BY <1>0, <1>3, <1>4, <2>4, <3>1 DEF Found
    <3> QED BY <1>0, <1>2, <2>4, <3>2 DEF EndPart
  <2> QED BY <2>1, <2>2, <2>3, <2>4
<1>7. Owning(r)'
  BY <1>2 DEF Owning
<1> QED
  BY <1>2, <1>5, <1>6, <1>7
     DEF RunInv, BeforePublish, AtPublish, ForwardPart, BackwardPart, Early, Moving, Undoing

\* In the middle of publish or rollback, a previous file is in place or in the
\* stage, if the probes saw it.
LEMMA FoundWhilePublishing ==
  ASSUME TypeInv, NEW r \in Runs, RunInv(r), pc[r] \in Moving \union Undoing, NEW b \in Arts
  PROVE  Found(r, b)
<1>1. moved[r] \in 0..4 /\ Pos[b] \in 1..4 /\ ForwardPart(r) /\ BackwardPart(r)
  BY MovingState
<1>2. /\ Pos[b] <= moved[r] \/ Pos[b] > moved[r]
      /\ Pos[b] <= moved[r] \/ Pos[b] = moved[r] + 1 \/ Pos[b] > moved[r] + 1
      /\ Pos[b] < moved[r] \/ Pos[b] = moved[r] \/ Pos[b] > moved[r]
  BY <1>1
<1>3. CASE pc[r] \in Moving
  <2>1. Replaced(r, b) \/ Untouched(r, b) \/ Displaced(r, b)
    BY <1>1, <1>2, <1>3 DEF ForwardPart, Moving
  <2> QED BY <2>1 DEF Found, Unseen, Replaced, Untouched, Displaced
<1>4. CASE pc[r] \in Undoing
  <2>1. Replaced(r, b) \/ Untouched(r, b) \/ Displaced(r, b) \/ Settled(r, b)
    BY <1>1, <1>2, <1>4 DEF BackwardPart, Undoing
  <2> QED BY <2>1 DEF Found, Unseen, Replaced, Untouched, Displaced, Settled
<1> QED BY <1>3, <1>4

\* Whatever publish is doing, the previous files can be found.
LEMMA CrashOwn ==
  ASSUME TypeInv, NEW r \in Runs, RunInv(r), Crash(r)
  PROVE  RunInv(r)'
<1>0. UNCHANGED <<disk, local, err, ghost>> /\ Live(r)
  BY DEF Crash
<1>1. /\ TypeOK /\ Owning(r) /\ BeforePublish(r) /\ EndPart(r) /\ StrandedPart(r)
      /\ pc[r] \in Labels /\ pc'[r] = "crashed"
  BY DEF RunInv, TypeInv, TypeOK, Crash, Goto
<1>2. pc[r] \in Early \union Moving \union Undoing \union {"cleanup"}
  BY <1>0, <1>1 DEF Live, Labels, Early, Moving, Undoing
<1>3. latest[ModuleOf[r]] = r => \A b \in Arts : Found(r, b)
  <2> SUFFICES ASSUME latest[ModuleOf[r]] = r, NEW b \in Arts PROVE Found(r, b)
    OBVIOUS
  <2>1. pc[r] \notin Early
    BY <1>1 DEF BeforePublish
  <2>2. CASE pc[r] \in Moving \union Undoing
    BY <2>2, FoundWhilePublishing
  <2>3. CASE pc[r] = "cleanup"
    <3>1. CASE err[r] = "none"
      BY <1>1, <2>3, <3>1 DEF EndPart, Ended, Replaced, Found, Unseen
    <3>2. CASE err[r] # "none"
      BY <1>1, <2>3, <3>2 DEF EndPart, Ended, Owning
    <3> QED BY <3>1, <3>2
  <2> QED BY <1>2, <2>1, <2>2, <2>3
<1>4. latest[ModuleOf[r]] = r =>
        err[r] # "compile" /\ (err[r] = "io" => \A b \in Arts : InPlace(r, b))
  <2>1. CASE pc[r] \in Moving \union Undoing
    BY <2>1, MovingState
  <2>2. CASE pc[r] = "cleanup"
    BY <1>1, <2>2 DEF EndPart, Ended
  <2> QED BY <1>1, <1>2, <2>1, <2>2 DEF BeforePublish
<1>5. \A b \in Arts : (Found(r, b) => Found(r, b)') /\ (InPlace(r, b) => InPlace(r, b)')
  BY <1>0 DEF Found, InPlace, Dest, Backup, disk, ghost
<1>6. EndPart(r)'
  BY <1>0, <1>1, <1>3, <1>4, <1>5 DEF EndPart, ghost
<1>7. StrandedPart(r)'
  BY <1>0, <1>1 DEF StrandedPart, OwnsStage, Backup, Dest, disk, local, ghost, Ended
<1>8. Owning(r)'
  BY <1>1 DEF Owning
<1> QED
  BY <1>1, <1>6, <1>7, <1>8
     DEF RunInv, BeforePublish, AtPublish, ForwardPart, BackwardPart, Early, Moving, Undoing

----------------------------------------------------------------------------
(* The theorems.                                                            *)

LEMMA OwnStep ==
  ASSUME TypeInv, NEW r \in Runs, RunInv(r), Act(r)
  PROVE  RunInv(r)'
BY EarlyOwn, EnterOwn, ProbeOwn, DisplaceOwn, InstallOwn, PutBackOwn, UndoOwn,
   RestoreOwn, ConcludeOwn, CleanupOwn, CrashOwn DEF Act, Step

\* Begin is the only way to become live, and it looks at the others.
LEMMA ExclusionStep ==
  ASSUME IInv, ~Overlap, NEW r \in Runs, Act(r)
  PROVE  Apart'
<1>1. \A q \in Runs : q # r => (Live(q)' <=> Live(q))
  BY Frame DEF Same, Live
<1>2. Live(r)' => Live(r) \/ Begin(r)
  <2> SUFFICES ASSUME ~Live(r), ~Begin(r) PROVE ~Live(r)'
    OBVIOUS
  <2>1. CASE Reject(r)
    BY <2>1 DEF Reject, Goto, Live, IInv, TypeInv, TypeOK
  <2> QED
    BY <2>1 DEF Act, Step, Crash, Live, MakeOutDir, ClearStage, MakeStage, Build, CopyModule,
       CopyImportLib, RemoveTree, WriteHeader, WriteUnit, StageFile, Probe, Displace,
       Install, PutBack, Undo, Restore, Conclude, Cleanup
<1>3. Begin(r) => \A q \in Runs : q # r /\ Live(q) =>
                    ModuleOf[q] # ModuleOf[r] /\ StageOf[q] # StageOf[r]
  BY DEF Begin
<1> QED BY <1>1, <1>2, <1>3 DEF IInv, Apart

LEMMA IInvInit == Init => IInv
<1> SUFFICES ASSUME Init PROVE IInv
  OBVIOUS
<1>1. \A r \in Runs : /\ pc[r] = "idle" /\ latest[ModuleOf[r]] # r /\ moved[r] = 0
                       /\ kept[r] = {} /\ suspect[r] = Absent /\ stranded[r] = {}
                       /\ err[r] = "none"
  BY ConstantsAssumption DEF Init
<1> QED
  BY <1>1, TypeInit DEF IInv, Apart, Live, RunInv, Owning, BeforePublish, AtPublish,
     ForwardPart, BackwardPart, EndPart, StrandedPart, Early, Moving, Undoing, Ended

LEMMA IInvStep ==
  ASSUME ~Overlap, IInv, [Next]_vars
  PROVE  IInv'
<1>1. CASE Next
  <2>1. PICK r \in Runs : Act(r)
    BY <1>1 DEF Next, Act
  <2>2. TypeInv'
    BY <2>1, TypeStep, CursorStep DEF TypeInv, IInv, Act
  <2>3. \A q \in Runs : RunInv(q)'
    BY <2>1, OwnStep, Frame, OthersKeepInv DEF IInv
  <2> QED BY <2>1, <2>2, <2>3, ExclusionStep DEF IInv
<1>2. CASE UNCHANGED vars
  <2> USE <1>2 DEF vars, disk, local, ghost, Dest, Ready, Backup
  <2>1. TypeInv' /\ Apart'
    BY DEF IInv, TypeInv, TypeOK, CursorInRange, Apart, Live
  <2>2. \A r \in Runs : Same(r)
    BY DEF Same, OwnsStage
  <2> QED BY <2>1, <2>2, OthersKeepInv DEF IInv
<1> QED BY <1>1, <1>2

\* Builds of one module one at a time, staging names reused or not: what was
\* published before and was seen is never lost, whatever fails and whenever the
\* process dies, until a build of the same staging name clears that (publish,
\* rollback and the cleanup after them).
THEOREM PreviousSurvivesAlways ==
  ASSUME ~Overlap
  PROVE  Spec => []PreviousSurvives
<1>1. IInv => PreviousSurvives
  <2> SUFFICES ASSUME IInv, NEW r \in Runs, Failing(r), OwnsStage(r), NEW a \in Arts
               PROVE  Found(r, a)
    BY DEF PreviousSurvives, Found
  <2>1. /\ TypeInv /\ RunInv(r) /\ latest[ModuleOf[r]] = r
        /\ pc[r] \in Early \union Moving \union Undoing \union Ended
    BY DEF IInv, Failing, TypeInv, TypeOK, Labels, Early, Moving, Undoing, Ended
  <2>2. CASE pc[r] \in Ended
    BY <2>1, <2>2 DEF RunInv, EndPart, Failing, Ended
  <2>3. CASE pc[r] \in Moving \union Undoing
    BY <2>1, <2>3, FoundWhilePublishing
  <2> QED BY <2>1, <2>2, <2>3 DEF RunInv, BeforePublish
<1> QED BY IInvInit, IInvStep, <1>1, PTL DEF Spec

\* An ordinary Io error of publish leaves every displaced file its probes saw back
\* in place, which is why the caller may delete the stage.
THEOREM IoRestoresPreviousAlways ==
  ASSUME ~Overlap
  PROVE  Spec => []IoRestoresPrevious
<1>1. IInv => IoRestoresPrevious
  <2> SUFFICES ASSUME IInv, NEW r \in Runs, latest[ModuleOf[r]] = r, err[r] = "io",
                      NEW a \in Arts
               PROVE  InPlace(r, a)
    BY DEF IoRestoresPrevious, InPlace
  <2>1. pc[r] \in Ended /\ RunInv(r)
    BY DEF IInv, RunInv, BeforePublish, AtPublish, TypeInv, TypeOK, Labels, Early,
           Moving, Undoing, Ended
  <2> QED BY <2>1 DEF RunInv, EndPart
<1> QED BY IInvInit, IInvStep, <1>1, PTL DEF Spec

\* What RollbackIncomplete names stays where it says through every later build of
\* another staging name, and through any build at all if it was in place after all
\* until that build publishes; the reuse of the staging name ends it.
THEOREM StrandedRecoverableAlways ==
  ASSUME ~Overlap
  PROVE  Spec => []StrandedRecoverable
<1>1. IInv => StrandedRecoverable
  BY DEF IInv, RunInv, StrandedPart, StrandedRecoverable
<1> QED BY IInvInit, IInvStep, <1>1, PTL DEF Spec

\* Ok means the four files are this build's own.
THEOREM OkMeansWholeSetAlways ==
  ASSUME ~Overlap
  PROVE  Spec => []OkMeansWholeSet
<1>1. IInv => OkMeansWholeSet
  <2> SUFFICES ASSUME IInv, NEW r \in Runs, latest[ModuleOf[r]] = r,
                      pc[r] \in {"cleanup", "done"}, err[r] = "none"
               PROVE  out[ModuleOf[r]] = [a \in Arts |-> r]
    BY DEF OkMeansWholeSet
  <2>1. EndPart(r) /\ pc[r] \in Ended
    BY DEF IInv, RunInv, Ended
  <2>2. \A a \in Arts : Dest(r, a) = r
    BY <2>1 DEF EndPart, Ended, Replaced
  <2>3. out[ModuleOf[r]] \in [Arts -> Contents]
    BY ValueTypes DEF IInv, TypeInv, TypeOK
  <2> QED BY <2>2, <2>3 DEF Dest
<1> QED BY IInvInit, IInvStep, <1>1, PTL DEF Spec
============================================================================
