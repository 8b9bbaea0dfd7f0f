------------------------------ MODULE Publish ------------------------------
(***************************************************************************)
(* `mlc build` packaging (compiler/src/emit.rs, emit_artifacts): compile,   *)
(* stage four files in a private directory inside out_dir, then move them   *)
(* into place with publish(), undoing the moves with rollback() when one of *)
(* them fails.                                                              *)
(*                                                                          *)
(* Every filesystem call is a step of its own, so builds running at the     *)
(* same time interleave between any two calls, a call may fail, and a       *)
(* process may die between two calls.  A file is abstracted to the run that *)
(* produced it: Old is a file that was there before, Dir a directory        *)
(* sitting at the destination.                                              *)
(***************************************************************************)
EXTENDS Naturals, Sequences, FiniteSets

CONSTANTS
  Runs,           \* calls of emit_artifacts
  Modules,        \* module names being built into the one out_dir
  Stages,         \* staging directory names, .mlc-stage-<pid>-<seq>
  ModuleOf,       \* the module each run builds
  StageOf,        \* the staging name each run computes; a reused pid repeats it
  Old, Dir, Absent, NoRun,
  FirstContents,  \* what may stand at a destination before the first run
  MaxFaults,      \* bound on the filesystem calls that fail
  Crashes,        \* may a process die in the middle of a run?
  LateErrors,     \* may a rename report failure after moving?
  Overlap         \* may two runs of one module be in progress together?

Names == <<"dll", "h", "pas", "lib">>
Arts  == {"dll", "h", "pas", "lib"}

Contents == Runs \union {Old, Dir, Absent}
Files    == Runs \union {Old}          \* what Path::is_file answers true for

ASSUME ConstantsAssumption ==
  /\ ModuleOf \in [Runs -> Modules]
  /\ StageOf \in [Runs -> Stages]
  /\ {Old, Dir, Absent, NoRun} \intersect Runs = {}
  /\ Absent \notin Arts
  /\ Old # Dir /\ Old # Absent /\ Old # NoRun
  /\ Dir # Absent /\ Dir # NoRun /\ Absent # NoRun
  /\ FirstContents \subseteq {Old, Dir, Absent}
  /\ MaxFaults \in Nat
  /\ Crashes \in BOOLEAN /\ LateErrors \in BOOLEAN /\ Overlap \in BOOLEAN

VARIABLES
  out,       \* out_dir: [Modules -> [Arts -> Contents]]
  dirs,      \* staging directories that exist
  staged,    \* <stage>/<name>: the new files, complete, not yet moved
  prev,      \* <stage>/<name>.prev: what publish displaced
  trees,     \* private build trees under the temp directory that exist
  pc,        \* the next filesystem call of each run
  moved,     \* length of publish's `done` list
  kept,      \* artifacts whose `backup` is Some
  suspect,   \* the artifact whose displacing rename reported failure
  stranded,  \* backups the rollback could not put back
  err,       \* the error a run ends with
  faults,    \* failed calls so far
  before,    \* history: the module's files when publish was entered
  latest,    \* history: the last run of a module to enter publish
  owner,     \* history: the last run to clear a staging directory of that name
  misread,   \* history: the files a probe called absent that were there
  intact     \* history: the files named as stranded that were in place after all

disk  == <<out, dirs, staged, prev, trees>>
local == <<moved, kept, suspect, stranded>>
ghost == <<before, latest, owner, misread, intact>>
vars  == <<disk, pc, local, err, faults, ghost>>

NoFiles == [a \in Arts |-> Absent]

Init ==
  /\ out \in [Modules -> [Arts -> FirstContents]]
  /\ dirs = {} /\ trees = {}
  /\ staged = [s \in Stages |-> NoFiles]
  /\ prev = [s \in Stages |-> NoFiles]
  /\ pc = [r \in Runs |-> "idle"]
  /\ moved = [r \in Runs |-> 0]
  /\ kept = [r \in Runs |-> {}]
  /\ suspect = [r \in Runs |-> Absent]
  /\ stranded = [r \in Runs |-> {}]
  /\ err = [r \in Runs |-> "none"]
  /\ faults = 0
  /\ before = [r \in Runs |-> NoFiles]
  /\ latest = [m \in Modules |-> NoRun]
  /\ owner = [s \in Stages |-> NoRun]
  /\ misread = [r \in Runs |-> {}]
  /\ intact = [r \in Runs |-> {}]

----------------------------------------------------------------------------
(* Vocabulary of the steps.                                                 *)

Live(r) == pc[r] \notin {"idle", "done", "crashed"}

\* The destination's content and the two files of run r's stage.
Dest(r, a)   == out[ModuleOf[r]][a]
Ready(r, a)  == staged[StageOf[r]][a]
Backup(r, a) == prev[StageOf[r]][a]

SetDest(r, a, c)   == out' = [out EXCEPT ![ModuleOf[r]][a] = c]
SetReady(r, a, c)  == staged' = [staged EXCEPT ![StageOf[r]][a] = c]
SetBackup(r, a, c) == prev' = [prev EXCEPT ![StageOf[r]][a] = c]

Goto(r, label) == pc' = [pc EXCEPT ![r] = label]
FailWith(r, e) == err' = [err EXCEPT ![r] = e]

\* Calls the environment makes fail, at most MaxFaults of them.
Faults(k) == faults + k <= MaxFaults /\ faults' = faults + k
Fault     == Faults(1)
NoFault   == UNCHANGED faults

Misread(r, a) == misread' = [misread EXCEPT ![r] = @ \union {a}]

Current(r) == Names[moved[r] + 1]   \* the file publish is moving
Newest(r)  == Names[moved[r]]       \* the move rollback undoes next

----------------------------------------------------------------------------
(* emit_artifacts up to publish.                                            *)

\* A bad name, or source that does not compile: nothing is written.
Reject(r) ==
  /\ pc[r] = "idle"
  /\ Goto(r, "done") /\ FailWith(r, "compile")
  /\ UNCHANGED <<disk, local, faults, ghost>>

\* A process starts only with a pid no live process has.
Begin(r) ==
  /\ pc[r] = "idle"
  /\ \A q \in Runs \ {r} : Live(q) => /\ StageOf[q] # StageOf[r]
                                      /\ Overlap \/ ModuleOf[q] # ModuleOf[r]
  /\ Goto(r, "mkdir")
  /\ UNCHANGED <<disk, local, err, faults, ghost>>

\* create_dir_all(out_dir)
MakeOutDir(r) ==
  /\ pc[r] = "mkdir"
  /\ \/ Goto(r, "clear") /\ NoFault /\ UNCHANGED err
     \/ Goto(r, "done") /\ Fault /\ FailWith(r, "io")
  /\ UNCHANGED <<disk, local, ghost>>

\* `let _ = remove_dir_all(&stage)`: whatever an earlier run of that name left
\* goes away; a failure is ignored and leaves it.
ClearStage(r) ==
  LET s == StageOf[r] IN
  /\ pc[r] = "clear"
  /\ Goto(r, "mkstage")
  /\ \/ /\ NoFault
        /\ dirs' = dirs \ {s}
        /\ staged' = [staged EXCEPT ![s] = NoFiles]
        /\ prev' = [prev EXCEPT ![s] = NoFiles]
     \/ s \in dirs /\ Fault /\ UNCHANGED <<dirs, staged, prev>>
  /\ owner' = [owner EXCEPT ![s] = r]
  /\ UNCHANGED <<out, trees, local, err, before, latest, misread, intact>>

\* create_dir_all(&stage)
MakeStage(r) ==
  /\ pc[r] = "mkstage"
  /\ \/ /\ Goto(r, "build") /\ NoFault /\ UNCHANGED err
        /\ dirs' = dirs \union {StageOf[r]}
     \/ Goto(r, "done") /\ Fault /\ FailWith(r, "io") /\ UNCHANGED dirs
  /\ UNCHANGED <<out, staged, prev, trees, local, ghost>>

\* build_cdylib in a private tree.
Build(r) ==
  /\ pc[r] = "build"
  /\ trees' = trees \union {StageOf[r]}
  /\ \/ Goto(r, "copydll") /\ NoFault /\ UNCHANGED err
     \/ Goto(r, "untree") /\ Fault /\ FailWith(r, "compile")
  /\ UNCHANGED <<out, dirs, staged, prev, local, ghost>>

\* One staged file written or copied; a failure may leave nothing at its name.
StageFile(r, a, at, next, onFail) ==
  /\ pc[r] = at
  /\ \/ SetReady(r, a, r) /\ Goto(r, next) /\ NoFault /\ UNCHANGED err
     \/ Goto(r, onFail) /\ Fault /\ FailWith(r, "io") /\ UNCHANGED staged
  /\ UNCHANGED <<out, dirs, prev, trees, local>>

CopyModule(r)    == StageFile(r, "dll", "copydll", "copylib", "untree") /\ UNCHANGED ghost
CopyImportLib(r) == StageFile(r, "lib", "copylib", "untree", "untree") /\ UNCHANGED ghost

\* `let _ = remove_dir_all(&build_root)`, then `result?`
RemoveTree(r) ==
  /\ pc[r] = "untree"
  /\ Goto(r, IF err[r] = "none" THEN "header" ELSE "cleanup")
  /\ \/ trees' = trees \ {StageOf[r]} /\ NoFault
     \/ Fault /\ UNCHANGED trees
  /\ UNCHANGED <<out, dirs, staged, prev, local, err, ghost>>

WriteHeader(r) == StageFile(r, "h", "header", "unit", "cleanup") /\ UNCHANGED ghost

\* The last file staged; publish is entered with it.
WriteUnit(r) ==
  /\ StageFile(r, "pas", "unit", "probe", "cleanup")
  /\ IF pc'[r] = "probe"
     THEN /\ before' = [before EXCEPT ![r] = out[ModuleOf[r]]]
          /\ latest' = [latest EXCEPT ![ModuleOf[r]] = r]
          /\ UNCHANGED <<owner, misread, intact>>
     ELSE UNCHANGED ghost

----------------------------------------------------------------------------
(* publish: move each name into place, displacing what is there.            *)

\* dest.is_file(), which answers false as well when it cannot tell.
Probe(r) ==
  LET a == Current(r) IN
  /\ pc[r] = "probe"
  /\ \/ /\ Goto(r, IF Dest(r, a) \in Files THEN "displace" ELSE "install")
        /\ NoFault /\ UNCHANGED misread
     \/ Dest(r, a) \in Files /\ Fault /\ Misread(r, a) /\ Goto(r, "install")
  /\ UNCHANGED <<disk, local, err, before, latest, owner, intact>>

\* rename(dest, <stage>/<name>.prev); the file may be gone since the probe.
Displace(r) ==
  LET a == Current(r)
      Move == SetDest(r, a, Absent) /\ SetBackup(r, a, Dest(r, a))
      Abort == Goto(r, "undo") /\ suspect' = [suspect EXCEPT ![r] = a] /\ UNCHANGED kept
  IN
  /\ pc[r] = "displace"
  /\ \/ /\ Dest(r, a) \in Files /\ Move /\ NoFault
        /\ kept' = [kept EXCEPT ![r] = @ \union {a}]
        /\ Goto(r, "install") /\ UNCHANGED suspect
     \/ /\ Abort /\ UNCHANGED <<out, prev>>
        /\ IF Dest(r, a) \in Files THEN Fault ELSE NoFault
     \/ LateErrors /\ Dest(r, a) \in Files /\ Move /\ Fault /\ Abort
  /\ UNCHANGED <<dirs, staged, trees, moved, stranded, err, ghost>>

\* A move that failed first puts its own destination's backup back.
AfterFailedMove_NoPutBack(r, a) == "undo"
AfterFailedMove_Ignored(r, a)   == "cleanup"
AfterFailedMove(r, a) == IF a \in kept[r] THEN "putback" ELSE "undo"

\* rename(<stage>/<name>, dest): replaces a file, never a directory.
Install(r) ==
  LET a == Current(r)
      last == moved[r] + 1 = Len(Names)
      Move == Dest(r, a) # Dir /\ SetDest(r, a, Ready(r, a)) /\ SetReady(r, a, Absent)
      Abort == Goto(r, AfterFailedMove(r, a)) /\ UNCHANGED moved
  IN
  /\ pc[r] = "install"
  /\ \/ /\ Move /\ NoFault
        /\ moved' = [moved EXCEPT ![r] = @ + 1]
        /\ Goto(r, IF last THEN "cleanup" ELSE "probe")
     \/ /\ Abort /\ UNCHANGED <<out, staged>>
        /\ IF Dest(r, a) # Dir THEN Fault ELSE NoFault
     \/ LateErrors /\ Move /\ Fault /\ Abort
  /\ UNCHANGED <<dirs, prev, trees, kept, suspect, stranded, err, ghost>>

\* rename(backup, dest): replaces what stands at dest; if it reports failure the
\* backup counts as stranded in the stage.
MoveBack(r, a) ==
  LET Move == SetDest(r, a, Backup(r, a)) /\ SetBackup(r, a, Absent)
      Strand == stranded' = [stranded EXCEPT ![r] = @ \union {a}]
  IN
  \/ Move /\ NoFault /\ UNCHANGED stranded
  \/ Strand /\ Fault /\ UNCHANGED <<out, prev>>
  \/ LateErrors /\ Move /\ Fault /\ Strand

\* The failed destination's own backup goes back before the earlier moves.
PutBack(r) ==
  /\ pc[r] = "putback"
  /\ MoveBack(r, Current(r))
  /\ Goto(r, "undo")
  /\ UNCHANGED <<dirs, staged, trees, moved, kept, suspect, err, ghost>>

----------------------------------------------------------------------------
(* rollback: pop `done`, newest first.                                      *)

\* The entries left in `done` after one is popped.
Popped_Peeked(r) == moved[r]
Popped(r) == moved[r] - 1

\* remove_file(dest).is_ok() || !dest.exists(), and what follows from it: the
\* file is gone, or stays, or stays although exists() could not see it.
Undo(r) ==
  LET a == Newest(r)
      Pop == moved' = [moved EXCEPT ![r] = Popped(r)]
      Cleared == IF a \in kept[r] THEN Goto(r, "restore") /\ UNCHANGED moved
                                  ELSE Pop /\ UNCHANGED pc
      Blocked == /\ Pop /\ UNCHANGED pc
                 /\ stranded' = [stranded EXCEPT ![r] =
                                   IF a \in kept[r] THEN @ \union {a} ELSE @]
  IN
  /\ pc[r] = "undo" /\ moved[r] > 0
  /\ \/ SetDest(r, a, Absent) /\ Cleared /\ NoFault /\ UNCHANGED stranded
     \/ Dest(r, a) # Absent /\ Blocked /\ Fault /\ UNCHANGED out
     \/ Dest(r, a) # Absent /\ Cleared /\ Faults(2) /\ UNCHANGED <<out, stranded>>
  /\ UNCHANGED <<dirs, staged, prev, trees, kept, suspect, err, ghost>>

Restore(r) ==
  /\ pc[r] = "restore"
  /\ MoveBack(r, Newest(r))
  /\ moved' = [moved EXCEPT ![r] = Popped(r)]
  /\ Goto(r, "undo")
  /\ UNCHANGED <<dirs, staged, trees, kept, suspect, err, ghost>>

\* b.exists() after the displacing rename reported failure.
Doubtful_Trusted(r) == {}
Doubtful(r) ==
  IF suspect[r] \in Arts /\ Backup(r, suspect[r]) # Absent THEN {suspect[r]} ELSE {}

\* After the loop: the error is RollbackIncomplete iff anything is stranded.
\* exists() also answers false when it cannot tell.
Conclude(r) ==
  /\ pc[r] = "undo" /\ moved[r] = 0
  /\ \E found \in {Doubtful(r), {}} :
       LET all == stranded[r] \union found IN
       /\ IF found = Doubtful(r)
          THEN NoFault /\ UNCHANGED misread
          ELSE Fault /\ Misread(r, suspect[r])
       /\ stranded' = [stranded EXCEPT ![r] = all]
       /\ FailWith(r, IF all = {} THEN "io" ELSE "stranded")
       /\ intact' = [intact EXCEPT ![r] = {a \in all : Dest(r, a) = before[r][a]}]
  /\ Goto(r, "cleanup")
  /\ UNCHANGED <<disk, moved, kept, suspect, before, latest, owner>>

\* The stage is removed unless it holds the only copy of something.
KeepsStage_Never(r) == FALSE
KeepsStage(r) == err[r] = "stranded"

Cleanup(r) ==
  LET s == StageOf[r] IN
  /\ pc[r] = "cleanup"
  /\ Goto(r, "done")
  /\ \/ /\ ~KeepsStage(r) /\ NoFault
        /\ dirs' = dirs \ {s}
        /\ staged' = [staged EXCEPT ![s] = NoFiles]
        /\ prev' = [prev EXCEPT ![s] = NoFiles]
     \/ KeepsStage(r) /\ NoFault /\ UNCHANGED <<dirs, staged, prev>>
     \/ ~KeepsStage(r) /\ Fault /\ UNCHANGED <<dirs, staged, prev>>
  /\ UNCHANGED <<out, trees, local, err, ghost>>

\* The process dies; the disk stays as the last completed call left it.
Crash(r) ==
  /\ Crashes /\ Live(r)
  /\ Goto(r, "crashed")
  /\ UNCHANGED <<disk, local, err, faults, ghost>>

Step(r) ==
  \/ MakeOutDir(r) \/ ClearStage(r) \/ MakeStage(r) \/ Build(r)
  \/ CopyModule(r) \/ CopyImportLib(r) \/ RemoveTree(r)
  \/ WriteHeader(r) \/ WriteUnit(r)
  \/ Probe(r) \/ Displace(r) \/ Install(r) \/ PutBack(r)
  \/ Undo(r) \/ Restore(r) \/ Conclude(r) \/ Cleanup(r)

Next == \E r \in Runs : Reject(r) \/ Begin(r) \/ Step(r) \/ Crash(r)

Spec == Init /\ [][Next]_vars

\* A live process keeps making its calls; nothing makes a run start.
FairSpec == Spec /\ \A r \in Runs : WF_vars(Step(r))

----------------------------------------------------------------------------
(* Properties.                                                              *)

Labels == {"idle", "mkdir", "clear", "mkstage", "build", "copydll", "copylib",
           "untree", "header", "unit", "probe", "displace", "install",
           "putback", "undo", "restore", "cleanup", "done", "crashed"}

Errors == {"none", "compile", "io", "stranded"}

\* Types of the state of emit_artifacts and publish.
TypeOK ==
  /\ out \in [Modules -> [Arts -> Contents]]
  /\ dirs \subseteq Stages /\ trees \subseteq Stages
  /\ staged \in [Stages -> [Arts -> Contents]]
  /\ prev \in [Stages -> [Arts -> Contents]]
  /\ pc \in [Runs -> Labels]
  /\ moved \in [Runs -> 0..4]
  /\ kept \in [Runs -> SUBSET Arts]
  /\ suspect \in [Runs -> Arts \union {Absent}]
  /\ stranded \in [Runs -> SUBSET Arts]
  /\ err \in [Runs -> Errors]
  /\ faults \in Nat
  /\ before \in [Runs -> [Arts -> Contents]]
  /\ latest \in [Modules -> Runs \union {NoRun}]
  /\ owner \in [Stages -> Runs \union {NoRun}]
  /\ misread \in [Runs -> SUBSET Arts] /\ intact \in [Runs -> SUBSET Arts]

\* Run r was the last to publish its module, and did not succeed.
Failing(r) == latest[ModuleOf[r]] = r /\ ~(pc[r] \in {"cleanup", "done"} /\ err[r] = "none")

\* No later run has started with the staging name of run r.
OwnsStage(r) == owner[StageOf[r]] = r

\* Whatever fails and whenever the process dies, an artifact that stood in
\* out_dir when publish was entered, and that its probes saw, is still on disk: in
\* place, or as a .prev in the stage of the run that displaced it, until a run
\* that computes the same staging name clears that (publish and rollback, and
\* the cleanup that keeps the stage on RollbackIncomplete).  A file that
\* is_file() or exists() wrongly calls absent can be lost (emit.rs 230, 236).
PreviousSurvives ==
  \A r \in Runs : Failing(r) /\ OwnsStage(r) =>
    \A a \in Arts \ misread[r] : before[r][a] \in Files =>
      before[r][a] \in {Dest(r, a), Backup(r, a)}

\* An ordinary Io error out of publish means every displaced artifact its probes
\* saw is back in place: the stage may be deleted because it holds nothing of value.
IoRestoresPrevious ==
  \A r \in Runs : latest[ModuleOf[r]] = r /\ err[r] = "io" =>
    \A a \in Arts \ misread[r] : before[r][a] \in Files => Dest(r, a) = before[r][a]

\* A file RollbackIncomplete names stays in the stage it names, however many
\* runs of other staging names follow (the one path on which the staging
\* directory survives), unless it was in place when the error was reported; then
\* it is there until another build replaces it.  A run that computes the same
\* staging name, from a reused process id, deletes it (emit.rs 321).
StrandedRecoverable ==
  \A r \in Runs : err[r] = "stranded" =>
    /\ stranded[r] # {}
    /\ \A a \in stranded[r] \ intact[r] :
         before[r][a] \in Files /\ (OwnsStage(r) => Backup(r, a) = before[r][a])
    /\ \A a \in intact[r] :
         before[r][a] \in Files /\ (latest[ModuleOf[r]] = r => Dest(r, a) = before[r][a])

\* Success means the whole set of four is this run's own: publish never stops
\* half way and reports Ok.
OkMeansWholeSet ==
  \A r \in Runs : latest[ModuleOf[r]] = r /\ pc[r] \in {"cleanup", "done"} /\ err[r] = "none"
    => out[ModuleOf[r]] = [a \in Arts |-> r]

\* Every run that has started ends, by itself or by dying: the rollback loop
\* and the moves always make progress.
RunsEnd == \A r \in Runs : (pc[r] = "mkdir") ~> (pc[r] \in {"done", "crashed"})
============================================================================
