\* Two builds of one module after one another, faults and crashes; the second may
\* have the staging name of the first.
SPECIFICATION FromOneUnlike
CONSTANTS
  r1 = r1  r2 = r2  r3 = r3  m1 = m1  s1 = s1  s2 = s2
  Old = Old  Dir = Dir  Absent = Absent  NoRun = NoRun
  Runs = {r1, r2, r3}
  Modules = {m1}
  Stages = {s1, s2}
  ModuleOf <- OneModule
  StageOf <- ReusedStage
  FirstContents = {Old, Dir, Absent}
  MaxFaults = 2
  Crashes = TRUE
  LateErrors = TRUE
  Overlap = FALSE
CHECK_DEADLOCK FALSE
INVARIANTS
  PreviousSurvives IoRestoresPrevious StrandedRecoverable OkMeansWholeSet
PROPERTIES
  RunsEnd
