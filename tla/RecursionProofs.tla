-------------------------- MODULE RecursionProofs --------------------------
(***************************************************************************)
(* Theorems about HelperChecks and Recursion for every set of functions and  *)
(* every call graph; those about HelperChecks hold of recursive ones as well, *)
(* where recursion only costs termination.                                  *)
(*                                                                          *)
(* The inductive invariant of HelperChecks has a part about the compiler's   *)
(* three loops (Analysis) and a part about the bodies in progress at run     *)
(* time (Frames).  The argument is the one word Guarded: a body that runs     *)
(* below a fallible function either has a status, or was reached and found    *)
(* unable to overflow, and what a guarded body calls is guarded.             *)
(*                                                                          *)
(* That of Recursion says of each frame of the walk that what it has offered *)
(* is done, but for the one function the next frame belongs to (Offered),    *)
(* and of the functions that are done that whatever they call was done       *)
(* before them (Ranked).  An accepted module has all its functions done, so   *)
(* its calls go down in rank, and so do the bodies on the host's stack        *)
(* (Descending).                                                            *)
(***************************************************************************)
EXTENDS Recursion, SequenceTheorems, TLAPS

\* The two analyses are over.
Analysed == phase \in {"keep", "ready"}

\* What the loops of checked_helpers and plain_bodies maintain.
Closed ==
  /\ \A f \in fallible \union reached : Callees(f) \subseteq reached \union todo
  /\ phase # "reach" => todo = {}

HasCaller ==
  \A f \in reached \union todo : \E g \in fallible \union reached : f \in Callees(g)

Harmless == settled \ can

Memo ==
  /\ \A f \in Harmless : f \notin overflows /\ Callees(f) \subseteq Harmless
  /\ Analysed => settled = reached

KeptBodies ==
  /\ Analysed => Kept \subseteq keep
  /\ phase = "ready" => \A f \in keep : Called(f) \subseteq keep
  /\ \A f \in keep \ Kept : \E g \in keep \ fallible : f \in Callees(g)
  /\ ~Analysed => keep = {}

Analysis == WellTyped /\ Closed /\ HasCaller /\ Memo /\ KeptBodies

\* What holds of the bodies in progress.
Guarded(b) == HasStatus(b) \/ b.fn \in Harmless

Frames ==
  /\ \A j \in 1..Len(stack) : \A h \in 1..j :
       stack[h].fn \in fallible => Guarded(stack[j])
  /\ \A j \in 1..Len(stack) : stack[j].copy = "checked" =>
       /\ stack[j].fn \in checked
       /\ Declares
       /\ \E h \in 1..j : stack[h].fn \in fallible
  /\ \A j \in 2..Len(stack) : HasStatus(stack[j]) => HasStatus(stack[j - 1])

Outcome ==
  /\ event # "none" => stack # <<>>
  /\ event = "wrapped" => ~HasStatus(Top) /\ Top.fn \in overflows
  /\ event = "raised" => HasStatus(Top) /\ Declares
  /\ status = "overflow" => Declares

Idle == stack = <<>> /\ event = "none" /\ status = "none"

IInv ==
  /\ TypeOK /\ Analysis
  /\ Frames /\ Outcome
  /\ phase # "ready" => Idle

----------------------------------------------------------------------------
(* The compiler's part.                                                     *)

LEMMA InitAnalysis == Init => TypeOK /\ Analysis
<1> SUFFICES ASSUME Init PROVE TypeOK /\ Analysis
  OBVIOUS
<1>1. calls \in [Functions -> SUBSET Functions]
  BY ConstantsAssumption DEF Init
<1>2. \A f \in fallible : Callees(f) \subseteq Infallible
  BY <1>1 DEF Init, Callees, Infallible
<1>3. todo \subseteq Infallible
  BY <1>2 DEF Init
<1>4. TypeOK
  BY <1>1, <1>3 DEF Init, TypeOK, Phases, Bodies
<1>5. Closed
  BY DEF Init, Closed
<1>6. HasCaller
  BY DEF Init, HasCaller
<1>7. Memo /\ KeptBodies
  BY DEF Init, Memo, KeptBodies, Harmless, Analysed
<1> QED
  BY <1>4, <1>5, <1>6, <1>7 DEF Init, Analysis

\* The derived sets are functions of what the step leaves alone.
LEMMA PopAnalysis ==
  ASSUME TypeOK, Analysis, NEW g \in Functions, Pop(g)
  PROVE  TypeOK' /\ Analysis'
<1> USE DEF Pop, source, walk, runtime
<1>1. \A f : Callees(f)' = Callees(f) /\ Tries(f)' = Tries(f)
  BY DEF Callees, Tries
<1>2. Infallible' = Infallible /\ Callees(g) \subseteq Infallible
  BY DEF Infallible, Callees, TypeOK
<1>3. TypeOK'
  BY <1>2 DEF TypeOK, Infallible
<1>4. WellTyped'
  BY <1>1, <1>2 DEF Analysis, WellTyped
<1>5. reached' = reached \union {g}
  BY DEF TypeOK
<1>6. reached \union todo \subseteq reached' \union todo'
  BY DEF TypeOK
<1>7. Closed'
  <2>1. ASSUME NEW f \in fallible' \union reached' PROVE Callees(f)' \subseteq reached' \union todo'
    <3>1. CASE f \in fallible \union reached
      BY <3>1, <1>1, <1>6 DEF Analysis, Closed
    <3>2. CASE f \notin fallible \union reached
      <4>1. f = g /\ g \in Infallible \ reached
        BY <3>2, <1>5 DEF TypeOK
      <4> QED BY <4>1, <1>1
    <3> QED BY <3>1, <3>2
  <2> QED BY <2>1 DEF Closed
<1>8. HasCaller'
  <2> SUFFICES ASSUME NEW f \in reached' \union todo'
               PROVE  \E h \in fallible' \union reached' : f \in Callees(h)'
    BY DEF HasCaller
  <2>1. CASE f \in reached \union todo
    BY <2>1, <1>1, <1>5 DEF Analysis, HasCaller
  <2>2. CASE f \notin reached \union todo
    <3>1. f \in Callees(g)
      BY <2>2
    <3> QED BY <3>1, <1>1, <1>5
  <2> QED BY <2>1, <2>2
<1>9. Memo' /\ KeptBodies'
  <2>1. settled' = settled /\ can' = can /\ overflows' = overflows /\ keep' = keep
    OBVIOUS
  <2>2. Harmless' = Harmless /\ ~Analysed /\ ~Analysed'
    BY DEF Harmless, Analysed
  <2>3. keep = {}
    BY <2>2 DEF Analysis, KeptBodies
  <2>4. Memo'
    BY <2>1, <2>2, <1>1 DEF Analysis, Memo
  <2> QED BY <2>1, <2>2, <2>3, <2>4 DEF KeptBodies, Analysed
<1> QED BY <1>3, <1>4, <1>7, <1>8, <1>9 DEF Analysis

LEMMA SettleAnalysis ==
  ASSUME TypeOK, Analysis, NEW g \in Functions, Settle(g)
  PROVE  TypeOK' /\ Analysis'
<1> USE DEF Settle, source, runtime
<1>1. \A f : Callees(f)' = Callees(f) /\ Tries(f)' = Tries(f)
  BY DEF Callees, Tries
<1>2. Infallible' = Infallible
  BY DEF Infallible
<1>3. TypeOK'
  BY <1>2 DEF TypeOK, Infallible
<1>4. WellTyped'
  BY <1>1, <1>2 DEF Analysis, WellTyped
<1>5. Closed' /\ HasCaller'
  BY <1>1 DEF Analysis, Closed, HasCaller
<1>6. Memo'
  <2>1. ~Analysed'
    BY DEF Analysed
  <2>2. ASSUME NEW f \in Harmless' PROVE f \notin overflows' /\ Callees(f)' \subseteq Harmless'
    <3>1. Harmless \subseteq Harmless'
      BY DEF Harmless
    <3>2. CASE f \in Harmless
      BY <3>1, <3>2, <1>1 DEF Analysis, Memo
    <3>3. CASE f \notin Harmless
      <4>1. f = g /\ ~CanFail(g)
        BY <3>3 DEF Harmless
      <4>2. g \notin overflows /\ Callees(g) \subseteq Harmless
        BY <4>1 DEF CanFail, Decided, Harmless
      <4> QED BY <4>1, <4>2, <3>1, <1>1
    <3> QED BY <3>2, <3>3
  <2> QED BY <2>1, <2>2 DEF Memo
<1>7. KeptBodies'
  <2>1. keep' = {} /\ ~Analysed'
    BY DEF Analysed, Analysis, KeptBodies
  <2> QED BY <2>1 DEF KeptBodies, Analysed
<1> QED BY <1>3, <1>4, <1>5, <1>6, <1>7 DEF Analysis

LEMMA KeepAnalysis ==
  ASSUME TypeOK, Analysis, NEW g \in Functions, Keep(g)
  PROVE  TypeOK' /\ Analysis'
<1> USE DEF Keep, source, runtime
<1>1. \A f : Callees(f)' = Callees(f) /\ Tries(f)' = Tries(f)
  BY DEF Callees, Tries
<1>2. Infallible' = Infallible /\ Kept' = Kept /\ Analysed' = Analysed
  BY DEF Infallible, Kept, checked, Analysed
<1>3. Called(g) \subseteq Functions
  BY DEF Called, Callees, TypeOK
<1>4. TypeOK'
  BY <1>2, <1>3 DEF TypeOK, Infallible
<1>5. WellTyped' /\ Closed' /\ HasCaller'
  BY <1>1, <1>2 DEF Analysis, WellTyped, Closed, HasCaller
<1>6. Memo'
  BY <1>1, <1>2 DEF Analysis, Memo, Harmless
<1>7. KeptBodies'
  <2>1. ASSUME NEW f \in keep' \ Kept' PROVE \E h \in keep' \ fallible' : f \in Callees(h)'
    <3>1. CASE f \in keep
      BY <3>1, <1>1, <1>2 DEF Analysis, KeptBodies
    <3>2. CASE f \notin keep
      <4>1. g \notin fallible /\ f \in Callees(g)
        BY <3>2 DEF Called
      <4> QED BY <4>1, <1>1
    <3> QED BY <3>1, <3>2
  <2>2. Kept' \subseteq keep'
    BY <1>2 DEF Analysis, KeptBodies, Analysed
  <2> QED BY <2>1, <2>2 DEF KeptBodies, Analysed
<1> QED BY <1>4, <1>5, <1>6, <1>7 DEF Analysis

\* The three phase changes.
LEMMA PhaseAnalysis ==
  ASSUME TypeOK, Analysis, AllReached \/ AllSettled \/ AllKept
  PROVE  TypeOK' /\ Analysis'
<1> USE DEF AllReached, AllSettled, AllKept, source, walk, runtime
<1>0. /\ fallible' = fallible /\ overflows' = overflows /\ exported' = exported /\ calls' = calls
      /\ todo' = todo /\ reached' = reached /\ settled' = settled /\ can' = can
  OBVIOUS
<1>1. \A f : Callees(f)' = Callees(f) /\ Tries(f)' = Tries(f) /\ Called(f)' = Called(f)
  BY <1>0 DEF Callees, Tries, Called, checked
<1>2. Infallible' = Infallible /\ Kept' = Kept /\ Harmless' = Harmless
  BY <1>0 DEF Infallible, Kept, checked, Harmless
<1>3. TypeOK'
  <2>1. keep' \subseteq Functions
    BY DEF TypeOK, Kept
  <2>2. phase' \in Phases
    BY DEF Phases
  <2> QED BY <2>1, <2>2, <1>0 DEF TypeOK, Infallible
<1>4. WellTyped' /\ HasCaller'
  BY <1>0, <1>1, <1>2 DEF Analysis, WellTyped, HasCaller
<1>5. Closed'
  BY <1>0, <1>1 DEF Analysis, Closed
<1>6. Memo'
  BY <1>0, <1>1, <1>2 DEF Analysis, Memo, Analysed
<1>7. KeptBodies'
  <2>1. CASE AllReached
    BY <2>1 DEF Analysis, KeptBodies, Analysed
  <2>2. CASE AllSettled
    BY <2>2, <1>2 DEF KeptBodies, Analysed
  <2>3. CASE AllKept
    BY <2>3, <1>0, <1>1, <1>2 DEF Analysis, KeptBodies, Analysed
  <2> QED BY <2>1, <2>2, <2>3
<1> QED BY <1>3, <1>4, <1>5, <1>6, <1>7 DEF Analysis

LEMMA CompileStep ==
  ASSUME IInv, Compile
  PROVE  IInv'
<1>1. phase # "ready"
  BY DEF Compile, Pop, Settle, Keep, AllReached, AllSettled, AllKept
<1>2. UNCHANGED runtime
  BY DEF Compile, Pop, Settle, Keep, AllReached, AllSettled, AllKept, runtime
<1>3. Idle'
  BY <1>1, <1>2 DEF IInv, Idle, runtime
<1>4. TypeOK' /\ Analysis'
  BY PopAnalysis, SettleAnalysis, KeepAnalysis, PhaseAnalysis DEF Compile, IInv
<1>5. Len(stack') = 0
  BY <1>3 DEF Idle
<1>6. Frames'
  BY <1>5 DEF Frames
<1>7. Outcome'
  BY <1>3 DEF Outcome, Idle
<1> QED BY <1>3, <1>4, <1>6, <1>7 DEF IInv

----------------------------------------------------------------------------
(* The run-time part.                                                       *)

\* What a guarded body names is guarded: the step the whole argument rests on.
LEMMA NamedIsGuarded ==
  ASSUME TypeOK, Analysis, phase = "ready", NEW b \in Bodies, Guarded(b),
         b.copy = "checked" => b.fn \in checked, NEW c \in Named(b)
  PROVE  Guarded(c)
<1>0. todo = {} /\ Harmless = reached \ can /\ checked = can
  BY DEF Analysis, Closed, Memo, Analysed, Harmless, checked
<1>1. CASE c \in {Plain(g) : g \in Tries(b.fn)}
  BY <1>1 DEF Tries, Plain, Guarded, HasStatus
<1>2. CASE c \in {Target(b, g) : g \in Callees(b.fn)}
  <2>1. PICK g \in Callees(b.fn) : c = Target(b, g)
    BY <1>2
  <2>2. CASE HasStatus(b)
    <3>1. b.fn \in fallible \union reached
      BY <2>2, <1>0 DEF HasStatus, TypeOK
    <3>2. g \in reached
      BY <3>1, <1>0 DEF Analysis, Closed
    <3>3. CASE g \in checked
      BY <3>3, <2>1, <2>2 DEF Target, Guarded, HasStatus, Check
    <3>4. CASE g \notin checked
      BY <3>2, <3>4, <2>1, <1>0 DEF Target, Guarded, Plain
    <3> QED BY <3>3, <3>4
  <2>3. CASE ~HasStatus(b)
    <3>1. g \in Harmless
      BY <2>3 DEF Guarded, Analysis, Memo
    <3> QED BY <3>1, <2>1, <2>3 DEF Target, Guarded, Plain
  <2> QED BY <2>2, <2>3
<1> QED BY <1>1, <1>2 DEF Named

\* A body with a status is only ever named by another.
LEMMA NamedByStatus ==
  ASSUME TypeOK, Analysis, NEW b \in Bodies, NEW c \in Named(b), HasStatus(c)
  PROVE  /\ HasStatus(b)
         /\ c \in Bodies
         /\ c.copy = "checked" => c.fn \in checked /\ c.fn \in Callees(b.fn)
<1>1. b.fn \in Functions
  BY DEF Bodies
<1>2. CASE c \in {Plain(g) : g \in Tries(b.fn)}
  <2>1. PICK g \in Tries(b.fn) : c = Plain(g)
    BY <1>2
  <2>2. b.fn \in fallible
    BY <1>1, <2>1 DEF Analysis, WellTyped, Infallible
  <2>3. c \in Bodies /\ c.copy = "plain"
    BY <2>1 DEF Plain, Bodies, Tries, TypeOK
  <2> QED BY <2>2, <2>3 DEF HasStatus
<1>3. CASE c \in {Target(b, g) : g \in Callees(b.fn)}
  <2>1. PICK g \in Callees(b.fn) : c = Target(b, g)
    BY <1>3
  <2>2. g \in Functions /\ g \notin fallible
    BY <1>1, <2>1 DEF Callees, TypeOK
  <2>3. c # Plain(g)
    BY <2>2 DEF Plain, HasStatus
  <2>4. HasStatus(b) /\ g \in checked /\ c = Check(g)
    BY <2>1, <2>3 DEF Target
  <2> QED BY <2>2, <2>4 DEF Check, Bodies
<1> QED BY <1>2, <1>3 DEF Named

\* What the compiler left alone stays as it was.
LEMMA RunKeepsAnalysis ==
  ASSUME TypeOK, Analysis, UNCHANGED <<source, phase, walk>>
  PROVE  /\ Analysis'
         /\ Declares' = Declares
         /\ checked' = checked
         /\ \A b : HasStatus(b)' = HasStatus(b) /\ Guarded(b)' = Guarded(b)
<1> USE DEF source, walk
<1>1. \A f : Callees(f)' = Callees(f) /\ Tries(f)' = Tries(f) /\ Called(f)' = Called(f)
  BY DEF Callees, Tries, Called, checked
<1>2. /\ Infallible' = Infallible /\ Kept' = Kept /\ Harmless' = Harmless
      /\ Analysed' = Analysed /\ checked' = checked
  BY DEF Infallible, Kept, checked, Harmless, Analysed
<1>3. WellTyped' /\ Closed' /\ HasCaller'
  BY <1>1, <1>2 DEF Analysis, WellTyped, Closed, HasCaller
<1>4. Memo' /\ KeptBodies'
  BY <1>1, <1>2 DEF Analysis, Memo, KeptBodies
<1>5. Declares' = Declares
  BY <1>1, <1>2 DEF Declares
<1>6. \A b : HasStatus(b)' = HasStatus(b)
  BY DEF HasStatus
<1> QED BY <1>2, <1>3, <1>4, <1>5, <1>6 DEF Analysis, Guarded

LEMMA HostCallStep ==
  ASSUME IInv, NEW f \in Functions, HostCall(f)
  PROVE  IInv'
<1> USE DEF HostCall
<1>1. Plain(f) \in Bodies /\ Plain(f).copy = "plain" /\ Plain(f).fn = f
  BY DEF Plain, Bodies
<1>2. stack' \in Seq(Bodies) /\ Len(stack') = 1 /\ stack'[1] = Plain(f)
  BY <1>1
<1>3. TypeOK'
  BY <1>2 DEF IInv, TypeOK, source, walk, Infallible
<1>4. Analysis' /\ \A b : HasStatus(b)' = HasStatus(b) /\ Guarded(b)' = Guarded(b)
  BY RunKeepsAnalysis DEF IInv
<1>5. Frames'
  <2>1. \A j \in 1..Len(stack') : stack'[j] = Plain(f)
    BY <1>2
  <2>2. 2..Len(stack') = {}
    BY <1>2
  <2>3. f \in fallible => Guarded(Plain(f))
    BY <1>1 DEF Guarded, HasStatus
  <2>4. fallible' = fallible
    BY DEF source
  <2> QED BY <1>1, <1>4, <2>1, <2>2, <2>3, <2>4 DEF Frames
<1>6. Outcome'
  BY <1>2 DEF Outcome
<1>7. phase' = "ready"
  OBVIOUS
<1> QED BY <1>3, <1>4, <1>5, <1>6, <1>7 DEF IInv

LEMMA EnterStep ==
  ASSUME IInv, NEW c \in Bodies, Enter(c)
  PROVE  IInv'
<1> USE DEF Enter, Running
<1> DEFINE n == Len(stack)
           b == Top
<1>0. n \in Nat \ {0} /\ b = stack[n] /\ b \in Bodies /\ c \in Named(b)
  BY DEF Top, IInv, TypeOK
<1>1. /\ stack' \in Seq(Bodies) /\ Len(stack') = n + 1 /\ stack'[n + 1] = c
      /\ \A j \in 1..n : stack'[j] = stack[j]
  BY <1>0 DEF IInv, TypeOK
<1>2. TypeOK'
  BY <1>1 DEF IInv, TypeOK, source, walk, Infallible
<1>3. /\ Analysis' /\ Declares' = Declares /\ checked' = checked
      /\ \A d : HasStatus(d)' = HasStatus(d) /\ Guarded(d)' = Guarded(d)
  BY RunKeepsAnalysis DEF IInv
<1>4. fallible' = fallible /\ TypeOK /\ Analysis /\ phase = "ready"
  BY DEF source, IInv
<1>5. b.copy = "checked" => b.fn \in checked /\ Declares /\ \E h \in 1..n : stack[h].fn \in fallible
  BY <1>0 DEF IInv, Frames
<1> HIDE DEF n, b, Enter, Running
<1>6. ASSUME NEW j \in 1..(n + 1), NEW h \in 1..j, stack'[h].fn \in fallible
      PROVE  Guarded(stack'[j])
  <2>1. CASE j # n + 1
    BY <2>1, <1>0, <1>1, <1>6 DEF IInv, Frames, n
  <2>2. CASE j = n + 1 /\ h = n + 1
    BY <2>2, <1>1, <1>6 DEF Guarded, HasStatus
  <2>3. CASE j = n + 1 /\ h # n + 1
    <3>1. Guarded(b)
      BY <2>3, <1>0, <1>1, <1>6 DEF IInv, Frames, n
    <3>2. Guarded(c)
      BY <3>1, <1>0, <1>4, <1>5, NamedIsGuarded
    <3> QED BY <3>2, <2>3, <1>1
  <2> QED BY <2>1, <2>2, <2>3
<1>7. ASSUME NEW j \in 1..(n + 1), stack'[j].copy = "checked"
      PROVE  /\ stack'[j].fn \in checked /\ Declares
             /\ \E h \in 1..j : stack'[h].fn \in fallible
  <2>1. CASE j # n + 1
    <3>1. j \in 1..n /\ stack'[j] = stack[j] /\ \A h \in 1..j : stack'[h] = stack[h]
      BY <2>1, <1>0, <1>1
    <3> QED BY <3>1, <1>7 DEF IInv, Frames, n
  <2>2. CASE j = n + 1
    <3>1. HasStatus(c)
      BY <2>2, <1>1, <1>7 DEF HasStatus
    <3>2. HasStatus(b) /\ c.fn \in checked /\ c.fn \in Callees(b.fn)
      BY <3>1, <2>2, <1>0, <1>1, <1>4, <1>7, NamedByStatus
    <3>3. CASE b.fn \in fallible
      <4>1. Declares
        BY <3>2, <3>3 DEF Declares
      <4>2. n \in 1..j /\ stack'[n] = b
        BY <2>2, <1>0, <1>1
      <4> QED BY <4>1, <4>2, <3>2, <3>3, <2>2, <1>1
    <3>4. CASE b.fn \notin fallible
      <4>1. b.copy = "checked"
        BY <3>2, <3>4 DEF HasStatus
      <4>2. PICK h \in 1..n : stack[h].fn \in fallible
        BY <4>1, <1>5
      <4>3. h \in 1..j /\ stack'[h] = stack[h]
        BY <2>2, <1>0, <1>1
      <4> QED BY <4>1, <4>2, <4>3, <1>5, <3>2, <2>2, <1>1
    <3> QED BY <3>3, <3>4
  <2> QED BY <2>1, <2>2
<1>8. ASSUME NEW j \in 2..(n + 1), HasStatus(stack'[j])
      PROVE  HasStatus(stack'[j - 1])
  <2>1. CASE j # n + 1
    <3>1. j \in 2..n /\ stack'[j] = stack[j] /\ stack'[j - 1] = stack[j - 1]
      BY <2>1, <1>0, <1>1
    <3> QED BY <3>1, <1>8 DEF IInv, Frames, n
  <2>2. CASE j = n + 1
    <3>1. stack'[j] = c /\ stack'[j - 1] = b
      BY <2>2, <1>0, <1>1
    <3> QED BY <3>1, <1>0, <1>4, <1>8, NamedByStatus
  <2> QED BY <2>1, <2>2
<1>9. Frames'
  BY <1>1, <1>3, <1>4, <1>6, <1>7, <1>8 DEF Frames
<1>10. event' = "none" /\ status' = status /\ phase' = "ready"
  BY <1>4 DEF Enter
<1>11. Outcome'
  BY <1>10, <1>3 DEF Outcome, IInv
<1> QED BY <1>2, <1>3, <1>9, <1>10, <1>11 DEF IInv

LEMMA OverflowStep ==
  ASSUME IInv, Overflow
  PROVE  IInv'
<1> USE DEF Overflow, Running
<1>0. /\ stack # <<>> /\ Top = stack[Len(stack)] /\ Len(stack) \in 1..Len(stack)
      /\ Top \in Bodies
  BY DEF Top, IInv, TypeOK
<1>1. TypeOK'
  BY DEF IInv, TypeOK, source, walk, Infallible
<1>2. /\ Analysis' /\ Declares' = Declares /\ checked' = checked
      /\ \A d : HasStatus(d)' = HasStatus(d) /\ Guarded(d)' = Guarded(d)
  BY RunKeepsAnalysis DEF IInv
<1>3. Frames'
  BY <1>2 DEF IInv, Frames, source
<1>4. HasStatus(Top) => Declares
  <2>1. CASE Top.fn \in fallible
    BY <2>1 DEF Declares
  <2>2. CASE Top.copy = "checked"
    BY <2>2, <1>0 DEF IInv, Frames
  <2> QED BY <2>1, <2>2 DEF HasStatus
<1>5. Top' = Top /\ overflows' = overflows
  BY DEF Top, source
<1>6. Outcome'
  BY <1>0, <1>2, <1>4, <1>5 DEF IInv, Outcome
<1> QED BY <1>1, <1>2, <1>3, <1>6 DEF IInv

\* Frames only speaks of what lies below a body, so it survives an unwind.
LEMMA UnwindKeepsFrames ==
  ASSUME IInv, stack # <<>>, stack' = Unwound, UNCHANGED <<source, phase, walk>>
  PROVE  /\ Frames'
         /\ stack' \in Seq(Bodies)
         /\ Len(stack) = 1 => stack' = <<>>
         /\ Len(stack) # 1 /\ HasStatus(Top) => stack' # <<>> /\ HasStatus(Top')
<1>1. stack \in Seq(Bodies) /\ Len(stack) \in Nat \ {0}
  BY DEF IInv, TypeOK
<1>2. PICK m \in Nat : m = Len(stack) - 1
  BY <1>1
<1>3. /\ stack' \in Seq(Bodies) /\ Len(stack') = m
      /\ \A j \in 1..m : stack'[j] = stack[j]
  BY <1>1, <1>2, SubSeqProperties DEF Unwound
<1>4. /\ Declares' = Declares /\ checked' = checked /\ fallible' = fallible
      /\ \A d : HasStatus(d)' = HasStatus(d) /\ Guarded(d)' = Guarded(d)
  BY RunKeepsAnalysis DEF IInv, source
<1>5. \A j \in 1..m : j \in 1..Len(stack) /\ \A h \in 1..j : h \in 1..m
  BY <1>1, <1>2
<1>6. \A j \in 2..m : j \in 2..Len(stack) /\ j \in 1..m /\ j - 1 \in 1..m
  BY <1>1, <1>2
<1>7. Frames'
  BY <1>3, <1>4, <1>5, <1>6 DEF IInv, Frames
<1>8. Len(stack) = 1 => stack' = <<>>
  BY <1>2, <1>3
<1>9. ASSUME Len(stack) # 1, HasStatus(Top) PROVE stack' # <<>> /\ HasStatus(Top')
  <2>1. m \in 1..m /\ Len(stack) \in 2..Len(stack) /\ Len(stack) - 1 = m
    BY <1>1, <1>2, <1>9
  <2>2. HasStatus(stack[m])
    BY <2>1, <1>9 DEF IInv, Frames, Top
  <2>3. Top' = stack[m]
    BY <2>1, <1>3 DEF Top
  <2>4. stack' # <<>>
    BY <2>1, <1>3
  <2> QED BY <2>2, <2>3, <2>4
<1> QED BY <1>3, <1>7, <1>8, <1>9

LEMMA ReturnStep ==
  ASSUME IInv, Return
  PROVE  IInv'
<1> USE DEF Return, Running
<1>1. Frames' /\ stack' \in Seq(Bodies)
  BY UnwindKeepsFrames
<1>2. TypeOK'
  BY <1>1 DEF IInv, TypeOK, source, walk, Infallible
<1>3. Analysis' /\ Declares' = Declares
  BY RunKeepsAnalysis DEF IInv
<1>4. Outcome'
  BY <1>3 DEF IInv, Outcome
<1> QED BY <1>1, <1>2, <1>3, <1>4 DEF IInv

LEMMA PropagateStep ==
  ASSUME IInv, Propagate
  PROVE  IInv'
<1> USE DEF Propagate
<1>1. Frames' /\ stack' \in Seq(Bodies)
  BY UnwindKeepsFrames
<1>2. TypeOK'
  BY <1>1 DEF IInv, TypeOK, source, walk, Infallible
<1>3. /\ Analysis' /\ Declares' = Declares
      /\ \A d : HasStatus(d)' = HasStatus(d) /\ Guarded(d)' = Guarded(d)
  BY RunKeepsAnalysis DEF IInv
<1>4. HasStatus(Top) /\ Declares
  BY DEF IInv, Outcome
<1>5. Outcome'
  <2>1. CASE Len(stack) = 1
    BY <2>1, <1>3, <1>4 DEF Outcome
  <2>2. CASE Len(stack) # 1
    <3>1. stack' # <<>> /\ HasStatus(Top')
      BY <2>2, <1>4, UnwindKeepsFrames
    <3>2. HasStatus(Top)'
      BY <3>1, <1>3
    <3> QED BY <2>2, <3>1, <3>2, <1>3, <1>4 DEF IInv, Outcome
  <2> QED BY <2>1, <2>2
<1> QED BY <1>1, <1>2, <1>3, <1>5 DEF IInv

LEMMA StutterStep == ASSUME IInv, UNCHANGED vars PROVE IInv'
<1> USE DEF vars, runtime
<1>1. TypeOK'
  BY DEF IInv, TypeOK, source, walk, Infallible
<1>2. /\ Analysis' /\ Declares' = Declares /\ checked' = checked
      /\ \A d : HasStatus(d)' = HasStatus(d) /\ Guarded(d)' = Guarded(d)
  BY RunKeepsAnalysis DEF IInv
<1>3. Frames'
  BY <1>2 DEF IInv, Frames, source
<1>4. Top' = Top /\ overflows' = overflows
  BY DEF Top, source
<1>5. Outcome'
  BY <1>2, <1>4 DEF IInv, Outcome
<1> QED BY <1>1, <1>2, <1>3, <1>5 DEF IInv, Idle

LEMMA InitIInv == Init => IInv
<1> SUFFICES ASSUME Init PROVE IInv
  OBVIOUS
<1>1. TypeOK /\ Analysis
  BY InitAnalysis
<1>2. Idle /\ Len(stack) = 0 /\ phase # "ready"
  BY DEF Init, Idle
<1>3. Frames /\ Outcome
  BY <1>2 DEF Frames, Outcome, Idle
<1> QED BY <1>1, <1>2, <1>3 DEF IInv

LEMMA StepIInv == IInv /\ [Next]_vars => IInv'
BY CompileStep, HostCallStep, EnterStep, OverflowStep, ReturnStep, PropagateStep,
   StutterStep DEF Next, Execute

LEMMA Invariance == Spec => []IInv
BY InitIInv, StepIInv, PTL DEF Spec

----------------------------------------------------------------------------
(* The theorems.                                                            *)

\* The analyses and the bodies in progress keep their types.
THEOREM TypeCorrect == Spec => []TypeOK
BY Invariance, PTL DEF IInv

\* checked_helpers and emit_expr's choice of callee together do what LANGUAGE.md
\* promises: whether an overflow fails or wraps is decided by the call path alone.
THEOREM PathDecidesAlways == Spec => []PathDecides
<1>1. IInv => PathDecides
  <2> SUFFICES ASSUME IInv PROVE PathDecides
    OBVIOUS
  <2>1. ASSUME event \in {"wrapped", "raised"}
        PROVE  Len(stack) \in 1..Len(stack) /\ Top = stack[Len(stack)]
    BY <2>1 DEF IInv, Outcome, TypeOK, Top
  <2>2. ASSUME event = "wrapped", UnderFallible PROVE FALSE
    <3>1. Guarded(Top)
      BY <2>1, <2>2 DEF IInv, Frames, UnderFallible
    <3>2. Top.fn \in Harmless /\ Top.fn \in overflows
      BY <3>1, <2>2 DEF IInv, Outcome, Guarded
    <3> QED BY <3>2 DEF IInv, Analysis, Memo
  <2>3. ASSUME event = "raised" PROVE UnderFallible
    <3>1. CASE Top.fn \in fallible
      BY <3>1, <2>1, <2>3 DEF UnderFallible
    <3>2. CASE Top.copy = "checked"
      BY <3>2, <2>1, <2>3 DEF IInv, Frames, UnderFallible
    <3> QED BY <3>1, <3>2, <2>3 DEF IInv, Outcome, HasStatus
  <2> QED BY <2>2, <2>3 DEF PathDecides
<1> QED BY <1>1, Invariance, PTL

\* The body an error is handed to has a status to propagate it with: the arm of
\* RetAbi::propagate for plain bodies is never taken.
THEOREM RaisedIsCaughtAlways == Spec => []RaisedIsCaught
<1>1. IInv => RaisedIsCaught
  BY DEF IInv, Outcome, RaisedIsCaught
<1> QED BY <1>1, Invariance, PTL

\* A host sees ML_ST_OVERFLOW only from a module whose bindings name it
\* (module_can_fail_overflow).
THEOREM StatusIsDeclaredAlways == Spec => []StatusIsDeclared
<1>1. IInv => StatusIsDeclared
  BY DEF IInv, Outcome, StatusIsDeclared
<1> QED BY <1>1, Invariance, PTL

\* plain_bodies and checked_helpers emit every body that the emitted text names.
THEOREM LinkedAlways == Spec => []Linked
<1>1. IInv => Linked
  <2> SUFFICES ASSUME IInv, phase = "ready", NEW b \in Emitted, NEW c \in Named(b)
               PROVE  c \in Emitted
    BY DEF Linked
  <2>0. /\ fallible \subseteq keep /\ Functions \ checked \subseteq keep
        /\ \A f \in keep : Called(f) \subseteq keep
        /\ keep \subseteq Functions /\ checked \subseteq Infallible
    BY DEF IInv, TypeOK, Analysis, KeptBodies, Analysed, Kept, checked
  <2>1. b.fn \in Functions /\ (HasStatus(b) \/ b.fn \in keep)
    BY <2>0 DEF Emitted, Plain, Check, Infallible, HasStatus
  <2>2. CASE c \in {Plain(g) : g \in Tries(b.fn)}
    BY <2>2, <2>0 DEF Tries, Emitted
  <2>3. CASE c \in {Target(b, g) : g \in Callees(b.fn)}
    <3>1. PICK g \in Callees(b.fn) : c = Target(b, g)
      BY <2>3
    <3>2. g \in Functions
      BY <2>1, <3>1 DEF IInv, TypeOK, Callees
    <3>3. CASE HasStatus(b) /\ g \in checked
      BY <3>1, <3>3 DEF Target, Emitted
    <3>4. CASE g \notin checked
      BY <3>1, <3>2, <3>4, <2>0 DEF Target, Emitted
    <3>5. CASE ~HasStatus(b) /\ g \in checked
      <4>1. g \in Called(b.fn)
        BY <3>1, <3>5 DEF Called, HasStatus
      <4> QED BY <4>1, <3>1, <3>5, <2>0, <2>1 DEF Target, Emitted
    <3> QED BY <3>3, <3>4, <3>5
  <2> QED BY <2>2, <2>3 DEF Named
<1> QED BY <1>1, Invariance, PTL

\* And nothing more than that of a helper's two copies (DP-P8).
THEOREM NoDeadCopyAlways == Spec => []NoDeadCopy
<1>1. IInv => NoDeadCopy
  <2> SUFFICES ASSUME IInv, phase = "ready", NEW f \in checked
               PROVE  /\ \E b \in Emitted : Check(f) \in Named(b)
                      /\ f \in keep \ exported => \E b \in Emitted : Plain(f) \in Named(b)
    BY DEF NoDeadCopy
  <2>0. /\ f \in reached /\ f \notin fallible /\ f \in Functions
        /\ fallible \subseteq keep /\ Harmless = reached \ checked
    BY DEF IInv, TypeOK, Analysis, KeptBodies, Memo, Analysed, Kept, Harmless, checked, Infallible
  <2>1. PICK g \in fallible \union reached : f \in Callees(g)
    BY <2>0 DEF IInv, Analysis, HasCaller
  <2>2. \E b \in Emitted : Check(f) \in Named(b)
    <3>1. CASE g \in fallible
      <4>1. Plain(g) \in Emitted
        BY <3>1, <2>0 DEF Emitted
      <4>2. Target(Plain(g), f) = Check(f) /\ Plain(g).fn = g
        BY <3>1 DEF Target, HasStatus, Plain
      <4> QED BY <4>1, <4>2, <2>1 DEF Named
    <3>2. CASE g \notin fallible
      <4>1. g \in checked
        BY <2>0, <2>1, <3>2 DEF IInv, Analysis, Memo
      <4>2. Check(g) \in Emitted
        BY <4>1 DEF Emitted
      <4>3. Target(Check(g), f) = Check(f) /\ Check(g).fn = g
        BY DEF Target, HasStatus, Check
      <4> QED BY <4>2, <4>3, <2>1 DEF Named
    <3> QED BY <3>1, <3>2
  <2>3. ASSUME f \in keep \ exported PROVE \E b \in Emitted : Plain(f) \in Named(b)
    <3>1. PICK h \in keep \ fallible : f \in Callees(h)
      BY <2>0, <2>3 DEF IInv, Analysis, KeptBodies, Kept
    <3>2. Plain(h) \in Emitted
      BY <3>1 DEF Emitted
    <3>3. Target(Plain(h), f) = Plain(f) /\ Plain(h).fn = h
      BY <3>1 DEF Target, HasStatus, Plain
    <3> QED BY <3>1, <3>2, <3>3 DEF Named
  <2> QED BY <2>2, <2>3
<1> QED BY <1>1, Invariance, PTL

-----------------------------------------------------------------------------
(* The walk.                                                               *)

Done == {f \in Functions : mark[f] = "done"}

\* What the j-th frame has to offer.
Offer(j) == IF j = 1 THEN Functions ELSE collect_calls(path[j - 1])

Offered ==
  /\ \A j \in 1..Len(left) : left[j] \subseteq Offer(j)
  /\ \A j \in 1..Len(path) : path[j] \in Offer(j)
  /\ \A j \in 1..Len(left) :
       Offer(j) \ left[j] \subseteq Done \union {path[k] : k \in {j} \intersect 1..Len(path)}

Ranked ==
  \A f \in Done : /\ rank[f] < finished
                  /\ \A g \in collect_calls(f) : g \in Done /\ rank[g] < rank[f]

Descending ==
  /\ verdict # "accepted" => stack = <<>>
  /\ verdict = "accepted" => Done = Functions
  /\ \A j, k \in 1..Len(stack) : j < k => rank[stack[k].fn] < rank[stack[j].fn]

RInv == IInv /\ RecursionTypeOK /\ Offered /\ Ranked /\ Descending /\ CycleIsReal

----------------------------------------------------------------------------

LEMMA CallsAreFunctions ==
  ASSUME IInv, NEW f \in Functions
  PROVE  collect_calls(f) \subseteq Functions /\ collect_calls(f) = calls[f]
BY DEF IInv, TypeOK, collect_calls, Callees, Tries

LEMMA InitRInv == RecursionInit => RInv
<1> SUFFICES ASSUME RecursionInit PROVE RInv
  OBVIOUS
<1> USE DEF RecursionInit
<1>1. IInv
  BY InitIInv
<1>2. /\ path \in Seq(Functions) /\ Len(path) = 0 /\ cycle \in Seq(Functions)
      /\ left \in Seq(SUBSET Functions) /\ Len(left) = 1 /\ left[1] = Functions
      /\ stack = <<>> /\ Len(stack) = 0
  BY DEF Init
<1>3. Done = {}
  BY DEF Done
<1>4. RecursionTypeOK
  BY <1>2 DEF RecursionTypeOK
<1>5. Offered
  BY <1>2 DEF Offered, Offer
<1>6. Ranked
  BY <1>3 DEF Ranked
<1>7. Descending /\ CycleIsReal
  BY <1>2 DEF Descending, CycleIsReal
<1> QED BY <1>1, <1>4, <1>5, <1>6, <1>7 DEF RInv

\* The walk reads the compiler's variables and leaves them alone.
LEMMA SearchKeepsCompiler ==
  ASSUME RInv, UNCHANGED vars
  PROVE  /\ IInv' /\ stack' = stack /\ calls' = calls
         /\ \A f : collect_calls(f)' = collect_calls(f)
BY StepIInv DEF RInv, vars, source, runtime, collect_calls, Callees, Tries

LEMMA TakenProperties ==
  ASSUME RecursionTypeOK, NEW f
  PROVE  /\ Depth = Len(path) + 1 /\ Len(path) \in Nat
         /\ Taken(f) \in Seq(SUBSET Functions) /\ Len(Taken(f)) = Depth
         /\ \A j \in 1..Depth :
              Taken(f)[j] = IF j = Depth THEN left[j] \ {f} ELSE left[j]
<1>1. /\ left \in Seq(SUBSET Functions) /\ Len(left) = Depth
      /\ Depth = Len(path) + 1 /\ Len(path) \in Nat /\ Depth \in 1..Depth
  BY DEF RecursionTypeOK, Depth
<1>2. left[Depth] \ {f} \in SUBSET Functions
  BY <1>1
<1>3. Taken(f) = [left EXCEPT ![Depth] = left[Depth] \ {f}]
  BY DEF Taken
<1> HIDE DEF Depth
<1>4. /\ Taken(f) \in Seq(SUBSET Functions) /\ Len(Taken(f)) = Depth
      /\ \A j \in 1..Depth :
           Taken(f)[j] = IF j = Depth THEN left[Depth] \ {f} ELSE left[j]
  BY <1>1, <1>2, <1>3, ExceptSeq
<1> QED BY <1>1, <1>4

\* A step that leaves the path and the marks alone.
LEMMA SkipStep ==
  ASSUME RInv, NEW f \in Functions, Skip(f), UNCHANGED vars
  PROVE  RInv'
<1>1. /\ IInv' /\ stack' = stack /\ calls' = calls
      /\ \A g : collect_calls(g)' = collect_calls(g)
  BY SearchKeepsCompiler
<1> DEFINE d == Depth
<1>2. /\ left' \in Seq(SUBSET Functions) /\ Len(left') = d /\ Len(left) = d
      /\ \A j \in 1..d : left'[j] = IF j = d THEN left[j] \ {f} ELSE left[j]
      /\ d = Len(path) + 1 /\ Len(path) \in Nat
  <2>1. left' = Taken(f) /\ Depth = Len(left)
    BY DEF Skip, Depth
  <2> HIDE DEF Depth, Taken
  <2> QED BY <2>1, TakenProperties DEF RInv
<1>3. UNCHANGED <<verdict, mark, path, cycle, rank, finished>>
  BY DEF Skip
<1>4. Done' = Done /\ f \in Done
  BY DEF Skip, Done
<1> HIDE DEF d
<1>5. RecursionTypeOK'
  BY <1>2, <1>3 DEF RInv, RecursionTypeOK
<1>6. \A j : Offer(j)' = Offer(j)
  BY <1>1, <1>3 DEF Offer
<1>7. Offered'
  <2>1. /\ \A j \in 1..d : left[j] \subseteq Offer(j)
        /\ \A j \in 1..d :
             Offer(j) \ left[j] \subseteq Done \union {path[k] : k \in {j} \intersect 1..Len(path)}
    BY <1>2 DEF RInv, Offered
  <2>2. \A j \in 1..d : left'[j] \subseteq Offer(j)
    BY <2>1, <1>2
  <2>3. \A j \in 1..d :
          Offer(j) \ left'[j] \subseteq Done \union {path[k] : k \in {j} \intersect 1..Len(path)}
    BY <2>1, <1>2, <1>4
  <2>4. \A j \in 1..Len(path) : path[j] \in Offer(j)
    BY DEF RInv, Offered
  <2> QED BY <2>2, <2>3, <2>4, <1>2, <1>3, <1>4, <1>6 DEF Offered
<1>8. Ranked'
  BY <1>1, <1>3, <1>4 DEF RInv, Ranked
<1>9. Descending' /\ CycleIsReal'
  BY <1>1, <1>3, <1>4 DEF RInv, Descending, CycleIsReal
<1> QED BY <1>1, <1>5, <1>7, <1>8, <1>9 DEF RInv

LEMMA DescendStep ==
  ASSUME RInv, NEW f \in Functions, Descend(f), UNCHANGED vars
  PROVE  RInv'
<1>1. /\ IInv' /\ stack' = stack /\ calls' = calls
      /\ \A g : collect_calls(g)' = collect_calls(g)
  BY SearchKeepsCompiler
<1>2. collect_calls(f) \subseteq Functions
  BY CallsAreFunctions DEF RInv
<1> DEFINE d == Depth
           n == Len(path)
<1>3. /\ path \in Seq(Functions) /\ n \in Nat /\ d = n + 1 /\ Len(left) = d
      /\ f \in left[d] /\ mark[f] = "none"
      /\ \A g \in Functions : mark[g] = "doing" <=> \E j \in 1..n : path[j] = g
      /\ \A j, k \in 1..n : path[j] = path[k] => j = k
  BY DEF RInv, RecursionTypeOK, Descend, Depth
<1>4. /\ left' = Append(Taken(f), collect_calls(f))
      /\ path' = Append(path, f)
      /\ UNCHANGED <<verdict, cycle, rank, finished>>
  BY DEF Descend
<1>5. /\ Taken(f) \in Seq(SUBSET Functions) /\ Len(Taken(f)) = d
      /\ \A j \in 1..d : Taken(f)[j] = IF j = d THEN left[j] \ {f} ELSE left[j]
  BY TakenProperties DEF RInv
<1> HIDE DEF d, n
<1>6. /\ left' \in Seq(SUBSET Functions) /\ Len(left') = d + 1
      /\ \A j \in 1..d : left'[j] = IF j = d THEN left[j] \ {f} ELSE left[j]
      /\ left'[d + 1] = collect_calls(f)
  <2>1. collect_calls(f) \in SUBSET Functions /\ d \in Nat
    BY <1>2, <1>3
  <2>2. /\ left' \in Seq(SUBSET Functions) /\ Len(left') = Len(Taken(f)) + 1
        /\ \A j \in 1..Len(Taken(f)) : left'[j] = Taken(f)[j]
        /\ left'[Len(Taken(f)) + 1] = collect_calls(f)
    BY <2>1, <1>4, <1>5, AppendProperties
  <2> QED BY <2>2, <1>5
<1>7. /\ path' \in Seq(Functions) /\ Len(path') = d
      /\ \A j \in 1..n : path'[j] = path[j]
      /\ path'[d] = f
  BY <1>3, <1>4, AppendProperties DEF n
<1>8. /\ mark' \in [Functions -> {"none", "doing", "done"}] /\ Done' = Done
      /\ \A g \in Functions : mark'[g] = IF g = f THEN "doing" ELSE mark[g]
  BY DEF Descend, RInv, RecursionTypeOK, Done
<1>9. \A j \in 1..d : j \in 1..n \/ j = d
  BY <1>3
<1>10. d \in 1..d /\ \A j \in 1..n : j \in 1..d /\ j # d /\ path[j] # f
  BY <1>3
<1>11. RecursionTypeOK'
  <2>1. \A g \in Functions : (mark'[g] = "doing") <=> \E j \in 1..d : path'[j] = g
    BY <1>3, <1>7, <1>8, <1>9, <1>10
  <2>2. \A j, k \in 1..d : path'[j] = path'[k] => j = k
    BY <1>3, <1>7, <1>9, <1>10
  <2>3. DOMAIN path' = 1..d /\ Len(left') = Len(path') + 1
    BY <1>3, <1>6, <1>7
  <2>4. /\ verdict \in {"walking", "refused", "accepted"} /\ cycle \in Seq(Functions)
        /\ rank \in [Functions -> Nat] /\ finished \in Nat
    BY DEF RInv, RecursionTypeOK
  <2>5. verdict' = verdict /\ cycle' = cycle /\ rank' = rank /\ finished' = finished
    BY <1>4
  <2> QED BY <2>1, <2>2, <2>3, <2>4, <2>5, <1>6, <1>7, <1>8 DEF RecursionTypeOK
<1>12. /\ \A j \in 1..d : Offer(j)' = Offer(j)
       /\ \A j : j = d + 1 => Offer(j)' = collect_calls(f)
  <2>1. ASSUME NEW j \in 1..d PROVE Offer(j)' = Offer(j)
    <3>1. j = 1 \/ j - 1 \in 1..n
      BY <1>3
    <3>2. CASE j = 1
      BY <3>2 DEF Offer
    <3>3. CASE j # 1
      <4>1. path'[j - 1] = path[j - 1]
        BY <3>1, <3>3, <1>7
      <4> QED BY <4>1, <3>3, <1>1 DEF Offer
    <3> QED BY <3>2, <3>3
  <2>2. ASSUME NEW j, j = d + 1 PROVE Offer(j)' = collect_calls(f)
    <3>1. j # 1 /\ path'[j - 1] = f
      BY <2>2, <1>3, <1>7
    <3> QED BY <3>1, <1>1 DEF Offer
  <2> QED BY <2>1, <2>2
<1>13. /\ \A j \in 1..d : left[j] \subseteq Offer(j)
       /\ \A j \in 1..n : path[j] \in Offer(j)
       /\ \A j \in 1..n : Offer(j) \ left[j] \subseteq Done \union {path[j]}
       /\ Offer(d) \ left[d] \subseteq Done
  BY <1>3, <1>9, <1>10 DEF RInv, Offered, n
<1>14. Offered'
  <2>1. ASSUME NEW j \in 1..(d + 1) PROVE left'[j] \subseteq Offer(j)'
    <3>1. CASE j = d + 1
      BY <3>1, <1>6, <1>12
    <3>2. CASE j # d + 1
      <4>1. j \in 1..d
        BY <3>2, <1>3
      <4> QED BY <4>1, <1>6, <1>12, <1>13
    <3> QED BY <3>1, <3>2
  <2>2. ASSUME NEW j \in 1..d PROVE path'[j] \in Offer(j)'
    <3>1. CASE j = d
      BY <3>1, <1>3, <1>7, <1>12, <1>13
    <3>2. CASE j # d
      BY <3>2, <1>7, <1>9, <1>12, <1>13
    <3> QED BY <3>1, <3>2
  <2>3. ASSUME NEW j \in 1..(d + 1)
        PROVE  Offer(j)' \ left'[j] \subseteq Done' \union {path'[k] : k \in {j} \intersect 1..d}
    <3>1. CASE j = d + 1
      BY <3>1, <1>6, <1>12
    <3>2. CASE j = d
      <4>1. Offer(j)' = Offer(d) /\ left'[j] = left[d] \ {f} /\ path'[d] = f /\ d \in 1..d
        BY <3>2, <1>6, <1>7, <1>10, <1>12
      <4> QED BY <3>2, <4>1, <1>8, <1>13
    <3>3. CASE j \in 1..n
      <4>1. /\ Offer(j)' = Offer(j) /\ left'[j] = left[j] /\ path'[j] = path[j] /\ j \in 1..d
        BY <3>3, <1>6, <1>7, <1>10, <1>12
      <4> QED BY <3>3, <4>1, <1>8, <1>13
    <3> QED BY <3>1, <3>2, <3>3, <1>3
  <2> QED BY <2>1, <2>2, <2>3, <1>6, <1>7 DEF Offered
<1>15. Ranked'
  BY <1>1, <1>4, <1>8 DEF RInv, Ranked
<1>16. Descending' /\ CycleIsReal'
  BY <1>1, <1>4, <1>8 DEF RInv, Descending, CycleIsReal
<1> QED BY <1>1, <1>11, <1>14, <1>15, <1>16 DEF RInv

LEMMA LeaveStep ==
  ASSUME RInv, Leave, UNCHANGED vars
  PROVE  RInv'
<1> USE DEF Leave
<1>1. /\ IInv' /\ stack' = stack /\ calls' = calls
      /\ \A g : collect_calls(g)' = collect_calls(g)
  BY SearchKeepsCompiler
<1> DEFINE d == Len(path)
           f == path[d]
<1>2. /\ path \in Seq(Functions) /\ left \in Seq(SUBSET Functions) /\ Len(left) = d + 1
      /\ d \in Nat /\ d > 0 /\ Depth = d + 1 /\ left[d + 1] = {} /\ f \in Functions
      /\ \A j \in 1..d : path[j] \in Functions
      /\ \A j \in 1..(d + 1) : left[j] \in SUBSET Functions
  BY DEF RInv, RecursionTypeOK, Depth
<1>3. /\ path' \in Seq(Functions) /\ Len(path') = d - 1
      /\ \A j \in 1..(d - 1) : path'[j] = path[j]
  <2>1. path' = SubSeq(path, 1, d - 1)
    BY DEF Back
  <2>2. 1 \in 1..(Len(path) + 1) /\ d - 1 \in 0..Len(path) /\ d - 1 = (d - 1) - 1 + 1
    BY <1>2
  <2>3. path \in Seq(Functions) /\ 1..Len(path) = 1..d
    BY <1>2
  <2> HIDE DEF d, Leave
  <2> QED BY <1>2, <2>1, <2>2, <2>3, SubSeqProperties
<1>4. /\ left' \in Seq(SUBSET Functions) /\ Len(left') = d
      /\ \A j \in 1..d : left'[j] = left[j]
  <2>1. left' = SubSeq(left, 1, d)
    BY <1>2
  <2>2. 1 \in 1..(Len(left) + 1) /\ d \in 0..Len(left) /\ d = d - 1 + 1
    BY <1>2
  <2> HIDE DEF d, Leave
  <2> QED BY <1>2, <2>1, <2>2, SubSeqProperties
<1>5. /\ mark' \in [Functions -> {"none", "doing", "done"}]
      /\ \A g \in Functions : mark'[g] = IF g = f THEN "done" ELSE mark[g]
      /\ rank' \in [Functions -> Nat] /\ finished \in Nat
      /\ \A g \in Functions : rank'[g] = IF g = f THEN finished ELSE rank[g]
  BY <1>2 DEF RInv, RecursionTypeOK
<1>6. Done' = Done \union {f} /\ f \notin Done
  BY <1>2, <1>5 DEF RInv, RecursionTypeOK, Done
<1>7. \A j \in 1..(d - 1) : path[j] # f
  BY <1>2 DEF RInv, RecursionTypeOK
<1>7a. /\ \A g \in Functions : mark[g] = "doing" <=> \E j \in 1..d : path[j] = g
      /\ \A j, k \in 1..d : path[j] = path[k] => j = k
      /\ f = path[d]
  BY <1>2 DEF RInv, RecursionTypeOK
<1>8. collect_calls(f) \subseteq Done
  <2>1. Offer(d + 1) = collect_calls(f)
    BY <1>2 DEF Offer
  <2> QED BY <2>1, <1>2 DEF RInv, Offered
<1> HIDE DEF d, f
<1>9. RecursionTypeOK'
  <2>1. \A g \in Functions : (mark'[g] = "doing") <=> \E j \in 1..(d - 1) : path'[j] = g
    <3> HIDE DEF Leave
    <3>1. \A j \in 1..d : j \in 1..(d - 1) \/ j = d
      BY <1>2
    <3>2. \A j \in 1..(d - 1) : j \in 1..d
      BY <1>2
    <3>3. \A j \in 1..(d - 1) : path'[j] = path[j] /\ path[j] # f
      BY <1>3, <1>7
    <3> SUFFICES ASSUME NEW g \in Functions
                 PROVE  (mark'[g] = "doing") <=> \E j \in 1..(d - 1) : path'[j] = g
      OBVIOUS
    <3>4. CASE g = f
      BY <3>3, <3>4, <1>5
    <3>5. CASE g # f
      <4>1. (mark'[g] = "doing") <=> \E j \in 1..d : path[j] = g
        BY <3>5, <1>5, <1>7a
      <4>2. path[d] # g
        BY <3>5 DEF f
      <4> QED BY <4>1, <4>2, <3>1, <3>2, <3>3
    <3> QED BY <3>4, <3>5
  <2>2. \A j, k \in 1..(d - 1) : path'[j] = path'[k] => j = k
    <3> HIDE DEF Leave
    <3>1. \A j \in 1..(d - 1) : j \in 1..d /\ path'[j] = path[j]
      BY <1>2, <1>3
    <3> QED BY <1>7a, <3>1
  <2>3. /\ DOMAIN path' = 1..(d - 1) /\ Len(left') = Len(path') + 1 /\ finished' \in Nat
        /\ verdict' = verdict /\ cycle' = cycle
    <3>1. finished' = finished + 1 /\ verdict' = verdict /\ cycle' = cycle
      OBVIOUS
    <3> HIDE DEF Leave
    <3> QED BY <3>1, <1>2, <1>3, <1>4, <1>5
  <2>4. verdict \in {"walking", "refused", "accepted"} /\ cycle \in Seq(Functions)
    BY DEF RInv, RecursionTypeOK
  <2> HIDE DEF Leave
  <2> QED BY <2>1, <2>2, <2>3, <2>4, <1>3, <1>4, <1>5 DEF RecursionTypeOK
<1>10. \A j \in 1..d : Offer(j)' = Offer(j)
  BY <1>1, <1>2, <1>3 DEF Offer
<1>11. Offered'
  <2>1. \A j \in 1..d : left'[j] \subseteq Offer(j)'
    BY <1>2, <1>4, <1>10 DEF RInv, Offered
  <2>2. \A j \in 1..(d - 1) : path'[j] \in Offer(j)'
    BY <1>2, <1>3, <1>10 DEF RInv, Offered, d
  <2>3. ASSUME NEW j \in 1..d
        PROVE  Offer(j)' \ left'[j] \subseteq Done' \union {path'[k] : k \in {j} \intersect 1..(d - 1)}
    <3>1. Offer(j) \ left[j] \subseteq Done \union {path[j]}
      BY <1>2 DEF RInv, Offered, d
    <3>2. CASE j = d
      BY <3>1, <3>2, <1>2, <1>4, <1>6, <1>10 DEF f
    <3>3. CASE j # d
      BY <3>1, <3>3, <1>2, <1>3, <1>4, <1>6, <1>10
    <3> QED BY <3>2, <3>3
  <2> QED BY <2>1, <2>2, <2>3, <1>2, <1>3, <1>4 DEF Offered
<1>12. Ranked'
  <2> SUFFICES ASSUME NEW g \in Done'
               PROVE  /\ rank'[g] < finished'
                      /\ \A h \in collect_calls(g)' : h \in Done' /\ rank'[h] < rank'[g]
    BY DEF Ranked
  <2>0. Done \subseteq Functions /\ finished' = finished + 1
    BY DEF Done
  <2>1. CASE g = f
    BY <2>0, <2>1, <1>1, <1>2, <1>5, <1>6, <1>8 DEF RInv, Ranked
  <2>2. CASE g # f
    <3>1. g \in Done /\ rank'[g] = rank[g] /\ rank[g] < finished /\ rank[g] \in Nat
      BY <2>0, <2>2, <1>5, <1>6 DEF RInv, Ranked, RecursionTypeOK
    <3>2. \A h \in collect_calls(g) : h \in Done /\ rank[h] < rank[g] /\ rank'[h] = rank[h]
      BY <2>0, <3>1, <1>5, <1>6 DEF RInv, Ranked
    <3> QED BY <3>1, <3>2, <2>0, <1>1, <1>5, <1>6
  <2> QED BY <2>1, <2>2
<1>13. Descending' /\ CycleIsReal'
  BY <1>1 DEF RInv, Descending, CycleIsReal
<1> QED BY <1>1, <1>9, <1>11, <1>12, <1>13 DEF RInv

LEMMA RefuseStep ==
  ASSUME RInv, NEW f \in Functions, Refuse(f), UNCHANGED vars
  PROVE  RInv'
<1>1. /\ IInv' /\ stack' = stack /\ calls' = calls
      /\ \A g : collect_calls(g)' = collect_calls(g)
  BY SearchKeepsCompiler
<1> DEFINE n == Len(path)
           s == Start(f)
<1>2. /\ verdict = "walking" /\ verdict' = "refused" /\ f \in left[n + 1]
      /\ cycle' = Append(SubSeq(path, s, n), f)
      /\ UNCHANGED <<mark, path, left, rank, finished>>
  BY DEF Refuse, Depth, RInv, RecursionTypeOK
<1>3. /\ path \in Seq(Functions) /\ n \in Nat /\ Len(left) = n + 1
      /\ \A j \in 1..n : path[j] \in Functions
  BY DEF RInv, RecursionTypeOK
<1>4. s \in 1..n /\ path[s] = f
  <2>1. \E j \in DOMAIN path : path[j] = f
    BY DEF Refuse, RInv, RecursionTypeOK
  <2> QED BY <2>1, <1>3 DEF Start
<1> HIDE DEF n, s
<1> DEFINE seg == SubSeq(path, s, n)
           m == n - s + 1
<1>5. /\ seg \in Seq(Functions) /\ Len(seg) = m /\ m \in Nat /\ m > 0
      /\ \A j \in 1..m : seg[j] = path[s + j - 1]
  <2>1. s \in Int /\ n \in Int /\ s <= n /\ \A j \in s..n : path[j] \in Functions
    BY <1>3, <1>4
  <2> HIDE DEF m
  <2>2. seg \in Seq(Functions) /\ Len(seg) = n - s + 1
        /\ \A j \in 1..(n - s + 1) : seg[j] = path[s + j - 1]
    BY <2>1, SubSeqProperties
  <2> QED BY <2>1, <2>2 DEF m
<1> HIDE DEF seg, m
<1>6. /\ cycle' \in Seq(Functions) /\ Len(cycle') = m + 1
      /\ \A j \in 1..m : cycle'[j] = path[s + j - 1]
      /\ cycle'[m + 1] = f
  <2>1. cycle' = Append(seg, f)
    BY <1>2 DEF seg
  <2> QED BY <2>1, <1>5, AppendProperties
<1>7. /\ \A j \in 1..n : path[j] \in Offer(j)
      /\ f \in Offer(n + 1)
      /\ \A j \in 2..(n + 1) : Offer(j) = calls[path[j - 1]]
  <2>1. \A j \in 1..n : path[j] \in Offer(j)
    BY DEF RInv, Offered, n
  <2>2. f \in Offer(n + 1)
    BY <1>2, <1>3 DEF RInv, Offered
  <2>3. ASSUME NEW j \in 2..(n + 1) PROVE Offer(j) = calls[path[j - 1]]
    <3>1. path[j - 1] \in Functions /\ j # 1
      BY <1>3
    <3> QED BY <3>1, CallsAreFunctions DEF Offer, RInv
  <2> QED BY <2>1, <2>2, <2>3
<1>8. ASSUME NEW j \in 1..m
      PROVE  cycle'[j + 1] \in calls[cycle'[j]]
  <2>1. s + j \in 2..(n + 1) /\ s + j - 1 = (s + j) - 1
    BY <1>3, <1>4 DEF m
  <2>2. Offer(s + j) = calls[cycle'[j]]
    BY <2>1, <1>6, <1>7
  <2>3. cycle'[j + 1] \in Offer(s + j)
    <3>1. CASE j = m
      BY <3>1, <1>3, <1>4, <1>6, <1>7 DEF m
    <3>2. CASE j # m
      <4>1. j + 1 \in 1..m /\ s + (j + 1) - 1 = s + j /\ s + j \in 1..n
        BY <3>2, <1>3, <1>4, <1>5 DEF m
      <4> QED BY <4>1, <1>6, <1>7
    <3> QED BY <3>1, <3>2
  <2> QED BY <2>2, <2>3
<1>9. CycleIsReal'
  <2>1. cycle'[1] = f /\ Len(cycle') > 1 /\ Len(cycle') - 1 = m
    <3>1. 1 \in 1..m /\ s + 1 - 1 = s
      BY <1>3, <1>4, <1>5
    <3> QED BY <3>1, <1>4, <1>5, <1>6
  <2> QED BY <2>1, <1>1, <1>6, <1>8 DEF CycleIsReal
<1>10. RecursionTypeOK'
  BY <1>2, <1>6 DEF RInv, RecursionTypeOK
<1>11. Done' = Done /\ (\A j : Offer(j)' = Offer(j))
  BY <1>1, <1>2 DEF Done, Offer
<1>12. Offered' /\ Ranked'
  BY <1>1, <1>2, <1>11 DEF RInv, Offered, Ranked
<1>13. Descending'
  BY <1>1, <1>2 DEF RInv, Descending
<1> QED BY <1>1, <1>9, <1>10, <1>12, <1>13 DEF RInv

LEMMA AcceptStep ==
  ASSUME RInv, Accept, UNCHANGED vars
  PROVE  RInv'
<1> USE DEF Accept
<1>1. /\ IInv' /\ stack' = stack /\ calls' = calls
      /\ \A g : collect_calls(g)' = collect_calls(g)
  BY SearchKeepsCompiler
<1>2. Done' = Done /\ (\A j : Offer(j)' = Offer(j))
  BY <1>1 DEF Done, Offer
<1>3. Done = Functions
  <2>1. Len(path) = 0 /\ Len(left) = 1 /\ left[1] = {}
    BY DEF RInv, RecursionTypeOK, Depth
  <2>2. Offer(1) \ left[1] \subseteq Done
    BY <2>1 DEF RInv, Offered
  <2> QED BY <2>1, <2>2 DEF Offer, Done
<1>4. RecursionTypeOK'
  BY DEF RInv, RecursionTypeOK
<1>5. Offered' /\ Ranked'
  BY <1>1, <1>2 DEF RInv, Offered, Ranked
<1>6. Descending' /\ CycleIsReal'
  BY <1>1, <1>2, <1>3 DEF RInv, Descending, CycleIsReal
<1> QED BY <1>1, <1>4, <1>5, <1>6 DEF RInv

----------------------------------------------------------------------------
(* The steps of an accepted module.                                         *)

\* A step of HelperChecks leaves the walk and the call graph alone.
LEMMA ModuleStep ==
  ASSUME RInv, Next, UNCHANGED search, Descending'
  PROVE  RInv'
<1>1. IInv'
  BY StepIInv DEF RInv
<1>2. calls' = calls /\ fallible' = fallible
  BY DEF Next, Compile, Execute, Pop, Settle, Keep, AllReached, AllSettled, AllKept,
         HostCall, Enter, Overflow, Return, Propagate, source
<1>3. \A g : collect_calls(g)' = collect_calls(g)
  BY <1>2 DEF collect_calls, Callees, Tries
<1>4. Done' = Done /\ \A j : Offer(j)' = Offer(j)
  BY <1>3 DEF Done, Offer, search
<1>5. RecursionTypeOK' /\ CycleIsReal'
  BY <1>2 DEF RInv, RecursionTypeOK, CycleIsReal, search
<1>6. Offered' /\ Ranked'
  BY <1>3, <1>4 DEF RInv, Offered, Ranked, search
<1> QED BY <1>1, <1>5, <1>6 DEF RInv

\* The body entered has a lower rank than every body below it.
LEMMA EnterDescends ==
  ASSUME RInv, verdict = "accepted", NEW c \in Bodies, Enter(c), UNCHANGED search
  PROVE  Descending'
<1> DEFINE n == Len(stack)
           b == Top
<1>1. /\ n \in Nat \ {0} /\ b = stack[n] /\ b \in Bodies /\ c \in Named(b)
      /\ \A j \in 1..n : stack[j] \in Bodies
  BY DEF Enter, Running, Top, RInv, IInv, TypeOK
<1>2. /\ Len(stack') = n + 1 /\ stack'[n + 1] = c
      /\ \A j \in 1..n : stack'[j] = stack[j]
  BY DEF Enter, RInv, IInv, TypeOK
<1>3. c.fn \in collect_calls(b.fn) /\ b.fn \in Functions
  BY <1>1 DEF Named, Target, Plain, Check, collect_calls, Bodies
<1>4. rank[c.fn] < rank[b.fn]
  BY <1>3 DEF RInv, Ranked, Descending
<1>5. /\ \A j \in 1..n : rank[stack[j].fn] \in Nat
      /\ \A j \in 1..(n - 1) : rank[b.fn] < rank[stack[j].fn]
      /\ rank[c.fn] \in Nat
  <2>1. \A j \in 1..n : stack[j].fn \in Functions
    BY <1>1 DEF Bodies
  <2>2. c.fn \in Functions
    BY DEF Bodies
  <2>3. \A j \in 1..(n - 1) : rank[stack[n].fn] < rank[stack[j].fn]
    BY <1>1 DEF RInv, Descending
  <2> QED BY <2>1, <2>2, <2>3, <1>1 DEF RInv, RecursionTypeOK
<1> HIDE DEF n, b
<1>6. ASSUME NEW j \in 1..(n + 1), NEW k \in 1..(n + 1), j < k
      PROVE  rank[stack'[k].fn] < rank[stack'[j].fn]
  <2>1. CASE k \in 1..n
    <3>1. j \in 1..n
      BY <2>1, <1>1, <1>6
    <3> QED BY <3>1, <2>1, <1>2, <1>6 DEF RInv, Descending, n
  <2>2. CASE k = n + 1
    <3>1. j \in 1..(n - 1) \/ j = n
      BY <2>2, <1>1, <1>6
    <3>2. stack'[k] = c /\ stack'[j] = stack[j]
      BY <2>2, <3>1, <1>1, <1>2
    <3>3. n \in 1..n /\ \A i \in 1..(n - 1) : i \in 1..n
      BY <1>1
    <3> QED BY <3>1, <3>2, <3>3, <1>1, <1>4, <1>5
  <2> QED BY <2>1, <2>2, <1>1
<1>7. UNCHANGED <<rank, verdict, mark>>
  BY DEF search
<1> QED BY <1>2, <1>6, <1>7 DEF Descending, RInv, Done

LEMMA UnwindDescends ==
  ASSUME RInv, verdict = "accepted", stack # <<>>, stack' = Unwound, UNCHANGED search
  PROVE  Descending'
<1>1. stack \in Seq(Bodies) /\ Len(stack) \in Nat \ {0}
  BY DEF RInv, IInv, TypeOK
<1>2. PICK m \in Nat : m = Len(stack) - 1
  BY <1>1
<1>3. /\ Len(stack') = m
      /\ \A j \in 1..m : stack'[j] = stack[j]
  BY <1>1, <1>2, SubSeqProperties DEF Unwound
<1>4. \A j \in 1..m : j \in 1..Len(stack)
  BY <1>1, <1>2
<1> QED BY <1>3, <1>4 DEF RInv, Descending, Done, search

LEMMA ExecuteStep ==
  ASSUME RInv, ExecuteAccepted
  PROVE  RInv'
<1>1. verdict = "accepted" /\ Execute /\ UNCHANGED search
  BY DEF ExecuteAccepted
<1>2. Descending'
  <2>1. ASSUME NEW f \in Functions, HostCall(f) PROVE Descending'
    <3>1. Len(stack') = 1
      BY <2>1 DEF HostCall
    <3> QED BY <3>1, <1>1 DEF RInv, Descending, Done, search
  <2>2. ASSUME NEW c \in Bodies, Enter(c) PROVE Descending'
    BY <2>2, <1>1, EnterDescends
  <2>3. ASSUME Overflow PROVE Descending'
    BY <2>3, <1>1 DEF Overflow, RInv, Descending, Done, search
  <2>4. ASSUME Return \/ Propagate PROVE Descending'
    BY <2>4, <1>1, UnwindDescends DEF Return, Propagate, Running
  <2> QED BY <1>1, <2>1, <2>2, <2>3, <2>4 DEF Execute
<1> QED BY <1>1, <1>2, ModuleStep DEF Next

LEMMA CompileAcceptedStep ==
  ASSUME RInv, CompileAccepted
  PROVE  RInv'
<1>1. Compile /\ UNCHANGED search
  BY DEF CompileAccepted
<1>2. stack' = stack
  BY <1>1 DEF Compile, Pop, Settle, Keep, AllReached, AllSettled, AllKept, runtime
<1>3. Descending'
  BY <1>1, <1>2 DEF RInv, Descending, Done, search
<1> QED BY <1>1, <1>3, ModuleStep DEF Next

LEMMA IdleStep ==
  ASSUME RInv, UNCHANGED everyVar
  PROVE  RInv'
<1>1. UNCHANGED vars /\ UNCHANGED search
  BY DEF everyVar
<1>2. /\ IInv' /\ stack' = stack /\ calls' = calls
      /\ \A g : collect_calls(g)' = collect_calls(g)
  BY <1>1, SearchKeepsCompiler
<1>3. Done' = Done /\ \A j : Offer(j)' = Offer(j)
  BY <1>1, <1>2 DEF Done, Offer, search
<1>4. RecursionTypeOK' /\ CycleIsReal'
  BY <1>1, <1>2 DEF RInv, RecursionTypeOK, CycleIsReal, search
<1>5. Offered' /\ Ranked' /\ Descending'
  BY <1>1, <1>2, <1>3 DEF RInv, Offered, Ranked, Descending, search
<1> QED BY <1>2, <1>4, <1>5 DEF RInv

LEMMA RInvariance == RecursionSpec => []RInv
<1>1. RecursionInit => RInv
  BY InitRInv
<1>2. RInv /\ [RecursionNext]_everyVar => RInv'
  BY SkipStep, DescendStep, RefuseStep, LeaveStep, AcceptStep,
     CompileAcceptedStep, ExecuteStep, IdleStep
  DEF RecursionNext, RejectRecursion, Search
<1> QED BY <1>1, <1>2, PTL DEF RecursionSpec

----------------------------------------------------------------------------
(* The theorems.                                                            *)

\* The walk's marks, its path and what is left of each frame keep their types,
\* and the functions marked "doing" are those on the path, once each.
THEOREM RecursionTypeCorrect == RecursionSpec => []RecursionTypeOK
BY RInvariance, PTL DEF RInv

\* The cycle reject_recursion reports is a cycle of the author's calls.
THEOREM CycleIsRealAlways == RecursionSpec => []CycleIsReal
BY RInvariance, PTL DEF RInv

\* No function of an accepted module is active twice, whichever of its two
\* copies is called: no call recurses.
THEOREM NoReentryAlways == RecursionSpec => []NoReentry
<1>1. RInv => NoReentry
  <2> SUFFICES ASSUME RInv, NEW j \in DOMAIN stack, NEW k \in DOMAIN stack,
                      stack[j].fn = stack[k].fn, j # k
               PROVE  FALSE
    BY DEF NoReentry
  <2>0. stack \in Seq(Bodies)
    BY DEF RInv, IInv, TypeOK
  <2>1. j \in 1..Len(stack) /\ k \in 1..Len(stack) /\ stack[j].fn \in Functions
    <3>1. stack[j] \in Bodies
      BY <2>0
    <3> QED BY <2>0, <3>1 DEF Bodies
  <2>2. rank[stack[j].fn] \in Nat
    BY <2>1 DEF RInv, RecursionTypeOK
  <2>3. j < k \/ k < j
    BY <2>1
  <2> QED BY <2>1, <2>2, <2>3 DEF RInv, Descending
<1> QED BY <1>1, RInvariance, PTL
=============================================================================
