---------------------------- MODULE HelperChecks ----------------------------
(***************************************************************************)
(* Which bodies the compiler emits for the functions of a module, and what  *)
(* an i32 overflow then does at run time (compiler/src/ir.rs,               *)
(* compiler/src/codegen.rs).  A fallible (`!`) function must fail with      *)
(* ML_ST_OVERFLOW when arithmetic it executes overflows, in its own body or *)
(* in an infallible helper at any depth; a helper the host or an infallible *)
(* body calls wraps.  So a helper may be emitted twice: the plain body      *)
(* ml_fn_<name>, and the checked copy ml_ck_<name> for fallible callers.    *)
(*                                                                          *)
(* The first phases are the compiler's three loops (checked_helpers and     *)
(* plain_bodies), one iteration a step, in any order; then the host calls   *)
(* exports of the module that came out.  Errors other than the overflow are *)
(* left out.                                                                *)
(***************************************************************************)
EXTENDS Naturals, Sequences, FiniteSets

CONSTANTS
  Functions,
  CallGraphs   \* the call graphs considered: who names whom

ASSUME ConstantsAssumption ==
  \A g \in CallGraphs : g \in [Functions -> SUBSET Functions]

VARIABLES
  fallible, exported,  \* signatures
  overflows,           \* can_fail_overflow(body): holds a checked operation
  calls,               \* every function a body calls
  phase,
  todo, reached,       \* checked_helpers: the work list, and what it reached
  settled, can,        \* checked_helpers: the memo, and its true entries
  keep,                \* plain_bodies
  stack,               \* run time: the bodies in progress, innermost last
  event,               \* what the last step of the program did
  status               \* what the last finished call returned to the host

source  == <<fallible, exported, overflows, calls>>
walk    == <<todo, reached, settled, can, keep>>
runtime == <<stack, event, status>>
vars    == <<source, phase, walk, runtime>>

Infallible == Functions \ fallible

\* expression_callees: calls in expression position reach infallible functions,
\* a `try` reaches a fallible one.
Callees_WithTries(f) == calls[f]
Callees(f) == calls[f] \ fallible
Tries(f)   == calls[f] \intersect fallible

\* The type checker lets only a fallible function use `try`.
WellTyped == \A f \in Infallible : Tries(f) = {}

Init ==
  /\ fallible \in SUBSET Functions /\ exported \in SUBSET Functions
  /\ overflows \in SUBSET Functions /\ calls \in CallGraphs
  /\ WellTyped
  /\ phase = "reach"
  /\ todo = UNION {Callees(f) : f \in fallible}
  /\ reached = {} /\ settled = {} /\ can = {} /\ keep = {}
  /\ stack = <<>> /\ event = "none" /\ status = "none"

----------------------------------------------------------------------------
(* checked_helpers: reached from a fallible body, and able to overflow.     *)

Pop(g) ==
  /\ phase = "reach" /\ g \in todo
  /\ IF g \in Infallible \ reached
     THEN reached' = reached \union {g} /\ todo' = (todo \ {g}) \union Callees(g)
     ELSE todo' = todo \ {g} /\ UNCHANGED reached
  /\ UNCHANGED <<source, phase, settled, can, keep, runtime>>

AllReached ==
  /\ phase = "reach" /\ todo = {}
  /\ phase' = "can"
  /\ UNCHANGED <<source, walk, runtime>>

\* Can overflow itself, or through a callee found to.
CanFail(f) == f \in overflows \/ Callees(f) \intersect can # {}

\* Whether the walk below f has found an answer.
Decided_OnlyTrue(f) == CanFail(f)
Decided(f) == CanFail(f) \/ Callees(f) \subseteq settled

\* can(name): true as soon as one reason is found, false when no callee has one.
Settle(f) ==
  /\ phase = "can" /\ f \in reached \ settled
  /\ Decided(f)
  /\ settled' = settled \union {f}
  /\ can' = IF CanFail(f) THEN can \union {f} ELSE can
  /\ UNCHANGED <<source, phase, todo, reached, keep, runtime>>

\* The set checked_helpers returns.
checked == can

\* plain_bodies starts from what is never only a checked helper.
Kept_Everything == Functions
Kept == fallible \union exported \union (Functions \ checked)

AllSettled ==
  /\ phase = "can" /\ settled = reached
  /\ phase' = "keep" /\ keep' = Kept
  /\ UNCHANGED <<source, todo, reached, settled, can, runtime>>

\* A kept infallible body calls its checked helpers plainly.
Called_Never(f) == {}
Called(f) == IF f \in fallible THEN {} ELSE Callees(f) \intersect checked

Keep(f) ==
  /\ phase = "keep" /\ f \in keep
  /\ ~(Called(f) \subseteq keep)
  /\ keep' = keep \union Called(f)
  /\ UNCHANGED <<source, phase, todo, reached, settled, can, runtime>>

AllKept ==
  /\ phase = "keep" /\ \A f \in keep : Called(f) \subseteq keep
  /\ phase' = "ready"
  /\ UNCHANGED <<source, walk, runtime>>

----------------------------------------------------------------------------
(* The emitted module.                                                      *)

Plain(f) == [fn |-> f, copy |-> "plain"]
Check(f) == [fn |-> f, copy |-> "checked"]

Bodies  == [fn : Functions, copy : {"plain", "checked"}]
Emitted == {Plain(f) : f \in keep} \union {Check(f) : f \in checked}

\* Bodies whose shape has a status to fail with: every RetAbi but Plain.
HasStatus(b) == b.fn \in fallible \/ b.copy = "checked"

\* emit_expr, Call: the checked copy is called from a body that can fail.
Target_AnyCaller(b, g) == IF g \in checked THEN Check(g) ELSE Plain(g)
Target_OneHop(b, g) ==
  IF b.fn \in fallible /\ g \in checked THEN Check(g) ELSE Plain(g)
Target(b, g) ==
  IF HasStatus(b) /\ g \in checked THEN Check(g) ELSE Plain(g)

\* Every body the text of b names.
Named(b) == {Target(b, g) : g \in Callees(b.fn)} \union {Plain(g) : g \in Tries(b.fn)}

\* module_can_fail_overflow: whether the bindings declare ML_ST_OVERFLOW.
Declares_OwnBodies == \E f \in fallible : f \in overflows
Declares == \E f \in fallible : f \in overflows \/ Callees(f) \intersect checked # {}

----------------------------------------------------------------------------
(* Run time.                                                                *)

Top      == stack[Len(stack)]
Unwound  == SubSeq(stack, 1, Len(stack) - 1)
Running  == phase = "ready" /\ stack # <<>> /\ event # "raised"

HostCall(f) ==
  /\ phase = "ready" /\ stack = <<>> /\ f \in exported
  /\ stack' = <<Plain(f)>> /\ event' = "none" /\ status' = "none"
  /\ UNCHANGED <<source, phase, walk>>

Enter(b) ==
  /\ Running /\ b \in Named(Top)
  /\ stack' = Append(stack, b) /\ event' = "none"
  /\ UNCHANGED <<source, phase, walk, status>>

\* An operation overflows: a body with a status leaves, another wraps.
Overflow ==
  /\ Running /\ Top.fn \in overflows
  /\ event' = IF HasStatus(Top) THEN "raised" ELSE "wrapped"
  /\ UNCHANGED <<source, phase, walk, stack, status>>

Return ==
  /\ Running
  /\ stack' = Unwound /\ event' = "none"
  /\ status' = IF Len(stack) = 1 THEN "ok" ELSE status
  /\ UNCHANGED <<source, phase, walk>>

\* The caller's match arm propagates the error; the adapter returns its code.
Propagate ==
  /\ phase = "ready" /\ stack # <<>> /\ event = "raised"
  /\ stack' = Unwound
  /\ IF Len(stack) = 1 THEN event' = "none" /\ status' = "overflow"
     ELSE UNCHANGED <<event, status>>
  /\ UNCHANGED <<source, phase, walk>>

Compile ==
  \/ \E f \in Functions : Pop(f) \/ Settle(f) \/ Keep(f)
  \/ AllReached \/ AllSettled \/ AllKept

Execute ==
  \/ \E f \in Functions : HostCall(f)
  \/ \E b \in Bodies : Enter(b)
  \/ Overflow \/ Return \/ Propagate

Next == Compile \/ Execute

\* The compiler runs to its end; nothing makes the host call.
Spec == Init /\ [][Next]_vars /\ WF_vars(Compile)

----------------------------------------------------------------------------
(* Properties.                                                              *)

Phases == {"reach", "can", "keep", "ready"}

\* Types of the analyses and of the run time state.
TypeOK ==
  /\ fallible \subseteq Functions /\ exported \subseteq Functions
  /\ overflows \subseteq Functions /\ calls \in [Functions -> SUBSET Functions]
  /\ phase \in Phases
  /\ todo \subseteq Infallible /\ reached \subseteq Infallible
  /\ settled \subseteq reached /\ can \subseteq settled /\ keep \subseteq Functions
  /\ stack \in Seq(Bodies)
  /\ event \in {"none", "wrapped", "raised"} /\ status \in {"none", "ok", "overflow"}

UnderFallible == \E j \in 1..Len(stack) : stack[j].fn \in fallible

\* The call path decides (LANGUAGE.md, checked_helpers): arithmetic a fallible
\* function executes, at any depth, never wraps silently, and arithmetic only
\* infallible functions execute never fails.
PathDecides ==
  /\ event = "wrapped" => ~UnderFallible
  /\ event = "raised" => UnderFallible

\* An error is only ever handed to a body that has a status to propagate it with.
RaisedIsCaught ==
  event = "raised" => HasStatus(Top)

\* The host sees ML_ST_OVERFLOW only from a module whose bindings name it.
StatusIsDeclared == status = "overflow" => Declares

\* Every body the emitted text names is emitted: the generated crate links.
Linked ==
  phase = "ready" => \A b \in Emitted : Named(b) \subseteq Emitted

\* No helper's copy is dead code, which `-D warnings` would refuse: each one is
\* named by an emitted body, an unexported plain body of a checked helper too.
NoDeadCopy ==
  phase = "ready" => \A f \in checked :
    /\ \E b \in Emitted : Check(f) \in Named(b)
    /\ f \in keep \ exported => \E b \in Emitted : Plain(f) \in Named(b)
=============================================================================
