----------------------------- MODULE Recursion -----------------------------
(***************************************************************************)
(* reject_recursion (compiler/src/typeck.rs) before the analyses of          *)
(* HelperChecks: a depth-first walk of the call graph with the functions on  *)
(* the current path marked, one call a step.  A module it refuses is not     *)
(* compiled; one it accepts goes on to HelperChecks, whose emitted bodies    *)
(* then call one another on the host's stack.                               *)
(*                                                                          *)
(* `left` has one frame more than `path`: the functions the module still has *)
(* to offer, and below them what each function on the path still has to      *)
(* call.  Calls are taken in any order.                                     *)
(***************************************************************************)
EXTENDS HelperChecks

VARIABLES
  verdict,
  mark,            \* the walk's marks
  path, left,
  cycle,           \* the cycle a refusal reports
  rank, finished   \* history: when each function was left for good

search   == <<verdict, mark, path, left, cycle, rank, finished>>
everyVar == <<vars, search>>

\* Every call of a body is an edge, a `try` like any other.
collect_calls_NoTry(f) == Callees(f)
collect_calls(f) == Callees(f) \union Tries(f)

RecursionInit ==
  /\ Init
  /\ verdict = "walking" /\ cycle = <<>>
  /\ mark = [f \in Functions |-> "none"]
  /\ path = <<>> /\ left = <<Functions>>
  /\ rank = [f \in Functions |-> 0] /\ finished = 0

Depth == Len(left)
Taken(f) == [left EXCEPT ![Depth] = @ \ {f}]

\* A function walked before.
Skip(f) ==
  /\ verdict = "walking" /\ f \in left[Depth] /\ mark[f] = "done"
  /\ left' = Taken(f)
  /\ UNCHANGED <<verdict, mark, path, cycle, rank, finished>>

Descend(f) ==
  /\ verdict = "walking" /\ f \in left[Depth] /\ mark[f] = "none"
  /\ mark' = [mark EXCEPT ![f] = "doing"]
  /\ path' = Append(path, f)
  /\ left' = Append(Taken(f), collect_calls(f))
  /\ UNCHANGED <<verdict, cycle, rank, finished>>

\* A function on the path: the path from there on is the cycle reported.
Start_Root(f) == 1
Start(f) == CHOOSE j \in DOMAIN path : path[j] = f

Refuse(f) ==
  /\ verdict = "walking" /\ f \in left[Depth] /\ mark[f] = "doing"
  /\ verdict' = "refused"
  /\ cycle' = Append(SubSeq(path, Start(f), Len(path)), f)
  /\ UNCHANGED <<mark, path, left, rank, finished>>

Back == SubSeq(path, 1, Len(path) - 1)

Leave ==
  /\ verdict = "walking" /\ path # <<>> /\ left[Depth] = {}
  /\ mark' = [mark EXCEPT ![path[Len(path)]] = "done"]
  /\ path' = Back /\ left' = SubSeq(left, 1, Depth - 1)
  /\ rank' = [rank EXCEPT ![path[Len(path)]] = finished] /\ finished' = finished + 1
  /\ UNCHANGED <<verdict, cycle>>

Accept ==
  /\ verdict = "walking" /\ path = <<>> /\ left[Depth] = {}
  /\ verdict' = "accepted"
  /\ UNCHANGED <<mark, path, left, cycle, rank, finished>>

Search == (\E f \in Functions : Skip(f) \/ Descend(f) \/ Refuse(f)) \/ Leave \/ Accept

RejectRecursion == Search /\ UNCHANGED vars
CompileAccepted == verdict = "accepted" /\ Compile /\ UNCHANGED search
ExecuteAccepted == verdict = "accepted" /\ Execute /\ UNCHANGED search

RecursionNext == RejectRecursion \/ CompileAccepted \/ ExecuteAccepted

RecursionSpec ==
  /\ RecursionInit /\ [][RecursionNext]_everyVar
  /\ WF_everyVar(RejectRecursion \/ CompileAccepted)

----------------------------------------------------------------------------
(* Properties.                                                              *)

\* Types of the walk: the marked functions are those on the path, once each.
RecursionTypeOK ==
  /\ verdict \in {"walking", "refused", "accepted"}
  /\ mark \in [Functions -> {"none", "doing", "done"}]
  /\ path \in Seq(Functions) /\ left \in Seq(SUBSET Functions) /\ Len(left) = Len(path) + 1
  /\ cycle \in Seq(Functions)
  /\ rank \in [Functions -> Nat] /\ finished \in Nat
  /\ \A f \in Functions : mark[f] = "doing" <=> \E j \in DOMAIN path : path[j] = f
  /\ \A j, k \in DOMAIN path : path[j] = path[k] => j = k

\* What a refusal reports is a cycle of the author's calls (reject_recursion:
\* "the reported cycle is the actual path").
CycleIsReal ==
  verdict = "refused" =>
    /\ Len(cycle) > 1 /\ cycle[1] = cycle[Len(cycle)]
    /\ \A j \in 1..(Len(cycle) - 1) : cycle[j + 1] \in calls[cycle[j]]

\* An accepted module never has two activations of one function on the host's
\* stack, whichever copies of it are called: no call recurses (DP-C2).
NoReentry ==
  \A j, k \in DOMAIN stack : stack[j].fn = stack[k].fn => j = k

\* The walk and the analyses end, on recursive modules as well.
CompileEnds == <>(phase = "ready" \/ verdict = "refused")
=============================================================================
