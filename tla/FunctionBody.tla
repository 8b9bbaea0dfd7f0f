---------------------------- MODULE FunctionBody ----------------------------
(***************************************************************************)
(* A function body: what the type checker accepts of its shape              *)
(* (compiler/src/typeck.rs, compiler/src/ir.rs), and what the body the       *)
(* compiler emits for it does when a host calls the export                  *)
(* (compiler/src/codegen.rs).  Conditions and values are left out: a branch  *)
(* may go either way, and any expression of a fallible function may leave    *)
(* with -2 or -3.  String returns are StringOut.                            *)
(***************************************************************************)
EXTENDS Integers, Sequences, FiniteSets

CONSTANTS
  Outs,       \* the `out` parameters a function may declare
  Bodies,     \* the blocks an author may write
  Size,       \* how many statements each of them has, in its blocks as well
  Functions,  \* the functions an author may write: [ret, outs, body]
  Cells,      \* the host's elements from ml_buf on
  Caps,       \* ml_cap of a first call
  Lengths     \* what the expression of `result <n>` may come to

\* A statement; `to` is the out parameter it assigns, `body` the block of an
\* `if` or `while`.
Statement(op, to, body) == [op |-> op, to |-> to, body |-> body]

Blocky == {"if", "while"}
Trying == {"try", "try out", "return try"}
Ops    == {"eval", "out", "return", "fail", "result", "set"} \union Blocky \union Trying

\* A part of a block is a block, and smaller.
ASSUME ConstantsAssumption ==
  /\ Cells \subseteq Nat /\ Caps \subseteq Int /\ Lengths \subseteq Int
  /\ Bodies \subseteq Seq([op : Ops, to : Outs \union {"none"}, body : Bodies])
  /\ Size \in [Bodies -> Nat]
  /\ \A body \in Bodies \ {<<>>} :
       /\ Tail(body) \in Bodies /\ Size[Tail(body)] < Size[body]
       /\ \A j \in DOMAIN body : Size[body[j].body] < Size[body]
  /\ Functions \subseteq [ret : {"plain", "fallible", "array"}, outs : SUBSET Outs, body : Bodies]

----------------------------------------------------------------------------
(* What the type checker accepts.                                           *)

\* Every block of a body, itself included.
Blocks[body \in Bodies] == {body} \union UNION {Blocks[body[j].body] : j \in DOMAIN body}

\* The operations of a body, and of a statement with its block.
OpsIn(body) == UNION {{b[j].op : j \in DOMAIN b} : b \in Blocks[body]}
OpsOf(s)    == {s.op} \union OpsIn(s.body)

\* check_stmt: an assignment is through the host's pointer if the name is an out
\* parameter in scope.
OutsIn(body) ==
  UNION {{b[j].to : j \in {k \in DOMAIN b : b[k].op \in {"out", "try out"}}} : b \in Blocks[body]}

\* check_stmt: the statements each return shape admits.  `return xs` of an array
\* parameter has the type of an array return.
Admitted(ret) ==
  {"eval", "out", "return"} \union Blocky \union
  CASE ret = "plain"    -> {}
    [] ret = "fallible" -> {"fail"} \union Trying
    [] ret = "array"    -> {"fail", "try", "try out", "result", "set"}

\* IrStmt::is_terminator.
is_terminator(s) == s.op \in {"return", "fail", "return try"}

block_always_returns_AnyBlock(body) ==
  /\ body # <<>>
  /\ LET last == body[Len(body)] IN
     is_terminator(last) \/ \E b \in Blocks[last.body] : b # <<>> /\ is_terminator(b[Len(b)])
block_always_returns(body) ==
  body # <<>> /\ is_terminator(body[Len(body)])

\* check_block: nothing follows a terminator.
NoDeadCode(body) ==
  \A b \in Blocks[body] : \A j \in 1..(Len(b) - 1) : ~is_terminator(b[j])

\* check_result_placement: one `result n` at the top level, no element written
\* before it, no `fail` or `try` after it.
check_result_placement_FailAfter(body) ==
  \E at \in DOMAIN body :
    /\ {j \in DOMAIN body : "result" \in OpsOf(body[j])} = {at}
    /\ body[at].op = "result"
    /\ \A j \in 1..(at - 1) : "set" \notin OpsOf(body[j])
check_result_placement(body) ==
  \E at \in DOMAIN body :
    /\ {j \in DOMAIN body : "result" \in OpsOf(body[j])} = {at}
    /\ body[at].op = "result"
    /\ \A j \in 1..(at - 1) : "set" \notin OpsOf(body[j])
    /\ \A j \in (at + 1)..Len(body) :
         OpsOf(body[j]) \intersect ({"fail"} \union Trying) = {}

\* What a statement adds to the outs assigned once control is past it.
Assigns_ThroughBranch(s) == IF s.op \in {"out", "try out"} THEN {s.to} ELSE OutsIn(s.body)
Assigns(s) == IF s.op \in {"out", "try out"} THEN {s.to} ELSE {}

\* The outs assigned on the way to each return of a block; what a branch assigns
\* does not survive it.
AssignedAtReturns[body \in Bodies] ==
  IF body = <<>> THEN {}
  ELSE LET s == Head(body) IN
       (IF s.op \in {"return", "return try"} THEN {{}} ELSE {})
       \union (IF s.op \in Blocky THEN AssignedAtReturns[s.body] ELSE {})
       \union {Assigns(s) \union more : more \in AssignedAtReturns[Tail(body)]}

check_outs_assigned(f) == \A assigned \in AssignedAtReturns[f.body] : f.outs \subseteq assigned

Accepted(f) ==
  /\ f.ret = "array" => check_result_placement(f.body)
  /\ f.ret # "array" => block_always_returns(f.body)
  /\ OpsIn(f.body) \subseteq Admitted(f.ret)
  /\ NoDeadCode(f.body)
  /\ OutsIn(f.body) \subseteq f.outs
  /\ check_outs_assigned(f)

----------------------------------------------------------------------------
(* The emitted body.                                                        *)

VARIABLES
  fn,      \* the function: its return shape and its body
  phase,   \* source, ready, running, returned; panicked, fell, unbound
  rest,    \* what each block in progress still has to run, outermost first
  status,  \* the value returned
  outs,    \* the out parameters this call has written
  value,   \* who wrote the host's *out_value, or its copy of the result
  buf,     \* who wrote each of the host's elements: host, zero, element
  needed,  \* *ml_needed
  n,       \* __n, or Undeclared
  cap, length,
  retry    \* whether this call repeats one that was answered -1

memory == <<outs, value, buf, needed>>
input  == <<fn, cap, length, retry>>
vars   == <<phase, rest, status, memory, n, input>>

Undeclared == -1

Init ==
  /\ fn \in {f \in Functions : Accepted(f)}
  /\ phase = "source" /\ rest = <<>> /\ status = 0
  /\ outs = {} /\ value = "host" /\ buf = [x \in Cells |-> "host"] /\ needed = 0
  /\ n = Undeclared /\ cap \in Caps /\ length \in Lengths /\ retry = FALSE

\* emit_stmt has no lowering for `return` in an array body and panics.
Lower ==
  /\ phase = "source"
  /\ phase' = IF fn.ret = "array" /\ "return" \in OpsIn(fn.body) THEN "panicked" ELSE "ready"
  /\ UNCHANGED <<rest, status, memory, n, input>>

\* The host, with fresh variables: a new call, or the documented retry.
Call ==
  /\ phase \in {"ready", "returned"} /\ phase' = "running"
  /\ \/ cap' \in Caps /\ length' \in Lengths /\ retry' = FALSE
     \/ phase = "returned" /\ status = -1 /\ cap' = needed /\ retry' = TRUE /\ UNCHANGED length
  /\ rest' = <<fn.body>> /\ n' = Undeclared
  /\ outs' = {} /\ value' = "host" /\ buf' = [x \in Cells |-> "host"] /\ needed' = 0
  /\ UNCHANGED <<fn, status>>

Top  == rest[Len(rest)]
Here == Head(Top)
At(ops) == phase = "running" /\ Top # <<>> /\ Here.op \in ops

\* On to the next statement of the block.
Passed  == [rest EXCEPT ![Len(rest)] = Tail(Top)]
Advance == rest' = Passed /\ UNCHANGED <<phase, status>>

Leave(s) == phase' = "returned" /\ status' = s /\ rest' = <<>>

\* An expression of the statement has no value; a plain body has no such thing.
EvalFails ==
  /\ phase = "running" /\ Top # <<>> /\ Here.op # "fail"
  /\ fn.ret # "plain"
  /\ \E s \in {-2, -3} : Leave(s)
  /\ UNCHANGED <<memory, n, input>>

Eval == At({"eval"}) /\ Advance /\ UNCHANGED <<memory, n, input>>

\* Through the host's pointer, once the value is there.
AssignOut ==
  /\ At({"out"}) /\ Advance
  /\ outs' = outs \union {Here.to}
  /\ UNCHANGED <<value, buf, needed, n, input>>

\* The Err arm: whatever the callee failed with.
TryErr ==
  /\ At(Trying)
  /\ \E s \in {1, -2, -3} : Leave(s)
  /\ UNCHANGED <<memory, n, input>>

TryOk ==
  /\ At({"try", "try out"}) /\ Advance
  /\ outs' = IF Here.op = "try out" THEN outs \union {Here.to} ELSE outs
  /\ UNCHANGED <<value, buf, needed, n, input>>

\* `return e` and the Ok arm of `return try`; the adapter stores the value.
Return ==
  /\ At({"return", "return try"}) /\ Leave(0)
  /\ value' = "module"
  /\ UNCHANGED <<outs, buf, needed, n, input>>

Fail == At({"fail"}) /\ Leave(1) /\ UNCHANGED <<memory, n, input>>

\* `result <n>`: clamp, publish the size, test the capacity, zero the elements.
NotNegative_Raw(i) == i
NotNegative(i) == IF i < 0 THEN 0 ELSE i

Publish_IfItFits(i) == needed' = IF i > NotNegative(cap) THEN needed ELSE i
Publish(i) == needed' = i

ResultLen ==
  /\ At({"result"})
  /\ LET len == NotNegative(length) IN
     /\ Publish(len)
     /\ IF len > NotNegative(cap)
        THEN Leave(-1) /\ UNCHANGED <<buf, n>>
        ELSE /\ n' = len
             /\ buf' = [x \in Cells |-> IF x < len THEN "zero" ELSE buf[x]]
             /\ Advance
  /\ UNCHANGED <<outs, value, input>>

InResult(i) == i >= 0 /\ i < n

\* `result[i] = e`, whose check names __n.
ResultSet ==
  /\ At({"set"})
  /\ IF n = Undeclared
     THEN phase' = "unbound" /\ UNCHANGED <<rest, status, buf>>
     ELSE \E i \in Cells \union {-1} :
            IF InResult(i) THEN buf' = [buf EXCEPT ![i] = "element"] /\ Advance
            ELSE Leave(-2) /\ UNCHANGED buf
  /\ UNCHANGED <<outs, value, needed, n, input>>

Skip == At(Blocky) /\ Advance /\ UNCHANGED <<memory, n, input>>

\* A `while` stays where it is while its block runs.
EnterBlock ==
  /\ At(Blocky)
  /\ rest' = Append(IF Here.op = "while" THEN rest ELSE Passed, Here.body)
  /\ UNCHANGED <<phase, status, memory, n, input>>

LeaveBlock ==
  /\ phase = "running" /\ Top = <<>> /\ Len(rest) > 1
  /\ rest' = SubSeq(rest, 1, Len(rest) - 1)
  /\ UNCHANGED <<phase, status, memory, n, input>>

\* The generated exit of an array body; any other has no value to return here.
FallOff ==
  /\ phase = "running" /\ rest = <<<<>>>>
  /\ IF fn.ret = "array" THEN Leave(0) ELSE phase' = "fell" /\ UNCHANGED <<rest, status>>
  /\ UNCHANGED <<memory, n, input>>

Run ==
  \/ EvalFails \/ Eval \/ AssignOut \/ TryErr \/ TryOk \/ Return \/ Fail
  \/ ResultLen \/ ResultSet \/ Skip \/ EnterBlock \/ LeaveBlock \/ FallOff

Next == Lower \/ Call \/ Run

Spec == Init /\ [][Next]_vars

----------------------------------------------------------------------------
(* Properties.                                                              *)

\* Types of the host's variables and of the body in progress.
TypeOK ==
  /\ phase \in {"source", "ready", "running", "returned", "panicked", "fell", "unbound"}
  /\ status \in {0, 1, -1, -2, -3}
  /\ outs \subseteq fn.outs /\ value \in {"host", "module"}
  /\ buf \in [Cells -> {"host", "zero", "element"}]
  /\ needed \in Nat /\ n \in Nat \union {Undeclared}

\* An accepted body that the compiler lowers is a Rust function: no path ends
\* without a value, and no element write is outside the scope of __n.  The only
\* one it does not lower is an array function's with a `return` somewhere: accepted
\* as well (an array parameter has the type of the return), and the compiler panics
\* (emit_stmt says that typeck refuses the statement).
LoweredBuilds ==
  /\ phase \notin {"fell", "unbound"}
  /\ phase = "panicked" => fn.ret = "array" /\ \E b \in Blocks[fn.body] :
                                                \E j \in DOMAIN b : b[j].op = "return"

\* The call as the host sees it, which is when it has returned; a compile that
\* panicked leaves it nothing to call.
Running == phase = "running"
Promise == INSTANCE CallContract WITH
             Shapes <- {"plain", "fallible", "array"}, ret <- fn.ret, declared <- fn.outs,
             phase  <- IF phase \in {"source", "panicked"} THEN "ready" ELSE phase,
             outs   <- IF Running THEN {} ELSE outs,
             value  <- IF Running THEN "host" ELSE value,
             buf    <- IF Running THEN [x \in Cells |-> "host"] ELSE buf,
             needed <- IF Running THEN 0 ELSE needed

\* HOST_ABI's status table and out-parameter contract, whatever the accepted body.
HonoursContract == Promise!Spec

\* HOST_ABI, out-parameters 4: a successful call writes every declared out.
SuccessWritesOuts == phase = "returned" /\ status = 0 => outs = fn.outs
=============================================================================
