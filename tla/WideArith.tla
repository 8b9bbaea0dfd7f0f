------------------------------ MODULE WideArith ------------------------------
(***************************************************************************)
(* How i32 expressions are computed (compiler/src/codegen.rs emit_expr,      *)
(* emit_wide, emit_exact; compiler/src/ir.rs loop_free_functions).  In a     *)
(* fallible body a pure arithmetic tree is computed exactly in i64 and       *)
(* narrowed once, at its root; any other operator is checked where it        *)
(* stands; an infallible body wraps.  The widths are parameters: Half is     *)
(* 2^31 and WideHalf 2^63 in the code.  Strings and f64 are left out.        *)
(***************************************************************************)
EXTENDS Integers, Sequences

CONSTANTS
  Half, WideHalf,  \* an i32 is in -Half..Half-1, an i64 in -WideHalf..WideHalf-1
  Functions,       \* the module's infallible functions, of one i32
  CallGraphs,      \* who calls whom
  Vars, Values,    \* the i32 variables, and what a host passes in them
  Elements,        \* the array: its values from index 0 on, as a sequence
  Expressions,     \* the expressions considered, operands included
  Size             \* how many operators each of them has

Int32 == -Half..(Half - 1)
Int64 == -WideHalf..(WideHalf - 1)

\* Expressions: `name` is a variable or a function.
Node(op, name, args) == [op |-> op, name |-> name, args |-> args]

Operators == {"+", "-", "*", "/", "%"}
Kinds     == {"var", "index", "call", "neg", "<"} \union Operators

Arity(op) == CASE op = "var" -> 0 [] op \in {"index", "call", "neg"} -> 1 [] OTHER -> 2

ASSUME ConstantsAssumption ==
  /\ Half \in Nat /\ WideHalf \in Nat /\ Half > 0 /\ WideHalf >= Half * Half
  /\ Values \subseteq Int32 /\ Elements \in Seq(Int32)

\* A comparison is only ever the root: its value is a bool.
ASSUME TreesAssumption ==
  /\ Expressions \subseteq
       [op : Kinds, name : Vars \union Functions \union {"none"}, args : Seq(Expressions)]
  /\ Size \in [Expressions -> Nat]
  /\ \A e \in Expressions :
       /\ Len(e.args) = Arity(e.op)
       /\ e.op = "var" => e.name \in Vars
       /\ e.op = "call" => e.name \in Functions
       /\ \A j \in DOMAIN e.args : e.args[j].op # "<" /\ Size[e.args[j]] < Size[e]

\* reject_recursion: no functions that all call one another.
ASSUME CallsAssumption ==
  /\ CallGraphs \subseteq [Functions -> SUBSET Functions]
  /\ \A graph \in CallGraphs : \A F \in (SUBSET Functions) \ {{}} :
       \E f \in F : graph[f] \intersect F = {}

VARIABLES
  abi,      \* of the body the expression is in: "plain" or "fallible"
  expr,     \* the expression
  whiles,   \* the functions whose body has a `while`
  calls,    \* the functions each calls
  free,     \* loop_free_functions, as found so far
  phase,
  env,      \* the variables of the last call
  result    \* its outcome

source == <<abi, expr, whiles, calls>>
vars   == <<source, free, phase, env, result>>

\* An outcome: a value, or how the body stops instead.
Ok(v)     == [stop |-> "no", v |-> v]
Stop(how) == [stop |-> how, v |-> 0]

\* Operands are bound left to right, and the first that stops is the outcome.
After(l, next)   == IF l.stop # "no" THEN l ELSE next
Both(l, r, next) == After(l, After(r, next))

Subtrees[e \in Expressions] == {e} \union UNION {Subtrees[e.args[j]] : j \in DOMAIN e.args}

Uses(e) == {t.op : t \in Subtrees[e]}

Init ==
  /\ abi \in {"plain", "fallible"} /\ expr \in Expressions
  /\ abi = "plain" => "index" \notin Uses(expr)
  /\ whiles \in SUBSET Functions /\ calls \in CallGraphs
  /\ free = {} /\ phase = "loops"
  /\ env \in [Vars -> {0}] /\ result = Ok(0)

----------------------------------------------------------------------------
(* loop_free_functions.                                                     *)

Joins_OwnBody(f) == f \notin free \union whiles
Joins(f) == f \notin free \union whiles /\ calls[f] \subseteq free

Join(f) ==
  /\ phase = "loops" /\ Joins(f)
  /\ free' = free \union {f}
  /\ UNCHANGED <<source, phase, env, result>>

Joined ==
  /\ phase = "loops" /\ \A f \in Functions : ~Joins(f)
  /\ phase' = "compiled"
  /\ UNCHANGED <<source, free, env, result>>

----------------------------------------------------------------------------
(* What is deferred.                                                        *)

is_i32_arith(e) == e.op \in Operators \union {"neg"}

\* is_pure and is_leaf_argument: a tree that can fail only with an overflow.
is_pure_Indexed(e) ==
  \A t \in Subtrees[e] :
    /\ t.op \in {"var", "call", "index"} \/ is_i32_arith(t)
    /\ t.op = "call" => t.name \in free
is_pure(e) ==
  \A t \in Subtrees[e] :
    /\ t.op \in {"var", "call"} \/ is_i32_arith(t)
    /\ t.op = "call" => t.name \in free

----------------------------------------------------------------------------
(* What the emitted code computes.                                          *)

Magnitude(v) == IF v < 0 THEN -v ELSE v
Quotient(l, r) ==
  LET q == Magnitude(l) \div Magnitude(r) IN IF (l < 0) = (r < 0) THEN q ELSE -q

\* The integer an operator stands for; a zero divisor gives 0.
Arith(op, l, r) ==
  CASE op = "+" -> l + r
    [] op = "-" -> l - r
    [] op = "*" -> l * r
    [] op = "/" -> IF r = 0 THEN 0 ELSE Quotient(l, r)
    [] op = "%" -> IF r = 0 THEN 0 ELSE l - r * Quotient(l, r)

Wrap(v) == ((v + Half) % (2 * Half)) - Half

\* An operator of i32: checked where there is a status, wrapping elsewhere.
Lowered_Saturating(v) ==
  IF v \in Int32 THEN Ok(v)
  ELSE IF abi = "fallible" THEN Stop("overflow")
  ELSE Ok(IF v < 0 THEN -Half ELSE Half - 1)
Lowered(v) ==
  IF v \in Int32 THEN Ok(v)
  ELSE IF abi = "fallible" THEN Stop("overflow")
  ELSE Ok(Wrap(v))

\* checked_add and the like, of i64.
Checked64(v) == IF v \in Int64 THEN Ok(v) ELSE Stop("overflow")

\* i32::try_from at the root of a pure tree.
Narrow_AsCast(v)    == Ok(Wrap(v))
Narrow_Exclusive(v) == IF v \in Int32 \ {-Half} THEN Ok(v) ELSE Stop("overflow")
Narrow(v)           == IF v \in Int32 THEN Ok(v) ELSE Stop("overflow")

Element(i) == IF i + 1 \in DOMAIN Elements THEN Ok(Elements[i + 1]) ELSE Stop("range")

\* Functions none of which has a `while` or calls one outside them always return.
Returns(f) ==
  \E F \in SUBSET (Functions \ whiles) : f \in F /\ \A g \in F : calls[g] \subseteq F

\* A function of the module: it calls those it calls with its own argument, each
\* `while` never ends when that is negative, and gives one more than it.
Called(f, v) == IF v < 0 /\ ~Returns(f) THEN Stop("hang") ELSE Lowered(v + 1)

Less(l, r) == Ok(IF l < r THEN 1 ELSE 0)

\* A comparison of pure sides compares the exact values, and narrows nothing.
emit_wide(e) ==
  /\ abi = "fallible"
  /\ \/ is_i32_arith(e) /\ is_pure(e)
     \/ /\ e.op = "<" /\ \E j \in 1..2 : is_i32_arith(e.args[j])
        /\ \A j \in 1..2 : is_pure(e.args[j])

\* What is emitted for an expression, and for one inside an exact tree, where l and
\* r are what is emitted for its operands.
emit_exact(e, l, r) ==
  LET x == l["i64"]  y == r["i64"] IN
  IF e.op = "neg" THEN After(x, Checked64(-x.v)) ELSE Both(x, y, Checked64(Arith(e.op, x.v, y.v)))

emit_expr(e, l, r) ==
  IF emit_wide(e) THEN
    LET root == emit_exact(e, l, r)  x == l["i64"]  y == r["i64"] IN
    IF e.op = "<" THEN Both(x, y, Less(x.v, y.v)) ELSE After(root, Narrow(root.v))
  ELSE
    LET x == l["i32"]  y == r["i32"] IN
    CASE e.op = "var"   -> Ok(env[e.name])
      [] e.op = "index" -> After(x, Element(x.v))
      [] e.op = "call"  -> After(x, Called(e.name, x.v))
      [] e.op = "neg"   -> After(x, Lowered(-x.v))
      [] e.op = "<"     -> Both(x, y, Less(x.v, y.v))
      [] OTHER          -> Both(x, y, Lowered(Arith(e.op, x.v, y.v)))

emit(e, width, l, r) ==
  IF width = "i64" /\ is_i32_arith(e) THEN emit_exact(e, l, r) ELSE emit_expr(e, l, r)

emitted[e \in Expressions] ==
  [width \in {"i32", "i64"} |-> emit(e, width, emitted[e.args[1]], emitted[e.args[2]])]

\* The host calls the function the expression is in.
Call ==
  /\ phase = "compiled" /\ phase' = "called"
  /\ env' \in [Vars -> Values]
  /\ UNCHANGED <<source, free, result>>

Evaluate ==
  /\ phase = "called" /\ phase' = "answered"
  /\ result' = emitted[expr]["i32"]
  /\ UNCHANGED <<source, free, env>>

Next == (\E f \in Functions : Join(f)) \/ Joined \/ Call \/ Evaluate

Spec == Init /\ [][Next]_vars

----------------------------------------------------------------------------
(* What an expression means, without the two widths and the deferring.      *)

\* In integers, where each index and call has a value; l and r are the operands'.
MeaningOf(e, l, r) ==
  CASE e.op = "var"   -> env[e.name]
    [] e.op = "index" -> Element(l).v
    [] e.op = "call"  -> Called(e.name, l).v
    [] e.op = "neg"   -> -l
    [] e.op = "<"     -> Less(l, r).v
    [] OTHER          -> Arith(e.op, l, r)

Meaning[e \in Expressions] == MeaningOf(e, Meaning[e.args[1]], Meaning[e.args[2]])

\* With every operator checked where it stands (SPEC-checked-arithmetic).
EagerOf(e, l, r) ==
  CASE e.op = "var"   -> Ok(env[e.name])
    [] e.op = "index" -> After(l, Element(l.v))
    [] e.op = "call"  -> After(l, Called(e.name, l.v))
    [] e.op = "neg"   -> After(l, Lowered(-l.v))
    [] e.op = "<"     -> Both(l, r, Less(l.v, r.v))
    [] OTHER          -> Both(l, r, Lowered(Arith(e.op, l.v, r.v)))

Eager[e \in Expressions] == EagerOf(e, Eager[e.args[1]], Eager[e.args[2]])

\* Nothing in the tree can stop but by an overflow, whatever the host passes.
OverflowsOnly(e) ==
  \A t \in Subtrees[e] :
    /\ t.op # "index"
    /\ t.op = "call" => \A v \in Int32 : Called(t.name, v).stop # "hang"

\* How an expression stops by itself; `inside` parts of a deferred tree, whose
\* intermediates may be any integer, do not.
OwnStop(e, inside) ==
  CASE e.op = "index" -> Element(Meaning[e.args[1]]).stop
    [] e.op = "call"  -> Called(e.name, Meaning[e.args[1]]).stop
    [] is_i32_arith(e) /\ ~inside -> Lowered(Meaning[e]).stop
    [] OTHER -> "no"

\* How the first part that stops does, in evaluation order: operands, then e.
Deferred(e) == (is_i32_arith(e) \/ e.op = "<") /\ OverflowsOnly(e)

First(l, r) == IF l # "no" THEN l ELSE r

FirstOf(e, inside, l, r) ==
  LET own == OwnStop(e, inside)  x == l[Deferred(e)]  y == r[Deferred(e)] IN
  CASE Arity(e.op) = 0 -> own
    [] Arity(e.op) = 1 -> First(x, own)
    [] Arity(e.op) = 2 -> First(x, First(y, own))

FirstStop[e \in Expressions] ==
  [inside \in BOOLEAN |-> FirstOf(e, inside, FirstStop[e.args[1]], FirstStop[e.args[2]])]

BeyondI64 == \E t \in Subtrees[expr] : Meaning[t] \notin Int64

Answered(shape) == phase = "answered" /\ abi = shape

----------------------------------------------------------------------------
(* Properties.                                                              *)

\* A fallible function's value is the integer its source means: no intermediate
\* wraps, truncates or saturates.
ValueIsExact ==
  Answered("fallible") /\ result.stop = "no" => result.v = Meaning[expr]

\* Deferring a check never loses a program a value it had with every operator
\* checked, in either kind of body.
NeverStricter ==
  phase = "answered" /\ Eager[expr].stop = "no" => result = Eager[expr]

\* is_pure: deferring the check "changes no status a host can observe".  An
\* overflow that is real is answered before anything after it is evaluated, be
\* it an index out of range or a call that never returns; i64 itself may overflow.
FirstRealStop ==
  Answered("fallible") =>
    result.stop \in {FirstStop[expr][FALSE]} \union (IF BeyondI64 THEN {"overflow"} ELSE {})

\* An infallible body never fails, and its sums and products are those of i32.
PlainWraps ==
  Answered("plain") =>
    /\ result.stop \in {"no", "hang"}
    /\ Uses(expr) \subseteq {"var", "+", "-", "*", "neg"} => result.v = Wrap(Meaning[expr])
=============================================================================
