------------------------------ MODULE Expressions ------------------------------
(***************************************************************************)
(* Expressions on their way through the compiler: `check_expr` (typeck.rs) *)
(* builds a typed tree bottom up, walkers over the finished tree (ir.rs,   *)
(* codegen.rs) decide which private helpers the generated crate defines    *)
(* and what the bindings declare, and `emit_expr` writes the text that     *)
(* calls those helpers and bails out with the status -2.                   *)
(*                                                                         *)
(* Every walker and the lowering answer for a node from the node's kind    *)
(* and the answers for its children.  An expression is therefore kept as   *)
(* those answers, not as a tree: `saw` has the walkers' and `text` the     *)
(* lowering's.  Trees of any depth are finitely many such records.         *)
(***************************************************************************)
EXTENDS Integers, Sequences

CONSTANTS
    Scope,        \* name -> [ty, out]: the variables a body may mention
    Unbound,      \* names no scope binds
    Callees,      \* name -> [params, ret, fallible, out]
    Heads,        \* [ret, fallible, exported]: the functions that may be written
    Rounders,     \* floor, ceil, round, trunc
    Operators,    \* the binary operators that occur
    Ints,         \* integer literals that occur
    I32Max, MaxPlaces, MaxNodes, MaxStack, MaxFunctions

Arrays == {"[i32]", "[f64]"}
Types == {"f64", "i32", "bool", "string"} \cup Arrays
Elem(ty) == IF ty = "[i32]" THEN "i32" ELSE "f64"

Logical == {"And", "Or"}
Additive == {"Sub", "Mul"}
Ordering == {"Lt", "Gt", "Le", "Ge"}
Equality == {"Eq", "Ne"}
BinOps == Logical \cup {"Add"} \cup Additive \cup {"Div", "Rem"} \cup Ordering \cup Equality

\* The constants are programs: signatures the type checker has accepted, and names of one sort.
ASSUME ConstantsAssumption ==
    /\ Operators \subseteq BinOps
    /\ \A n \in DOMAIN Scope : Scope[n].ty \in Types /\ Scope[n].out \in BOOLEAN
    /\ Unbound \cap DOMAIN Scope = {}
    /\ Rounders \subseteq DOMAIN Callees \cap {"floor", "ceil", "round", "trunc"}
    /\ \A f \in DOMAIN Callees :
        /\ Callees[f].params \in Seq(Types)
        /\ Callees[f].ret \in Types
        /\ Callees[f].fallible \in BOOLEAN /\ Callees[f].out \in BOOLEAN
        /\ Callees[f].ret \in Arrays \cup {"string"} => Callees[f].fallible
    /\ \A r \in Rounders :
        Callees[r] = [params |-> <<"f64">>, ret |-> "f64", fallible |-> FALSE, out |-> FALSE]
    /\ \A h \in Heads :
        /\ h.ret \in Types /\ h.fallible \in BOOLEAN /\ h.exported \in BOOLEAN
        /\ h.ret \in Arrays \cup {"string"} => h.fallible /\ h.exported
    /\ Ints \subseteq Nat /\ I32Max \in Nat /\ MaxPlaces \in Nat
    /\ MaxNodes \in Nat /\ MaxStack \in Nat /\ MaxFunctions \in Nat

VARIABLES
    stack,      \* the checked expressions that are not yet part of a larger one
    head,       \* the signature of the function being checked
    body,       \* the answers for its finished statements, joined
    module,     \* the answers for the functions before it, joined
    functions,  \* how many those are
    nodes,      \* how many nodes have been checked
    outcome     \* "checking", "accepted" or "refused"

vars == <<stack, head, body, module, functions, nodes, outcome>>

-----------------------------------------------------------------------------
(* What the lowering writes.                                               *)

\* The four strings a module builds are lowered only at `return`; every other string is a
\* pointer.
PieceKind(k) ==
    CASE k = "Cast" -> "Digits" [] k = "ByteSlice" -> "Span" [] k = "Fixed" -> "Decimal"
      [] OTHER -> "Bytes"

\* Events of the text besides calls: a return of -2, and one from a function with no status;
\* places the lowering holds to be unreachable, for a string and for `return` of an array, at
\* which the compiler panics; a number or a sum of pointers where a pointer
\* is meant; a comparison of two pointers; bytes of a non-ASCII literal compared or handed to
\* code that may compare them, whether the literal itself or a span of it; and such bytes
\* written to the host's buffer.
Events == {"bail", "stranded", "panic", "array return", "wild", "address", "literal read",
           "span read", "utf8"}

TextOf(kids) == UNION {kids[i].text : i \in DOMAIN kids}
IsSpan(e) == e.kind = "ByteSlice"
HasSpan(kids) == \E i \in DOMAIN kids : IsSpan(kids[i])

\* Non-ASCII bytes of the module behind a string value, and what reading them is.
Inspected(kids) ==
    {IF IsSpan(kids[i]) THEN "span read" ELSE "literal read" :
        i \in {j \in DOMAIN kids : kids[j].alien}}

\* `==` and `!=` of strings: a span is compared by its length, anything else up to the NUL.
SpanOrOther(e) == IF IsSpan(e) THEN e.parts ELSE e.text
StringEquality(kids) ==
    Inspected(kids) \cup
    IF HasSpan(kids)
    THEN (UNION {SpanOrOther(kids[i]) : i \in DOMAIN kids}) \cup {"ml_sublen", "ml_subeq", "bail"}
    ELSE TextOf(kids) \cup {"ml_streq"}

\* emit_expr: the text of a node used as a value.  The helper ml_<r> of a rounder r is r here.
emit_expr(k, name, ty, kids) ==
    CASE k = "Index" -> TextOf(kids) \cup {"bail"}
      [] k = "ByteLen" -> TextOf(kids) \cup {"ml_slen"}
      [] k \in {"ByteSlice", "Fixed"} -> {"panic"}
      [] k = "Call" -> TextOf(kids) \cup Inspected(kids)
                         \cup ({name} \cap Rounders)
      [] k = "Cast" /\ ty = "string" -> TextOf(kids) \cup {"wild"}
      [] k = "Add" /\ ty = "string" -> TextOf(kids) \cup {"wild"}
      [] k \in Equality /\ kids[1].ty = "string" -> StringEquality(kids)
      [] k \in Equality /\ kids[1].ty \in Arrays -> TextOf(kids) \cup {"address"}
      [] OTHER -> TextOf(kids)

\* The text of the operands of a piece, which `emit_concat_return` binds once each, and the
\* kinds of the pieces `flatten_concat` finds below a node.
emit_pieces(k, ty, kids, text) ==
    CASE k = "Add" /\ ty = "string" -> UNION {kids[i].parts : i \in DOMAIN kids}
      [] k \in {"ByteSlice", "Fixed", "Cast"} -> TextOf(kids)
      [] OTHER -> text

flatten_concat(k, ty, kids) ==
    IF k = "Add" /\ ty = "string" THEN UNION {kids[i].pieces : i \in DOMAIN kids}
    ELSE {PieceKind(k)}

\* What the passes call for a piece of each kind.
PieceText(kind) ==
    CASE kind = "Digits"  -> {"ml_ilen", "ml_wint"}
      [] kind = "Bytes"   -> {"ml_slen", "ml_wstr"}
      [] kind = "Span"    -> {"ml_sublen", "ml_wsub", "bail"}
      [] kind = "Decimal" -> {"ml_fixscale", "ml_fixlen", "ml_wfix", "bail"}

emit_concat_return(e) == e.parts \cup UNION {PieceText(p) : p \in e.pieces}

\* A `return`: a lone pointer goes through ml_strout, everything built through the two passes.
\* An array has no lowering here.
emit_return(e) ==
    IF e.ty \in Arrays THEN e.text \cup {"array return"}
    ELSE IF e.ty # "string" THEN e.text
    ELSE (IF e.kind \in {"ConstStr", "Var"} THEN e.text \cup {"ml_strout"} ELSE emit_concat_return(e))
         \cup (IF e.alien THEN {"utf8"} ELSE {})

-----------------------------------------------------------------------------
(* The walkers: what each finds at a node, or somewhere below it.          *)

Below(w, kids) == \E i \in DOMAIN kids : kids[i].saw[w]

uses_byte_len(k, kids) == k = "ByteLen" \/ Below("byteLen", kids)

builds_strings(k, kids) == k \in {"ByteSlice", "Fixed"} \/ Below("builds", kids)

\* Mutant: the walker does not enter a concatenation.
compares_strings_NotInConcat(k, kids) ==
    \/ k \in Equality /\ kids[1].ty = "string" /\ ~HasSpan(kids)
    \/ Below("compares", kids) /\ ~(k = "Add" /\ kids[1].ty = "string")

\* Mutant: a compared span counts as a comparison of strings.
compares_strings_WithSpans(k, kids) ==
    \/ k \in Equality /\ kids[1].ty = "string"
    \/ Below("compares", kids)

compares_strings(k, kids) ==
    \/ k \in Equality /\ kids[1].ty = "string" /\ ~HasSpan(kids)
    \/ Below("compares", kids)

uses_byte_slice(k, kids) == k = "ByteSlice" \/ Below("slices", kids)

compares_a_span(k, kids) == (k \in Equality /\ HasSpan(kids)) \/ Below("spanCompared", kids)

uses_fixed(k, kids) == k = "Fixed" \/ Below("fixed", kids)

first_index(k, kids) == k = "Index" \/ Below("index", kids)

\* Mutant: only an index is thought to fail.
can_fail_out_of_range_IndexOnly(k, kids) == k = "Index" \/ Below("outOfRange", kids)

can_fail_out_of_range(k, kids) ==
    k \in {"Index", "ByteSlice", "Fixed"} \/ Below("outOfRange", kids)

used_rounders(k, name, kids) ==
    (IF k = "Call" THEN {name} \cap Rounders ELSE {}) \cup UNION {kids[i].rounders : i \in DOMAIN kids}

\* Nodes whose bytes go where the bytes of the node above go.
Inherits(k, ty) == k \in {"Neg", "Not", "Cast"} \/ (k = "Add" /\ ty = "string")

\* A non-ASCII literal at a place that is not an output; `out` says whether the node is at one.
non_ascii_literal_outside_output(k, ty, alien, kids, out) ==
    LET IsOutput(i) == CASE Inherits(k, ty)  -> out
                         [] k = "ByteLen"    -> TRUE
                         [] k = "ByteSlice"  -> i = 1
                         [] OTHER            -> FALSE
    IN  \/ k = "ConstStr" /\ alien /\ ~out
        \/ \E i \in DOMAIN kids : kids[i].outside[IsOutput(i)]

\* A non-ASCII literal whose bytes go where the node's go.
returns_non_ascii_bytes(k, ty, alien, kids, out) ==
    LET IsOutput(i) == out /\ (Inherits(k, ty) \/ (k = "ByteSlice" /\ i = 1))
    IN  \/ k = "ConstStr" /\ alien /\ out
        \/ \E i \in DOMAIN kids : kids[i].leaves[IsOutput(i)]

Saw(k, kids) ==
    [byteLen |-> uses_byte_len(k, kids), builds |-> builds_strings(k, kids),
     compares |-> compares_strings(k, kids), slices |-> uses_byte_slice(k, kids),
     spanCompared |-> compares_a_span(k, kids), fixed |-> uses_fixed(k, kids),
     index |-> first_index(k, kids), outOfRange |-> can_fail_out_of_range(k, kids)]

\* An expression.  `lit` is what `i32_literal` reads out of it, as a sequence of at most one;
\* `kind` is kept for what is asked its kind again, `parts` and `pieces` for strings.
Node(k, name, ty, lit, alien, kids) ==
    LET text == emit_expr(k, name, ty, kids)
        IsString == ty = "string"
    IN  [kind |-> IF ty \in Arrays \cup {"string"} \/ k = "ConstI32" THEN k ELSE "value",
         ty |-> ty, lit |-> lit, alien |-> alien, text |-> text,
         parts |-> IF IsString THEN emit_pieces(k, ty, kids, text) ELSE {},
         pieces |-> IF IsString THEN flatten_concat(k, ty, kids) ELSE {},
         saw |-> Saw(k, kids), rounders |-> used_rounders(k, name, kids),
         outside |-> [out \in BOOLEAN |-> non_ascii_literal_outside_output(k, ty, alien, kids, out)],
         leaves |-> [out \in BOOLEAN |-> returns_non_ascii_bytes(k, ty, alien, kids, out)]]

-----------------------------------------------------------------------------
(* check_expr, an arm each.                                                *)

Pushed(n, e) == Append(SubSeq(stack, 1, Len(stack) - n), e)
Top(n) == SubSeq(stack, Len(stack) - n + 1, Len(stack))

\* The last n expressions become the children of a new node, or the program is refused.
Check(n, ok, e) ==
    /\ outcome = "checking"
    /\ nodes < MaxNodes
    /\ nodes' = nodes + 1
    /\ IF ok THEN stack' = Pushed(n, e) /\ UNCHANGED outcome
             ELSE stack' = <<>> /\ outcome' = "refused"
    /\ UNCHANGED <<head, body, module, functions>>

Leaf(k, ty, lit, alien) == Node(k, "", ty, lit, alien, <<>>)

Constant ==
    /\ Len(stack) < MaxStack
    /\ \/ Check(0, TRUE, Leaf("ConstF64", "f64", <<>>, FALSE))
       \/ Check(0, TRUE, Leaf("ConstBool", "bool", <<>>, FALSE))
       \/ \E foreign \in BOOLEAN : Check(0, TRUE, Leaf("ConstStr", "string", <<>>, foreign))
       \/ \E n \in Ints : Check(0, n <= I32Max, Leaf("ConstI32", "i32", <<n>>, FALSE))

\* An out parameter is write-only; `result` and unknown names are not in the scope.
Variable ==
    /\ Len(stack) < MaxStack
    /\ \E n \in DOMAIN Scope \cup Unbound :
        Check(0, n \in DOMAIN Scope /\ ~Scope[n].out, Leaf("Var", Scope[n].ty, <<>>, FALSE))

Numeric == {"f64", "i32"}

Unary ==
    /\ Len(stack) >= 1
    /\ LET a == Top(1)[1]
           i32_literal == [i \in DOMAIN a.lit |-> -a.lit[i]]
       IN  \/ Check(1, a.ty \in Numeric, Node("Neg", "", a.ty, i32_literal, FALSE, <<a>>))
           \/ Check(1, a.ty = "bool", Node("Not", "", "bool", <<>>, FALSE, <<a>>))

\* Numbers convert to each other, and an i32 to a string; nothing else does.
Cast ==
    /\ Len(stack) >= 1
    /\ \E to \in Numeric \cup {"bool", "string"} :
        LET a == Top(1)[1]
        IN  Check(1, <<a.ty, to>> \in (Numeric \X Numeric) \cup {<<"i32", "string">>},
                  Node("Cast", "", to, <<>>, FALSE, <<a>>))

\* Mutant: a span is taken for a borrowed string.
is_built_string_SpanBorrowed(e) == e.ty = "string" /\ e.kind \in {"Add", "Cast", "Fixed"}

\* A built string has bytes only at `return`.
is_built_string(e) == e.ty = "string" /\ e.kind \in {"Add", "Cast", "ByteSlice", "Fixed"}

\* The result type of an operator, if the operand types have one.
check_binop(op, l, r) ==
    CASE op \in Logical -> IF {l, r} = {"bool"} THEN {"bool"} ELSE {}
      [] op = "Add"     -> IF l = r /\ l \in Numeric \cup {"string"} THEN {l} ELSE {}
      [] op \in Additive \cup {"Div"} -> IF l = r /\ l \in Numeric THEN {l} ELSE {}
      [] op = "Rem"     -> IF {l, r} = {"i32"} THEN {"i32"} ELSE {}
      [] op \in Ordering -> IF l = r /\ l \in Numeric THEN {"bool"} ELSE {}
      [] op \in Equality -> IF l = r THEN {"bool"} ELSE {}

\* A comparison takes one span, and otherwise no built string.
ComparisonAllowed(l, r) ==
    /\ ~(IsSpan(l) /\ IsSpan(r))
    /\ \A e \in {l, r} : is_built_string(e) => IsSpan(e)

Binary ==
    /\ Len(stack) >= 2
    /\ \E op \in Operators :
        LET l == Top(2)[1]
            r == Top(2)[2]
            ty == check_binop(op, l.ty, r.ty)
        IN  Check(2, /\ ~(op \in {"Div", "Rem"} /\ r.kind = "ConstI32" /\ r.lit = <<0>>)
                     /\ op \in Equality => ComparisonAllowed(l, r)
                     /\ ty # {},
                  Node(op, "", CHOOSE t \in ty : TRUE, <<>>, op = "Add" /\ (l.alien \/ r.alien), <<l, r>>))

\* xs[i]: a literal index may not be negative; any other is checked at run time.
reject_negative_index(e) == \A i \in DOMAIN e.lit : e.lit[i] >= 0

Index ==
    /\ Len(stack) >= 1
    /\ \E n \in DOMAIN Scope \cup Unbound :
        LET a == Top(1)[1]
        IN  Check(1, /\ n \in DOMAIN Scope /\ Scope[n].ty \in Arrays
                     /\ a.ty = "i32" /\ reject_negative_index(a),
                  Node("Index", "", Elem(Scope[n].ty), <<>>, FALSE, <<a>>))

LenOf ==
    /\ Len(stack) >= 1
    /\ LET a == Top(1)[1]
       IN  Check(1, a.ty \in Arrays /\ a.kind = "Var", Node("Len", "", "i32", <<>>, FALSE, <<>>))

ByteLen ==
    /\ Len(stack) >= 1
    /\ LET a == Top(1)[1]
       IN  Check(1, a.ty = "string" /\ ~is_built_string(a),
                 Node("ByteLen", "", "i32", <<>>, FALSE, <<a>>))

Fixed ==
    /\ Len(stack) >= 2
    /\ LET x == Top(2)[1]
           places == Top(2)[2]
       IN  Check(2, /\ x.ty = "f64" /\ places.ty = "i32"
                    /\ \A i \in DOMAIN places.lit : places.lit[i] \in 0..MaxPlaces,
                 Node("Fixed", "", "string", <<>>, FALSE, <<x, places>>))

\* byte_slice(s, from, to) of a borrowed string; a literal span may not start before the string
\* or run backwards.
ByteSlice ==
    /\ Len(stack) >= 3
    /\ LET s == Top(3)[1]
           from == Top(3)[2]
           to == Top(3)[3]
       IN  Check(3, /\ s.ty = "string" /\ ~is_built_string(s)
                    /\ from.ty = "i32" /\ to.ty = "i32"
                    /\ \A i \in DOMAIN from.lit :
                        from.lit[i] >= 0 /\ \A j \in DOMAIN to.lit : to.lit[j] >= from.lit[i],
                 Node("ByteSlice", "", "string", <<>>, s.alien, <<s, from, to>>))

\* The arguments of a call, of either kind.
ArgumentsFit(f, args) ==
    /\ Len(args) = Len(Callees[f].params)
    /\ \A i \in DOMAIN args : args[i].ty = Callees[f].params[i] /\ ~is_built_string(args[i])

Call ==
    \E f \in DOMAIN Callees \cup Unbound, n \in 0..2 :
        /\ Len(stack) >= n
        /\ n = 0 => Len(stack) < MaxStack
        /\ Check(n, /\ f \in DOMAIN Callees
                    /\ ~Callees[f].fallible /\ ~Callees[f].out
                    /\ ArgumentsFit(f, Top(n)),
                 Node("Call", f, Callees[f].ret, <<>>, FALSE, Top(n)))

-----------------------------------------------------------------------------
(* check_stmt, an arm each.  Where a statement may stand, and what a body   *)
(* must end with, is the subject of FunctionBody.                           *)

Walkers == {"byteLen", "builds", "compares", "slices", "spanCompared", "fixed", "index", "outOfRange"}

\* The answers for no statement at all.
Nothing ==
    [saw |-> [w \in Walkers |-> FALSE], rounders |-> {}, text |-> {}, outside |-> FALSE,
     leaves |-> FALSE, span |-> FALSE, strout |-> FALSE]

\* The answers for a body and one more statement: its expressions es stand where their bytes
\* are an output or not, `found` is what walkers find in the statement itself.
Joined(es, out, found, text, span) ==
    LET Some(P(_)) == \E i \in DOMAIN es : P(es[i])
        OutsideOf(e) == e.outside[out]
        LeavesOf(e) == e.leaves[out]
    IN  [body EXCEPT
          !.saw = [w \in Walkers |-> @[w] \/ w \in found \/ \E i \in DOMAIN es : es[i].saw[w]],
          !.rounders = @ \cup UNION {es[i].rounders : i \in DOMAIN es},
          !.text = @ \cup text,
          !.outside = @ \/ Some(OutsideOf),
          !.leaves = @ \/ Some(LeavesOf),
          !.span = @ \/ span]

Statement(n, ok, joined) ==
    /\ outcome = "checking"
    /\ Len(stack) = n
    /\ stack' = <<>>
    /\ IF ok THEN body' = joined /\ UNCHANGED outcome
             ELSE outcome' = "refused" /\ UNCHANGED body
    /\ UNCHANGED <<head, module, functions, nodes>>

\* An expression whose value is used and gone.
Used(es) == Joined(es, FALSE, {}, TextOf(es), FALSE)

\* flatten_concat makes a sum of strings, or a lone `n as string`, a Concat.
IsConcat(e) == e.ty = "string" /\ e.kind \in {"Add", "Cast"}

returns_a_span(e) == "Span" \in e.pieces

\* An array has the type of an array return, and nothing more is asked of it.
Return ==
    /\ Len(stack) = 1
    /\ LET e == stack[1]
       IN  Statement(1, /\ e.ty = head.ret
                        /\ e.ty = "string" =>
                            IsConcat(e) \/ e.kind \in {"ConstStr", "Var", "Fixed", "ByteSlice"},
                     Joined(stack, TRUE, IF IsConcat(e) THEN {"builds"} ELSE {},
                            emit_return(e), returns_a_span(e)))

\* let, and an assignment to a local or an out parameter: of scalars only.
Bind ==
    /\ Len(stack) = 1
    /\ Statement(1, stack[1].ty \notin Arrays \cup {"string"}, Used(stack))

\* The condition of an if or a while.
Condition ==
    /\ Len(stack) = 1
    /\ Statement(1, stack[1].ty = "bool", Used(stack))

ResultLen ==
    /\ Len(stack) = 1
    /\ Statement(1, head.ret \in Arrays /\ stack[1].ty = "i32", Used(stack))

\* result[i] = v is checked against the declared length, and bails.
ResultSet ==
    /\ Len(stack) = 2
    /\ Statement(2, /\ head.ret \in Arrays
                    /\ stack[1].ty = "i32" /\ reject_negative_index(stack[1])
                    /\ stack[2].ty = Elem(head.ret),
                 Joined(stack, FALSE, {"outOfRange"}, TextOf(stack) \cup {"bail"}, FALSE))

\* try f(args): a fallible function called by one, whose value is a scalar.
TryCall ==
    \E f \in DOMAIN Callees \cup Unbound :
        Statement(Len(stack),
            /\ f \in DOMAIN Callees
            /\ Callees[f].fallible /\ head.fallible
            /\ ~Callees[f].out /\ Callees[f].ret \notin Arrays \cup {"string"}
            /\ ArgumentsFit(f, stack),
            Joined(stack, FALSE, {}, TextOf(stack) \cup Inspected(stack), FALSE))

Fail == Statement(0, head.fallible, body)

-----------------------------------------------------------------------------
(* The end of a function, and of the module.                               *)

\* What the checker asks of a finished body: a status to report an index or a compared span
\* with, and no non-ASCII literal but in an output.
BodyStands ==
    /\ head.fallible \/ ~(body.saw["index"] \/ body.saw["spanCompared"])
    /\ ~body.outside

\* The module with this function.
Grown ==
    LET stranded == IF ~head.fallible /\ "bail" \in body.text THEN {"stranded"} ELSE {}
    IN  [saw |-> [w \in Walkers |-> module.saw[w] \/ body.saw[w]],
         rounders |-> module.rounders \cup body.rounders,
         text |-> module.text \cup body.text \cup stranded,
         outside |-> module.outside \/ body.outside,
         leaves |-> module.leaves \/ body.leaves,
         span |-> module.span \/ body.span,
         strout |-> module.strout \/ (head.exported /\ head.ret = "string")]

EndFunction ==
    /\ outcome = "checking" /\ stack = <<>>
    /\ IF BodyStands
       THEN /\ module' = Grown
            /\ body' = Nothing
            /\ functions' = functions + 1
            /\ \/ functions + 1 < MaxFunctions /\ head' \in Heads /\ UNCHANGED outcome
               \/ outcome' = "accepted" /\ UNCHANGED head
       ELSE outcome' = "refused" /\ UNCHANGED <<head, body, module, functions>>
    /\ UNCHANGED <<stack, nodes>>

Init ==
    /\ stack = <<>> /\ head \in Heads
    /\ body = Nothing /\ module = Nothing
    /\ functions = 0 /\ nodes = 0 /\ outcome = "checking"

Next ==
    \/ Constant \/ Variable \/ Unary \/ Cast \/ Binary \/ Index \/ LenOf \/ ByteLen
    \/ Fixed \/ ByteSlice \/ Call
    \/ Return \/ Bind \/ Condition \/ ResultLen \/ ResultSet \/ TryCall \/ Fail
    \/ EndFunction

Spec == Init /\ [][Next]_vars

-----------------------------------------------------------------------------
(* The helpers of the generated crate: emit, in its order.                 *)

When(gate, helpers) == IF gate THEN helpers ELSE {}

emit_string_helper == When(module.saw["compares"], {"ml_streq"})
emit_strout_helper == When(module.strout, {"ml_strout"})
emit_slen_helper == When(module.saw["builds"] \/ module.saw["byteLen"], {"ml_slen"})
emit_concat_helpers == When(module.saw["builds"], {"ml_ilen", "ml_wstr", "ml_wint"})
emit_span_helpers ==
    When(module.saw["slices"], {"ml_sublen"} \cup When(module.span, {"ml_wsub"}))
emit_span_compare_helper == When(module.saw["spanCompared"], {"ml_subeq"})
emit_trunc_helpers == When(module.rounders # {} \/ module.saw["fixed"], {"ml_trunc_raw"})
emit_rounding_helpers == When(module.rounders # {}, {"ml_sz"} \cup module.rounders)
emit_fixed_helpers == When(module.saw["fixed"], {"ml_fixscale", "ml_fixlen", "ml_wfix"})

Provided ==
    emit_string_helper \cup emit_strout_helper \cup emit_slen_helper \cup emit_concat_helpers
    \cup emit_span_helpers \cup emit_span_compare_helper \cup emit_trunc_helpers
    \cup emit_rounding_helpers \cup emit_fixed_helpers

\* The helpers a helper calls.
HelperCalls(h) ==
    CASE h = "ml_wint"     -> {"ml_ilen"}
      [] h = "ml_sublen"   -> {"ml_slen"}
      [] h = "ml_wfix"     -> {"ml_fixlen"}
      [] h = "ml_fixscale" -> {"ml_trunc_raw"}
      [] h \in Rounders    -> {"ml_trunc_raw", "ml_sz"}
      [] OTHER             -> {}

Called == (module.text \ Events) \cup UNION {HelperCalls(h) : h \in Provided}

-----------------------------------------------------------------------------
(* Properties.                                                             *)

Accepted == outcome = "accepted"

\* A private helper the generated crate calls anywhere is defined in it: whatever the nesting,
\* the walker that decides the definition finds the node whose text is the call.  (Missing one
\* failed in the generated crate with E0425, twice.)
Linked == Accepted => Called \subseteq Provided

\* A helper with a gate of its own is defined only if something calls it; the ones every string
\* builder gets are defined together.
NothingUnused ==
    Accepted => Provided \ {"ml_strout", "ml_slen", "ml_ilen", "ml_wstr", "ml_wint"} \subseteq Called

\* The bindings name the status -2 exactly if some text of the module returns it, and carry the
\* notice on UTF-8 exactly if bytes of a non-ASCII literal reach the host's buffer.
BindingsTellAll ==
    Accepted => /\ module.saw["outOfRange"] <=> "bail" \in module.text
                /\ module.leaves <=> "utf8" \in module.text

\* What the checker lets through can be lowered, arrays as values apart (NoArrayValue): no string
\* is built where it has no bytes, no arm for a string held unreachable is reached, no -2 is
\* returned where there is no status; and a non-ASCII literal is neither compared nor handed to
\* code that may compare it.
Lowerable ==
    Accepted => module.text \cap {"panic", "wild", "stranded", "literal read"} = {}

\* Bytes of a non-ASCII literal are not compared, nor a span of them: "a non-ASCII literal may
\* not be compared", and a span's may be there because "it is written out next" (ir.rs:430).
SpanOfLiteralNotCompared == Accepted => "span read" \notin module.text

\* An array is no value: "typeck refuses" a `return` of one (codegen.rs:704), and no `==` of the
\* source becomes a comparison of addresses in the generated crate (codegen.rs:1393-1396).
NoArrayValue == Accepted => module.text \cap {"array return", "address"} = {}

=============================================================================
