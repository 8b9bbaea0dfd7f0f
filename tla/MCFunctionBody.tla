--------------------------- MODULE MCFunctionBody ---------------------------
(* TLC instance of FunctionBody: every body of at most MaxStatements           *)
(* statements, blocks and what is in them counted, over the statements given. *)
EXTENDS FunctionBody

CONSTANTS MaxStatements, a, b

\* S, which TLC sorts to count it: it then takes a union without comparing each
\* element of the one set with each of the other.
Sorted(S) == IF Cardinality(S) >= 0 THEN S ELSE {}

\* The bodies over the statements `ops` and the out parameters `declared`.
Built(ops, declared) ==
  LET leaf == {Statement(op, "none", <<>>) : op \in ops \ {"out", "try out"}}
              \union {Statement(op, o, <<>>) : op \in ops \intersect {"out", "try out"}, o \in declared}
      \* at most k statements, at most j of them the first with its block
      Of[k, j \in 0..MaxStatements] ==
        IF j = 0 THEN {<<>>}
        ELSE Sorted(Of[k, j - 1]) \union
             {<<s>> \o more :
                s \in leaf \union {Statement(op, "none", block) :
                                     op \in Blocky, block \in Of[j - 1, j - 1]},
                more \in Of[k - j, k - j]}
  IN Of[MaxStatements, MaxStatements]

Declaring(rets, declared, bodies) == [ret : rets, outs : {declared}, body : bodies]

ScalarOps == {"out", "return", "fail", "try out", "return try"}
ArrayOps  == {"eval", "fail", "return", "try", "result", "set"}

\* TLC evaluates what a constant is given at every use of it, and a definition of
\* its own, as here, once.
ScalarBodies == Built(ScalarOps, {a, b})
ArrayBodies  == Built(ArrayOps, {})
EitherBodies == Sorted(ScalarBodies) \union ArrayBodies
ScalarAndArrayBodies == EitherBodies
ArrayOutBodies == Built({"eval", "out", "result"}, {a})

WithoutArrayOuts ==
  Declaring({"plain", "fallible"}, {a, b}, ScalarBodies) \union Declaring({"array"}, {}, ArrayBodies)
ArrayWithOut == Declaring({"array"}, {a}, ArrayOutBodies)

Statements[body \in Bodies] ==
  IF body = <<>> THEN 0 ELSE 1 + Statements[Head(body).body] + Statements[Tail(body)]
StatementsOf == Statements

BothOuts   == {a, b}
Elements   == 0..2
AllLengths == -1..2
AllCaps    == -1..3
=============================================================================
