---------------------------- MODULE MCExpressions ----------------------------
(* TLC instance of Expressions: one variable of each kind, one callee of     *)
(* each kind, one operator of each kind.                                     *)
EXTENDS Expressions

Scope_ == [s |-> [ty |-> "string", out |-> FALSE], n |-> [ty |-> "i32", out |-> FALSE],
           xs |-> [ty |-> "[i32]", out |-> FALSE], o |-> [ty |-> "f64", out |-> TRUE]]

Sig(params, ret, fallible, out) == [params |-> params, ret |-> ret, fallible |-> fallible, out |-> out]
Callees_ == [score |-> Sig(<<"bool">>, "i32", FALSE, FALSE), show |-> Sig(<<"string">>, "f64", FALSE, FALSE),
             round |-> Sig(<<"f64">>, "f64", FALSE, FALSE), split |-> Sig(<<>>, "i32", FALSE, TRUE),
             ask |-> Sig(<<"string">>, "i32", TRUE, FALSE), label |-> Sig(<<>>, "string", TRUE, FALSE)]

Fn(ret, fallible, exported) == [ret |-> ret, fallible |-> fallible, exported |-> exported]
Heads_ == {Fn("i32", FALSE, FALSE), Fn("bool", TRUE, FALSE), Fn("string", TRUE, TRUE),
           Fn("[i32]", TRUE, TRUE)}

Unbound_ == {"result"}
Rounders_ == {"round"}
Operators_ == {"And", "Add", "Div", "Eq"}

\* The larger instance leaves aside expressions that wait on operands they cannot take, and
\* has two functions only if they are small.
CONSTANT SmallNodes
Focus ==
  /\ Len(stack) >= 2 => stack[1].ty # "bool" /\ (stack[1].ty \in Arrays => stack[2].ty \in Arrays)
  /\ Len(stack) = 3 => stack[1].ty = "string" /\ stack[2].ty \in {"i32", "string"}
  /\ functions > 0 /\ outcome = "checking" => nodes <= SmallNodes
=============================================================================
