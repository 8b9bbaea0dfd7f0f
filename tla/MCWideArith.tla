----------------------------- MODULE MCWideArith -----------------------------
(* TLC instance of WideArith: every expression of at most two operators over   *)
(* two variables, and of three over one; an i32 of 3 bits and an i64 of 6.     *)
EXTENDS WideArith

CONSTANTS f, g

TwoVars  == {"x", "y"}
Edges    == {-4, -1, 0, 2, 3}
TwoItems == <<3, -1>>

\* g may call f.
TwoFunctions == {f, g}
Chains == {[h \in Functions |-> IF h = g THEN c ELSE {}] : c \in SUBSET {f}}

\* The expressions of exactly k operators, an index and a call counted as one.
Built(names, binary, unary) ==
  LET Of[k \in 0..3] ==
        IF k = 0 THEN {Node("var", x, <<>>) : x \in names}
        ELSE {Node(op, "none", <<t>>) : op \in unary, t \in Of[k - 1]}
             \union {Node("call", h, <<t>>) : h \in Functions, t \in Of[k - 1]}
             \union UNION {{Node(op, "none", <<l, r>>) :
                              op \in binary, l \in Of[j], r \in Of[k - 1 - j]} : j \in 0..(k - 1)}
  IN Of

\* A comparison is only ever the root: its value is a bool.
Compared(Of, k) ==
  UNION {{Node("<", "none", <<l, r>>) : l \in Of[j], r \in Of[k - 1 - j]} : j \in 0..(k - 1)}

Wide == Built(TwoVars, {"+", "-", "*", "/", "%"}, {"neg", "index"})
Deep == Built({"x"}, {"+", "*", "/"}, {"neg", "index"})

WideAndDeep ==
  Wide[0] \union Wide[1] \union Wide[2] \union Compared(Wide, 1) \union Compared(Wide, 2)
    \union Deep[3] \union Compared(Deep, 3)

\* TLC evaluates what a constant is given at every use of it, and the definition it
\* refers to once.
TwoOrThree == WideAndDeep

OperatorsIn[e \in WideAndDeep] ==
  CASE Len(e.args) = 0 -> 0
    [] Len(e.args) = 1 -> 1 + OperatorsIn[e.args[1]]
    [] Len(e.args) = 2 -> 1 + OperatorsIn[e.args[1]] + OperatorsIn[e.args[2]]
OperatorCount == OperatorsIn
=============================================================================
