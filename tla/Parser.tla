-------------------------------- MODULE Parser --------------------------------
(***************************************************************************)
(* The recursive-descent parser (parser.rs), over whatever stream of tokens *)
(* the lexer hands it.  A call that is under way is the goals it still has  *)
(* to reach: `goals` is the parser's stack, its head the innermost call,    *)
(* and each action is one function, or one turn of its loop.  Trees are     *)
(* kept as their depth and the precedence of their root.                   *)
(*                                                                          *)
(* Two limits guard the compiler's own stack: MAX_NESTING is a budget of    *)
(* descents charged while parsing, MAX_TREE_DEPTH bounds the finished tree. *)
(* Which of two errors is reported when lexing stops early is `parse` of    *)
(* lib.rs.  What a message says is left out.                                *)
(***************************************************************************)
EXTENDS Naturals, Sequences, FiniteSets

CONSTANTS
    Tokens,          \* the tokens that occur
    MAX_NESTING, MAX_TREE_DEPTH

\* `result` and the type names are ordinary identifiers; `int` is a positive integer literal,
\* `number` any other.  A stream ends in Eof, or in Bad where lexing stopped.
Names    == {"ident", "result", "const", "scalar", "string"}
Literals == {"int", "number", "bool", "text"}
Ends     == {"Eof", "Bad"}

OpsAt == << {"||"}, {"&&"}, {"<"}, {"+", "-"}, {"*"} >>
Ops   == UNION {OpsAt[l] : l \in DOMAIN OpsAt}

AllTokens == Names \cup Literals \cup Ends \cup Ops \cup
    {"!", "as", "(", ")", "[", "]", "{", "}", ",", ":", "=", "->", "export", "fn", "out",
     "error", "if", "while", "return", "fail", "let", "mut", "try"}

ASSUME ConstantsAssumption ==
    /\ Tokens \subseteq AllTokens /\ Tokens \cap Ends # {}
    /\ MAX_NESTING \in Nat /\ MAX_TREE_DEPTH \in Nat

VARIABLES
    goals,    \* what the calls under way still have to do, innermost first
    trees,    \* the subtrees they have built, last first
    depth,    \* descents charged
    ahead,    \* the tokens looked at, the current one first
    outcome   \* "parsing", "accepted", "parse error" or "lex error"

vars == <<goals, trees, depth, ahead, outcome>>

look == ahead[1]
AtEnd == look \in Ends

\* Levels of precedence: 1..5 the binary operators, loosest first, then these.
CastLevel    == Len(OpsAt) + 1
UnaryLevel   == CastLevel + 1
PrimaryLevel == UnaryLevel + 1

Leaf == [deep |-> 1, level |-> PrimaryLevel, sound |-> TRUE]
None == [deep |-> 0, level |-> PrimaryLevel, sound |-> TRUE]

Goal(name) == <<name>>
eat(token) == <<"eat", token>>
Call(names) == [i \in DOMAIN names |-> Goal(names[i])]

-----------------------------------------------------------------------------
(* Steps.                                                                  *)

Parsing(name) == outcome = "parsing" /\ Head(goals)[1] = name

\* The head of the stack gives way to these goals.
Become(new) == goals' = new \o Tail(goals)

Stay == UNCHANGED ahead

\* Past n tokens; the next one may be any, but nothing follows the end.
Consume(n) ==
    IF n < Len(ahead)
    THEN ahead' = SubSeq(ahead, n + 1, Len(ahead))
    ELSE \E t \in Tokens : ahead' = <<t>>

\* The calls under way return, and what they have built is dropped.
Stop(answer) ==
    /\ outcome' = answer
    /\ goals' = <<>> /\ trees' = <<>> /\ depth' = 0 /\ Stay

\* An error at the current token.  Where lexing stopped, that is the prefix running out.
Refuse == Stop(IF look = "Bad" THEN "lex error" ELSE "parse error")

Continue == UNCHANGED outcome

\* A goal that only looks and consumes.
Step(n, new) == Consume(n) /\ Become(new) /\ Continue /\ UNCHANGED <<trees, depth>>
Expand(new) == Stay /\ Become(new) /\ Continue /\ UNCHANGED <<trees, depth>>

\* Descend one level, or refuse before the stack runs out; then do P.
enter(P) == IF depth >= MAX_NESTING THEN Refuse ELSE depth' = depth + 1 /\ Continue /\ P

\* The second token, where a guard asks for it, and the third.
LookAhead(n) ==
    /\ Len(ahead) < n /\ ~(ahead[Len(ahead)] \in Ends)
    /\ \E t \in Tokens : ahead' = Append(ahead, t)
    /\ UNCHANGED <<goals, trees, depth, outcome>>

Known(n) == Len(ahead) >= n \/ ahead[Len(ahead)] \in Ends
peek_at(n) == IF n < Len(ahead) THEN ahead[n + 1] ELSE ahead[Len(ahead)]

Eat ==
    /\ Parsing("eat")
    /\ IF look = Head(goals)[2] THEN Step(1, <<>>) ELSE Refuse

Ident ==
    /\ Parsing("name")
    /\ IF look \in Names THEN Step(1, <<>>) ELSE Refuse

\* A token that may be there: out, mut, !.
Optional ==
    /\ Parsing("optional")
    /\ Step(IF look = Head(goals)[2] THEN 1 ELSE 0, <<>>)

-----------------------------------------------------------------------------
(* Items.                                                                  *)

at_const_decl ==
    \/ look = "const" /\ peek_at(1) \in Names
    \/ look = "export" /\ peek_at(1) = "const" /\ peek_at(2) \in Names

NeedsSecond == look \in {"const", "export"}
NeedsThird == look = "export" /\ Known(2) /\ peek_at(1) = "const"

LookAtItem ==
    /\ Parsing("items")
    /\ (NeedsSecond /\ LookAhead(2)) \/ (NeedsThird /\ LookAhead(3))

parse_module ==
    /\ Parsing("items")
    /\ (NeedsSecond => Known(2)) /\ (NeedsThird => Known(3))
    /\ \/ /\ AtEnd
          /\ Stop(IF look = "Bad" THEN "lex error" ELSE "accepted")
       \/ /\ look = "error"
          /\ Step(1, <<Goal("name"), eat("="), eat("int"), Goal("items")>>)
       \/ /\ at_const_decl
          /\ Step(IF look = "export" THEN 2 ELSE 1,
                  <<Goal("name"), eat("="), Goal("constant"), Goal("items")>>)
       \/ /\ ~AtEnd /\ look # "error" /\ ~at_const_decl
          /\ Expand(Call(<<"function", "check", "items">>))

\* One literal, perhaps negated; a token that would continue it is refused.
ConstantValue ==
    /\ Parsing("constant")
    /\ \/ look = "-" /\ Step(1, Call(<<"negated", "end_of_constant">>))
       \/ look \in {"int", "number", "bool"} /\ Step(1, <<Goal("end_of_constant")>>)
       \/ look \notin {"-", "int", "number", "bool"} /\ Refuse

NegatedValue ==
    /\ Parsing("negated")
    /\ IF look \in {"int", "number"} THEN Step(1, <<>>) ELSE Refuse

EndOfConstant ==
    /\ Parsing("end_of_constant")
    /\ IF look \in Ops \cup {"as", "(", "["} THEN Refuse ELSE Expand(<<>>)

parse_function ==
    /\ Parsing("function")
    /\ Expand(<< <<"optional", "export">>, eat("fn"), Goal("name"), eat("("), Goal("parameters"),
                 eat(")"), eat("->"), Goal("type"), <<"optional", "!">>, Goal("block") >>)

Parameters ==
    /\ Parsing("parameters")
    /\ Expand(IF look = ")" THEN <<>> ELSE <<Goal("parameter")>>)

Parameter ==
    /\ Parsing("parameter")
    /\ Expand(<< <<"optional", "out">>, Goal("name"), eat(":"), Goal("type"), Goal("parameter?") >>)

NextParameter ==
    /\ Parsing("parameter?")
    /\ IF look = "," THEN Step(1, <<Goal("parameter")>>) ELSE Expand(<<>>)

parse_type ==
    /\ Parsing("type")
    /\ \/ look \in {"scalar", "string"} /\ Step(1, <<Goal("type_end")>>)
       \/ look = "[" /\ Step(1, <<eat("scalar"), eat("]"), Goal("type_end")>>)
       \/ look \notin {"scalar", "string", "["} /\ Refuse

\* `T[]` is not a type.
TypeEnd ==
    /\ Parsing("type_end")
    /\ IF look = "[" THEN Refuse ELSE Expand(<<>>)

\* tree_depth of the finished body, against the second limit.
CheckTree ==
    /\ Parsing("check")
    /\ IF Head(trees).deep > MAX_TREE_DEPTH
       THEN Refuse
       ELSE trees' = Tail(trees) /\ Become(<<>>) /\ Stay /\ Continue /\ UNCHANGED depth

-----------------------------------------------------------------------------
(* Trees.                                                                  *)

Deepest(n) == LET D == {trees[i].deep : i \in 1..n} IN CHOOSE d \in D : \A e \in D : e <= d

\* Which operand a root of a given level may take where, without parentheses.
Binds(level, n) ==
    CASE level < CastLevel   -> trees[2].level >= level /\ trees[1].level > level
      [] level = CastLevel   -> trees[1].level >= CastLevel
      [] level = UnaryLevel  -> trees[1].level >= UnaryLevel
      [] OTHER               -> TRUE

\* The last n trees become the children of a node; or, where only the deepest counts, of none.
Built(n, level, extra) ==
    trees' = <<[deep |-> Deepest(n) + extra, level |-> level,
                sound |-> Binds(level, n) /\ \A i \in 1..n : trees[i].sound]>>
             \o SubSeq(trees, n + 1, Len(trees))

Node(n, level) == <<"node", n, level>>
Build ==
    /\ Parsing("node")
    /\ Built(Head(goals)[2], Head(goals)[3], 1)
    /\ Become(<<>>) /\ Stay /\ Continue /\ UNCHANGED depth

\* Siblings: of the arguments of a call, or the statements of a block, the deepest counts.
Join ==
    /\ Parsing("join")
    /\ Built(2, PrimaryLevel, 0)
    /\ Become(<<>>) /\ Stay /\ Continue /\ UNCHANGED depth

Push(tree) == trees' = <<tree>> \o trees

-----------------------------------------------------------------------------
(* Blocks and statements.                                                  *)

parse_block ==
    /\ Parsing("block")
    /\ enter(/\ Become(<<eat("{"), Goal("statements"), eat("}"), Goal("leave_block")>>)
             /\ Push(None) /\ Stay)

LeaveBlock ==
    /\ Parsing("leave_block")
    /\ depth' = depth - 1
    /\ Become(<<>>) /\ Stay /\ Continue /\ UNCHANGED trees

\* Mutant: statements are skipped until a brace, wherever the stream ends.
Statements_ForgetsEnd ==
    /\ Parsing("statements")
    /\ \/ look = "}" /\ Expand(<<>>)
       \/ AtEnd /\ Expand(<<Goal("statements")>>)
       \/ look # "}" /\ ~AtEnd /\ Expand(Call(<<"statement", "join", "statements">>))

Statements ==
    /\ Parsing("statements")
    /\ \/ look = "}" /\ Expand(<<>>)
       \/ AtEnd /\ Refuse
       \/ look # "}" /\ ~AtEnd /\ Expand(Call(<<"statement", "join", "statements">>))

NeedsNext == look \in Names
LookAtStatement == Parsing("statement") /\ NeedsNext /\ LookAhead(2)

Root(n) == Node(n, PrimaryLevel)

parse_stmt ==
    /\ Parsing("statement")
    /\ NeedsNext => Known(2)
    /\ \/ look \in {"if", "while"} /\ Step(1, <<Goal("expr"), Goal("block"), Root(2)>>)
       \/ look = "return" /\ Step(1, <<Goal("value"), Root(1)>>)
       \/ look = "fail" /\ Step(1, <<Goal("name"), Goal("leaf")>>)
       \/ look = "let" /\ Step(1, << <<"optional", "mut">>, Goal("name"), eat("="),
                                     Goal("value"), Root(1) >>)
       \/ look \in Names /\ peek_at(1) = "=" /\ Step(2, <<Goal("value"), Root(1)>>)
       \/ look = "result" /\ peek_at(1) = "["
            /\ Step(2, <<Goal("expr"), eat("]"), eat("="), Goal("expr"), Root(2)>>)
       \/ look = "result" /\ peek_at(1) \notin {"[", "="} /\ Step(1, <<Goal("expr"), Root(1)>>)
       \/ look \notin Names \cup {"if", "while", "return", "fail", "let"} /\ Refuse
       \/ look \in Names \ {"result"} /\ peek_at(1) # "=" /\ Refuse

FailCode == Parsing("leaf") /\ Push(Leaf) /\ Become(<<>>) /\ Stay /\ Continue /\ UNCHANGED depth

\* try is a statement form: only where a whole value stands.
Value ==
    /\ Parsing("value")
    /\ Expand(IF look = "try" THEN <<Goal("try")>> ELSE <<Goal("expr")>>)

parse_try_call ==
    /\ Parsing("try")
    /\ Consume(1) /\ Continue /\ UNCHANGED depth
    /\ Become(<<Goal("name"), eat("("), Goal("arguments"), eat(")")>>)
    /\ Push(None)

Arguments ==
    /\ Parsing("arguments")
    /\ Expand(IF look = ")" THEN <<>> ELSE Call(<<"expr", "join", "argument?">>))

NextArgument ==
    /\ Parsing("argument?")
    /\ IF look = "," THEN Step(1, Call(<<"expr", "join", "argument?">>)) ELSE Expand(<<>>)

-----------------------------------------------------------------------------
(* Expressions.                                                            *)

\* The levels from l on, tightest first: each parses the next one and then loops.
Levels(l) ==
    Call(<<"unary", "casts">>) \o [i \in 1..(CastLevel - l) |-> <<"operators", CastLevel - i>>]

parse_expr ==
    /\ Parsing("expr")
    /\ enter(Become(Levels(1) \o << <<"leave", depth>> >>) /\ Stay /\ UNCHANGED trees)

\* Mutant: only the level parse_expr itself charged is given back.
Leave_One ==
    /\ Parsing("leave")
    /\ depth' = depth - 1
    /\ Become(<<>>) /\ Stay /\ Continue /\ UNCHANGED trees

\* The whole expression's budget is given back.
Leave ==
    /\ Parsing("leave")
    /\ depth' = Head(goals)[2]
    /\ Become(<<>>) /\ Stay /\ Continue /\ UNCHANGED trees

\* Mutant: the right operand is parsed at the operator's own level.
Operators_RightFirst ==
    /\ Parsing("operators")
    /\ LET l == Head(goals)[2]
       IN  IF look \in OpsAt[l]
           THEN Step(1, Levels(l) \o << <<"wrap", 2, l>>, Head(goals) >>)
           ELSE Expand(<<>>)

Operators ==
    /\ Parsing("operators")
    /\ LET l == Head(goals)[2]
       IN  IF look \in OpsAt[l]
           THEN Step(1, Levels(l + 1) \o << <<"wrap", 2, l>>, Head(goals) >>)
           ELSE Expand(<<>>)

\* Mutant: a node of a chain is not charged.
Wrap_Free ==
    /\ Parsing("wrap")
    /\ Built(Head(goals)[2], Head(goals)[3], 1)
    /\ Become(<<>>) /\ Stay /\ Continue /\ UNCHANGED depth

\* A node built by a loop costs a level, like a descent.
Wrap ==
    /\ Parsing("wrap")
    /\ enter(Built(Head(goals)[2], Head(goals)[3], 1) /\ Become(<<>>) /\ Stay)

parse_cast ==
    /\ Parsing("casts")
    /\ IF look = "as"
       THEN Step(1, <<Goal("type"), <<"wrap", 1, CastLevel>>, Goal("casts")>>)
       ELSE Expand(<<>>)

parse_unary ==
    /\ Parsing("unary")
    /\ IF look \in {"-", "!"} THEN Step(1, <<Goal("operand")>>) ELSE Expand(<<Goal("primary")>>)

Negated == Call(<<"unary", "negate">>)

Negate ==
    /\ Parsing("negate") /\ Built(1, UnaryLevel, 1)
    /\ Become(<<>>) /\ Stay /\ Continue /\ UNCHANGED depth

\* Mutant: an operator before an operand is not charged.
Operand_Free == Parsing("operand") /\ Expand(Negated)

\* After `-` or `!`, which call parse_unary again.
Operand == Parsing("operand") /\ enter(Become(Negated) /\ Stay /\ UNCHANGED trees)

parse_primary ==
    /\ Parsing("primary")
    /\ \/ look \in Literals /\ Consume(1) /\ Push(Leaf) /\ Become(<<>>) /\ Continue /\ UNCHANGED depth
       \/ look \in Names /\ Step(1, <<Goal("after_name")>>)
       \/ look = "(" /\ Step(1, <<Goal("expr"), eat(")"), Goal("group")>>)
       \/ look \notin Literals \cup Names \cup {"("} /\ Refuse

\* name(...), name[...] or name.
AfterName ==
    /\ Parsing("after_name")
    /\ \/ /\ look = "(" /\ Consume(1) /\ Push(None) /\ Continue /\ UNCHANGED depth
          /\ Become(<<Goal("arguments"), eat(")"), Root(1)>>)
       \/ look = "[" /\ Step(1, <<Goal("expr"), eat("]"), Root(1)>>)
       \/ look \notin {"(", "["} /\ Push(Leaf) /\ Become(<<>>) /\ Stay /\ Continue /\ UNCHANGED depth

\* Parentheses leave no node, and hide the operators inside.
Group == Parsing("group") /\ Built(1, PrimaryLevel, 0) /\ Become(<<>>) /\ Stay /\ Continue /\ UNCHANGED depth

-----------------------------------------------------------------------------

Init ==
    /\ goals = <<Goal("items")>> /\ trees = <<>> /\ depth = 0
    /\ ahead \in {<<t>> : t \in Tokens} /\ outcome = "parsing"

Items ==
    \/ LookAtItem \/ parse_module \/ ConstantValue \/ NegatedValue \/ EndOfConstant
    \/ parse_function \/ Parameters \/ Parameter \/ NextParameter \/ parse_type \/ TypeEnd
    \/ CheckTree

Bodies ==
    \/ parse_block \/ LeaveBlock \/ Statements \/ LookAtStatement \/ parse_stmt \/ FailCode
    \/ Value \/ parse_try_call \/ Arguments \/ NextArgument

Expressions ==
    \/ parse_expr \/ Leave \/ Operators \/ Wrap \/ parse_cast \/ parse_unary \/ Operand \/ Negate
    \/ parse_primary \/ AfterName \/ Group

Next == Eat \/ Ident \/ Optional \/ Build \/ Join \/ Items \/ Bodies \/ Expressions

\* The parser is a loop of one process: while it can take a step it takes one.
Spec == Init /\ [][Next]_vars /\ WF_vars(Next)

-----------------------------------------------------------------------------
(* What the parser has to keep.                                            *)

\* A call of the parser that may call itself again before it returns.
Suspended(goal) == goal[1] \in {"leave", "leave_block", "negate"}

\* How many of them lie below the i-th goal.
Below(i) == Cardinality({j \in DOMAIN goals : j > i /\ Suspended(goals[j])})

\* Every recursion of the parser is paid for: the calls under way of the functions that can
\* reach themselves never outnumber the charge, so the limit bounds the parser's own stack.
StackBounded == depth <= MAX_NESTING /\ Below(0) <= depth

OpenBlocks == Cardinality({i \in DOMAIN goals : goals[i] = Goal("leave_block")})

\* What an expression charged is given back, all of it and no more: a statement starts with the
\* charge of the blocks around it, however many expressions came before, an item with none.
BudgetBalances ==
    /\ Parsing("statement") => depth = OpenBlocks
    /\ Parsing("items") => depth = 0

\* Operators of a tighter level are nested under the looser ones, those of one level lean left,
\* and only parentheses, calls and indices hide a looser operator: `-x as f64 * y` is
\* `((-x) as f64) * y`.
Precedence == \A i \in DOMAIN trees : trees[i].sound

\* The tree is bounded while it is built, before tree_depth has seen it: the charge of a chain is
\* given back with its expression, and a chain of every length that is left may stand on top.
TreeBounded == \A i \in DOMAIN trees : trees[i].deep <= 1 + (MAX_NESTING * (MAX_NESTING - 1)) \div 2

\* Once the tokens run out the parser answers, wherever in the grammar that happens.
ParseEnds == AtEnd ~> outcome # "parsing"
=============================================================================
