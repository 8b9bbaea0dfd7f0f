------------------------------- MODULE MCParser -------------------------------
(* TLC instance of Parser: every class of token, an operator for three of    *)
(* the five levels.                                                          *)
EXTENDS Parser

Tokens_ == AllTokens \ {"ident", "text", "bool", "string", "number", "&&", "||", "+", "while", "out", "mut"}

\* Everything may stand in a body; what nests deeper is kept to the tokens that make a tree or
\* bring it back, and to small trees waiting for it.
Inner == {"scalar", "-", "*", "as", "(", ")", "}"} \cup Ends
After == {"scalar", "return", "if", "{", ",", "[", "]", "int"}
Waiting == \A i \in 2..Len(trees) : trees[i].deep <= IF i = 2 THEN 2 ELSE 1
Focus ==
  /\ depth >= 2 => look \in Inner \cup After /\ trees[Len(trees)].deep = 0
  /\ depth >= 2 /\ look \notin After => Waiting
  /\ depth >= 3 => look \in Inner /\ Waiting
=============================================================================
