------------------------------ MODULE MCNames ------------------------------
(* TLC instance of Names: a name of each kind, two in both letter cases.      *)
EXTENDS Names

SomeNames == {"len", "Len", "xs", "xs_len", "out_value", "OUT_VALUE",
              "ml_buf", "ML_BUF", "__d", "match", "Begin", "new", "SIZE_MAX", "result"}
FewNames  == {"xs", "xs_len"}

LengthName == [n \in SomeNames |-> IF n = "xs" THEN "xs_len" ELSE "(" \o n \o ")_len"]

AllNames == SomeNames \union {LengthName[n] : n \in SomeNames} \union {"ml_cap", "ml_needed"}

LowerCase ==
  [n \in AllNames |->
     CASE n = "Len" -> "len" [] n = "OUT_VALUE" -> "out_value" [] n = "ML_BUF" -> "ml_buf"
       [] n = "Begin" -> "begin" [] n = "(Len)_len" -> "(len)_len" [] OTHER -> n]
=============================================================================
