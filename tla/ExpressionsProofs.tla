--------------------------- MODULE ExpressionsProofs ---------------------------
(***************************************************************************)
(* Linked, NothingUnused, BindingsTellAll and Lowerable for every scope,     *)
(* every set of signatures and every program over them, of any depth.        *)
(*                                                                          *)
(* The four compare what the walkers answered with what the lowering wrote,  *)
(* for a whole module.  Neither is a function of the other, so the induction *)
(* goes over expressions: every checked expression is Sound, that is, the    *)
(* text of its operands holds exactly the calls its walkers found, and what  *)
(* only `return` can write is known from the kinds of its pieces.  A body    *)
(* and a module are then Told: the same agreement for their texts.           *)
(***************************************************************************)
EXTENDS Expressions, SequenceTheorems, TLAPS

\* Calls and events in the text of operands, or of a returned array; what `return` adds to them; and what a finished
\* function can add.
OperandText ==
    Rounders \cup {"ml_streq", "ml_slen", "ml_sublen", "ml_subeq",
                   "bail", "address", "array return", "literal read", "span read"}
PassText ==
    {"ml_ilen", "ml_wint", "ml_wstr", "ml_wsub", "ml_fixscale", "ml_fixlen", "ml_wfix",
     "ml_strout", "utf8"}
Texts == OperandText \cup PassText \cup {"panic", "wild", "stranded"}

StringKinds == {"ConstStr", "Var", "Call", "Add", "Cast", "ByteSlice", "Fixed"}
Kinds == BinOps \cup StringKinds \cup
    {"ConstF64", "ConstBool", "ConstI32", "Neg", "Not", "Index", "Len", "ByteLen", "value"}
Pieces == {"Digits", "Bytes", "Span", "Decimal"}

\* The types of an expression's answers, and of a body's or a module's.
Answers ==
    [byteLen : BOOLEAN, builds : BOOLEAN, compares : BOOLEAN, slices : BOOLEAN,
     spanCompared : BOOLEAN, fixed : BOOLEAN, index : BOOLEAN, outOfRange : BOOLEAN]

Expression ==
    [kind : Kinds, ty : Types, lit : Seq(Int), alien : BOOLEAN,
     text : SUBSET Texts, parts : SUBSET Texts, pieces : SUBSET Pieces,
     saw : Answers, rounders : SUBSET Rounders,
     outside : [BOOLEAN -> BOOLEAN], leaves : [BOOLEAN -> BOOLEAN]]

Summary ==
    [saw : [Walkers -> BOOLEAN], rounders : SUBSET Rounders, text : SUBSET Texts,
     outside : BOOLEAN, leaves : BOOLEAN, span : BOOLEAN, strout : BOOLEAN]

\* The text a caller of the expression binds: of a string, that of its pieces' operands.
Operands(e) == IF e.ty = "string" THEN e.parts ELSE e.text

\* The text t of operands holds what the walkers found in e.
Agrees(t, e) ==
    /\ t \subseteq OperandText
    /\ e.saw["compares"] <=> "ml_streq" \in t
    /\ e.saw["byteLen"] <=> "ml_slen" \in t
    /\ e.saw["spanCompared"] <=> "ml_subeq" \in t
    /\ "ml_sublen" \in t <=> "ml_subeq" \in t
    /\ e.saw["index"] \/ e.saw["spanCompared"] <=> "bail" \in t
    /\ e.rounders = t \cap Rounders
    /\ "literal read" \in t => e.outside[TRUE] /\ e.outside[FALSE]

\* A span is compared or is a piece, decimal places are a piece: nothing else is built.
PiecesFound(e) ==
    /\ e.saw["slices"] <=> e.saw["spanCompared"] \/ "Span" \in e.pieces
    /\ e.saw["fixed"] <=> "Decimal" \in e.pieces
    /\ e.saw["builds"] <=> e.saw["slices"] \/ e.saw["fixed"]
    /\ e.saw["outOfRange"] <=> e.saw["index"] \/ e.saw["slices"] \/ e.saw["fixed"]

\* Where the bytes of non-ASCII literals are.
LiteralsPlaced(e) ==
    /\ e.alien => e.ty = "string"
    /\ e.alien /\ ~is_built_string(e) => e.outside[FALSE]
    /\ ~e.leaves[FALSE] /\ (e.leaves[TRUE] <=> e.alien)

\* A string that is not built is lowered as it stands; a span or a decimal is one piece.
Lowered(e) ==
    /\ IF e.ty = "string" THEN e.kind \in StringKinds
       ELSE e.kind \notin {"ByteSlice", "Fixed"} /\ e.parts = {} /\ e.pieces = {}
    /\ e.ty = "string" /\ ~is_built_string(e) => e.text = e.parts /\ e.pieces = {"Bytes"}
    /\ IsSpan(e) => e.pieces = {"Span"}
    /\ e.kind = "Fixed" => e.pieces = {"Decimal"}

Sound == {e \in Expression :
    Agrees(Operands(e), e) /\ PiecesFound(e) /\ LiteralsPlaced(e) /\ Lowered(e)}

\* The text of a body or of a module holds what its walkers found.
Told(b) ==
    /\ b \in Summary
    /\ b.saw["compares"] <=> "ml_streq" \in b.text
    /\ b.saw["spanCompared"] <=> "ml_subeq" \in b.text
    /\ b.span <=> "ml_wsub" \in b.text
    /\ b.saw["slices"] <=> "ml_sublen" \in b.text
    /\ b.saw["slices"] <=> b.span \/ b.saw["spanCompared"]
    /\ \A h \in {"ml_fixscale", "ml_fixlen", "ml_wfix"} : b.saw["fixed"] <=> h \in b.text
    /\ b.rounders = b.text \cap Rounders
    /\ "ml_slen" \in b.text => b.saw["byteLen"] \/ b.saw["builds"]
    /\ b.text \cap {"ml_ilen", "ml_wint", "ml_wstr"} # {} => b.saw["builds"]
    /\ b.saw["slices"] \/ b.saw["fixed"] => b.saw["builds"]
    /\ b.saw["outOfRange"] <=> "bail" \in b.text
    /\ b.leaves <=> "utf8" \in b.text
    /\ "literal read" \in b.text => b.outside
    /\ b.text \cap {"panic", "wild", "stranded"} = {}

\* Of the function being checked: it has a status if something but an index or a compared span
\* returns -2, and it is declared to return a string if it copies one out.
HeadKnows ==
    /\ "bail" \in body.text => head.fallible \/ body.saw["index"] \/ body.saw["spanCompared"]
    /\ "ml_strout" \in body.text => head.exported /\ head.ret = "string"

IInv ==
    /\ stack \in Seq(Sound) /\ head \in Heads
    /\ Told(body) /\ HeadKnows
    /\ Told(module) /\ ~module.outside /\ ("ml_strout" \in module.text => module.strout)

-----------------------------------------------------------------------------
(* A node and its fields.                                                  *)

OperandsCompared(kids) == UNION {SpanOrOther(kids[i]) : i \in DOMAIN kids}

LEMMA InText ==
  ASSUME NEW kids, NEW x
  PROVE  x \in TextOf(kids) <=> \E i \in DOMAIN kids : x \in kids[i].text
BY DEF TextOf

LEMMA InEquality ==
  ASSUME NEW kids
  PROVE  StringEquality(kids) =
           IF HasSpan(kids)
           THEN Inspected(kids) \cup OperandsCompared(kids) \cup {"ml_sublen", "ml_subeq", "bail"}
           ELSE Inspected(kids) \cup TextOf(kids) \cup {"ml_streq"}
BY DEF StringEquality, OperandsCompared

LEMMA NodeFields ==
  ASSUME NEW k, NEW name, NEW ty, NEW lit, NEW alien, NEW kids
  PROVE  LET e == Node(k, name, ty, lit, alien, kids)
         IN  /\ e.kind = IF ty \in Arrays \cup {"string"} \/ k = "ConstI32" THEN k ELSE "value"
             /\ e.ty = ty /\ e.lit = lit /\ e.alien = alien
             /\ e.text = emit_expr(k, name, ty, kids)
             /\ e.parts = IF ty = "string" THEN emit_pieces(k, ty, kids, e.text) ELSE {}
             /\ e.pieces = IF ty = "string" THEN flatten_concat(k, ty, kids) ELSE {}
             /\ e.saw = Saw(k, kids)
             /\ e.rounders = used_rounders(k, name, kids)
             /\ \A out \in BOOLEAN :
                  /\ e.outside[out] <=> non_ascii_literal_outside_output(k, ty, alien, kids, out)
                  /\ e.leaves[out] <=> returns_non_ascii_bytes(k, ty, alien, kids, out)
             /\ e = [kind |-> e.kind, ty |-> e.ty, lit |-> e.lit, alien |-> e.alien, text |-> e.text,
                     parts |-> e.parts, pieces |-> e.pieces, saw |-> e.saw, rounders |-> e.rounders,
                     outside |-> e.outside, leaves |-> e.leaves]
             /\ DOMAIN e.outside = BOOLEAN /\ DOMAIN e.leaves = BOOLEAN
BY DEF Node

LEMMA SawFields ==
  ASSUME NEW k, NEW kids
  PROVE  LET saw == Saw(k, kids)
             Finds(w) == \E i \in DOMAIN kids : kids[i].saw[w]
         IN  /\ saw \in Answers
             /\ saw["byteLen"] <=> k = "ByteLen" \/ Finds("byteLen")
             /\ saw["builds"] <=> k \in {"ByteSlice", "Fixed"} \/ Finds("builds")
             /\ saw["compares"] <=> \/ k \in Equality /\ kids[1].ty = "string" /\ ~HasSpan(kids)
                                    \/ Finds("compares")
             /\ saw["slices"] <=> k = "ByteSlice" \/ Finds("slices")
             /\ saw["spanCompared"] <=> (k \in Equality /\ HasSpan(kids)) \/ Finds("spanCompared")
             /\ saw["fixed"] <=> k = "Fixed" \/ Finds("fixed")
             /\ saw["index"] <=> k = "Index" \/ Finds("index")
             /\ saw["outOfRange"] <=> k \in {"Index", "ByteSlice", "Fixed"} \/ Finds("outOfRange")
<1>1. Saw(k, kids) \in Answers
  BY DEF Saw, Answers, uses_byte_len, builds_strings, compares_strings, uses_byte_slice,
         compares_a_span, uses_fixed, first_index, can_fail_out_of_range, Below
<1>2. /\ Saw(k, kids)["byteLen"] <=> uses_byte_len(k, kids)
      /\ Saw(k, kids)["builds"] <=> builds_strings(k, kids)
      /\ Saw(k, kids)["compares"] <=> compares_strings(k, kids)
      /\ Saw(k, kids)["slices"] <=> uses_byte_slice(k, kids)
  BY DEF Saw
<1>3. /\ Saw(k, kids)["spanCompared"] <=> compares_a_span(k, kids)
      /\ Saw(k, kids)["fixed"] <=> uses_fixed(k, kids)
      /\ Saw(k, kids)["index"] <=> first_index(k, kids)
      /\ Saw(k, kids)["outOfRange"] <=> can_fail_out_of_range(k, kids)
  BY DEF Saw
<1> QED
  BY <1>1, <1>2, <1>3
  DEF uses_byte_len, builds_strings, compares_strings, uses_byte_slice,
      compares_a_span, uses_fixed, first_index, can_fail_out_of_range, Below

LEMMA NodeTyped ==
  ASSUME NEW k \in Kinds, NEW name, NEW ty \in Types, NEW lit \in Seq(Int), NEW alien \in BOOLEAN,
         NEW kids \in Seq(Expression)
  PROVE  Node(k, name, ty, lit, alien, kids) \in Expression
<1> DEFINE e == Node(k, name, ty, lit, alien, kids)
<1>1. \A i \in DOMAIN kids : kids[i] \in Expression
  OBVIOUS
<1>2. \A i \in DOMAIN kids :
        /\ kids[i].text \subseteq Texts /\ kids[i].parts \subseteq Texts
        /\ kids[i].pieces \subseteq Pieces /\ kids[i].rounders \subseteq Rounders
  BY <1>1 DEF Expression
<1>3. TextOf(kids) \subseteq Texts
  BY <1>2 DEF TextOf
<1>4. Inspected(kids) \subseteq {"literal read", "span read"}
  BY DEF Inspected
<1>5. StringEquality(kids) \subseteq Texts
  <2>1. \A i \in DOMAIN kids : SpanOrOther(kids[i]) \subseteq Texts
    BY <1>2 DEF SpanOrOther
  <2>2. {"ml_sublen", "ml_subeq", "bail", "ml_streq", "literal read", "span read"} \subseteq Texts
    BY DEF Texts, OperandText
  <2>3. OperandsCompared(kids) \subseteq Texts
    BY <2>1 DEF OperandsCompared
  <2> QED
    BY <1>3, <1>4, <2>2, <2>3, InEquality
<1>6. e.text \subseteq Texts
  <2>1. emit_expr(k, name, ty, kids) \subseteq Texts
    BY <1>3, <1>4, <1>5 DEF emit_expr, Texts, OperandText
  <2> QED
    BY <2>1, NodeFields
<1>7. e.parts \subseteq Texts
  <2>1. emit_pieces(k, ty, kids, e.text) \subseteq Texts
    BY <1>2, <1>3, <1>6 DEF emit_pieces
  <2> QED
    BY <2>1, NodeFields
<1>8. e.pieces \subseteq Pieces
  <2>1. flatten_concat(k, ty, kids) \subseteq Pieces
    BY <1>2 DEF flatten_concat, PieceKind, Pieces
  <2> QED
    BY <2>1, NodeFields
<1>9. e.rounders \subseteq Rounders
  <2>1. used_rounders(k, name, kids) \subseteq Rounders
    BY <1>2 DEF used_rounders
  <2> QED
    BY <2>1, NodeFields
<1>10. e.saw \in Answers
  BY NodeFields, SawFields
<1>11. e.outside \in [BOOLEAN -> BOOLEAN] /\ e.leaves \in [BOOLEAN -> BOOLEAN]
  <2>1. e.outside = [out \in BOOLEAN |-> non_ascii_literal_outside_output(k, ty, alien, kids, out)]
    BY DEF Node
  <2>2. e.leaves = [out \in BOOLEAN |-> returns_non_ascii_bytes(k, ty, alien, kids, out)]
    BY DEF Node
  <2>3. \A out \in BOOLEAN : non_ascii_literal_outside_output(k, ty, alien, kids, out) \in BOOLEAN
    BY DEF non_ascii_literal_outside_output
  <2>4. \A out \in BOOLEAN : returns_non_ascii_bytes(k, ty, alien, kids, out) \in BOOLEAN
    BY DEF returns_non_ascii_bytes
  <2> QED
    BY <2>1, <2>2, <2>3, <2>4
<1>12. e.kind \in Kinds
  <2>1. e.kind = IF ty \in Arrays \cup {"string"} \/ k = "ConstI32" THEN k ELSE "value"
    BY NodeFields
  <2>2. "value" \in Kinds
    BY DEF Kinds
  <2> QED
    BY <2>1, <2>2
<1> QED
  BY <1>6, <1>7, <1>8, <1>9, <1>10, <1>11, <1>12, NodeFields DEF Expression

-----------------------------------------------------------------------------
(* Every node the checker makes of sound expressions is sound.             *)

LEMMA SoundFacts ==
  ASSUME NEW e \in Sound
  PROVE  /\ e \in Expression
         /\ Agrees(Operands(e), e) /\ PiecesFound(e) /\ LiteralsPlaced(e) /\ Lowered(e)
         /\ ~is_built_string(e) =>
              /\ Agrees(e.text, e) /\ ~IsSpan(e)
              /\ e.pieces = IF e.ty = "string" THEN {"Bytes"} ELSE {}
BY DEF Sound, Operands, Lowered, IsSpan, is_built_string

\* A value whose operands are lowered as they stand.
PlainKinds == Kinds \ {"ByteSlice", "Fixed", "ConstStr"}

LEMMA SoundSeq == Seq(Sound) \subseteq Seq(Expression)
BY DEF Sound

\* What is written at such a node itself.
Adds(k, name, kids, x) ==
    \/ k = "Index" /\ x = "bail"
    \/ k = "ByteLen" /\ x = "ml_slen"
    \/ k = "Call" /\ (x \in Inspected(kids) \/ x \in {name} \cap Rounders)
    \/ k \in Equality /\ kids[1].ty = "string" /\ (x \in Inspected(kids) \/ x = "ml_streq")
    \/ k \in Equality /\ kids[1].ty \in Arrays /\ x = "address"

LEMMA SeqElement ==
  ASSUME NEW es \in Seq(Sound), NEW i \in DOMAIN es
  PROVE  es[i] \in Sound
OBVIOUS

LEMMA PlainText ==
  ASSUME NEW k \in PlainKinds, NEW name, NEW ty, ty # "string", NEW kids, ~HasSpan(kids), NEW x
  PROVE  x \in emit_expr(k, name, ty, kids) <=>
           x \in TextOf(kids) \/ Adds(k, name, kids, x)
<1>1. CASE k \in Equality
  <2>1. emit_expr(k, name, ty, kids) =
          IF kids[1].ty = "string" THEN StringEquality(kids)
          ELSE IF kids[1].ty \in Arrays THEN TextOf(kids) \cup {"address"} ELSE TextOf(kids)
    BY <1>1 DEF emit_expr, Equality, Arrays
  <2>2. StringEquality(kids) = Inspected(kids) \cup TextOf(kids) \cup {"ml_streq"}
    BY InEquality
  <2>3. k \notin {"Index", "ByteLen", "Call"} /\ "string" \notin Arrays
    BY <1>1 DEF Equality, Arrays
  <2> QED
    BY <1>1, <2>1, <2>2, <2>3 DEF Adds
<1>2. CASE k \notin Equality
  <2>1. emit_expr(k, name, ty, kids) =
          IF k = "Index" THEN TextOf(kids) \cup {"bail"}
          ELSE IF k = "ByteLen" THEN TextOf(kids) \cup {"ml_slen"}
          ELSE IF k = "Call" THEN TextOf(kids) \cup Inspected(kids) \cup ({name} \cap Rounders)
          ELSE TextOf(kids)
    BY <1>2 DEF emit_expr, PlainKinds
  <2> QED
    BY <1>2, <2>1 DEF Adds
<1> QED
  BY <1>1, <1>2

LEMMA PlainInspected ==
  ASSUME NEW kids, ~HasSpan(kids)
  PROVE  /\ Inspected(kids) \subseteq {"literal read"}
         /\ "literal read" \in Inspected(kids) <=> \E i \in DOMAIN kids : kids[i].alien
BY DEF Inspected, HasSpan

LEMMA PlainNode ==
  ASSUME NEW k \in PlainKinds, NEW name, NEW ty \in Types \ {"string"}, NEW lit \in Seq(Int),
         NEW alien, alien = FALSE, NEW kids \in Seq(Sound),
         \A i \in DOMAIN kids : ~is_built_string(kids[i]),
         k \in {"Neg", "Not", "Cast"} => \A i \in DOMAIN kids : kids[i].ty # "string"
  PROVE  Node(k, name, ty, lit, alien, kids) \in Sound
<1> DEFINE e == Node(k, name, ty, lit, alien, kids)
           t == e.text
<1>1. \A i \in DOMAIN kids :
        /\ kids[i] \in Expression /\ ~IsSpan(kids[i])
        /\ Agrees(kids[i].text, kids[i]) /\ PiecesFound(kids[i]) /\ LiteralsPlaced(kids[i])
        /\ "Span" \notin kids[i].pieces /\ "Decimal" \notin kids[i].pieces
        /\ kids[i].alien => kids[i].outside[FALSE]
  <2> TAKE i \in DOMAIN kids
  <2> DEFINE d == kids[i]
  <2>1. d \in Sound /\ ~is_built_string(d)
    OBVIOUS
  <2> HIDE DEF d
  <2>2. /\ d \in Expression /\ PiecesFound(d) /\ LiteralsPlaced(d) /\ Agrees(d.text, d) /\ ~IsSpan(d)
        /\ d.pieces = IF d.ty = "string" THEN {"Bytes"} ELSE {}
    BY <2>1, SoundFacts
  <2>3. d.alien => d.outside[FALSE]
    BY <2>1, <2>2 DEF LiteralsPlaced
  <2>4. "Span" \notin d.pieces /\ "Decimal" \notin d.pieces
    BY <2>2
  <2> QED
    BY <2>2, <2>3, <2>4 DEF d
<1>2. ~HasSpan(kids)
  BY <1>1 DEF HasSpan
<1>3. e \in Expression
  <2>1. kids \in Seq(Expression) /\ k \in Kinds /\ ty \in Types
    BY SoundSeq DEF PlainKinds
  <2> QED
    BY <2>1, NodeTyped
<1>4. /\ e.ty = ty /\ e.alien = alien /\ e.parts = {} /\ e.pieces = {}
      /\ t = emit_expr(k, name, ty, kids) /\ e.saw = Saw(k, kids)
      /\ e.rounders = used_rounders(k, name, kids)
      /\ \A out \in BOOLEAN :
          /\ e.outside[out] <=> non_ascii_literal_outside_output(k, ty, alien, kids, out)
          /\ e.leaves[out] <=> returns_non_ascii_bytes(k, ty, alien, kids, out)
      /\ e.kind = IF ty \in Arrays \cup {"string"} \/ k = "ConstI32" THEN k ELSE "value"
  <2>1. ty # "string"
    OBVIOUS
  <2>2. /\ e.ty = ty /\ e.alien = alien /\ e.parts = {} /\ e.pieces = {}
    BY <2>1, NodeFields
  <2>3. /\ t = emit_expr(k, name, ty, kids) /\ e.saw = Saw(k, kids)
        /\ e.rounders = used_rounders(k, name, kids)
    BY NodeFields
  <2>4. \A out \in BOOLEAN :
          /\ e.outside[out] <=> non_ascii_literal_outside_output(k, ty, alien, kids, out)
          /\ e.leaves[out] <=> returns_non_ascii_bytes(k, ty, alien, kids, out)
    BY NodeFields
  <2>5. e.kind = IF ty \in Arrays \cup {"string"} \/ k = "ConstI32" THEN k ELSE "value"
    BY NodeFields
  <2> QED
    BY <2>2, <2>3, <2>4, <2>5
<1> HIDE DEF e, t
<1>5. \A x : x \in t <=>
           (\E i \in DOMAIN kids : x \in kids[i].text) \/ Adds(k, name, kids, x)
  BY <1>2, <1>4, PlainText, InText
<1>6. /\ Inspected(kids) \subseteq {"literal read"}
      /\ "literal read" \in Inspected(kids) <=> \E i \in DOMAIN kids : kids[i].alien
  BY <1>2, PlainInspected
<1>7. /\ Adds(k, name, kids, "ml_streq") <=> k \in Equality /\ kids[1].ty = "string"
      /\ Adds(k, name, kids, "ml_slen") <=> k = "ByteLen"
      /\ ~Adds(k, name, kids, "ml_subeq") /\ ~Adds(k, name, kids, "ml_sublen")
      /\ Adds(k, name, kids, "bail") <=> k = "Index"
      /\ \A x \in Rounders : Adds(k, name, kids, x) <=> k = "Call" /\ x = name
      /\ Adds(k, name, kids, "literal read") =>
           (k = "Call" \/ k \in Equality) /\ "literal read" \in Inspected(kids)
  <2>1. /\ "ml_streq" \notin Rounders /\ "ml_slen" \notin Rounders /\ "ml_sublen" \notin Rounders
        /\ "ml_subeq" \notin Rounders /\ "bail" \notin Rounders /\ "address" \notin Rounders
        /\ "literal read" \notin Rounders
    BY ConstantsAssumption
  <2> QED
    BY <1>6, <2>1 DEF Adds
<1>8. Agrees(t, e)
  <2> DEFINE InKid(x) == \E i \in DOMAIN kids : x \in kids[i].text
             InKidSaw(w) == \E i \in DOMAIN kids : kids[i].saw[w]
  <2>1. t \subseteq OperandText
    BY <1>1, <1>5, <1>6 DEF Agrees, OperandText, Adds
  <2>2. e.saw["compares"] <=> "ml_streq" \in t
    <3>1. "ml_streq" \in t <=> InKid("ml_streq") \/ (k \in Equality /\ kids[1].ty = "string")
      BY <1>5, <1>7
    <3>2. e.saw["compares"] <=> (k \in Equality /\ kids[1].ty = "string") \/ InKidSaw("compares")
      BY <1>2, <1>4, SawFields
    <3> QED
      BY <1>1, <3>1, <3>2 DEF Agrees
  <2>3. e.saw["byteLen"] <=> "ml_slen" \in t
    <3>1. "ml_slen" \in t <=> InKid("ml_slen") \/ k = "ByteLen"
      BY <1>5, <1>7
    <3>2. e.saw["byteLen"] <=> k = "ByteLen" \/ InKidSaw("byteLen")
      BY <1>4, SawFields
    <3> QED
      BY <1>1, <3>1, <3>2 DEF Agrees
  <2>4. e.saw["spanCompared"] <=> InKidSaw("spanCompared")
    BY <1>2, <1>4, SawFields
  <2>5. /\ e.saw["spanCompared"] <=> "ml_subeq" \in t
        /\ "ml_sublen" \in t <=> "ml_subeq" \in t
    <3>1. "ml_subeq" \in t <=> InKid("ml_subeq")
      BY <1>5, <1>7
    <3>2. "ml_sublen" \in t <=> InKid("ml_sublen")
      BY <1>5, <1>7
    <3> QED
      BY <1>1, <2>4, <3>1, <3>2 DEF Agrees
  <2>6. e.saw["index"] \/ e.saw["spanCompared"] <=> "bail" \in t
    <3>1. "bail" \in t <=> InKid("bail") \/ k = "Index"
      BY <1>5, <1>7
    <3>2. e.saw["index"] <=> k = "Index" \/ InKidSaw("index")
      BY <1>4, SawFields
    <3> QED
      BY <1>1, <2>4, <3>1, <3>2 DEF Agrees
  <2>7. e.rounders = t \cap Rounders
    <3>1. \A x : x \in e.rounders <=>
             (k = "Call" /\ x \in {name} \cap Rounders) \/ \E i \in DOMAIN kids : x \in kids[i].rounders
      BY <1>4 DEF used_rounders
    <3>2. \A i \in DOMAIN kids : kids[i].rounders = kids[i].text \cap Rounders
      BY <1>1 DEF Agrees
    <3>3. ASSUME NEW x \in Rounders
          PROVE  x \in e.rounders <=> x \in t
      <4>1. x \in t <=> (\E i \in DOMAIN kids : x \in kids[i].text) \/ (k = "Call" /\ x = name)
        BY <1>5, <1>7
      <4> QED
        BY <3>1, <3>2, <4>1
    <3>4. \A x \in e.rounders : x \in Rounders
      BY <3>1, <3>2
    <3> QED
      BY <3>3, <3>4
  <2>8. "literal read" \in t => e.outside[TRUE] /\ e.outside[FALSE]
    <3>1. SUFFICES ASSUME "literal read" \in t, NEW out \in BOOLEAN
                   PROVE  non_ascii_literal_outside_output(k, ty, alien, kids, out)
      BY <1>4
    <3>2. CASE \E i \in DOMAIN kids : "literal read" \in kids[i].text
      <4>1. PICK i \in DOMAIN kids : "literal read" \in kids[i].text
        BY <3>2
      <4>2. \A o \in BOOLEAN : kids[i].outside[o]
        BY <1>1, <4>1 DEF Agrees
      <4> QED
        BY <4>2 DEF non_ascii_literal_outside_output
    <3>3. CASE k \in Equality \cup {"Call"} /\ \E i \in DOMAIN kids : kids[i].alien
      <4>1. PICK i \in DOMAIN kids : kids[i].outside[FALSE]
        BY <1>1, <3>3
      <4>2. ~Inherits(k, ty) /\ k # "ByteLen" /\ k # "ByteSlice"
        BY <3>3 DEF Inherits, Equality
      <4> QED
        BY <4>1, <4>2 DEF non_ascii_literal_outside_output
    <3>4. \/ \E i \in DOMAIN kids : "literal read" \in kids[i].text
          \/ (k = "Call" \/ k \in Equality) /\ \E i \in DOMAIN kids : kids[i].alien
      BY <1>5, <1>6, <1>7, <3>1
    <3> QED
      BY <3>2, <3>3, <3>4
  <2> QED
    BY <2>1, <2>2, <2>3, <2>5, <2>6, <2>7, <2>8 DEF Agrees
<1>9. PiecesFound(e)
  <2> DEFINE InKidSaw(w) == \E i \in DOMAIN kids : kids[i].saw[w]
  <2>1. /\ e.saw["slices"] <=> InKidSaw("slices")
        /\ e.saw["fixed"] <=> InKidSaw("fixed")
        /\ e.saw["builds"] <=> InKidSaw("builds")
    BY <1>4, SawFields DEF PlainKinds
  <2>2. /\ e.saw["spanCompared"] <=> InKidSaw("spanCompared")
        /\ e.saw["index"] <=> k = "Index" \/ InKidSaw("index")
        /\ e.saw["outOfRange"] <=> k = "Index" \/ InKidSaw("outOfRange")
    BY <1>2, <1>4, SawFields DEF PlainKinds
  <2> QED
    BY <1>1, <1>4, <2>1, <2>2 DEF PiecesFound
<1>10. LiteralsPlaced(e)
  <2>1. ~e.leaves[FALSE]
    BY <1>1, <1>4 DEF returns_non_ascii_bytes, LiteralsPlaced
  <2>2. ~e.leaves[TRUE]
    <3>1. CASE Inherits(k, ty)
      <4>1. k \in {"Neg", "Not", "Cast"}
        BY <3>1 DEF Inherits
      <4>2. \A i \in DOMAIN kids : ~kids[i].leaves[TRUE] /\ ~kids[i].leaves[FALSE]
        BY <1>1, <4>1 DEF LiteralsPlaced
      <4> QED
        BY <1>4, <4>2 DEF returns_non_ascii_bytes
    <3>2. CASE ~Inherits(k, ty)
      BY <1>1, <1>4, <3>2 DEF returns_non_ascii_bytes, LiteralsPlaced, PlainKinds
    <3> QED
      BY <3>1, <3>2
  <2> QED
    BY <1>4, <2>1, <2>2 DEF LiteralsPlaced
<1>11. Lowered(e)
  BY <1>4 DEF Lowered, PlainKinds, IsSpan, is_built_string
<1> QED
  BY <1>3, <1>4, <1>8, <1>9, <1>10, <1>11 DEF Sound, Operands, e, t

\* Sound operands agree together with a node that finds what they found and no more.
LEMMA JoinAgrees ==
  ASSUME NEW kids \in Seq(Sound), NEW e,
         e.saw["compares"] <=> \E i \in DOMAIN kids : kids[i].saw["compares"],
         e.saw["byteLen"] <=> \E i \in DOMAIN kids : kids[i].saw["byteLen"],
         e.saw["spanCompared"] <=> \E i \in DOMAIN kids : kids[i].saw["spanCompared"],
         e.saw["index"] <=> \E i \in DOMAIN kids : kids[i].saw["index"],
         e.rounders = UNION {kids[i].rounders : i \in DOMAIN kids},
         \A i \in DOMAIN kids : kids[i].outside[TRUE] /\ kids[i].outside[FALSE] =>
           e.outside[TRUE] /\ e.outside[FALSE]
  PROVE  Agrees(UNION {Operands(kids[i]) : i \in DOMAIN kids}, e)
<1> DEFINE t == UNION {Operands(kids[i]) : i \in DOMAIN kids}
<1>1. \A i \in DOMAIN kids : Agrees(Operands(kids[i]), kids[i])
  BY DEF Sound
<1>2. \A x : x \in t <=> \E i \in DOMAIN kids : x \in Operands(kids[i])
  OBVIOUS
<1> HIDE DEF t
<1>3. t \subseteq OperandText
  BY <1>1, <1>2 DEF Agrees
<1>4. /\ e.saw["compares"] <=> "ml_streq" \in t
      /\ e.saw["byteLen"] <=> "ml_slen" \in t
  BY <1>1, <1>2 DEF Agrees
<1>5. /\ e.saw["spanCompared"] <=> "ml_subeq" \in t
      /\ "ml_sublen" \in t <=> "ml_subeq" \in t
  BY <1>1, <1>2 DEF Agrees
<1>6. e.saw["index"] \/ e.saw["spanCompared"] <=> "bail" \in t
  BY <1>1, <1>2 DEF Agrees
<1>7. e.rounders = t \cap Rounders
  <2>1. \A i \in DOMAIN kids : kids[i].rounders = Operands(kids[i]) \cap Rounders
    BY <1>1 DEF Agrees
  <2>2. \A x : x \in e.rounders <=> \E i \in DOMAIN kids : x \in kids[i].rounders
    OBVIOUS
  <2> QED
    BY <1>2, <2>1, <2>2
<1>8. "literal read" \in t => e.outside[TRUE] /\ e.outside[FALSE]
  BY <1>1, <1>2 DEF Agrees
<1>9. Agrees(t, e)
  BY <1>3, <1>4, <1>5, <1>6, <1>7, <1>8 DEF Agrees
<1> QED
  BY <1>9 DEF t

\* Operands that are lowered as they stand, as PlainNode takes them.
LEMMA Unbuilt ==
  ASSUME NEW d \in Sound, ~is_built_string(d)
  PROVE  /\ Operands(d) = d.text /\ ~IsSpan(d)
         /\ "Span" \notin d.pieces /\ "Decimal" \notin d.pieces
         /\ d.alien => d.outside[FALSE]
<1>1. Lowered(d) /\ LiteralsPlaced(d) /\ ~IsSpan(d)
      /\ d.pieces = IF d.ty = "string" THEN {"Bytes"} ELSE {}
  BY SoundFacts
<1>2. Operands(d) = d.text
  BY <1>1 DEF Lowered, Operands
<1>3. "Span" \notin d.pieces /\ "Decimal" \notin d.pieces
  BY <1>1
<1>4. d.alien => d.outside[FALSE]
  BY <1>1 DEF LiteralsPlaced
<1> QED
  BY <1>1, <1>2, <1>3, <1>4

LEMMA BuiltNode ==
  ASSUME NEW k \in {"Cast", "Add", "ByteSlice", "Fixed"}, NEW name, NEW ty, ty = "string",
         NEW lit \in Seq(Int), NEW alien \in BOOLEAN, NEW kids \in Seq(Sound),
         k # "Add" => \A i \in DOMAIN kids : ~is_built_string(kids[i]),
         k = "Add" => \A i \in DOMAIN kids : kids[i].ty = "string",
         k \in {"Cast", "Fixed"} => \A i \in DOMAIN kids : kids[i].ty # "string",
         k = "ByteSlice" => 1 \in DOMAIN kids,
         alien <=> \/ k = "Add" /\ \E i \in DOMAIN kids : kids[i].alien
                   \/ k = "ByteSlice" /\ kids[1].alien
  PROVE  Node(k, name, ty, lit, alien, kids) \in Sound
<1> DEFINE e == Node(k, name, ty, lit, alien, kids)
<1>1. \A i \in DOMAIN kids :
        /\ kids[i] \in Expression /\ PiecesFound(kids[i]) /\ LiteralsPlaced(kids[i])
  BY DEF Sound
<1>2. e \in Expression
  <2>1. kids \in Seq(Expression) /\ k \in Kinds /\ ty \in Types
    BY SoundSeq DEF Kinds, StringKinds, Types
  <2> QED
    BY <2>1, NodeTyped
<1>3. e.kind = k /\ e.ty = ty /\ e.alien = alien
  BY NodeFields
<1>4. /\ e.parts = emit_pieces(k, ty, kids, e.text)
      /\ e.pieces = flatten_concat(k, ty, kids)
  BY NodeFields
<1>5. /\ e.saw = Saw(k, kids) /\ e.rounders = used_rounders(k, name, kids)
  BY NodeFields
<1>6. \A out \in BOOLEAN :
          /\ e.outside[out] <=> non_ascii_literal_outside_output(k, ty, alien, kids, out)
          /\ e.leaves[out] <=> returns_non_ascii_bytes(k, ty, alien, kids, out)
  BY NodeFields
<1> HIDE DEF e
<1> DEFINE Plain(d) == /\ Operands(d) = d.text /\ "Span" \notin d.pieces /\ "Decimal" \notin d.pieces
<1>a. ASSUME k # "Add", NEW i \in DOMAIN kids
      PROVE  Plain(kids[i])
  <2>1. kids[i] \in Sound /\ ~is_built_string(kids[i])
    BY <1>a
  <2>2. \A d \in Sound : ~is_built_string(d) => Plain(d)
    BY Unbuilt
  <2> HIDE DEF Plain
  <2> QED
    BY <2>1, <2>2
<1>7. e.parts = UNION {Operands(kids[i]) : i \in DOMAIN kids}
  <2>1. CASE k = "Add"
    <3>1. \A i \in DOMAIN kids : Operands(kids[i]) = kids[i].parts
      BY <2>1 DEF Operands
    <3>2. e.parts = UNION {kids[i].parts : i \in DOMAIN kids}
      BY <1>4, <2>1 DEF emit_pieces
    <3> QED
      BY <3>1, <3>2
  <2>2. CASE k # "Add"
    <3>1. \A i \in DOMAIN kids : Operands(kids[i]) = kids[i].text
      BY <2>2, <1>a
    <3>2. e.parts = UNION {kids[i].text : i \in DOMAIN kids}
      BY <1>4, <2>2 DEF emit_pieces, TextOf
    <3> QED
      BY <3>1, <3>2
  <2> QED
    BY <2>1, <2>2
<1>8. Agrees(Operands(e), e)
  <2>1. /\ e.saw["compares"] <=> \E i \in DOMAIN kids : kids[i].saw["compares"]
        /\ e.saw["byteLen"] <=> \E i \in DOMAIN kids : kids[i].saw["byteLen"]
        /\ e.saw["spanCompared"] <=> \E i \in DOMAIN kids : kids[i].saw["spanCompared"]
        /\ e.saw["index"] <=> \E i \in DOMAIN kids : kids[i].saw["index"]
    BY <1>5, SawFields DEF Equality
  <2>2. e.rounders = UNION {kids[i].rounders : i \in DOMAIN kids}
    BY <1>5 DEF used_rounders
  <2>3. ASSUME NEW i \in DOMAIN kids, kids[i].outside[TRUE], kids[i].outside[FALSE], NEW out \in BOOLEAN
        PROVE  e.outside[out]
    <3>1. \A o \in BOOLEAN : kids[i].outside[o]
      BY <2>3
    <3>2. non_ascii_literal_outside_output(k, ty, alien, kids, out)
      BY <3>1 DEF non_ascii_literal_outside_output
    <3> QED
      BY <1>6, <3>2
  <2>4. Operands(e) = UNION {Operands(kids[i]) : i \in DOMAIN kids}
    BY <1>3, <1>7 DEF Operands
  <2> HIDE DEF Operands
  <2> QED
    BY <2>1, <2>2, <2>3, <2>4, JoinAgrees
<1>9. PiecesFound(e)
  <2>1. /\ e.saw["slices"] <=> k = "ByteSlice" \/ \E i \in DOMAIN kids : kids[i].saw["slices"]
        /\ e.saw["fixed"] <=> k = "Fixed" \/ \E i \in DOMAIN kids : kids[i].saw["fixed"]
        /\ e.saw["builds"] <=> k \in {"ByteSlice", "Fixed"} \/ \E i \in DOMAIN kids : kids[i].saw["builds"]
        /\ e.saw["spanCompared"] <=> \E i \in DOMAIN kids : kids[i].saw["spanCompared"]
        /\ e.saw["index"] <=> \E i \in DOMAIN kids : kids[i].saw["index"]
        /\ e.saw["outOfRange"] <=>
             k \in {"ByteSlice", "Fixed"} \/ \E i \in DOMAIN kids : kids[i].saw["outOfRange"]
    BY <1>5, SawFields DEF Equality
  <2>2. CASE k = "Add"
    <3>1. \A p : p \in e.pieces <=> \E i \in DOMAIN kids : p \in kids[i].pieces
      BY <1>4, <2>2 DEF flatten_concat
    <3> QED
      BY <1>1, <2>1, <2>2, <3>1 DEF PiecesFound
  <2>3. CASE k # "Add"
    <3>1. e.pieces = {PieceKind(k)}
      BY <1>4, <2>3 DEF flatten_concat
    <3>2. /\ "Span" \in e.pieces <=> k = "ByteSlice"
          /\ "Decimal" \in e.pieces <=> k = "Fixed"
      BY <3>1 DEF PieceKind
    <3>3. \A i \in DOMAIN kids : "Span" \notin kids[i].pieces /\ "Decimal" \notin kids[i].pieces
      BY <2>3, <1>a
    <3> QED
      BY <1>1, <2>1, <2>3, <3>2, <3>3 DEF PiecesFound
  <2> QED
    BY <2>2, <2>3
<1>10. LiteralsPlaced(e)
  <2>1. is_built_string(e)
    BY <1>3 DEF is_built_string
  <2>2. \A i \in DOMAIN kids :
          /\ ~kids[i].leaves[FALSE] /\ (kids[i].leaves[TRUE] <=> kids[i].alien)
          /\ kids[i].alien => kids[i].ty = "string"
    BY <1>1 DEF LiteralsPlaced
  <2>3. ~e.leaves[FALSE]
    BY <1>6, <2>2 DEF returns_non_ascii_bytes
  <2>4. e.leaves[TRUE] <=> e.alien
    <3>1. CASE k = "Add"
      BY <1>3, <1>6, <2>2, <3>1 DEF returns_non_ascii_bytes, Inherits
    <3>2. CASE k = "Cast"
      BY <1>3, <1>6, <2>2, <3>2 DEF returns_non_ascii_bytes, Inherits
    <3>3. CASE k = "Fixed"
      BY <1>3, <1>6, <2>2, <3>3 DEF returns_non_ascii_bytes, Inherits
    <3>4. CASE k = "ByteSlice"
      BY <1>3, <1>6, <2>2, <3>4 DEF returns_non_ascii_bytes, Inherits
    <3> QED
      BY <3>1, <3>2, <3>3, <3>4
  <2> QED
    BY <1>3, <2>1, <2>3, <2>4 DEF LiteralsPlaced
<1>11. Lowered(e)
  <2>1. is_built_string(e)
    BY <1>3 DEF is_built_string
  <2>2. IsSpan(e) => e.pieces = {"Span"}
    BY <1>3, <1>4 DEF IsSpan, flatten_concat, PieceKind
  <2>3. e.kind = "Fixed" => e.pieces = {"Decimal"}
    BY <1>3, <1>4 DEF flatten_concat, PieceKind
  <2> QED
    BY <1>3, <2>1, <2>2, <2>3 DEF Lowered, StringKinds
<1> QED
  BY <1>2, <1>8, <1>9, <1>10, <1>11 DEF Sound, e

\* A string literal or a string variable.
LEMMA StringLeaf ==
  ASSUME NEW k \in {"ConstStr", "Var"}, NEW name, NEW ty, ty = "string", NEW lit \in Seq(Int),
         NEW alien \in BOOLEAN, alien => k = "ConstStr", NEW kids, kids = <<>>
  PROVE  Node(k, name, ty, lit, alien, kids) \in Sound
<1> DEFINE e == Node(k, name, ty, lit, alien, kids)
<1>1. e \in Expression
  <2>1. kids \in Seq(Expression) /\ k \in Kinds /\ ty \in Types
    BY DEF Kinds, StringKinds, Types
  <2> QED
    BY <2>1, NodeTyped
<1>2. DOMAIN kids = {}
  OBVIOUS
<1>3. e.kind = k /\ e.ty = ty /\ e.alien = alien
  BY NodeFields
<1>4. /\ e.text = emit_expr(k, name, ty, kids)
      /\ e.parts = emit_pieces(k, ty, kids, e.text)
      /\ e.pieces = flatten_concat(k, ty, kids)
  BY NodeFields
<1>5. /\ e.saw = Saw(k, kids) /\ e.rounders = used_rounders(k, name, kids)
  BY NodeFields
<1>6. \A out \in BOOLEAN :
          /\ e.outside[out] <=> non_ascii_literal_outside_output(k, ty, alien, kids, out)
          /\ e.leaves[out] <=> returns_non_ascii_bytes(k, ty, alien, kids, out)
  BY NodeFields
<1> HIDE DEF e
<1>7. e.text = {} /\ e.parts = {}
  <2>1. TextOf(kids) = {}
    BY <1>2 DEF TextOf
  <2>2. emit_expr(k, name, ty, kids) = TextOf(kids)
    BY DEF emit_expr, Equality
  <2>3. emit_pieces(k, ty, kids, e.text) = e.text
    BY DEF emit_pieces
  <2> QED
    BY <1>4, <2>1, <2>2, <2>3
<1>8. e.pieces = {"Bytes"}
  BY <1>4 DEF flatten_concat, PieceKind
<1>9. /\ ~e.saw["compares"] /\ ~e.saw["byteLen"] /\ ~e.saw["spanCompared"] /\ ~e.saw["index"]
      /\ ~e.saw["slices"] /\ ~e.saw["fixed"] /\ ~e.saw["builds"] /\ ~e.saw["outOfRange"]
  BY <1>2, <1>5, SawFields DEF Equality
<1>10. e.rounders = {}
  BY <1>2, <1>5 DEF used_rounders
<1>11. Agrees(Operands(e), e)
  BY <1>3, <1>7, <1>9, <1>10 DEF Agrees, Operands
<1>12. PiecesFound(e)
  BY <1>8, <1>9 DEF PiecesFound
<1>13. LiteralsPlaced(e)
  <2>1. alien => e.outside[FALSE]
    BY <1>6 DEF non_ascii_literal_outside_output
  <2>2. ~e.leaves[FALSE] /\ (e.leaves[TRUE] <=> alien)
    BY <1>2, <1>6 DEF returns_non_ascii_bytes
  <2> QED
    BY <1>3, <2>1, <2>2 DEF LiteralsPlaced
<1>14. Lowered(e)
  BY <1>3, <1>7, <1>8 DEF Lowered, StringKinds, IsSpan
<1> QED
  BY <1>1, <1>11, <1>12, <1>13, <1>14 DEF Sound, e

\* A comparison with a span: the text is that of the operands and of the comparison.
LEMMA SpanEquality ==
  ASSUME NEW k \in Equality, NEW name, NEW ty, ty = "bool", NEW lit \in Seq(Int),
         NEW alien, alien = FALSE, NEW kids \in Seq(Sound), HasSpan(kids), kids[1].ty = "string",
         \A i \in DOMAIN kids : is_built_string(kids[i]) => IsSpan(kids[i])
  PROVE  Node(k, name, ty, lit, alien, kids) \in Sound
<1> DEFINE e == Node(k, name, ty, lit, alien, kids)
           t == e.text
           u == OperandsCompared(kids)
<1>1. \A i \in DOMAIN kids :
        /\ kids[i] \in Expression /\ PiecesFound(kids[i]) /\ LiteralsPlaced(kids[i])
        /\ Agrees(Operands(kids[i]), kids[i]) /\ Lowered(kids[i])
  BY DEF Sound
<1>2. e \in Expression
  <2>1. kids \in Seq(Expression) /\ k \in Kinds /\ ty \in Types
    BY SoundSeq DEF Kinds, BinOps, Types
  <2> QED
    BY <2>1, NodeTyped
<1>3. e.kind = "value" /\ e.ty = ty /\ e.alien = alien /\ e.parts = {} /\ e.pieces = {}
  <2>1. ty \notin Arrays \cup {"string"} /\ k # "ConstI32"
    BY DEF Arrays, Equality
  <2> QED
    BY <2>1, NodeFields
<1>4. /\ t = emit_expr(k, name, ty, kids)
      /\ e.saw = Saw(k, kids) /\ e.rounders = used_rounders(k, name, kids)
  BY NodeFields
<1>5. \A out \in BOOLEAN :
          /\ e.outside[out] <=> non_ascii_literal_outside_output(k, ty, alien, kids, out)
          /\ e.leaves[out] <=> returns_non_ascii_bytes(k, ty, alien, kids, out)
  BY NodeFields
<1> HIDE DEF e, t, u
<1>6. t = Inspected(kids) \cup u \cup {"ml_sublen", "ml_subeq", "bail"}
  <2>1. emit_expr(k, name, ty, kids) = StringEquality(kids)
    BY DEF emit_expr, Equality, Arrays
  <2> QED
    BY <1>4, <2>1, InEquality DEF u
<1>7. \A x : x \in u <=> \E i \in DOMAIN kids : x \in Operands(kids[i])
  <2>1. \A i \in DOMAIN kids : SpanOrOther(kids[i]) = Operands(kids[i])
    BY <1>1 DEF SpanOrOther, Operands, IsSpan, Lowered, is_built_string
  <2>2. u = UNION {Operands(kids[i]) : i \in DOMAIN kids}
    BY <2>1 DEF u, OperandsCompared
  <2> QED
    BY <2>2
<1>8. Inspected(kids) \subseteq {"literal read", "span read"}
  BY DEF Inspected
<1>9. /\ e.saw["compares"] <=> \E i \in DOMAIN kids : kids[i].saw["compares"]
      /\ e.saw["byteLen"] <=> \E i \in DOMAIN kids : kids[i].saw["byteLen"]
      /\ e.saw["spanCompared"]
      /\ e.saw["slices"] <=> \E i \in DOMAIN kids : kids[i].saw["slices"]
      /\ e.saw["fixed"] <=> \E i \in DOMAIN kids : kids[i].saw["fixed"]
      /\ e.saw["builds"] <=> \E i \in DOMAIN kids : kids[i].saw["builds"]
      /\ e.saw["index"] <=> \E i \in DOMAIN kids : kids[i].saw["index"]
      /\ e.saw["outOfRange"] <=> \E i \in DOMAIN kids : kids[i].saw["outOfRange"]
  BY <1>4, SawFields DEF Equality
<1>10. Agrees(t, e)
  <2>1. u \subseteq OperandText
    BY <1>1, <1>7 DEF Agrees
  <2>2. t \subseteq OperandText
    BY <1>6, <1>8, <2>1 DEF OperandText
  <2>3. /\ "ml_streq" \in t <=> "ml_streq" \in u
        /\ "ml_slen" \in t <=> "ml_slen" \in u
        /\ "ml_subeq" \in t /\ "ml_sublen" \in t /\ "bail" \in t
        /\ "literal read" \in t <=> "literal read" \in u \/ "literal read" \in Inspected(kids)
    BY <1>6, <1>8
  <2>4. /\ e.saw["compares"] <=> "ml_streq" \in u
        /\ e.saw["byteLen"] <=> "ml_slen" \in u
    BY <1>1, <1>7, <1>9 DEF Agrees
  <2>5. e.rounders = t \cap Rounders
    <3>1. \A x : x \in e.rounders <=> \E i \in DOMAIN kids : x \in kids[i].rounders
      BY <1>4 DEF used_rounders, Equality
    <3>2. \A i \in DOMAIN kids : kids[i].rounders = Operands(kids[i]) \cap Rounders
      BY <1>1 DEF Agrees
    <3>3. \A x : x \in e.rounders <=> x \in u /\ x \in Rounders
      BY <1>7, <3>1, <3>2
    <3>4. Rounders \cap {"literal read", "span read", "ml_sublen", "ml_subeq", "bail"} = {}
      BY ConstantsAssumption
    <3>5. t \cap Rounders = u \cap Rounders
      BY <1>6, <1>8, <3>4
    <3> QED
      BY <3>3, <3>5
  <2>6. "literal read" \in t => e.outside[TRUE] /\ e.outside[FALSE]
    <3>1. SUFFICES ASSUME "literal read" \in t, NEW out \in BOOLEAN
                   PROVE  non_ascii_literal_outside_output(k, ty, alien, kids, out)
      BY <1>5
    <3>2. CASE "literal read" \in u
      <4>1. PICK i \in DOMAIN kids : "literal read" \in Operands(kids[i])
        BY <1>7, <3>2
      <4>2. \A o \in BOOLEAN : kids[i].outside[o]
        BY <1>1, <4>1 DEF Agrees
      <4> QED
        BY <4>2 DEF non_ascii_literal_outside_output
    <3>3. CASE "literal read" \in Inspected(kids)
      <4>1. PICK i \in DOMAIN kids : kids[i].alien /\ ~IsSpan(kids[i])
        BY <3>3 DEF Inspected
      <4>2. kids[i].outside[FALSE]
        BY <1>1, <4>1 DEF LiteralsPlaced
      <4>3. ~Inherits(k, ty) /\ k # "ByteLen" /\ k # "ByteSlice"
        BY DEF Inherits, Equality
      <4> QED
        BY <4>2, <4>3 DEF non_ascii_literal_outside_output
    <3> QED
      BY <2>3, <3>1, <3>2, <3>3
  <2> QED
    BY <1>9, <2>2, <2>3, <2>4, <2>5, <2>6 DEF Agrees
<1>11. PiecesFound(e)
  <2>1. PICK s \in DOMAIN kids : IsSpan(kids[s])
    BY DEF HasSpan
  <2>2. "Span" \in kids[s].pieces
    BY <1>1, <2>1 DEF Lowered
  <2>3. \A i \in DOMAIN kids : "Decimal" \notin kids[i].pieces
    BY <1>1 DEF Lowered, IsSpan
  <2>4. e.saw["slices"]
    BY <1>1, <1>9, <2>2 DEF PiecesFound
  <2>5. ~e.saw["fixed"]
    BY <1>1, <1>9, <2>3 DEF PiecesFound
  <2>6. e.saw["builds"] /\ e.saw["outOfRange"]
    BY <1>1, <1>9, <2>2 DEF PiecesFound
  <2> QED
    BY <1>3, <1>9, <2>4, <2>5, <2>6 DEF PiecesFound
<1>12. LiteralsPlaced(e)
  <2>1. \A i \in DOMAIN kids : ~kids[i].leaves[FALSE]
    BY <1>1 DEF LiteralsPlaced
  <2>2. ~Inherits(k, ty) /\ k # "ByteSlice" /\ k # "ConstStr"
    BY DEF Inherits, Equality
  <2>3. ~e.leaves[TRUE] /\ ~e.leaves[FALSE]
    BY <1>5, <2>1, <2>2 DEF returns_non_ascii_bytes
  <2> QED
    BY <1>3, <2>3 DEF LiteralsPlaced
<1>13. Lowered(e)
  BY <1>3 DEF Lowered, IsSpan, is_built_string
<1> QED
  BY <1>2, <1>3, <1>10, <1>11, <1>12, <1>13 DEF Sound, Operands, e, t

-----------------------------------------------------------------------------
(* The arms of check_expr.                                                 *)

LEMMA LeafSound ==
  ASSUME NEW k \in PlainKinds, NEW ty \in Types \ {"string"}, NEW lit \in Seq(Int)
  PROVE  Leaf(k, ty, lit, FALSE) \in Sound
<1>1. <<>> \in Seq(Sound) /\ DOMAIN <<>> = {}
  OBVIOUS
<1>2. \A alien : alien = FALSE => Node(k, "", ty, lit, alien, <<>>) \in Sound
  BY <1>1, PlainNode
<1> QED
  BY <1>2 DEF Leaf

LEMMA StringLeafSound ==
  ASSUME NEW k \in {"ConstStr", "Var"}, NEW alien \in BOOLEAN, alien => k = "ConstStr"
  PROVE  Leaf(k, "string", <<>>, alien) \in Sound
<1>1. \A ty : ty = "string" => Node(k, "", ty, <<>>, alien, <<>>) \in Sound
  <2>1. <<>> \in Seq(Int)
    OBVIOUS
  <2> QED
    BY <2>1, StringLeaf
<1> QED
  BY <1>1 DEF Leaf

\* A node over one plain operand, and over two.
LEMMA OneOperand ==
  ASSUME NEW k \in PlainKinds, NEW ty \in Types \ {"string"}, NEW lit \in Seq(Int),
         NEW a \in Sound, ~is_built_string(a), k \in {"Neg", "Not", "Cast"} => a.ty # "string"
  PROVE  Node(k, "", ty, lit, FALSE, <<a>>) \in Sound
<1> DEFINE kids == <<a>>
<1>1. kids \in Seq(Sound) /\ DOMAIN kids = {1} /\ kids[1] = a
  OBVIOUS
<1>2. /\ \A i \in DOMAIN kids : ~is_built_string(kids[i])
      /\ k \in {"Neg", "Not", "Cast"} => \A i \in DOMAIN kids : kids[i].ty # "string"
  BY <1>1
<1> HIDE DEF kids
<1>3. \A alien : alien = FALSE => Node(k, "", ty, lit, alien, kids) \in Sound
  BY <1>1, <1>2, PlainNode
<1> QED
  BY <1>3 DEF kids

LEMMA TwoOperands ==
  ASSUME NEW k \in PlainKinds \ {"Neg", "Not", "Cast"}, NEW ty \in Types \ {"string"},
         NEW a \in Sound, NEW b \in Sound, ~is_built_string(a), ~is_built_string(b)
  PROVE  \A alien : alien = FALSE => Node(k, "", ty, <<>>, alien, <<a, b>>) \in Sound
<1> DEFINE kids == <<a, b>>
<1>1. kids \in Seq(Sound) /\ DOMAIN kids = {1, 2} /\ kids[1] = a /\ kids[2] = b
  OBVIOUS
<1>2. \A i \in DOMAIN kids : ~is_built_string(kids[i])
  BY <1>1
<1>3. <<>> \in Seq(Int)
  OBVIOUS
<1> HIDE DEF kids
<1>4. \A alien : alien = FALSE => Node(k, "", ty, <<>>, alien, kids) \in Sound
  BY <1>1, <1>2, <1>3, PlainNode
<1> QED
  BY <1>4 DEF kids

LEMMA NegSound ==
  ASSUME NEW a \in Sound, a.ty \in Numeric
  PROVE  Node("Neg", "", a.ty, [i \in DOMAIN a.lit |-> -a.lit[i]], FALSE, <<a>>) \in Sound
<1>1. a.lit \in Seq(Int)
  BY DEF Sound, Expression
<1>2. [i \in DOMAIN a.lit |-> -a.lit[i]] \in Seq(Int)
  BY <1>1
<1>3. a.ty \in Types \ {"string"} /\ ~is_built_string(a)
  BY DEF Numeric, Types, is_built_string
<1>4. "Neg" \in PlainKinds
  BY DEF PlainKinds, Kinds
<1> QED
  BY <1>2, <1>3, <1>4, OneOperand

LEMMA NotSound ==
  ASSUME NEW a \in Sound, a.ty = "bool"
  PROVE  Node("Not", "", "bool", <<>>, FALSE, <<a>>) \in Sound
<1>1. <<>> \in Seq(Int) /\ "bool" \in Types \ {"string"} /\ ~is_built_string(a)
  BY DEF Types, is_built_string
<1>2. "Not" \in PlainKinds
  BY DEF PlainKinds, Kinds
<1> QED
  BY <1>1, <1>2, OneOperand

LEMMA CastSound ==
  ASSUME NEW a \in Sound, NEW to \in Numeric \cup {"bool", "string"},
         <<a.ty, to>> \in (Numeric \X Numeric) \cup {<<"i32", "string">>}
  PROVE  Node("Cast", "", to, <<>>, FALSE, <<a>>) \in Sound
<1>1. <<>> \in Seq(Int) /\ a.ty # "string" /\ ~is_built_string(a)
  BY DEF Numeric, is_built_string
<1>2. CASE to = "string"
  <2> DEFINE kids == <<a>>
  <2>1. kids \in Seq(Sound) /\ DOMAIN kids = {1} /\ kids[1] = a
    OBVIOUS
  <2>2. /\ \A i \in DOMAIN kids : ~is_built_string(kids[i])
        /\ \A i \in DOMAIN kids : kids[i].ty # "string"
    BY <1>1, <2>1
  <2> HIDE DEF kids
  <2>3. \A k, alien : k = "Cast" /\ alien = FALSE => Node(k, "", to, <<>>, alien, kids) \in Sound
    BY <1>1, <1>2, <2>1, <2>2, BuiltNode
  <2> QED
    BY <2>3 DEF kids
<1>3. CASE to # "string"
  <2>1. to \in Types \ {"string"}
    BY <1>3 DEF Numeric, Types
  <2>2. "Cast" \in PlainKinds
    BY DEF PlainKinds, Kinds, StringKinds
  <2> QED
    BY <1>1, <2>1, <2>2, OneOperand
<1> QED
  BY <1>2, <1>3

LEMMA IndexSound ==
  ASSUME NEW a \in Sound, a.ty = "i32", NEW ty \in Arrays
  PROVE  Node("Index", "", Elem(ty), <<>>, FALSE, <<a>>) \in Sound
<1>1. <<>> \in Seq(Int) /\ Elem(ty) \in Types \ {"string"} /\ ~is_built_string(a)
  BY DEF Types, Elem, is_built_string
<1>2. "Index" \in PlainKinds
  BY DEF PlainKinds, Kinds
<1> QED
  BY <1>1, <1>2, OneOperand

LEMMA ByteLenSound ==
  ASSUME NEW a \in Sound, ~is_built_string(a)
  PROVE  Node("ByteLen", "", "i32", <<>>, FALSE, <<a>>) \in Sound
<1>1. <<>> \in Seq(Int) /\ "i32" \in Types \ {"string"}
  BY DEF Types
<1>2. "ByteLen" \in PlainKinds
  BY DEF PlainKinds, Kinds
<1> QED
  BY <1>1, <1>2, OneOperand

LEMMA FixedSound ==
  ASSUME NEW x \in Sound, NEW places \in Sound, x.ty = "f64", places.ty = "i32"
  PROVE  Node("Fixed", "", "string", <<>>, FALSE, <<x, places>>) \in Sound
<1> DEFINE kids == <<x, places>>
<1>1. kids \in Seq(Sound) /\ DOMAIN kids = {1, 2} /\ kids[1] = x /\ kids[2] = places
      /\ <<>> \in Seq(Int)
  OBVIOUS
<1>2. \A i \in DOMAIN kids : ~is_built_string(kids[i]) /\ kids[i].ty # "string"
  BY <1>1 DEF is_built_string
<1> HIDE DEF kids
<1>3. \A k, alien, ty : k = "Fixed" /\ alien = FALSE /\ ty = "string" =>
        Node(k, "", ty, <<>>, alien, kids) \in Sound
  BY <1>1, <1>2, BuiltNode
<1> QED
  BY <1>3 DEF kids

LEMMA ByteSliceSound ==
  ASSUME NEW s \in Sound, NEW from \in Sound, NEW to \in Sound,
         s.ty = "string", ~is_built_string(s), from.ty = "i32", to.ty = "i32"
  PROVE  Node("ByteSlice", "", "string", <<>>, s.alien, <<s, from, to>>) \in Sound
<1> DEFINE kids == <<s, from, to>>
<1>1. kids \in Seq(Sound) /\ DOMAIN kids = {1, 2, 3} /\ kids[1] = s /\ kids[2] = from /\ kids[3] = to
      /\ <<>> \in Seq(Int)
  OBVIOUS
<1>2. \A i \in DOMAIN kids : ~is_built_string(kids[i])
  BY <1>1 DEF is_built_string
<1>3. s.alien \in BOOLEAN
  BY DEF Sound, Expression
<1> HIDE DEF kids
<1>4. \A k, alien, ty : k = "ByteSlice" /\ alien = s.alien /\ ty = "string" =>
        Node(k, "", ty, <<>>, alien, kids) \in Sound
  BY <1>1, <1>2, <1>3, BuiltNode
<1> QED
  BY <1>4 DEF kids

LEMMA BinarySound ==
  ASSUME NEW op \in BinOps, NEW l \in Sound, NEW r \in Sound,
         check_binop(op, l.ty, r.ty) # {}, op \in Equality => ComparisonAllowed(l, r)
  PROVE  Node(op, "", CHOOSE t \in check_binop(op, l.ty, r.ty) : TRUE, <<>>,
              op = "Add" /\ (l.alien \/ r.alien), <<l, r>>) \in Sound
<1> DEFINE ty == CHOOSE t \in check_binop(op, l.ty, r.ty) : TRUE
           alien == op = "Add" /\ (l.alien \/ r.alien)
           kids == <<l, r>>
<1>1. ty \in check_binop(op, l.ty, r.ty)
  OBVIOUS
<1>2. /\ kids \in Seq(Sound) /\ DOMAIN kids = {1, 2} /\ kids[1] = l /\ kids[2] = r
      /\ <<>> \in Seq(Int)
  OBVIOUS
<1>3. /\ l \in Expression /\ r \in Expression
      /\ l.alien => l.ty = "string"
      /\ r.alien => r.ty = "string"
  BY DEF Sound, LiteralsPlaced
<1>4. alien \in BOOLEAN /\ (alien <=> op = "Add" /\ (l.alien \/ r.alien))
  OBVIOUS
<1> HIDE DEF ty, alien
<1>5. l.ty = r.ty
  <2>1. l.ty \in {l.ty, r.ty} /\ r.ty \in {l.ty, r.ty}
    OBVIOUS
  <2> QED
    BY <1>1, <2>1 DEF check_binop, BinOps, Logical, Additive, Ordering, Equality
<1>6. CASE op = "Add" /\ l.ty = "string"
  <2>1. ty = "string"
    BY <1>1, <1>5, <1>6 DEF check_binop, Logical, Additive, Ordering, Equality
  <2>2. alien <=> \E i \in DOMAIN kids : kids[i].alien
    BY <1>2, <1>4, <1>6
  <2>3. \A i \in DOMAIN kids : kids[i].ty = "string"
    BY <1>2, <1>5, <1>6
  <2> HIDE DEF kids
  <2>4. Node(op, "", ty, <<>>, alien, kids) \in Sound
    BY <1>2, <1>4, <1>6, <2>1, <2>2, <2>3, BuiltNode
  <2> QED
    BY <2>4 DEF kids, ty, alien
<1>7. CASE op \in Equality /\ l.ty = "string" /\ (IsSpan(l) \/ IsSpan(r))
  <2>1. ty = "bool"
    BY <1>1, <1>5, <1>7 DEF check_binop, Logical, Additive, Ordering, Equality
  <2>2. alien = FALSE
    BY <1>7 DEF Equality, alien
  <2>3. \A i \in DOMAIN kids : is_built_string(kids[i]) => IsSpan(kids[i])
    BY <1>2, <1>7 DEF ComparisonAllowed
  <2>4. HasSpan(kids)
    BY <1>2, <1>7 DEF HasSpan
  <2>5. kids[1].ty = "string"
    BY <1>2, <1>7
  <2> HIDE DEF kids
  <2>6. Node(op, "", ty, <<>>, alien, kids) \in Sound
    BY <1>2, <1>7, <2>1, <2>2, <2>3, <2>4, <2>5, SpanEquality
  <2> QED
    BY <2>6 DEF kids, ty, alien
<1>8. CASE ~(op = "Add" /\ l.ty = "string")
           /\ ~(op \in Equality /\ l.ty = "string" /\ (IsSpan(l) \/ IsSpan(r)))
  <2>1. ty \in Types \ {"string"}
    BY <1>1, <1>5, <1>8
    DEF check_binop, BinOps, Logical, Additive, Ordering, Equality, Numeric, Types
  <2>2. alien = FALSE
    <3>1. CASE op = "Add"
      BY <1>3, <1>5, <1>8, <3>1 DEF alien
    <3>2. CASE op # "Add"
      BY <3>2 DEF alien
    <3> QED
      BY <3>1, <3>2
  <2>3. ~is_built_string(l) /\ ~is_built_string(r)
    <3>1. CASE op \in Equality /\ l.ty = "string"
      BY <1>8, <3>1 DEF ComparisonAllowed
    <3>2. CASE ~(op \in Equality /\ l.ty = "string")
      <4>1. l.ty # "string"
        BY <1>1, <1>5, <1>8, <3>2
        DEF check_binop, BinOps, Logical, Additive, Ordering, Equality, Numeric
      <4> QED
        BY <1>5, <4>1 DEF is_built_string
    <3> QED
      BY <3>1, <3>2
  <2>4. op \in PlainKinds \ {"Neg", "Not", "Cast"}
    BY DEF PlainKinds, Kinds, BinOps, Logical, Additive, Ordering, Equality
  <2>5. Node(op, "", ty, <<>>, alien, <<l, r>>) \in Sound
    BY <2>1, <2>2, <2>3, <2>4, TwoOperands
  <2> QED
    BY <2>5 DEF ty, alien
<1> QED
  BY <1>6, <1>7, <1>8

\* Arguments are lowered as they stand.
LEMMA CallSound ==
  ASSUME NEW f \in DOMAIN Callees, ~Callees[f].fallible, NEW args \in Seq(Sound), ArgumentsFit(f, args)
  PROVE  Node("Call", f, Callees[f].ret, <<>>, FALSE, args) \in Sound
<1>1. Callees[f].ret \in Types \ {"string"}
  BY ConstantsAssumption
<1>2. \A i \in DOMAIN args : ~is_built_string(args[i])
  BY DEF ArgumentsFit
<1>3. \A k, alien : k = "Call" /\ alien = FALSE => Node(k, f, Callees[f].ret, <<>>, alien, args) \in Sound
  <2>1. <<>> \in Seq(Int) /\ "Call" \in PlainKinds
    BY DEF PlainKinds, Kinds, StringKinds
  <2> QED
    BY <1>1, <1>2, <2>1, PlainNode
<1> QED
  BY <1>3

-----------------------------------------------------------------------------
(* The stack.                                                              *)

LEMMA TopSound ==
  ASSUME stack \in Seq(Sound), NEW n \in Nat, n <= Len(stack)
  PROVE  Top(n) \in Seq(Sound) /\ Len(Top(n)) = n /\ \A i \in 1..n : Top(n)[i] \in Sound
<1>1. Len(stack) \in Nat
  OBVIOUS
<1>2. Top(n) \in Seq(Sound) /\ Len(Top(n)) = n
  <2>1. SubSeq(stack, Len(stack) - n + 1, Len(stack)) \in Seq(Sound)
    BY <1>1
  <2>2. Len(SubSeq(stack, Len(stack) - n + 1, Len(stack))) = n
    BY <1>1
  <2> QED
    BY <2>1, <2>2 DEF Top
<1> QED
  BY <1>2

LEMMA PushedSound ==
  ASSUME stack \in Seq(Sound), NEW n \in Nat, n <= Len(stack), NEW e \in Sound
  PROVE  Pushed(n, e) \in Seq(Sound)
<1>1. Len(stack) \in Nat
  OBVIOUS
<1>2. SubSeq(stack, 1, Len(stack) - n) \in Seq(Sound)
  BY <1>1
<1> QED
  BY <1>2 DEF Pushed

\* The steps of check_expr disturb nothing but the stack.
Checking == stack' \in Seq(Sound) /\ UNCHANGED <<head, body, module>>

LEMMA CheckingIInv ==
  ASSUME IInv, Checking
  PROVE  IInv'
<1>1. Told(body') /\ Told(module')
  BY DEF IInv, Checking
<1> QED
  BY <1>1 DEF IInv, Checking, HeadKnows

\* The step of an arm is sound if the node it makes, when it makes one, is.
LEMMA CheckSound ==
  ASSUME stack \in Seq(Sound), NEW n \in Nat, n <= Len(stack), NEW ok \in BOOLEAN, NEW e,
         Check(n, ok, e), ok => e \in Sound
  PROVE  Checking
<1>1. stack' = <<>> \/ (ok /\ stack' = Pushed(n, e))
  BY DEF Check
<1>2. <<>> \in Seq(Sound)
  OBVIOUS
<1>3. stack' \in Seq(Sound)
  BY <1>1, <1>2, PushedSound
<1> QED
  BY <1>3 DEF Check, Checking

LEMMA ConstantChecks ==
  ASSUME stack \in Seq(Sound), Constant
  PROVE  Checking
<1>1. 0 \in Nat /\ 0 <= Len(stack) /\ TRUE \in BOOLEAN /\ <<>> \in Seq(Int)
  OBVIOUS
<1>2. {"ConstF64", "ConstBool", "ConstI32"} \subseteq PlainKinds
  BY DEF PlainKinds, Kinds
<1>3. {"f64", "bool", "i32"} \subseteq Types \ {"string"}
  BY DEF Types
<1>4. CASE Check(0, TRUE, Leaf("ConstF64", "f64", <<>>, FALSE))
  BY <1>1, <1>2, <1>3, <1>4, LeafSound, CheckSound
<1>5. CASE Check(0, TRUE, Leaf("ConstBool", "bool", <<>>, FALSE))
  BY <1>1, <1>2, <1>3, <1>5, LeafSound, CheckSound
<1>6. ASSUME NEW foreign \in BOOLEAN, Check(0, TRUE, Leaf("ConstStr", "string", <<>>, foreign))
      PROVE  Checking
  <2>1. Leaf("ConstStr", "string", <<>>, foreign) \in Sound
    BY StringLeafSound
  <2> QED
    BY <1>1, <1>6, <2>1, CheckSound
<1>7. ASSUME NEW m \in Ints, Check(0, m <= I32Max, Leaf("ConstI32", "i32", <<m>>, FALSE))
      PROVE  Checking
  <2>1. <<m>> \in Seq(Int) /\ (m <= I32Max) \in BOOLEAN
    BY ConstantsAssumption
  <2>2. Leaf("ConstI32", "i32", <<m>>, FALSE) \in Sound
    BY <1>2, <1>3, <2>1, LeafSound
  <2> QED
    BY <1>1, <1>7, <2>1, <2>2, CheckSound
<1> QED
  BY <1>4, <1>5, <1>6, <1>7 DEF Constant

LEMMA VariableChecks ==
  ASSUME stack \in Seq(Sound), Variable
  PROVE  Checking
<1>1. PICK n \in DOMAIN Scope \cup Unbound :
        Check(0, n \in DOMAIN Scope /\ ~Scope[n].out, Leaf("Var", Scope[n].ty, <<>>, FALSE))
  BY DEF Variable
<1>2. ASSUME n \in DOMAIN Scope
      PROVE  Leaf("Var", Scope[n].ty, <<>>, FALSE) \in Sound
  <2>1. Scope[n].ty \in Types /\ <<>> \in Seq(Int)
    BY <1>2, ConstantsAssumption
  <2>2. "Var" \in PlainKinds
    BY DEF PlainKinds, Kinds, StringKinds
  <2>3. CASE Scope[n].ty = "string"
    BY <2>3, StringLeafSound
  <2>4. CASE Scope[n].ty # "string"
    BY <2>1, <2>2, <2>4, LeafSound
  <2> QED
    BY <2>3, <2>4
<1>3. 0 \in Nat /\ 0 <= Len(stack) /\ (n \in DOMAIN Scope /\ ~Scope[n].out) \in BOOLEAN
  OBVIOUS
<1> QED
  BY <1>1, <1>2, <1>3, CheckSound

LEMMA UnaryChecks ==
  ASSUME stack \in Seq(Sound), Unary
  PROVE  Checking
<1> DEFINE a == Top(1)[1]
           lit == [i \in DOMAIN a.lit |-> -a.lit[i]]
<1>1. 1 \in Nat /\ 1 <= Len(stack)
  BY DEF Unary
<1>2. a \in Sound
  BY <1>1, TopSound
<1>3. CASE Check(1, a.ty \in Numeric, Node("Neg", "", a.ty, lit, FALSE, <<a>>))
  <2>1. a.ty \in Numeric => Node("Neg", "", a.ty, lit, FALSE, <<a>>) \in Sound
    BY <1>2, NegSound
  <2>2. (a.ty \in Numeric) \in BOOLEAN
    OBVIOUS
  <2> HIDE DEF a
  <2> QED
    BY <1>1, <1>3, <2>1, <2>2, CheckSound
<1>4. CASE Check(1, a.ty = "bool", Node("Not", "", "bool", <<>>, FALSE, <<a>>))
  <2>1. a.ty = "bool" => Node("Not", "", "bool", <<>>, FALSE, <<a>>) \in Sound
    BY <1>2, NotSound
  <2>2. (a.ty = "bool") \in BOOLEAN
    OBVIOUS
  <2> HIDE DEF a
  <2> QED
    BY <1>1, <1>4, <2>1, <2>2, CheckSound
<1> QED
  BY <1>3, <1>4 DEF Unary

LEMMA CastChecks ==
  ASSUME stack \in Seq(Sound), Cast
  PROVE  Checking
<1> DEFINE a == Top(1)[1]
           Allowed(to) == <<a.ty, to>> \in (Numeric \X Numeric) \cup {<<"i32", "string">>}
<1>1. 1 \in Nat /\ 1 <= Len(stack)
  BY DEF Cast
<1>2. a \in Sound
  BY <1>1, TopSound
<1>3. PICK to \in Numeric \cup {"bool", "string"} :
        Check(1, Allowed(to), Node("Cast", "", to, <<>>, FALSE, <<a>>))
  BY DEF Cast
<1>4. Allowed(to) => Node("Cast", "", to, <<>>, FALSE, <<a>>) \in Sound
  BY <1>2, CastSound
<1>5. Allowed(to) \in BOOLEAN
  OBVIOUS
<1> HIDE DEF a, Allowed
<1> QED
  BY <1>1, <1>3, <1>4, <1>5, CheckSound

LEMMA BinaryChecks ==
  ASSUME stack \in Seq(Sound), Binary
  PROVE  Checking
<1> DEFINE l == Top(2)[1]
           r == Top(2)[2]
           Allowed(op) == /\ ~(op \in {"Div", "Rem"} /\ r.kind = "ConstI32" /\ r.lit = <<0>>)
                          /\ op \in Equality => ComparisonAllowed(l, r)
                          /\ check_binop(op, l.ty, r.ty) # {}
           e(op) == Node(op, "", CHOOSE t \in check_binop(op, l.ty, r.ty) : TRUE, <<>>,
                         op = "Add" /\ (l.alien \/ r.alien), <<l, r>>)
<1>1. 2 \in Nat /\ 2 <= Len(stack)
  BY DEF Binary
<1>2. l \in Sound /\ r \in Sound
  BY <1>1, TopSound
<1>3. PICK op \in Operators : Check(2, Allowed(op), e(op))
  BY DEF Binary
<1>4. op \in BinOps
  BY ConstantsAssumption
<1>5. Allowed(op) => e(op) \in Sound
  BY <1>2, <1>4, BinarySound
<1>6. Allowed(op) \in BOOLEAN
  OBVIOUS
<1> HIDE DEF l, r, Allowed, e
<1> QED
  BY <1>1, <1>3, <1>5, <1>6, CheckSound

LEMMA IndexChecks ==
  ASSUME stack \in Seq(Sound), Index
  PROVE  Checking
<1> DEFINE a == Top(1)[1]
           Allowed(n) == /\ n \in DOMAIN Scope /\ Scope[n].ty \in Arrays
                         /\ a.ty = "i32" /\ reject_negative_index(a)
           e(n) == Node("Index", "", Elem(Scope[n].ty), <<>>, FALSE, <<a>>)
<1>1. 1 \in Nat /\ 1 <= Len(stack)
  BY DEF Index
<1>2. a \in Sound
  BY <1>1, TopSound
<1>3. PICK n \in DOMAIN Scope \cup Unbound : Check(1, Allowed(n), e(n))
  BY DEF Index
<1>4. Allowed(n) => e(n) \in Sound
  BY <1>2, IndexSound
<1>5. Allowed(n) \in BOOLEAN
  OBVIOUS
<1> HIDE DEF a, Allowed, e
<1> QED
  BY <1>1, <1>3, <1>4, <1>5, CheckSound

LEMMA LenOfChecks ==
  ASSUME stack \in Seq(Sound), LenOf
  PROVE  Checking
<1> DEFINE a == Top(1)[1]
           Allowed == a.ty \in Arrays /\ a.kind = "Var"
<1>1. 1 \in Nat /\ 1 <= Len(stack)
  BY DEF LenOf
<1>2. Check(1, Allowed, Node("Len", "", "i32", <<>>, FALSE, <<>>))
  BY DEF LenOf
<1>3. Node("Len", "", "i32", <<>>, FALSE, <<>>) \in Sound
  <2>1. "Len" \in PlainKinds /\ "i32" \in Types \ {"string"} /\ <<>> \in Seq(Int)
    BY DEF PlainKinds, Kinds, Types
  <2> QED
    BY <2>1, LeafSound DEF Leaf
<1>4. Allowed \in BOOLEAN
  OBVIOUS
<1> HIDE DEF a, Allowed
<1> QED
  BY <1>1, <1>2, <1>3, <1>4, CheckSound

LEMMA ByteLenChecks ==
  ASSUME stack \in Seq(Sound), ByteLen
  PROVE  Checking
<1> DEFINE a == Top(1)[1]
           Allowed == a.ty = "string" /\ ~is_built_string(a)
<1>1. 1 \in Nat /\ 1 <= Len(stack)
  BY DEF ByteLen
<1>2. a \in Sound
  BY <1>1, TopSound
<1>3. Check(1, Allowed, Node("ByteLen", "", "i32", <<>>, FALSE, <<a>>))
  BY DEF ByteLen
<1>4. Allowed => Node("ByteLen", "", "i32", <<>>, FALSE, <<a>>) \in Sound
  BY <1>2, ByteLenSound
<1>5. Allowed \in BOOLEAN
  OBVIOUS
<1> HIDE DEF a, Allowed
<1> QED
  BY <1>1, <1>3, <1>4, <1>5, CheckSound

LEMMA FixedChecks ==
  ASSUME stack \in Seq(Sound), Fixed
  PROVE  Checking
<1> DEFINE x == Top(2)[1]
           places == Top(2)[2]
           Allowed == /\ x.ty = "f64" /\ places.ty = "i32"
                      /\ \A i \in DOMAIN places.lit : places.lit[i] \in 0..MaxPlaces
<1>1. 2 \in Nat /\ 2 <= Len(stack)
  BY DEF Fixed
<1>2. x \in Sound /\ places \in Sound
  BY <1>1, TopSound
<1>3. Check(2, Allowed, Node("Fixed", "", "string", <<>>, FALSE, <<x, places>>))
  BY DEF Fixed
<1>4. Allowed => Node("Fixed", "", "string", <<>>, FALSE, <<x, places>>) \in Sound
  BY <1>2, FixedSound
<1>5. Allowed \in BOOLEAN
  OBVIOUS
<1> HIDE DEF x, places, Allowed
<1> QED
  BY <1>1, <1>3, <1>4, <1>5, CheckSound

LEMMA ByteSliceChecks ==
  ASSUME stack \in Seq(Sound), ByteSlice
  PROVE  Checking
<1> DEFINE s == Top(3)[1]
           from == Top(3)[2]
           to == Top(3)[3]
           Allowed == /\ s.ty = "string" /\ ~is_built_string(s)
                      /\ from.ty = "i32" /\ to.ty = "i32"
                      /\ \A i \in DOMAIN from.lit :
                          from.lit[i] >= 0 /\ \A j \in DOMAIN to.lit : to.lit[j] >= from.lit[i]
           e == Node("ByteSlice", "", "string", <<>>, s.alien, <<s, from, to>>)
<1>1. 3 \in Nat /\ 3 <= Len(stack)
  BY DEF ByteSlice
<1>2. s \in Sound /\ from \in Sound /\ to \in Sound
  BY <1>1, TopSound
<1>3. Check(3, Allowed, e)
  BY DEF ByteSlice
<1>4. Allowed => e \in Sound
  BY <1>2, ByteSliceSound
<1>5. Allowed \in BOOLEAN
  OBVIOUS
<1> HIDE DEF s, from, to, Allowed, e
<1> QED
  BY <1>1, <1>3, <1>4, <1>5, CheckSound

LEMMA CallChecks ==
  ASSUME stack \in Seq(Sound), Call
  PROVE  Checking
<1> DEFINE Allowed(f, n) == /\ f \in DOMAIN Callees
                            /\ ~Callees[f].fallible /\ ~Callees[f].out
                            /\ ArgumentsFit(f, Top(n))
           e(f, n) == Node("Call", f, Callees[f].ret, <<>>, FALSE, Top(n))
<1>1. PICK f \in DOMAIN Callees \cup Unbound, n \in 0..2 :
        Len(stack) >= n /\ Check(n, Allowed(f, n), e(f, n))
  BY DEF Call
<1>2. n \in Nat /\ n <= Len(stack)
  BY <1>1
<1>3. Top(n) \in Seq(Sound)
  BY <1>2, TopSound
<1>4. Allowed(f, n) => e(f, n) \in Sound
  BY <1>3, CallSound
<1>5. Allowed(f, n) \in BOOLEAN
  OBVIOUS
<1> HIDE DEF Allowed, e
<1> QED
  BY <1>1, <1>2, <1>4, <1>5, CheckSound

-----------------------------------------------------------------------------
(* Bodies and modules: what is told of the parts is told of the whole.      *)

Plus(a, b) ==
    [saw |-> [w \in Walkers |-> a.saw[w] \/ b.saw[w]],
     rounders |-> a.rounders \cup b.rounders, text |-> a.text \cup b.text,
     outside |-> a.outside \/ b.outside, leaves |-> a.leaves \/ b.leaves,
     span |-> a.span \/ b.span, strout |-> a.strout \/ b.strout]

\* What a statement adds to its body.
Added(es, out, found, text, span) ==
    [saw |-> [w \in Walkers |-> w \in found \/ \E i \in DOMAIN es : es[i].saw[w]],
     rounders |-> UNION {es[i].rounders : i \in DOMAIN es}, text |-> text,
     outside |-> \E i \in DOMAIN es : es[i].outside[out],
     leaves |-> \E i \in DOMAIN es : es[i].leaves[out],
     span |-> span, strout |-> FALSE]

LEMMA PlusTold ==
  ASSUME NEW a, NEW b, Told(a), Told(b)
  PROVE  Told(Plus(a, b))
<1> DEFINE c == Plus(a, b)
<1>1. a \in Summary /\ b \in Summary
  BY DEF Told
<1>2. /\ c.text = a.text \cup b.text /\ c.rounders = a.rounders \cup b.rounders
      /\ c.outside <=> a.outside \/ b.outside
      /\ c.leaves <=> a.leaves \/ b.leaves
      /\ c.span <=> a.span \/ b.span
  BY DEF Plus
<1>3. \A w \in Walkers : c.saw[w] <=> a.saw[w] \/ b.saw[w]
  BY DEF Plus
<1>4. c \in Summary
  BY <1>1 DEF Plus, Summary
<1> HIDE DEF c
<1>5. /\ c.saw["compares"] <=> "ml_streq" \in c.text
      /\ c.saw["spanCompared"] <=> "ml_subeq" \in c.text
      /\ c.span <=> "ml_wsub" \in c.text
      /\ c.saw["slices"] <=> "ml_sublen" \in c.text
      /\ c.saw["slices"] <=> c.span \/ c.saw["spanCompared"]
  BY <1>2, <1>3 DEF Told, Walkers
<1>6. \A h \in {"ml_fixscale", "ml_fixlen", "ml_wfix"} : c.saw["fixed"] <=> h \in c.text
  BY <1>2, <1>3 DEF Told, Walkers
<1>7. c.rounders = c.text \cap Rounders
  BY <1>2 DEF Told
<1>8. /\ "ml_slen" \in c.text => c.saw["byteLen"] \/ c.saw["builds"]
      /\ c.text \cap {"ml_ilen", "ml_wint", "ml_wstr"} # {} => c.saw["builds"]
      /\ c.saw["slices"] \/ c.saw["fixed"] => c.saw["builds"]
  BY <1>2, <1>3 DEF Told, Walkers
<1>9. /\ c.saw["outOfRange"] <=> "bail" \in c.text
      /\ c.leaves <=> "utf8" \in c.text
      /\ "literal read" \in c.text => c.outside
      /\ c.text \cap {"panic", "wild", "stranded"} = {}
  BY <1>2, <1>3 DEF Told, Walkers
<1>10. Told(c)
  BY <1>4, <1>5, <1>6, <1>7, <1>8, <1>9 DEF Told
<1> QED
  BY <1>10 DEF c

LEMMA JoinedIs ==
  ASSUME body \in Summary, NEW es, NEW out, NEW found, NEW text, NEW span
  PROVE  Joined(es, out, found, text, span) = Plus(body, Added(es, out, found, text, span))
<1>1. /\ body = [saw |-> body.saw, rounders |-> body.rounders, text |-> body.text,
                 outside |-> body.outside, leaves |-> body.leaves, span |-> body.span,
                 strout |-> body.strout]
      /\ body.strout \in BOOLEAN
  BY DEF Summary
<1> DEFINE saw == [w \in Walkers |-> body.saw[w] \/ w \in found \/ \E i \in DOMAIN es : es[i].saw[w]]
           rounders == body.rounders \cup UNION {es[i].rounders : i \in DOMAIN es}
           outside == body.outside \/ \E i \in DOMAIN es : es[i].outside[out]
           leaves == body.leaves \/ \E i \in DOMAIN es : es[i].leaves[out]
<1>2. Joined(es, out, found, text, span) =
        [body EXCEPT !.saw = saw, !.rounders = rounders, !.text = body.text \cup text,
                     !.outside = outside, !.leaves = leaves, !.span = body.span \/ span]
  BY DEF Joined
<1>3. Plus(body, Added(es, out, found, text, span)) =
        [saw |-> saw, rounders |-> rounders, text |-> body.text \cup text,
         outside |-> outside, leaves |-> leaves, span |-> body.span \/ span,
         strout |-> body.strout]
  <2> DEFINE a == Added(es, out, found, text, span)
  <2>1. /\ a.rounders = UNION {es[i].rounders : i \in DOMAIN es} /\ a.text = text
        /\ a.outside <=> \E i \in DOMAIN es : es[i].outside[out]
        /\ a.leaves <=> \E i \in DOMAIN es : es[i].leaves[out]
        /\ a.span = span /\ a.strout = FALSE
    BY DEF Added
  <2>2. \A w \in Walkers : a.saw[w] <=> w \in found \/ \E i \in DOMAIN es : es[i].saw[w]
    BY DEF Added
  <2> HIDE DEF a
  <2>3. [w \in Walkers |-> body.saw[w] \/ a.saw[w]] = saw
    BY <2>2
  <2>4. (body.strout \/ a.strout) = body.strout
    BY <1>1, <2>1
  <2>5. /\ (body.outside \/ a.outside) = outside /\ (body.leaves \/ a.leaves) = leaves
        /\ (body.span \/ a.span) = (body.span \/ span)
    BY <2>1
  <2>6. body.rounders \cup a.rounders = rounders /\ body.text \cup a.text = body.text \cup text
    BY <2>1
  <2>7. Plus(body, a) =
          [saw |-> [w \in Walkers |-> body.saw[w] \/ a.saw[w]],
           rounders |-> body.rounders \cup a.rounders, text |-> body.text \cup a.text,
           outside |-> body.outside \/ a.outside, leaves |-> body.leaves \/ a.leaves,
           span |-> body.span \/ a.span, strout |-> body.strout \/ a.strout]
    BY DEF Plus
  <2> HIDE DEF saw, rounders, outside, leaves
  <2>8. Plus(body, a) =
          [saw |-> saw, rounders |-> rounders, text |-> body.text \cup text,
           outside |-> outside, leaves |-> leaves, span |-> body.span \/ span,
           strout |-> body.strout]
    BY <2>3, <2>4, <2>5, <2>6, <2>7, Zenon
  <2> QED
    BY <2>8 DEF a
<1> HIDE DEF saw, rounders, outside, leaves
<1> QED
  BY <1>1, <1>2, <1>3

LEMMA AddedFields ==
  ASSUME NEW es, NEW out, NEW found, NEW text, NEW span
  PROVE  LET a == Added(es, out, found, text, span)
         IN  /\ a.text = text /\ a.span = span
             /\ a.rounders = UNION {es[i].rounders : i \in DOMAIN es}
             /\ a.outside <=> \E i \in DOMAIN es : es[i].outside[out]
             /\ a.leaves <=> \E i \in DOMAIN es : es[i].leaves[out]
             /\ \A w \in Walkers : a.saw[w] <=> w \in found \/ \E i \in DOMAIN es : es[i].saw[w]
BY DEF Added

LEMMA AddedTyped ==
  ASSUME NEW es \in Seq(Sound), NEW out, NEW found, NEW text \in SUBSET Texts, NEW span \in BOOLEAN
  PROVE  Added(es, out, found, text, span) \in Summary
<1>1. UNION {es[i].rounders : i \in DOMAIN es} \subseteq Rounders
  <2>1. \A i \in DOMAIN es : es[i].rounders \subseteq Rounders
    BY DEF Sound, Expression
  <2> QED
    BY <2>1
<1> QED
  BY <1>1 DEF Added, Summary

\* What the text of plain operands holds.
LEMMA PlainOperands ==
  ASSUME NEW es \in Seq(Sound), \A i \in DOMAIN es : ~is_built_string(es[i])
  PROVE  /\ TextOf(es) \subseteq OperandText
         /\ "ml_streq" \in TextOf(es) <=> \E i \in DOMAIN es : es[i].saw["compares"]
         /\ "ml_slen" \in TextOf(es) <=> \E i \in DOMAIN es : es[i].saw["byteLen"]
         /\ "ml_subeq" \in TextOf(es) <=> \E i \in DOMAIN es : es[i].saw["spanCompared"]
         /\ "ml_sublen" \in TextOf(es) <=> "ml_subeq" \in TextOf(es)
         /\ "bail" \in TextOf(es) <=> \E i \in DOMAIN es : es[i].saw["index"] \/ es[i].saw["spanCompared"]
         /\ UNION {es[i].rounders : i \in DOMAIN es} = TextOf(es) \cap Rounders
         /\ "literal read" \in TextOf(es) =>
              \E i \in DOMAIN es : es[i].outside[TRUE] /\ es[i].outside[FALSE]
         /\ \A i \in DOMAIN es :
              /\ es[i].saw["slices"] <=> es[i].saw["spanCompared"]
              /\ es[i].saw["builds"] <=> es[i].saw["spanCompared"]
              /\ ~es[i].saw["fixed"]
              /\ es[i].saw["outOfRange"] <=> es[i].saw["index"] \/ es[i].saw["spanCompared"]
<1>1. ASSUME NEW i \in DOMAIN es
      PROVE  /\ Agrees(es[i].text, es[i]) /\ PiecesFound(es[i])
             /\ "Span" \notin es[i].pieces /\ "Decimal" \notin es[i].pieces
  <2> DEFINE d == es[i]
  <2>1. d \in Sound /\ ~is_built_string(d)
    OBVIOUS
  <2> HIDE DEF d
  <2>2. Agrees(d.text, d) /\ PiecesFound(d)
    BY <2>1, SoundFacts
  <2>3. "Span" \notin d.pieces /\ "Decimal" \notin d.pieces
    BY <2>1, Unbuilt
  <2> QED
    BY <2>2, <2>3 DEF d
<1>2. \A x : x \in TextOf(es) <=> \E i \in DOMAIN es : x \in es[i].text
  BY InText
<1>3. TextOf(es) \subseteq OperandText
  BY <1>1, <1>2 DEF Agrees
<1>4. /\ "ml_streq" \in TextOf(es) <=> \E i \in DOMAIN es : es[i].saw["compares"]
      /\ "ml_slen" \in TextOf(es) <=> \E i \in DOMAIN es : es[i].saw["byteLen"]
      /\ "ml_subeq" \in TextOf(es) <=> \E i \in DOMAIN es : es[i].saw["spanCompared"]
      /\ "ml_sublen" \in TextOf(es) <=> "ml_subeq" \in TextOf(es)
  BY <1>1, <1>2 DEF Agrees
<1>5. "bail" \in TextOf(es) <=> \E i \in DOMAIN es : es[i].saw["index"] \/ es[i].saw["spanCompared"]
  BY <1>1, <1>2 DEF Agrees
<1>6. UNION {es[i].rounders : i \in DOMAIN es} = TextOf(es) \cap Rounders
  <2>1. \A i \in DOMAIN es : es[i].rounders = es[i].text \cap Rounders
    BY <1>1 DEF Agrees
  <2> QED
    BY <1>2, <2>1
<1>7. "literal read" \in TextOf(es) =>
        \E i \in DOMAIN es : es[i].outside[TRUE] /\ es[i].outside[FALSE]
  BY <1>1, <1>2 DEF Agrees
<1>8. \A i \in DOMAIN es :
        /\ es[i].saw["slices"] <=> es[i].saw["spanCompared"]
        /\ es[i].saw["builds"] <=> es[i].saw["spanCompared"]
        /\ ~es[i].saw["fixed"]
        /\ es[i].saw["outOfRange"] <=> es[i].saw["index"] \/ es[i].saw["spanCompared"]
  BY <1>1 DEF PiecesFound
<1> QED
  BY <1>3, <1>4, <1>5, <1>6, <1>7, <1>8

LEMMA PlainAdded ==
  ASSUME NEW es \in Seq(Sound), \A i \in DOMAIN es : ~is_built_string(es[i]),
         NEW out \in BOOLEAN, out => \A i \in DOMAIN es : es[i].ty # "string",
         NEW found \in SUBSET {"outOfRange"},
         NEW extra \in SUBSET {"bail", "literal read", "span read", "array return"},
         "bail" \in extra <=> "outOfRange" \in found,
         "literal read" \in extra => \E i \in DOMAIN es : es[i].outside[out],
         NEW span, span = FALSE
  PROVE  Told(Added(es, out, found, TextOf(es) \cup extra, span))
<1> DEFINE text == TextOf(es) \cup extra
           a == Added(es, out, found, text, span)
           Some(w) == \E i \in DOMAIN es : es[i].saw[w]
<1>1. /\ TextOf(es) \subseteq OperandText
      /\ \A i \in DOMAIN es :
              /\ es[i].saw["slices"] <=> es[i].saw["spanCompared"]
              /\ es[i].saw["builds"] <=> es[i].saw["spanCompared"]
              /\ ~es[i].saw["fixed"]
              /\ es[i].saw["outOfRange"] <=> es[i].saw["index"] \/ es[i].saw["spanCompared"]
  BY PlainOperands
<1>2. text \subseteq OperandText
  BY <1>1 DEF OperandText
<1>3. a \in Summary
  <2>1. text \in SUBSET Texts /\ span \in BOOLEAN
    BY <1>2 DEF Texts
  <2> HIDE DEF text
  <2> QED
    BY <2>1, AddedTyped
<1>4. /\ a.text = text /\ ~a.span
      /\ a.rounders = UNION {es[i].rounders : i \in DOMAIN es}
      /\ a.outside <=> \E i \in DOMAIN es : es[i].outside[out]
      /\ a.leaves <=> \E i \in DOMAIN es : es[i].leaves[out]
  <2>1. /\ a.text = text /\ a.span = span
        /\ a.rounders = UNION {es[i].rounders : i \in DOMAIN es}
    BY DEF Added
  <2>2. /\ a.outside <=> \E i \in DOMAIN es : es[i].outside[out]
        /\ a.leaves <=> \E i \in DOMAIN es : es[i].leaves[out]
    BY AddedFields
  <2> HIDE DEF a
  <2> QED
    BY <2>1, <2>2
<1>5. /\ a.saw["compares"] <=> Some("compares")
      /\ a.saw["byteLen"] <=> Some("byteLen")
      /\ a.saw["spanCompared"] <=> Some("spanCompared")
      /\ a.saw["slices"] <=> Some("slices")
      /\ a.saw["fixed"] <=> Some("fixed")
      /\ a.saw["builds"] <=> Some("builds")
      /\ a.saw["outOfRange"] <=> "outOfRange" \in found \/ Some("outOfRange")
  <2>1. \A w \in Walkers : a.saw[w] <=> w \in found \/ Some(w)
    BY AddedFields
  <2>2. \A w \in found : w = "outOfRange"
    OBVIOUS
  <2> QED
    BY <2>1, <2>2 DEF Walkers
<1> HIDE DEF a
<1>6. /\ "ml_streq" \in text <=> "ml_streq" \in TextOf(es)
      /\ "ml_slen" \in text <=> "ml_slen" \in TextOf(es)
      /\ "ml_subeq" \in text <=> "ml_subeq" \in TextOf(es)
      /\ "ml_sublen" \in text <=> "ml_sublen" \in TextOf(es)
      /\ "bail" \in text <=> "bail" \in extra \/ "bail" \in TextOf(es)
      /\ "literal read" \in text <=> "literal read" \in extra \/ "literal read" \in TextOf(es)
  OBVIOUS
<1>7. \A x \in PassText \cup {"panic", "wild", "stranded"} : x \notin text
  <2>1. \A x \in PassText \cup {"panic", "wild", "stranded"} : x \notin OperandText
    BY ConstantsAssumption DEF OperandText, PassText
  <2> QED
    BY <1>2, <2>1
<1>8. text \cap Rounders = TextOf(es) \cap Rounders
  <2>1. {"bail", "literal read", "span read", "array return"} \cap Rounders = {}
    BY ConstantsAssumption
  <2> QED
    BY <2>1
<1> HIDE DEF text
<1>9. /\ a.saw["compares"] <=> "ml_streq" \in a.text
      /\ a.saw["spanCompared"] <=> "ml_subeq" \in a.text
      /\ a.saw["slices"] <=> "ml_sublen" \in a.text
      /\ a.saw["slices"] <=> a.span \/ a.saw["spanCompared"]
  BY <1>1, <1>4, <1>5, <1>6, PlainOperands
<1>10. /\ a.span <=> "ml_wsub" \in a.text
       /\ \A h \in {"ml_fixscale", "ml_fixlen", "ml_wfix"} : a.saw["fixed"] <=> h \in a.text
       /\ a.text \cap {"panic", "wild", "stranded"} = {}
       /\ a.text \cap {"ml_ilen", "ml_wint", "ml_wstr"} = {}
  BY <1>1, <1>4, <1>5, <1>7 DEF PassText
<1>11. a.rounders = a.text \cap Rounders
  BY <1>4, <1>8, PlainOperands
<1>12. /\ "ml_slen" \in a.text => a.saw["byteLen"] \/ a.saw["builds"]
       /\ a.saw["slices"] \/ a.saw["fixed"] => a.saw["builds"]
  BY <1>1, <1>4, <1>5, <1>6, PlainOperands
<1>13. a.saw["outOfRange"] <=> "bail" \in a.text
  BY <1>1, <1>4, <1>5, <1>6, PlainOperands
<1>14. a.leaves <=> "utf8" \in a.text
  <2>1. \A i \in DOMAIN es : LiteralsPlaced(es[i])
    <3>1. \A d \in Sound : LiteralsPlaced(d)
      BY DEF Sound
    <3>2. \A i \in DOMAIN es : es[i] \in Sound
      BY SeqElement
    <3> QED
      BY <3>1, <3>2
  <2>2. \A i \in DOMAIN es : ~es[i].leaves[out]
    BY <2>1 DEF LiteralsPlaced
  <2>3. "utf8" \notin a.text
    BY <1>4, <1>7 DEF PassText
  <2> QED
    BY <1>4, <2>2, <2>3
<1>15. "literal read" \in a.text => a.outside
  <2>1. ASSUME "literal read" \in TextOf(es)
        PROVE  \E i \in DOMAIN es : es[i].outside[out]
    <3>1. PICK i \in DOMAIN es : es[i].outside[TRUE] /\ es[i].outside[FALSE]
      BY <2>1, PlainOperands
    <3> QED
      BY <3>1
  <2> QED
    BY <1>4, <1>6, <2>1
<1>16. Told(a)
  BY <1>3, <1>9, <1>10, <1>11, <1>12, <1>13, <1>14, <1>15 DEF Told
<1> QED
  BY <1>16 DEF a, text

\* The two passes call for a piece of each kind what the kind says.
LEMMA PassCalls ==
  ASSUME NEW e \in Sound
  PROVE  LET t == UNION {PieceText(p) : p \in e.pieces}
         IN  /\ t \subseteq Texts \ (Rounders \cup {"ml_streq", "ml_subeq", "literal read", "utf8",
                                                  "ml_strout", "panic", "wild", "stranded"})
             /\ "ml_sublen" \in t <=> "Span" \in e.pieces
             /\ "ml_wsub" \in t <=> "Span" \in e.pieces
             /\ \A h \in {"ml_fixscale", "ml_fixlen", "ml_wfix"} : h \in t <=> "Decimal" \in e.pieces
             /\ "bail" \in t <=> "Span" \in e.pieces \/ "Decimal" \in e.pieces
<1> DEFINE t == UNION {PieceText(p) : p \in e.pieces}
<1>1. e.pieces \subseteq Pieces
  BY DEF Sound, Expression
<1>2. /\ PieceText("Digits") = {"ml_ilen", "ml_wint"}
      /\ PieceText("Bytes") = {"ml_slen", "ml_wstr"}
      /\ PieceText("Span") = {"ml_sublen", "ml_wsub", "bail"}
      /\ PieceText("Decimal") = {"ml_fixscale", "ml_fixlen", "ml_wfix", "bail"}
  BY DEF PieceText
<1>3. \A x : x \in t <=> \E p \in e.pieces : x \in PieceText(p)
  OBVIOUS
<1> HIDE DEF t
<1>4. t \subseteq {"ml_ilen", "ml_wint", "ml_slen", "ml_wstr", "ml_sublen", "ml_wsub", "bail",
                  "ml_fixscale", "ml_fixlen", "ml_wfix"}
  <2>1. ASSUME NEW p \in Pieces
        PROVE  PieceText(p) \subseteq {"ml_ilen", "ml_wint", "ml_slen", "ml_wstr", "ml_sublen", "ml_wsub",
                                     "bail", "ml_fixscale", "ml_fixlen", "ml_wfix"}
    BY <1>2 DEF Pieces
  <2> QED
    BY <1>1, <1>3, <2>1
<1>5. t \subseteq Texts \ (Rounders \cup {"ml_streq", "ml_subeq", "literal read", "utf8",
                                          "ml_strout", "panic", "wild", "stranded"})
  BY <1>4, ConstantsAssumption DEF Texts, OperandText, PassText
<1>6. /\ "ml_sublen" \in t <=> "Span" \in e.pieces
      /\ "ml_wsub" \in t <=> "Span" \in e.pieces
      /\ \A h \in {"ml_fixscale", "ml_fixlen", "ml_wfix"} : h \in t <=> "Decimal" \in e.pieces
      /\ "bail" \in t <=> "Span" \in e.pieces \/ "Decimal" \in e.pieces
  <2>1. ASSUME NEW p \in Pieces
        PROVE  /\ "ml_sublen" \in PieceText(p) <=> p = "Span"
               /\ "ml_wsub" \in PieceText(p) <=> p = "Span"
               /\ \A h \in {"ml_fixscale", "ml_fixlen", "ml_wfix"} : h \in PieceText(p) <=> p = "Decimal"
               /\ "bail" \in PieceText(p) <=> p = "Span" \/ p = "Decimal"
    BY <1>2 DEF Pieces
  <2> QED
    BY <1>1, <1>3, <2>1
<1> QED
  BY <1>5, <1>6 DEF t

\* The text of a returned string, against its pieces and its operands' text.
LEMMA ReturnText ==
  ASSUME NEW e \in Sound, e.ty = "string",
         IsConcat(e) \/ e.kind \in {"ConstStr", "Var", "Fixed", "ByteSlice"}
  PROVE  LET t == emit_return(e)
         IN  /\ t \subseteq Texts \ {"panic", "wild", "stranded"}
             /\ "ml_streq" \in t <=> "ml_streq" \in e.parts
             /\ "ml_subeq" \in t <=> "ml_subeq" \in e.parts
             /\ "ml_sublen" \in t <=> "ml_sublen" \in e.parts \/ "Span" \in e.pieces
             /\ "ml_wsub" \in t <=> "Span" \in e.pieces
             /\ \A h \in {"ml_fixscale", "ml_fixlen", "ml_wfix"} : h \in t <=> "Decimal" \in e.pieces
             /\ "bail" \in t <=> \/ "bail" \in e.parts
                                 \/ "Span" \in e.pieces \/ "Decimal" \in e.pieces
             /\ t \cap Rounders = e.parts \cap Rounders
             /\ "literal read" \in t => "literal read" \in e.parts
             /\ "utf8" \in t <=> e.alien
             /\ ~is_built_string(e) => \A x \in {"ml_ilen", "ml_wint", "ml_wstr"} : x \notin t
             /\ ~is_built_string(e) => ("ml_slen" \in t <=> "ml_slen" \in e.parts)
<1> DEFINE t == emit_return(e)
           own == IF e.alien THEN {"utf8"} ELSE {}
<1>1. e.parts \subseteq OperandText
  BY DEF Sound, Agrees, Operands
<1>2. \A x \in PassText \cup {"panic", "wild", "stranded"} : x \notin OperandText
  BY ConstantsAssumption DEF OperandText, PassText
<1>3. \A x \in PassText : x \notin Rounders
  BY <1>2 DEF OperandText
<1>4. CASE e.kind \in {"ConstStr", "Var"}
  <2>1. t = e.text \cup {"ml_strout"} \cup own
    BY <1>4 DEF emit_return, Arrays
  <2>2. ~is_built_string(e)
    BY <1>4 DEF is_built_string
  <2>3. e.text = e.parts /\ e.pieces = {"Bytes"}
    BY <2>2 DEF Sound, Lowered
  <2>4. \A x : x \in t <=> x \in e.parts \/ x = "ml_strout" \/ (e.alien /\ x = "utf8")
    BY <2>1, <2>3
  <2> HIDE DEF t, own
  <2>5. t \subseteq Texts \ {"panic", "wild", "stranded"}
    BY <1>1, <1>2, <2>4 DEF Texts, PassText
  <2>6. t \cap Rounders = e.parts \cap Rounders
    BY <1>3, <2>4 DEF PassText
  <2>7. "utf8" \in t <=> e.alien
    BY <1>1, <1>2, <2>4 DEF PassText
  <2>8. \A x \in PassText \ {"ml_strout", "utf8"} : x \notin t
    BY <1>1, <1>2, <2>4
  <2> QED
    BY <2>3, <2>4, <2>5, <2>6, <2>7, <2>8 DEF t, PassText
<1>5. CASE e.kind \notin {"ConstStr", "Var"}
  <2> DEFINE u == UNION {PieceText(p) : p \in e.pieces}
  <2>1. t = (e.parts \cup u) \cup own
    BY <1>5 DEF emit_return, emit_concat_return, Arrays
  <2>2. is_built_string(e)
    BY <1>5 DEF is_built_string, IsConcat
  <2>3. /\ u \subseteq Texts \ (Rounders \cup {"ml_streq", "ml_subeq", "literal read", "utf8",
                                               "ml_strout", "panic", "wild", "stranded"})
        /\ "ml_sublen" \in u <=> "Span" \in e.pieces
        /\ "ml_wsub" \in u <=> "Span" \in e.pieces
        /\ \A h \in {"ml_fixscale", "ml_fixlen", "ml_wfix"} : h \in u <=> "Decimal" \in e.pieces
        /\ "bail" \in u <=> "Span" \in e.pieces \/ "Decimal" \in e.pieces
    BY PassCalls
  <2> HIDE DEF u
  <2>4. /\ \A x : x \in t <=> x \in e.parts \/ x \in u \/ x \in own
        /\ own \subseteq {"utf8"} /\ ("utf8" \in own <=> e.alien)
    BY <2>1
  <2> HIDE DEF t, own
  <2>5. t \subseteq Texts \ {"panic", "wild", "stranded"}
    BY <1>1, <1>2, <2>3, <2>4 DEF Texts, PassText
  <2>6. t \cap Rounders = e.parts \cap Rounders
    BY <1>3, <2>3, <2>4 DEF PassText
  <2>7. "utf8" \in t <=> e.alien
    BY <1>1, <1>2, <2>3, <2>4 DEF PassText
  <2>8. \A x \in PassText : x \notin e.parts
    BY <1>1, <1>2
  <2>9. /\ "ml_streq" \in t <=> "ml_streq" \in e.parts
        /\ "ml_subeq" \in t <=> "ml_subeq" \in e.parts
        /\ "literal read" \in t => "literal read" \in e.parts
    <3>1. /\ "ml_streq" \notin u /\ "ml_subeq" \notin u /\ "literal read" \notin u
          /\ "ml_streq" \notin own /\ "ml_subeq" \notin own /\ "literal read" \notin own
      BY <2>3, <2>4
    <3> QED
      BY <2>4, <3>1
  <2>10. /\ "ml_sublen" \in t <=> "ml_sublen" \in e.parts \/ "Span" \in e.pieces
         /\ "bail" \in t <=> \/ "bail" \in e.parts
                             \/ "Span" \in e.pieces \/ "Decimal" \in e.pieces
    <3>1. "ml_sublen" \notin own /\ "bail" \notin own
      BY <2>4
    <3> QED
      BY <2>3, <2>4, <3>1
  <2>11. "ml_wsub" \in t <=> "Span" \in e.pieces
    <3>1. "ml_wsub" \notin own /\ "ml_wsub" \notin e.parts
      BY <2>4, <2>8 DEF PassText
    <3> QED
      BY <2>3, <2>4, <3>1
  <2>12. \A h \in {"ml_fixscale", "ml_fixlen", "ml_wfix"} : h \in t <=> "Decimal" \in e.pieces
    <3>1. \A h \in {"ml_fixscale", "ml_fixlen", "ml_wfix"} : h \notin own /\ h \notin e.parts
      BY <2>4, <2>8 DEF PassText
    <3> QED
      BY <2>3, <2>4, <3>1
  <2> QED
    BY <2>2, <2>5, <2>6, <2>7, <2>9, <2>10, <2>11, <2>12 DEF t
<1> QED
  BY <1>4, <1>5

LEMMA ReturnedString ==
  ASSUME NEW e \in Sound, e.ty = "string",
         IsConcat(e) \/ e.kind \in {"ConstStr", "Var", "Fixed", "ByteSlice"}
  PROVE  Told(Added(<<e>>, TRUE, IF IsConcat(e) THEN {"builds"} ELSE {}, emit_return(e), returns_a_span(e)))
<1> DEFINE es == <<e>>
           found == IF IsConcat(e) THEN {"builds"} ELSE {}
           t == emit_return(e)
           span == returns_a_span(e)
           a == Added(es, TRUE, found, t, span)
<1>1. es \in Seq(Sound) /\ DOMAIN es = {1} /\ es[1] = e
  OBVIOUS
<1>2. /\ Agrees(e.parts, e) /\ PiecesFound(e) /\ LiteralsPlaced(e) /\ Lowered(e)
  BY SoundFacts DEF Operands
<1>3. /\ a.text = t /\ a.span = span
      /\ a.rounders = UNION {es[i].rounders : i \in DOMAIN es}
      /\ a.outside <=> \E i \in DOMAIN es : es[i].outside[TRUE]
      /\ a.leaves <=> \E i \in DOMAIN es : es[i].leaves[TRUE]
  <2>1. a.text = t /\ a.span = span
    BY DEF Added
  <2>2. a.rounders = UNION {es[i].rounders : i \in DOMAIN es}
    BY DEF Added
  <2>3. /\ a.outside <=> \E i \in DOMAIN es : es[i].outside[TRUE]
        /\ a.leaves <=> \E i \in DOMAIN es : es[i].leaves[TRUE]
    BY DEF Added
  <2> HIDE DEF a, es
  <2> QED
    BY <2>1, <2>2, <2>3
<1>4. \A w \in Walkers : a.saw[w] <=> w \in found \/ \E i \in DOMAIN es : es[i].saw[w]
  BY AddedFields
<1>5. t \subseteq Texts \ {"panic", "wild", "stranded"}
  BY ReturnText
<1>6. /\ "ml_streq" \in t <=> "ml_streq" \in e.parts
      /\ "ml_subeq" \in t <=> "ml_subeq" \in e.parts
      /\ "ml_sublen" \in t <=> "ml_sublen" \in e.parts \/ "Span" \in e.pieces
      /\ "ml_wsub" \in t <=> "Span" \in e.pieces
  BY ReturnText
<1>7. /\ \A h \in {"ml_fixscale", "ml_fixlen", "ml_wfix"} : h \in t <=> "Decimal" \in e.pieces
      /\ "bail" \in t <=> \/ "bail" \in e.parts
                          \/ "Span" \in e.pieces \/ "Decimal" \in e.pieces
      /\ t \cap Rounders = e.parts \cap Rounders
      /\ "literal read" \in t => "literal read" \in e.parts
      /\ "utf8" \in t <=> e.alien
  BY ReturnText
<1>8. /\ ~is_built_string(e) => \A x \in {"ml_ilen", "ml_wint", "ml_wstr"} : x \notin t
      /\ ~is_built_string(e) => ("ml_slen" \in t <=> "ml_slen" \in e.parts)
  BY ReturnText
<1>9. a \in Summary
  <2>1. t \in SUBSET Texts
    BY <1>5
  <2>2. span \in BOOLEAN
    BY DEF returns_a_span
  <2> HIDE DEF t, span, es, found
  <2> QED
    BY <1>1, <2>1, <2>2, AddedTyped
<1>10. span <=> "Span" \in e.pieces
  BY DEF returns_a_span
<1>11. found \subseteq {"builds"} /\ ("builds" \in found <=> IsConcat(e))
  OBVIOUS
<1> HIDE DEF a, es, found, t, span
<1>12. /\ a.saw["compares"] <=> e.saw["compares"]
       /\ a.saw["byteLen"] <=> e.saw["byteLen"]
       /\ a.saw["spanCompared"] <=> e.saw["spanCompared"]
       /\ a.saw["slices"] <=> e.saw["slices"]
       /\ a.saw["fixed"] <=> e.saw["fixed"]
       /\ a.saw["builds"] <=> IsConcat(e) \/ e.saw["builds"]
       /\ a.saw["outOfRange"] <=> e.saw["outOfRange"]
  <2>1. \A w \in Walkers : a.saw[w] <=> w \in found \/ e.saw[w]
    BY <1>1, <1>4
  <2>2. \A w \in Walkers \ {"builds"} : a.saw[w] <=> e.saw[w]
    BY <1>11, <2>1
  <2>3. a.saw["builds"] <=> IsConcat(e) \/ e.saw["builds"]
    BY <1>11, <2>1 DEF Walkers
  <2> QED
    BY <2>2, <2>3 DEF Walkers
<1>13. /\ a.saw["compares"] <=> "ml_streq" \in a.text
       /\ a.saw["spanCompared"] <=> "ml_subeq" \in a.text
       /\ a.span <=> "ml_wsub" \in a.text
       /\ a.saw["slices"] <=> "ml_sublen" \in a.text
       /\ a.saw["slices"] <=> a.span \/ a.saw["spanCompared"]
  BY <1>2, <1>3, <1>6, <1>10, <1>12 DEF Agrees, PiecesFound
<1>14. \A h \in {"ml_fixscale", "ml_fixlen", "ml_wfix"} : a.saw["fixed"] <=> h \in a.text
  BY <1>2, <1>3, <1>7, <1>12 DEF PiecesFound
<1>15. a.rounders = a.text \cap Rounders
  <2>1. a.rounders = e.rounders
    BY <1>1, <1>3
  <2> QED
    BY <1>2, <1>3, <1>7, <2>1 DEF Agrees
<1>16. is_built_string(e) => a.saw["builds"]
  <2>1. CASE IsConcat(e)
    BY <1>12, <2>1
  <2>2. CASE e.kind = "Fixed"
    BY <1>2, <1>12, <2>2 DEF PiecesFound, Lowered
  <2>3. CASE e.kind = "ByteSlice"
    BY <1>2, <1>12, <2>3 DEF PiecesFound, Lowered, IsSpan
  <2> QED
    BY <2>1, <2>2, <2>3 DEF is_built_string, IsConcat
<1>17. /\ "ml_slen" \in a.text => a.saw["byteLen"] \/ a.saw["builds"]
       /\ a.text \cap {"ml_ilen", "ml_wint", "ml_wstr"} # {} => a.saw["builds"]
       /\ a.saw["slices"] \/ a.saw["fixed"] => a.saw["builds"]
  <2>1. a.saw["slices"] \/ a.saw["fixed"] => a.saw["builds"]
    BY <1>2, <1>12 DEF PiecesFound
  <2>2. CASE is_built_string(e)
    BY <1>16, <2>1, <2>2
  <2>3. CASE ~is_built_string(e)
    <3>1. "ml_slen" \in a.text => a.saw["byteLen"]
      BY <1>2, <1>3, <1>8, <1>12, <2>3 DEF Agrees
    <3>2. a.text \cap {"ml_ilen", "ml_wint", "ml_wstr"} = {}
      BY <1>3, <1>8, <2>3
    <3> QED
      BY <2>1, <3>1, <3>2
  <2> QED
    BY <2>2, <2>3
<1>18. a.saw["outOfRange"] <=> "bail" \in a.text
  BY <1>2, <1>3, <1>7, <1>12 DEF Agrees, PiecesFound
<1>19. a.leaves <=> "utf8" \in a.text
  BY <1>1, <1>2, <1>3, <1>7 DEF LiteralsPlaced
<1>20. "literal read" \in a.text => a.outside
  BY <1>1, <1>2, <1>3, <1>7 DEF Agrees
<1>21. a.text \cap {"panic", "wild", "stranded"} = {}
  BY <1>3, <1>5
<1>22. Told(a)
  BY <1>9, <1>13, <1>14, <1>15, <1>17, <1>18, <1>19, <1>20, <1>21 DEF Told
<1> QED
  BY <1>22 DEF a, es, found, t, span

-----------------------------------------------------------------------------
(* Statements.                                                             *)

\* The head knows of what a statement adds.
HeadAllows(es, text) ==
    /\ "bail" \in text =>
        head.fallible \/ \E i \in DOMAIN es : es[i].saw["index"] \/ es[i].saw["spanCompared"]
    /\ "ml_strout" \in text => head.exported /\ head.ret = "string"

LEMMA StatementIInv ==
  ASSUME IInv, NEW n, NEW ok \in BOOLEAN, NEW es, NEW out, NEW found, NEW text, NEW span,
         Statement(n, ok, Joined(es, out, found, text, span)),
         ok => Told(Added(es, out, found, text, span)) /\ HeadAllows(es, text)
  PROVE  IInv'
<1> DEFINE a == Added(es, out, found, text, span)
<1>1. /\ stack' = <<>> /\ UNCHANGED <<head, module>>
      /\ UNCHANGED body \/ (ok /\ body' = Joined(es, out, found, text, span))
  BY DEF Statement
<1>2. stack' \in Seq(Sound) /\ head' \in Heads
  BY <1>1 DEF IInv
<1>3. Told(module') /\ ~module'.outside /\ ("ml_strout" \in module'.text => module'.strout)
  BY <1>1 DEF IInv
<1>4. CASE UNCHANGED body
  <2>1. Told(body')
    BY <1>4 DEF IInv
  <2>2. HeadKnows'
    BY <1>1, <1>4 DEF IInv, HeadKnows
  <2> QED
    BY <1>2, <1>3, <2>1, <2>2 DEF IInv
<1>5. CASE ok /\ body' = Joined(es, out, found, text, span)
  <2>1. body' = Plus(body, a)
    BY <1>5, JoinedIs DEF IInv, Told
  <2>2. Told(a) /\ HeadAllows(es, text)
    BY <1>5
  <2>3. Told(body')
    BY <2>1, <2>2, PlusTold DEF IInv
  <2>4. /\ a.text = text
        /\ \A w \in Walkers : a.saw[w] <=> w \in found \/ \E i \in DOMAIN es : es[i].saw[w]
    BY DEF Added
  <2> HIDE DEF a
  <2>5. /\ body'.text = body.text \cup text
        /\ body'.saw["index"] <=> body.saw["index"] \/ a.saw["index"]
        /\ body'.saw["spanCompared"] <=> body.saw["spanCompared"] \/ a.saw["spanCompared"]
    BY <2>1, <2>4 DEF Plus, Walkers
  <2>6. (\E i \in DOMAIN es : es[i].saw["index"] \/ es[i].saw["spanCompared"]) =>
          a.saw["index"] \/ a.saw["spanCompared"]
    BY <2>4 DEF Walkers
  <2>7. HeadKnows'
    <3>1. "bail" \in body'.text =>
            head.fallible \/ body'.saw["index"] \/ body'.saw["spanCompared"]
      BY <2>2, <2>5, <2>6 DEF IInv, HeadKnows, HeadAllows
    <3>2. "ml_strout" \in body'.text => head.exported /\ head.ret = "string"
      BY <2>2, <2>5 DEF IInv, HeadKnows, HeadAllows
    <3> QED
      BY <1>1, <3>1, <3>2 DEF HeadKnows
  <2> QED
    BY <1>2, <1>3, <2>3, <2>7 DEF IInv
<1> QED
  BY <1>1, <1>4, <1>5

\* A statement whose expressions are lowered as they stand.
LEMMA PlainStatement ==
  ASSUME IInv, NEW n, NEW ok \in BOOLEAN, NEW es \in Seq(Sound), NEW out \in BOOLEAN,
         NEW found \in SUBSET {"outOfRange"},
         NEW extra \in SUBSET {"bail", "literal read", "span read", "array return"},
         NEW text, text = TextOf(es) \cup extra, NEW span, span = FALSE,
         Statement(n, ok, Joined(es, out, found, text, span)),
         ok => /\ \A i \in DOMAIN es : ~is_built_string(es[i])
               /\ out => \A i \in DOMAIN es : es[i].ty # "string"
               /\ "literal read" \in extra => \E i \in DOMAIN es : es[i].outside[out]
               /\ "bail" \in extra => head.fallible,
         "bail" \in extra <=> "outOfRange" \in found
  PROVE  IInv'
<1>1. ASSUME ok
      PROVE  Told(Added(es, out, found, text, span)) /\ HeadAllows(es, text)
  <2>1. \A i \in DOMAIN es : ~is_built_string(es[i])
    BY <1>1
  <2>2. /\ out => \A i \in DOMAIN es : es[i].ty # "string"
        /\ "literal read" \in extra => \E i \in DOMAIN es : es[i].outside[out]
    BY <1>1
  <2>3. Told(Added(es, out, found, text, span))
    BY <2>1, <2>2, PlainAdded
  <2>4. /\ TextOf(es) \subseteq OperandText
        /\ "bail" \in TextOf(es) <=> \E i \in DOMAIN es : es[i].saw["index"] \/ es[i].saw["spanCompared"]
    BY <2>1, PlainOperands
  <2>5. "ml_strout" \notin text
    <3>1. "ml_strout" \notin OperandText
      BY ConstantsAssumption DEF OperandText
    <3> QED
      BY <2>4, <3>1
  <2>6. "bail" \in text => "bail" \in TextOf(es) \/ "bail" \in extra
    OBVIOUS
  <2>7. HeadAllows(es, text)
    BY <1>1, <2>4, <2>5, <2>6 DEF HeadAllows
  <2> QED
    BY <2>3, <2>7
<1> QED
  BY <1>1, StatementIInv

LEMMA UsedIInv ==
  ASSUME IInv, NEW ok \in BOOLEAN, Statement(1, ok, Used(stack)), Len(stack) = 1,
         ok => stack[1].ty # "string"
  PROVE  IInv'
<1>1. stack \in Seq(Sound) /\ DOMAIN stack = {1}
  BY DEF IInv
<1>2. Statement(1, ok, Joined(stack, FALSE, {}, TextOf(stack), FALSE))
  BY DEF Used
<1>3. ok => \A i \in DOMAIN stack : ~is_built_string(stack[i])
  BY <1>1 DEF is_built_string
<1>4. TextOf(stack) = TextOf(stack) \cup {}
  OBVIOUS
<1>5. \A extra, found, out, span, text :
        extra = {} /\ found = {} /\ out = FALSE /\ span = FALSE /\ text = TextOf(stack) =>
          (Statement(1, ok, Joined(stack, out, found, text, span)) => IInv')
  BY <1>1, <1>3, <1>4, PlainStatement
<1> QED
  BY <1>2, <1>5

LEMMA BindIInv ==
  ASSUME IInv, Bind
  PROVE  IInv'
<1>1. /\ Len(stack) = 1
      /\ Statement(1, stack[1].ty \notin Arrays \cup {"string"}, Used(stack))
  BY DEF Bind
<1>2. (stack[1].ty \notin Arrays \cup {"string"}) \in BOOLEAN
  OBVIOUS
<1> QED
  BY <1>1, <1>2, UsedIInv

LEMMA ConditionIInv ==
  ASSUME IInv, Condition
  PROVE  IInv'
<1>1. Len(stack) = 1 /\ Statement(1, stack[1].ty = "bool", Used(stack))
  BY DEF Condition
<1>2. (stack[1].ty = "bool") \in BOOLEAN
  OBVIOUS
<1> QED
  BY <1>1, <1>2, UsedIInv

LEMMA ResultLenIInv ==
  ASSUME IInv, ResultLen
  PROVE  IInv'
<1>1. /\ Len(stack) = 1
      /\ Statement(1, head.ret \in Arrays /\ stack[1].ty = "i32", Used(stack))
  BY DEF ResultLen
<1>2. (head.ret \in Arrays /\ stack[1].ty = "i32") \in BOOLEAN
  OBVIOUS
<1> QED
  BY <1>1, <1>2, UsedIInv

LEMMA ResultSetIInv ==
  ASSUME IInv, ResultSet
  PROVE  IInv'
<1> DEFINE ok == /\ head.ret \in Arrays
                 /\ stack[1].ty = "i32" /\ reject_negative_index(stack[1])
                 /\ stack[2].ty = Elem(head.ret)
<1>1. /\ Len(stack) = 2
      /\ Statement(2, ok, Joined(stack, FALSE, {"outOfRange"}, TextOf(stack) \cup {"bail"}, FALSE))
  BY DEF ResultSet
<1>2. stack \in Seq(Sound) /\ DOMAIN stack = {1, 2}
  BY <1>1 DEF IInv
<1>3. ok \in BOOLEAN
  OBVIOUS
<1>4. ok => head.fallible /\ \A i \in DOMAIN stack : ~is_built_string(stack[i])
  <2>1. ok => stack[1].ty # "string" /\ stack[2].ty # "string"
    BY DEF Elem
  <2>2. ok => head.fallible
    BY ConstantsAssumption DEF IInv
  <2> QED
    BY <1>2, <2>1, <2>2 DEF is_built_string
<1> HIDE DEF ok
<1>5. \A extra, found, out, span, text :
        /\ extra = {"bail"} /\ found = {"outOfRange"} /\ out = FALSE /\ span = FALSE
        /\ text = TextOf(stack) \cup extra
        => (Statement(2, ok, Joined(stack, out, found, text, span)) => IInv')
  BY <1>2, <1>3, <1>4, PlainStatement
<1> QED
  BY <1>1, <1>5

LEMMA TryCallIInv ==
  ASSUME IInv, TryCall
  PROVE  IInv'
<1> DEFINE ok(f) == /\ f \in DOMAIN Callees
                    /\ Callees[f].fallible /\ head.fallible
                    /\ ~Callees[f].out /\ Callees[f].ret \notin Arrays \cup {"string"}
                    /\ ArgumentsFit(f, stack)
           found == Inspected(stack)
<1>1. PICK f \in DOMAIN Callees \cup Unbound :
        Statement(Len(stack), ok(f), Joined(stack, FALSE, {}, TextOf(stack) \cup found, FALSE))
  BY DEF TryCall
<1>2. stack \in Seq(Sound)
  BY DEF IInv
<1>3. ok(f) \in BOOLEAN
  OBVIOUS
<1>4. found \in SUBSET {"literal read", "span read"}
  BY DEF Inspected
<1>5. ASSUME ok(f)
      PROVE  /\ \A i \in DOMAIN stack : ~is_built_string(stack[i])
             /\ "literal read" \in found => \E i \in DOMAIN stack : stack[i].outside[FALSE]
  <2>1. \A i \in DOMAIN stack : ~is_built_string(stack[i])
    BY <1>5 DEF ArgumentsFit
  <2>2. ASSUME "literal read" \in found
        PROVE  \E i \in DOMAIN stack : stack[i].outside[FALSE]
    <3>1. PICK i \in DOMAIN stack : stack[i].alien
      BY <2>2 DEF Inspected
    <3>2. stack[i] \in Sound
      BY <1>2, SeqElement
    <3>3. stack[i].outside[FALSE]
      BY <2>1, <3>1, <3>2, Unbuilt
    <3> QED
      BY <3>3
  <2> QED
    BY <2>1, <2>2
<1> HIDE DEF ok, found
<1>6. "bail" \notin found /\ found \in SUBSET {"bail", "literal read", "span read", "array return"}
  BY <1>4
<1>7. \A none, out, span, text :
        none = {} /\ out = FALSE /\ span = FALSE /\ text = TextOf(stack) \cup found =>
          (Statement(Len(stack), ok(f), Joined(stack, out, none, text, span)) => IInv')
  <2> TAKE none, out, span, text
  <2> HAVE none = {} /\ out = FALSE /\ span = FALSE /\ text = TextOf(stack) \cup found
  <2> HAVE Statement(Len(stack), ok(f), Joined(stack, out, none, text, span))
  <2>1. none \in SUBSET {"outOfRange"} /\ "outOfRange" \notin none /\ out \in BOOLEAN
    OBVIOUS
  <2> QED
    BY <1>2, <1>3, <1>5, <1>6, <2>1, PlainStatement
<1> QED
  BY <1>1, <1>7

LEMMA ReturnIInv ==
  ASSUME IInv, Return
  PROVE  IInv'
<1> DEFINE e == stack[1]
           ok == /\ e.ty = head.ret
                 /\ e.ty = "string" =>
                      IsConcat(e) \/ e.kind \in {"ConstStr", "Var", "Fixed", "ByteSlice"}
           found == IF IsConcat(e) THEN {"builds"} ELSE {}
           text == emit_return(e)
           span == returns_a_span(e)
<1>1. /\ Len(stack) = 1
      /\ Statement(1, ok, Joined(stack, TRUE, found, text, span))
  BY DEF Return
<1>2. /\ stack \in Seq(Sound) /\ DOMAIN stack = {1} /\ stack = <<e>> /\ e \in Sound
  BY <1>1 DEF IInv
<1>3. ok \in BOOLEAN
  OBVIOUS
<1>4. CASE e.ty = "string"
  <2>1. ASSUME ok
        PROVE  Told(Added(stack, TRUE, found, text, span)) /\ HeadAllows(stack, text)
    <3>1. Told(Added(<<e>>, TRUE, found, text, span))
      BY <1>2, <1>4, <2>1, ReturnedString
    <3>2. head.fallible /\ head.exported /\ head.ret = "string"
      BY <1>4, <2>1, ConstantsAssumption DEF IInv
    <3> QED
      BY <1>2, <3>1, <3>2 DEF HeadAllows
  <2> HIDE DEF ok, found, text, span
  <2> QED
    BY <1>1, <1>3, <2>1, StatementIInv
<1>5. CASE e.ty # "string"
  <2> DEFINE more == IF e.ty \in Arrays THEN {"array return"} ELSE {}
  <2>1. found = {} /\ text = TextOf(stack) \cup more
    <3>1. TextOf(stack) = e.text
      BY <1>2 DEF TextOf
    <3>2. text = e.text \cup more
      BY <1>5 DEF emit_return
    <3> QED
      BY <1>5, <3>1, <3>2 DEF IsConcat
  <2>2. span = FALSE
    <3>1. e.pieces = {}
      BY <1>2, <1>5 DEF Sound, Lowered
    <3> QED
      BY <3>1 DEF returns_a_span
  <2>3. \A i \in DOMAIN stack : ~is_built_string(stack[i]) /\ stack[i].ty # "string"
    BY <1>2, <1>5 DEF is_built_string
  <2>5. more \in SUBSET {"array return"}
    OBVIOUS
  <2> HIDE DEF ok, found, text, span, more
  <2>4. \A extra, out : extra = more /\ out = TRUE =>
          (Statement(1, ok, Joined(stack, out, found, text, span)) => IInv')
    BY <1>2, <1>3, <2>1, <2>2, <2>3, <2>5, PlainStatement
  <2> QED
    BY <1>1, <2>4
<1> QED
  BY <1>4, <1>5

LEMMA FailIInv ==
  ASSUME IInv, Fail
  PROVE  IInv'
<1>1. stack' = <<>> /\ UNCHANGED <<head, body, module>>
  BY DEF Fail, Statement
<1>2. Checking
  BY <1>1 DEF Checking
<1> QED
  BY <1>2, CheckingIInv

-----------------------------------------------------------------------------
(* The end of a function, and the theorems.                                *)

LEMMA NothingTold == Told(Nothing)
<1> DEFINE b == Nothing
<1>1. /\ b.text = {} /\ b.rounders = {} /\ b.outside = FALSE /\ b.leaves = FALSE /\ b.span = FALSE
      /\ b.strout = FALSE /\ \A w \in Walkers : b.saw[w] = FALSE
      /\ b \in Summary
  BY DEF Nothing, Summary
<1> HIDE DEF b
<1>2. Told(b)
  BY <1>1 DEF Told, Walkers
<1> QED
  BY <1>2 DEF b

LEMMA GrownIs ==
  ASSUME IInv, BodyStands
  PROVE  /\ Told(Grown) /\ ~Grown.outside
         /\ "ml_strout" \in Grown.text => Grown.strout
<1> DEFINE p == Plus(module, body)
<1>1. Told(p)
  BY PlusTold DEF IInv
<1>2. "bail" \in body.text => head.fallible
  BY DEF IInv, HeadKnows, BodyStands
<1>3. /\ Grown.saw = p.saw /\ Grown.rounders = p.rounders
      /\ Grown.outside = p.outside /\ Grown.leaves = p.leaves /\ Grown.span = p.span
      /\ Grown.text = p.text
      /\ Grown.strout <=> module.strout \/ (head.exported /\ head.ret = "string")
  <2>1. ~(~head.fallible /\ "bail" \in body.text)
    BY <1>2
  <2>2. Grown.text = module.text \cup body.text
    BY <2>1 DEF Grown
  <2>3. /\ Grown.saw = [w \in Walkers |-> module.saw[w] \/ body.saw[w]]
        /\ Grown.rounders = module.rounders \cup body.rounders
        /\ Grown.outside = (module.outside \/ body.outside)
        /\ Grown.leaves = (module.leaves \/ body.leaves)
        /\ Grown.span = (module.span \/ body.span)
        /\ Grown.strout = (module.strout \/ (head.exported /\ head.ret = "string"))
    BY DEF Grown
  <2> QED
    BY <2>2, <2>3 DEF Plus
<1>4. Grown \in Summary
  <2>1. p \in Summary
    BY <1>1 DEF Told
  <2>2. Grown = [saw |-> Grown.saw, rounders |-> Grown.rounders, text |-> Grown.text,
                 outside |-> Grown.outside, leaves |-> Grown.leaves, span |-> Grown.span,
                 strout |-> Grown.strout]
    BY DEF Grown
  <2>3. Grown.strout \in BOOLEAN
    BY DEF Grown
  <2> QED
    BY <1>3, <2>1, <2>2, <2>3 DEF Summary
<1>5. ~p.outside /\ p.text = module.text \cup body.text
  BY DEF Plus, IInv, BodyStands
<1> HIDE DEF p
<1>6. Told(Grown)
  BY <1>1, <1>3, <1>4 DEF Told
<1>7. "ml_strout" \in Grown.text => Grown.strout
  BY <1>3, <1>5 DEF IInv, HeadKnows
<1> QED
  BY <1>3, <1>5, <1>6, <1>7

LEMMA EndFunctionIInv ==
  ASSUME IInv, EndFunction
  PROVE  IInv'
<1>1. stack' = stack
  BY DEF EndFunction
<1>2. CASE BodyStands
  <2>1. module' = Grown /\ body' = Nothing /\ head' \in Heads
    BY <1>2 DEF EndFunction, IInv
  <2>2. Told(module') /\ ~module'.outside /\ ("ml_strout" \in module'.text => module'.strout)
    BY <1>2, <2>1, GrownIs
  <2>3. Told(body') /\ body'.text = {}
    BY <2>1, NothingTold DEF Nothing
  <2>4. HeadKnows'
    BY <2>3 DEF HeadKnows
  <2> QED
    BY <1>1, <2>1, <2>2, <2>3, <2>4 DEF IInv
<1>3. CASE ~BodyStands
  <2>1. UNCHANGED <<head, body, module>>
    BY <1>3 DEF EndFunction
  <2>2. Checking
    BY <1>1, <2>1 DEF Checking, IInv
  <2> QED
    BY <2>2, CheckingIInv
<1> QED
  BY <1>2, <1>3

LEMMA InitIInv ==
  ASSUME Init
  PROVE  IInv
<1>1. stack \in Seq(Sound) /\ head \in Heads
  BY DEF Init
<1>2. Told(body) /\ Told(module)
  BY NothingTold DEF Init
<1>3. body.text = {} /\ module.text = {} /\ module.outside = FALSE
  BY DEF Init, Nothing
<1> QED
  BY <1>1, <1>2, <1>3 DEF IInv, HeadKnows

LEMMA NextIInv ==
  ASSUME IInv, [Next]_vars
  PROVE  IInv'
<1>0. stack \in Seq(Sound)
  BY DEF IInv
<1>1. CASE Constant
  BY <1>0, <1>1, ConstantChecks, CheckingIInv
<1>2. CASE Variable
  BY <1>0, <1>2, VariableChecks, CheckingIInv
<1>3. CASE Unary
  BY <1>0, <1>3, UnaryChecks, CheckingIInv
<1>4. CASE Cast
  BY <1>0, <1>4, CastChecks, CheckingIInv
<1>5. CASE Binary
  BY <1>0, <1>5, BinaryChecks, CheckingIInv
<1>6. CASE Index
  BY <1>0, <1>6, IndexChecks, CheckingIInv
<1>7. CASE LenOf
  BY <1>0, <1>7, LenOfChecks, CheckingIInv
<1>8. CASE ByteLen
  BY <1>0, <1>8, ByteLenChecks, CheckingIInv
<1>9. CASE Fixed
  BY <1>0, <1>9, FixedChecks, CheckingIInv
<1>10. CASE ByteSlice
  BY <1>0, <1>10, ByteSliceChecks, CheckingIInv
<1>11. CASE Call
  BY <1>0, <1>11, CallChecks, CheckingIInv
<1>12. CASE Return \/ Bind \/ Condition \/ ResultLen \/ ResultSet \/ TryCall \/ Fail
  BY <1>12, ReturnIInv, BindIInv, ConditionIInv, ResultLenIInv, ResultSetIInv, TryCallIInv, FailIInv
<1>13. CASE EndFunction
  BY <1>13, EndFunctionIInv
<1>14. CASE UNCHANGED vars
  <2>1. Checking
    BY <1>0, <1>14 DEF Checking, vars
  <2> QED
    BY <2>1, CheckingIInv
<1> QED
  BY <1>1, <1>2, <1>3, <1>4, <1>5, <1>6, <1>7, <1>8, <1>9, <1>10, <1>11, <1>12, <1>13, <1>14 DEF Next

LEMMA Invariance == Spec => []IInv
BY InitIInv, NextIInv, PTL DEF Spec

-----------------------------------------------------------------------------
(* The generated crate.                                                    *)

\* Which gate each definition stands behind.
LEMMA Gates ==
  ASSUME NEW h \in Provided
  PROVE  \/ module.saw["compares"] /\ h = "ml_streq"
         \/ module.strout /\ h = "ml_strout"
         \/ (module.saw["builds"] \/ module.saw["byteLen"]) /\ h = "ml_slen"
         \/ module.saw["builds"] /\ h \in {"ml_ilen", "ml_wstr", "ml_wint"}
         \/ module.saw["slices"] /\ h = "ml_sublen"
         \/ module.saw["slices"] /\ module.span /\ h = "ml_wsub"
         \/ module.saw["spanCompared"] /\ h = "ml_subeq"
         \/ (module.rounders # {} \/ module.saw["fixed"]) /\ h = "ml_trunc_raw"
         \/ module.rounders # {} /\ h = "ml_sz"
         \/ h \in module.rounders
         \/ module.saw["fixed"] /\ h \in {"ml_fixscale", "ml_fixlen", "ml_wfix"}
<1>1. \/ h \in emit_string_helper \cup emit_strout_helper \cup emit_slen_helper
      \/ h \in emit_concat_helpers \cup emit_span_helpers \cup emit_span_compare_helper
      \/ h \in emit_trunc_helpers \cup emit_rounding_helpers \cup emit_fixed_helpers
  BY DEF Provided
<1>2. CASE h \in emit_string_helper \cup emit_strout_helper \cup emit_slen_helper
  BY <1>2 DEF When, emit_string_helper, emit_strout_helper, emit_slen_helper
<1>3. CASE h \in emit_concat_helpers \cup emit_span_helpers \cup emit_span_compare_helper
  BY <1>3 DEF When, emit_concat_helpers, emit_span_helpers, emit_span_compare_helper
<1>4. CASE h \in emit_trunc_helpers \cup emit_rounding_helpers \cup emit_fixed_helpers
  BY <1>4 DEF When, emit_trunc_helpers, emit_rounding_helpers, emit_fixed_helpers
<1> QED
  BY <1>1, <1>2, <1>3, <1>4

LEMMA CallsOfHelpers ==
  /\ HelperCalls("ml_wint") = {"ml_ilen"}
  /\ HelperCalls("ml_sublen") = {"ml_slen"}
  /\ HelperCalls("ml_wfix") = {"ml_fixlen"}
  /\ HelperCalls("ml_fixscale") = {"ml_trunc_raw"}
  /\ \A r \in Rounders : HelperCalls(r) = {"ml_trunc_raw", "ml_sz"}
  /\ \A h \in {"ml_streq", "ml_strout", "ml_slen", "ml_ilen", "ml_wstr", "ml_wsub", "ml_subeq",
               "ml_trunc_raw", "ml_sz", "ml_fixlen"} : HelperCalls(h) = {}
<1>1. Rounders \subseteq {"floor", "ceil", "round", "trunc"}
  BY ConstantsAssumption
<1>2. ASSUME NEW h \in {"ml_streq", "ml_strout", "ml_slen", "ml_ilen", "ml_wstr", "ml_wsub",
                        "ml_subeq", "ml_trunc_raw", "ml_sz", "ml_fixlen"}
      PROVE  HelperCalls(h) = {}
  BY <1>1, <1>2 DEF HelperCalls
<1>3. ASSUME NEW r \in Rounders
      PROVE  HelperCalls(r) = {"ml_trunc_raw", "ml_sz"}
  BY <1>1, <1>3 DEF HelperCalls
<1> QED
  BY <1>1, <1>2, <1>3 DEF HelperCalls

\* A helper that stands calls only helpers that stand.
LEMMA HelpersLink ==
  ASSUME Told(module), NEW h \in Provided
  PROVE  HelperCalls(h) \subseteq Provided
<1>1. module.saw["slices"] => module.saw["builds"]
  BY DEF Told
<1>2. module.rounders \subseteq Rounders
  BY DEF Told
<1>3. module.saw["builds"] => {"ml_ilen", "ml_slen"} \subseteq Provided
  BY DEF Provided, When, emit_concat_helpers, emit_slen_helper
<1>4. module.saw["fixed"] => {"ml_fixlen", "ml_trunc_raw"} \subseteq Provided
  BY DEF Provided, When, emit_fixed_helpers, emit_trunc_helpers
<1>5. module.rounders # {} => {"ml_trunc_raw", "ml_sz"} \subseteq Provided
  BY DEF Provided, When, emit_trunc_helpers, emit_rounding_helpers
<1>6. CASE h \in module.rounders
  BY <1>2, <1>5, <1>6, CallsOfHelpers
<1>7. CASE HelperCalls(h) = {}
  BY <1>7
<1>8. CASE \/ module.saw["builds"] /\ h = "ml_wint"
           \/ module.saw["slices"] /\ h = "ml_sublen"
           \/ module.saw["fixed"] /\ h \in {"ml_wfix", "ml_fixscale"}
  BY <1>1, <1>3, <1>4, <1>8, CallsOfHelpers
<1> QED
  BY Gates, CallsOfHelpers, <1>6, <1>7, <1>8

\* Every helper the crate of an accepted program calls, from a function of the program or from
\* another helper, is defined in it (emit and the walkers of codegen.rs, used_rounders of ir.rs).
THEOREM LinkedAlways == Spec => []Linked
<1>1. IInv => Linked
  <2>1. SUFFICES ASSUME IInv
                 PROVE  Called \subseteq Provided
    BY DEF Linked
  <2>2. Told(module) /\ ("ml_strout" \in module.text => module.strout)
    BY <2>1 DEF IInv
  <2>3. module.text \subseteq Texts /\ module.rounders = module.text \cap Rounders
    BY <2>2 DEF Told, Summary
  <2>4. module.text \ Events \subseteq Provided
    <3>1. ASSUME NEW x \in module.text, x \notin Events
          PROVE  x \in Provided
      <4>1. CASE x \in Rounders
        BY <2>3, <4>1 DEF Provided, When, emit_rounding_helpers
      <4>2. CASE x \in {"ml_streq", "ml_slen", "ml_sublen", "ml_subeq", "ml_strout"}
        BY <2>2, <3>1, <4>2
        DEF Told, Provided, When, emit_string_helper, emit_slen_helper, emit_span_helpers,
            emit_span_compare_helper, emit_strout_helper
      <4>3. CASE x \in {"ml_ilen", "ml_wint", "ml_wstr", "ml_wsub"}
        BY <2>2, <3>1, <4>3 DEF Told, Provided, When, emit_concat_helpers, emit_span_helpers
      <4>4. CASE x \in {"ml_fixscale", "ml_fixlen", "ml_wfix"}
        BY <2>2, <3>1, <4>4 DEF Told, Provided, When, emit_fixed_helpers
      <4> QED
        BY <2>3, <3>1, <4>1, <4>2, <4>3, <4>4 DEF Texts, OperandText, PassText, Events
    <3> QED
      BY <3>1
  <2> QED
    BY <2>2, <2>4, HelpersLink DEF Called
<1> QED
  BY <1>1, Invariance, PTL

\* A helper that was given a gate of its own is defined only where some text of the crate calls
\* it (the gates of emit; a helper defined and not called is dead code in the generated crate).
THEOREM NothingUnusedAlways == Spec => []NothingUnused
<1>1. IInv => NothingUnused
  <2>1. SUFFICES ASSUME IInv,
                        NEW h \in Provided,
                        h \notin {"ml_strout", "ml_slen", "ml_ilen", "ml_wstr", "ml_wint"}
                 PROVE  h \in Called
    BY DEF NothingUnused
  <2>2. Told(module)
    BY <2>1 DEF IInv
  <2>3. Rounders \subseteq {"floor", "ceil", "round", "trunc"}
    BY ConstantsAssumption
  <2>4. module.text \ Events \subseteq Called
    BY DEF Called
  <2>5. \A g \in Provided : HelperCalls(g) \subseteq Called
    BY DEF Called
  <2>6. module.rounders = module.text \cap Rounders
    BY <2>2 DEF Told
  <2>7. module.rounders \subseteq Provided
    BY DEF Provided, When, emit_rounding_helpers
  <2>8. CASE h \in module.rounders
    BY <2>3, <2>4, <2>6, <2>8 DEF Events
  <2>9. CASE module.rounders # {} /\ h \in {"ml_trunc_raw", "ml_sz"}
    <3>1. PICK r \in module.rounders : TRUE
      BY <2>9
    <3> QED
      BY <2>5, <2>6, <2>7, <2>9, <3>1, CallsOfHelpers
  <2>10. CASE module.saw["fixed"] /\ h = "ml_trunc_raw"
    <3>1. "ml_fixscale" \in Provided
      BY <2>10 DEF Provided, When, emit_fixed_helpers
    <3> QED
      BY <2>5, <2>10, <3>1, CallsOfHelpers
  <2>11. CASE module.saw["fixed"] /\ h \in {"ml_fixscale", "ml_fixlen", "ml_wfix"}
    BY <2>2, <2>4, <2>11 DEF Told, Events
  <2>12. CASE \/ module.saw["compares"] /\ h = "ml_streq"
              \/ module.saw["slices"] /\ h = "ml_sublen"
              \/ module.saw["slices"] /\ module.span /\ h = "ml_wsub"
              \/ module.saw["spanCompared"] /\ h = "ml_subeq"
    BY <2>2, <2>4, <2>12 DEF Told, Events
  <2> QED
    BY <2>1, <2>8, <2>9, <2>10, <2>11, <2>12, Gates
<1> QED
  BY <1>1, Invariance, PTL

\* The header and the Delphi unit speak of the status -2 and of UTF-8 bytes exactly if the
\* crate returns the one and writes the others (can_fail_out_of_range, returns_non_ascii_bytes).
THEOREM BindingsTellAllAlways == Spec => []BindingsTellAll
<1>1. IInv => BindingsTellAll
  BY DEF IInv, Told, BindingsTellAll
<1> QED
  BY <1>1, Invariance, PTL

\* No accepted program reaches an arm the lowering holds unreachable, builds a string where none
\* can be, returns -2 from a function without a status, or compares a whole non-ASCII literal (a span
\* of one is not refused: SpanOfLiteralNotCompared).
THEOREM LowerableAlways == Spec => []Lowerable
<1>1. IInv => Lowerable
  BY DEF IInv, Told, Lowerable
<1> QED
  BY <1>1, Invariance, PTL

=============================================================================
