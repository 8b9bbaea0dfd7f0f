------------------------------- MODULE Names -------------------------------
(***************************************************************************)
(* Which names the type checker lets an author declare (compiler/src/       *)
(* typeck.rs, compiler/src/reserved.rs), and what the generated Rust and     *)
(* Delphi text makes of them (compiler/src/codegen.rs, header.rs), for the   *)
(* module level and one function.                                           *)
(*                                                                          *)
(* The program is written one declaration a step.  A refused declaration is  *)
(* no step, whichever pass of the compiler refuses it; what the checker asks *)
(* about types and values is left out.                                      *)
(***************************************************************************)
EXTENDS Naturals, Sequences, FiniteSets

CONSTANTS
  Identifiers,              \* the names the author uses
  Lower,                    \* every name in lower case
  Companion,                \* <name>_len of every identifier
  RustWords, CWords, CppWords, PascalWords, Macros,
  Prefixed,                 \* names that begin with mlx_, ml_ or __
  Temporaries,              \* names the emitter binds or calls in a body
  Builtins,                 \* functions every module has
  MaxDeclarations, MaxDepth \* bounds: declarations in all, blocks

Triple == {"ml_buf", "ml_cap", "ml_needed"}
Names  == Identifiers \union {Companion[n] : n \in Identifiers} \union Triple \union {"out_value"}

ASSUME NamesAssumption ==
  /\ Identifiers \subseteq DOMAIN Companion
  /\ Names \subseteq DOMAIN Lower
  /\ MaxDeclarations \in Nat /\ MaxDepth \in Nat

\* How the compiler's own names are formed.
ASSUME LexicalAssumption ==
  /\ Temporaries \union Triple \subseteq Prefixed
  /\ \A n \in Prefixed : Lower[n] \in Prefixed
  /\ \A n \in Triple \union {"out_value"} : Lower[n] = n /\ n \notin PascalWords
  /\ \A m, n \in Identifiers :
       Lower[Companion[m]] = Lower[Companion[n]] => Lower[m] = Lower[n]
  /\ \A n \in Identifiers :
       Lower[Companion[n]] \notin Triple \union {"out_value"} \union PascalWords

VARIABLES
  signature,                    \* of the function
  errors, constants, functions, \* names declared by the module
  stage,
  live,      \* the declarations the author sees, innermost last
  blocks,    \* how many were live when each open block was opened
  scopes     \* the checker's scope of each block

module == <<errors, constants, functions>>
vars   == <<signature, module, stage, live, blocks, scopes>>

Signatures ==
  [exported : BOOLEAN, fallible : BOOLEAN, returns : {"scalar", "string", "array"}]

Init ==
  /\ signature \in Signatures
  /\ errors = {} /\ constants = {} /\ functions = {}
  /\ stage = "module"
  /\ live = <<>> /\ blocks = <<>> /\ scopes = <<[n \in {} |-> 0]>>

Room ==
  Len(live) + Cardinality(errors) + Cardinality(constants) + Cardinality(functions)
    < MaxDeclarations

----------------------------------------------------------------------------
(* Reserved names.                                                          *)

SameName(a, b) == Lower[a] = Lower[b]
Clashes(n, S)  == \E m \in S : SameName(m, n)

\* reserving_targets_in: Pascal and C++ only read what reaches the bindings.
Reserved(n, bindings) ==
  \/ n \in RustWords \union CWords
  \/ bindings /\ (n \in CppWords \/ Lower[n] \in PascalWords)

\* generated_prefix_in: Pascal reads ML_BUF as ml_buf.
HasPrefix_AnyScope(n, bindings) == n \in Prefixed
HasPrefix(n, bindings) == (IF bindings THEN Lower[n] ELSE n) \in Prefixed

----------------------------------------------------------------------------
(* The module level.                                                        *)

\* "One name, one meaning": constants and errors share a namespace.
DeclareError(n) ==
  /\ stage = "module" /\ Room
  /\ ~Clashes(n, errors \union constants)
  /\ errors' = errors \union {n}
  /\ UNCHANGED <<signature, constants, functions, stage, live, blocks, scopes>>

DeclareConstant(n) ==
  /\ stage = "module" /\ Room
  /\ n # "result" /\ ~Clashes(n, errors \union constants)
  /\ constants' = constants \union {n}
  /\ UNCHANGED <<signature, errors, functions, stage, live, blocks, scopes>>

\* Function names are emitted behind a prefix: no word is reserved.
DeclareFunction(n) ==
  /\ stage = "module" /\ Room
  /\ n \notin Builtins /\ ~Clashes(n, functions)
  /\ functions' = functions \union {n}
  /\ UNCHANGED <<signature, errors, constants, stage, live, blocks, scopes>>

----------------------------------------------------------------------------
(* check_function.                                                          *)

Declaration(n, role) == [name |-> n, role |-> role]
Roles == {"scalar", "string", "array", "out", "local"}

Parameters == {i \in DOMAIN live : live[i].role # "local"}
Arrays     == {i \in DOMAIN live : live[i].role = "array"}
Named(S)   == {live[i].name : i \in S}
Lengths(S) == {Companion[live[i].name] : i \in S}

Innermost == scopes[Len(scopes)]
With(scope, n, d) == [m \in DOMAIN scope \union {n} |-> IF m = n THEN d ELSE scope[m]]

\* Declares n, in the author's eyes and in the checker's innermost scope.
Declare(n, role) ==
  /\ live' = Append(live, Declaration(n, role))
  /\ scopes' = [scopes EXCEPT ![Len(scopes)] = With(@, n, Len(live) + 1)]

\* A scalar, string or array parameter; `out` is for exported scalars.
check_parameter(n, role) ==
  /\ ~Reserved(n, signature.exported) /\ ~HasPrefix(n, signature.exported)
  /\ ~(signature.exported /\ n \in Macros)
  /\ ~Clashes(n, Named(Parameters))
  /\ role = "out" => signature.exported
  /\ ~Clashes(n, Lengths(Arrays))
  /\ role = "array" => ~Clashes(Companion[n], Named(Parameters) \union {n})
  /\ n \notin constants

DeclareParameter(n, role) ==
  /\ stage \in {"module", "parameters"} /\ Room
  /\ check_parameter(n, role)
  /\ stage' = "parameters" /\ Declare(n, role)
  /\ UNCHANGED <<signature, module, blocks>>

\* check_block works on a copy of the enclosing scope.
OpenBlock ==
  /\ blocks' = Append(blocks, Len(live)) /\ scopes' = Append(scopes, Innermost)
  /\ UNCHANGED live

\* A returned string or array needs the host's buffer and a status.
BeginBody ==
  /\ stage \in {"module", "parameters"}
  /\ signature.fallible => ~Clashes("out_value", Named(Parameters))
  /\ signature.returns # "scalar" => signature.exported /\ signature.fallible
  /\ stage' = "body" /\ OpenBlock
  /\ UNCHANGED <<signature, module>>

Open ==
  /\ stage = "body" /\ Len(blocks) < MaxDepth
  /\ OpenBlock
  /\ UNCHANGED <<signature, module, stage>>

Outer_Leaking == [SubSeq(scopes, 1, Len(scopes) - 1) EXCEPT ![Len(scopes) - 1] = Innermost]
Outer == SubSeq(scopes, 1, Len(scopes) - 1)

Close ==
  /\ stage = "body" /\ Len(blocks) > 1
  /\ live' = SubSeq(live, 1, blocks[Len(blocks)])
  /\ blocks' = SubSeq(blocks, 1, Len(blocks) - 1) /\ scopes' = Outer
  /\ UNCHANGED <<signature, module, stage>>

LocalName_AnyPrefix(n) ==
  /\ ~Reserved(n, FALSE)
  /\ ~(signature.fallible /\ n = "out_value")
  /\ n \notin constants
LocalName(n) ==
  /\ ~Reserved(n, FALSE) /\ ~HasPrefix(n, FALSE)
  /\ ~(signature.fallible /\ n = "out_value")
  /\ n \notin constants

Let(n) ==
  /\ stage = "body" /\ Room
  /\ LocalName(n) /\ n \notin DOMAIN Innermost
  /\ Declare(n, "local")
  /\ UNCHANGED <<signature, module, stage, blocks>>

\* let n = try f(...): a binding form like any other.
TryLetAllowed_Shadowing(n) == signature.fallible /\ LocalName(n)
TryLetAllowed(n) == signature.fallible /\ LocalName(n) /\ n \notin DOMAIN Innermost

TryLet(n) ==
  /\ stage = "body" /\ Room
  /\ TryLetAllowed(n)
  /\ Declare(n, "local")
  /\ UNCHANGED <<signature, module, stage, blocks>>

Next ==
  \/ \E n \in Identifiers :
       \/ DeclareError(n) \/ DeclareConstant(n) \/ DeclareFunction(n)
       \/ \E role \in Roles \ {"local"} : DeclareParameter(n, role)
       \/ Let(n) \/ TryLet(n)
  \/ BeginBody \/ Open \/ Close

Spec == Init /\ [][Next]_vars

----------------------------------------------------------------------------
(* The emitted text.  A binding says where it stands in the text, and which  *)
(* declaration it is: 0 for one of the compiler's.                          *)

Binding(at, n, d) == [at |-> at, name |-> n, of |-> d]
EndOfParameters == 4 * Cardinality(Parameters) + 2

\* rust_params: an array brings its length along.
rust_params ==
  {Binding(4 * i, live[i].name, i) : i \in Parameters}
    \union {Binding(4 * i + 1, Companion[live[i].name], 0) : i \in Arrays}
buffer ==
  IF signature.returns = "scalar" THEN {}
  ELSE {Binding(EndOfParameters, n, 0) : n \in Triple}

\* The bindings in force where the innermost block stands.
RustBindings ==
  rust_params \union buffer \union {Binding(4 * i, live[i].name, i) : i \in DOMAIN live}

\* The adapter's parameters, and those of the Delphi declaration.
delphi_signature ==
  rust_params \union buffer
    \union (IF signature.fallible /\ signature.returns = "scalar"
            THEN {Binding(EndOfParameters, "out_value", 0)} ELSE {})

\* Rust shadowing: of several bindings of a name, the last.
Resolved(n) ==
  CHOOSE b \in RustBindings :
    b.name = n /\ \A c \in RustBindings : c.name = n => c.at <= b.at

----------------------------------------------------------------------------
(* Properties.                                                              *)

\* Types; the checker has one scope more than there are open blocks.
TypeOK ==
  /\ signature \in Signatures /\ stage \in {"module", "parameters", "body"}
  /\ errors \subseteq Identifiers /\ constants \subseteq Identifiers
  /\ functions \subseteq Identifiers
  /\ live \in Seq([name : Identifiers, role : Roles])
  /\ blocks \in Seq(0..Len(live)) /\ Len(scopes) = Len(blocks) + 1
  /\ \A b \in DOMAIN scopes : \A n \in DOMAIN scopes[b] :
       n \in Identifiers /\ scopes[b][n] \in DOMAIN live

\* In an expression a name means one thing: no parameter, local or constant hides
\* another, and the checker's scope holds what the author sees.  Two meanings have
\* places of their own, an error's in `fail` and the array's that is returned in
\* `result n` and `result[i] =`, and no constant takes the name of either; parameters
\* and locals may, although typeck.rs 147-150 says that a local called `result` is
\* refused where an array is returned.
OneMeaning ==
  /\ \A i, j \in DOMAIN live : live[i].name = live[j].name => i = j
  /\ Named(DOMAIN live) \intersect constants = {}
  /\ \A c \in constants : c # "result" /\ ~Clashes(c, errors)
  /\ DOMAIN Innermost = Named(DOMAIN live)
  /\ \A n \in DOMAIN Innermost : live[Innermost[n]].name = n

\* No temporary, helper or buffer of the emitter is captured by a name of the
\* author's, nor an author's name by one of the compiler's (reserved.rs: a
\* parameter __d once made a division return 1).
NoCapture ==
  stage = "body" =>
    /\ Named(DOMAIN live) \intersect (Temporaries \union {b.name : b \in buffer}) = {}
    /\ \A i \in DOMAIN live : Resolved(live[i].name).of = i

Distinct(S)       == \A a, b \in S : a.name = b.name => a = b
DistinctPascal(S) == \A a, b \in S : SameName(a.name, b.name) => a = b
DistinctNames(S)  == \A m, n \in S : SameName(m, n) => m = n

\* What was accepted is text the other compilers take: no identifier twice in
\* a parameter list or a unit, no reserved word, in each language's own reading
\* of letter case. (The C header has the names in comments.)
TextIsAccepted ==
  /\ DistinctNames(errors) /\ DistinctNames(constants) /\ DistinctNames(functions)
  /\ stage = "body" =>
       /\ Distinct(rust_params \union buffer) /\ Distinct(delphi_signature)
       /\ Named(DOMAIN live) \intersect RustWords = {}
       /\ signature.exported =>
            /\ DistinctPascal(delphi_signature)
            /\ \A b \in delphi_signature : Lower[b.name] \notin PascalWords

\* LANGUAGE.md: a declaration of xs_len beside an array xs is refused, so xs[i]
\* is checked against the length the host passed.
LengthIsTheHosts ==
  stage = "body" => \A i \in Arrays : Resolved(Companion[live[i].name]).of = 0
=============================================================================
