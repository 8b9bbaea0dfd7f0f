# Mathless: specifications and proofs

Mathless compiles small pure functions (`.mls`) into a native module (`.dll`) that hosts in other
languages call through a C ABI. `mlc build` reads one source file, checks it, lowers it to a
generated Rust crate, builds that with cargo, and publishes four files (`.dll`, `.h`, `.pas`,
`.lib`) into an output directory.

The compiler is sequential, so what is hard here is not a scheduler. It is the steps that the
outside world can break (the filesystem while files are moved into place, a host whose strings
overlap its buffer, a host that retries), the agreements between analyses made at different
places of the compiler (who gets a checked copy, who calls it, who declares its status; who writes
a call of a helper, who defines it), and what the checker accepts against what the emitted body
then does. These are what this directory models.

## Inventory

| Component | State | Operations | Interacts with |
|---|---|---|---|
| artifact publication, `emit.rs` | files in `out_dir`, the stage, the build tree; the list `done` of completed moves | `emit_artifacts`, `publish`, `rollback` | the filesystem, other `mlc` processes, a reader of `out_dir` |
| crate build, `codegen.rs` 25-230 | a private cargo tree | `build_cdylib`, `single_artifact` | cargo; called by `emit_artifacts` |
| type checker, `typeck.rs`, `reserved.rs` | scopes, signatures, constants | `check`, `check_function`, `check_block`, `check_stmt`, `check_expr` | consumes the tree, produces the IR |
| IR, `ir.rs`, `ast.rs`, `error.rs` | the tree | predicates over bodies | everything after the type checker |
| recursion check, `typeck.rs` 539-651 | marks, the path of the walk | `collect_calls`, `reject_recursion` | runs between the signatures and the bodies; everything later relies on its answer |
| helper check propagation, `ir.rs` 560-762, `codegen.rs` 188-303 | work lists, memo, the kept bodies | `checked_helpers`, `plain_bodies`, `module_can_fail_overflow` | the call lowering, the header and the Delphi unit |
| statement lowering, `codegen.rs` 305-872 | the host's out parameters, buffer, `*ml_needed`; `__n` | `emit_function`, `emit_stmt` | the host's call |
| expression lowering, `codegen.rs` 875-1466, `ir.rs` 764-810 | `loop_free`; the value being computed | `emit_expr`, `emit_wide`, `emit_exact`, `loop_free_functions` | the statement lowering, helper checks |
| generated helpers, `codegen.rs` 172-186, 1491-2513, `ir.rs` 355-558, 847-942 | none: a dozen walkers over the finished tree | `uses_*`, `builds_strings`, `compares_*`, `used_rounders`, `can_fail_out_of_range`, the `emit_*_helper*` they gate | `emit_expr`, whose text calls the helpers; the bindings |
| string return, `codegen.rs` 1468-1756 and its writers 1875-2144 | host memory, counts and offsets of the passes | `ml_strout`, `emit_concat_return` | the host's call and its retry |
| interface manifest, `iface.rs` | none | `manifest`, `fingerprint` | the host's load gate |
| lexer, parser, `lexer.rs`, `parser.rs`, `lib.rs` 36-48 | the cursor, `depth`; the stack of the descent itself | `tokenize_partial`, `parse_*`, `tree_depth` | hands the tree to the type checker |
| header and Delphi unit, `header.rs`, `abi.rs` | none | `emit_c_header`, `emit_delphi_unit` | `emit_artifacts` |
| command line, `main.rs` | none | `run` | `emit_artifacts` |
| probe, example hosts | loaded modules | load, call | the ABI |

What makes each of them correct, and hard:

* **Publication.** Whatever rename or removal fails, and whenever the process dies, nothing of
  the previous build that the probes saw is lost; a plain `Io` error means the displaced files are
  back; `RollbackIncomplete` names files that stay where it says until the staging name is used
  again; `Ok` means all four files are this build's. Hard because a failure can hit the undo
  itself, a rename may report failure after it has moved the file, `is_file()` and `exists()`
  answer false when they cannot tell, and staging names come from a process id that is reused.
* **Helper checks.** Whether `a * b` wraps or fails is decided by the call path. Three loops, a
  choice at each call site and a predicate used by the bindings have to agree, or the program
  wraps silently, fails where it cannot, returns a status its header does not declare, or does not
  link.
* **Recursion check.** A host's stack is not ours to overflow: no function of an accepted module
  is ever active twice, whichever of its bodies (plain, checked, `try`-called) the calls reach; and
  what a refusal reports is a cycle of the source.
* **Statement lowering and type checker.** The generated body has no further checks: it relies on
  the type checker for definite assignment, for the placement of `result`, and for every path
  ending. The host relies on the status alone to know what it may read.
* **Parser.** Whatever the text, the compiler answers: it neither overflows its own stack (in the
  descent, or in a pass over a tree too deep for it) nor loops at the end of input. One
  counter is charged in four places and released in two, and a second limit measures the finished
  tree, because a chain of operators deepens the tree without deepening the descent.
* **Expressions, helpers and bindings.** What `check_expr` accepts, `emit_expr` must be able to
  lower; every private helper that text calls must be defined, which a walker of its own decides
  for each helper, at any depth; the bindings must name every status the text can return.
* **Expressions, values.** A pure i32 tree is evaluated exactly in i64 and narrowed at its root. No status
  a host can observe may change, although the check is made later than it stands in the source.
* **String return.** Two passes (count, append) over memory that the host may have overlapped
  with its sources; the second pass must not believe the first more than it can.
* **Manifest.** Two modules with the same fingerprint must be callable through the same header.
* **Type checker, names.** A name must not resolve to two things, nor be visible outside its
  block. The author's names are written as they are into Rust, where a later binding hides an
  earlier one without a word, and into Delphi, which does not tell `x` from `X`; the compiler puts
  names of its own next to them.

## Modules

| Module | Code | Role |
|---|---|---|
| `Publish` | `emit.rs` 195-393 | every filesystem call of `emit_artifacts` a step; failures, crashes, other builds |
| `PublishProofs` | | theorems about it |
| `CallerBuffer` | `docs/HOST_ABI.md`, Q12 | abstract: one atomic answer to a call with a caller-allocated buffer |
| `StringOut` | `codegen.rs` 1468-1756, writers | the emitted passes, one loop iteration a step, over host memory |
| `StringPromise` | | `StringOut` implements `CallerBuffer` |
| `StringPromiseProofs` | | theorems about `StringOut`, and that it implements `CallerBuffer` |
| `HelperChecks` | `ir.rs` 560-762, `codegen.rs` 188-303, 1192-1220 | the analyses as steps, then the emitted module running |
| `Recursion` | `typeck.rs` 539-651 | the walk over the call graph, composed with `HelperChecks`, which starts when the walk accepts |
| `RecursionProofs` | | theorems about `HelperChecks` and `Recursion` |
| `CallContract` | `docs/HOST_ABI.md`, status table | abstract: what one call may leave in the host's variables |
| `FunctionBody` | `typeck.rs` 825-1568, `codegen.rs` 305-872 | what is accepted, and the accepted body running; implements `CallContract` |
| `FunctionBodyProofs` | | theorems about it |
| `WideArith` | `codegen.rs` 875-1466, `ir.rs` 764-810 | the value and status of an i32 expression |
| `WideArithProofs` | | theorems about it |
| `Expressions` | `typeck.rs` 835-956, 1423-1926, 1912-2475, `codegen.rs` 1104-1756, 1772-2513, `ir.rs` 355-558, 847-942 | programs as `check_expr` builds them, what the walkers answer about them, and what their text calls |
| `ExpressionsProofs` | | theorems about it |
| `Parser` | `parser.rs` 82-1045, `lib.rs` 36-48 | the recursive descent, one function or turn of a loop a step, over any tokens |
| `ParserProofs` | | theorems about it |
| `Names` | `typeck.rs` 152-431, 667-892, 1042-1250, 1614-1700, `reserved.rs`, `codegen.rs` 305-515, `header.rs` 885-944 | which names may be declared, and what they mean in the emitted Rust and Delphi |
| `NamesProofs` | | theorems about it |
| `MCPublish`, `MCString`, `MCHelperChecks`, `MCFunctionBody`, `MCWideArith`, `MCNames`, `MCExpressions`, `MCParser` | | TLC instances |

How state corresponds:

* `Publish`: `out[m][a]` is the file `<m>.<a>` of `out_dir`, abstracted to the run that made it;
  `staged` and `prev` are `<stage>/<name>` and `<stage>/<name>.prev`; `moved` is `done.len()`,
  `kept` the moves whose backup is `Some`, `suspect` the destination whose displacing rename
  failed (`b.exists()` decides later), `stranded` the vector of the same name. `pc` names the next
  filesystem call. `before`, `latest`, `owner` (who last cleared a staging name), `misread` (the
  files a probe denied) and `intact` (named as stranded, and in place after all) are history.
* `StringOut`: `mem` is the host's memory, `Buf` and `cap` its `ml_buf` and `ml_cap`; `i` and `k`
  are the piece and byte a pass is at; `n` and `off` are `__n` and `__o`. A piece's operands are
  abstracted to how their evaluation leaves the body.
* `HelperChecks`: `todo`, `reached`, `settled`, `can` and `keep` are the work list, seen set, memo
  and result of the three loops; `stack` is the run-time call stack of emitted bodies.
* `Recursion`: `path` is the code's `path` (the recursion of `walk` itself), `marks` its `mark`,
  `left` what each activation still has to call (in any order: the code takes them in the order
  of the text, and no property depends on it). `rank` and `finished` are history.
* `Names`: `live` is what the author may use at a point, in order; `scopes` is the scope map each
  activation of `check_block` holds, as the checker updates it. `RustBindings` is what the emitted
  text binds there, `Resolved` how rustc reads it. Word lists and prefixes are constants.
* `FunctionBody`: `rest` is the control point (what each open block still has to run), `n` is
  `__n`; the rest are the host's variables, each abstracted to who wrote it last.
* `Expressions`: `stack` holds the typed expressions that are not yet part of a larger one; a
  statement takes them all. An expression is not kept as a tree but as every walker's answer about
  it (`saw`, `rounders`, `outside`, `leaves`) and what its lowering writes (`text`, and `pieces` and
  `parts` for a string that is still to be written): each of those functions computes a node's
  answer from its kind and its children's, so the answers stand for all trees that give them.
  `body` and `module` join the answers of the finished statements and functions. In `text`, "bail"
  is the return of -2, "utf8" bytes of a non-ASCII literal in the host's buffer, and the other
  events are what must not happen.
* `Parser`: `goals` is the parser's own call stack, flattened: what each function under way still
  has to do, the innermost first. `trees` are the subtrees those functions hold in their locals,
  each kept as its depth, the precedence of its root and whether it is nested by precedence all
  the way down. `ahead` is the current token and those looked at behind it; which tokens follow is
  decided when they are looked at, so one run covers every stream. "Bad" is the end of a stream
  that `tokenize_partial` gave up on; an error there is answered with the lexer's own error.
* `WideArith`: `free` is `loop_free_functions`; `result` is how evaluation ended. `Half` and
  `WideHalf` stand for 2^31 and 2^63. `emitted[e]` is what the text of `e` computes in either
  width: what `emit_expr` writes for it, and what `emit_exact` writes for it inside a pure tree.

An operator named `Name_Variant` beside `Name` is `Name` with a plausible mistake in it. No
specification uses one; substituting it shows that a property can tell the difference.

## Runs

| Run | Instance | Shows |
|---|---|---|
| `MCPublishFaults` | one module, two builds after one another, the second with a staging name of its own or the first one's; each destination old, a directory or absent (one unlike the rest); two faults, failing probes and late rename errors among them; one build may die | all of publication's safety, and that started builds end |
| `MCStringCalls` | memories with sources below, in, above and apart from the buffer, up to three pieces of every kind, six capacities | only the capacity is written, failures write nothing, built strings are terminated; the passes implement `CallerBuffer`; retries converge; calls return |
| `MCHelperChecks` | every module of three functions, recursive ones included | the properties of the walk, of the analyses and of the module that comes out |
| `MCBodies` | every body of up to four statements, two outs, scalar returns; array returns without outs | accepted bodies are lowered without a hole, array functions with a `return` apart (the compiler panics), and honour `CallContract`: a success wrote every out, a retry fits |
| `MCBodyArrayOut` | array return with an out parameter | *violation*: an out is left unwritten on success |
| `MCWideOperators` | every expression of two operators over two variables, and of three over one | exact values, same statuses, wrapping in infallible bodies |
| `MCExpressions` | programs of up to seven expression nodes, one variable, callee and operator of each kind | the text calls no helper that is not defined and no gate is wider than its calls; the bindings declare -2 and UTF-8 exactly when they occur; what is accepted can be lowered, arrays as values apart |
| `MCSpanOfLiteral` | the same programs | *violation*: a span of a non-ASCII literal is compared |
| `MCArrayValues` | the same programs | *violation*: an array parameter is returned, and the compiler panics |
| `MCParser` | every stream of tokens, both limits at four | the descent and the tree stay bounded, the charge balances, operators nest by precedence, the end is answered |
| `MCNames` | three declarations over fourteen names, two nested blocks, every kind of function head | one meaning a name in an expression, no capture, text that rustc and Delphi take |
| `MCNamesCompanion` | an array `xs` and a name `xs_len` | *violation*: a local takes the place of the host's length |

### Bounds

* `MaxFaults = 2`: one failure starts the rollback and one breaks it; each call that fails, a probe
  or a late rename too, is one of the two. A third only strands another of four files that the
  model treats alike. Two builds start, and one of them may die. The second starts after the
  first has entered publish (before that, nothing in `out_dir` has changed), with a staging name of
  its own or with the first one's. Of the four destinations at most one is unlike the others:
  the first, the second or the last. `Overlap = FALSE`: no document promises anything about two
  builds of one module at the same time. Builds of different modules at the same time are covered
  by the theorems, which put no bound on runs, modules, staging names or faults.
* `MCStringCalls` joins two families of memories, each with the programs and capacities written
  for it: sources apart from the buffer, and sources anywhere around it.
* Strings of up to three bytes and capacities around the sizes that occur, -1 and 0 included. The
  comparison that decides is the same for every length. `__n` is an i32 in the code and unbounded
  here: results near 2^31 bytes are outside the model. `MaxCalls` bounds the host's retry loop at
  three calls; `RetryConverges` says that it needs two.
* Three functions: a fallible one, a helper and a helper's helper is the least depth at which one
  hop and every hop differ; three are also enough for cycles of length one, two and three and for
  a cycle reached through a function outside it. The theorems cover every number.
* Four statements: a branch that assigns, its block, a `return` and one more. Lengths -1..2 and
  capacities -1..3 include the negative, zero, exact and one-off cases.
* Names: one identifier of each kind the rules tell apart, `result` among them, two kinds in two letter cases (`len` /
  `Len`, `out_value` / `OUT_VALUE`, `ml_buf` / `ML_BUF`) and an array with the name of its length.
  A clash is between two names, a third declaration puts it behind a closed block or next to a
  constant; the body and one block in it are the least depth at which a scope can leak. The
  theorem covers every set of names and every depth.
* `Expressions`: seven nodes are the least for a compared span inside an argument inside a
  concatenation. `Focus` keeps, in all three runs, at most three expressions waiting, of which the
  first must be one a later node can still take; and a second function only after a first of at
  most four nodes, which is enough to leave one answer behind in `module`. One identifier of each
  type stands for all of that type: no rule asks which.
* `Parser`: limits of four instead of 64. The properties compare `depth` with the limit and the
  tree with a polynomial of it; four is enough for a chain inside an argument inside a chain. Of
  tokens that the parser treats alike one stays (`Tokens_`), and the operators of two of the five
  levels, the optional `out` and `mut` and the bare identifier (`scalar` is one too) are left out.
  `Focus` bounds the width: below the first two levels of charge only the tokens that make a tree,
  or bring it back, are tried, and only small trees may wait beside it. The theorems cover every
  limit and vocabulary without `Focus`.
* Widths of 3 and 6 bits. `ConstantsAssumption` keeps what matters of 32 and 64: a product of two
  i32 fits the i64. Three operators over values up to -4 leave the i64 as well. The order in which
  an overflow, an index and a hanging call meet needs three operators, which is why they are there.

### Fairness

`Publish` assumes weak fairness of each live run's next call: a process that is scheduled and
not killed makes it. Nothing makes a run begin, and a crash ends it. `StringOut` assumes it of the
emitted body, `Recursion` of the walk and the analyses behind it: each a single thread that runs
until it returns; `Parser` assumes it of the whole next-state relation, which is one loop of one
thread: a token can always be had, the last one again and again. The host is never obliged to
call. `FunctionBody` and `WideArith` assume none and claim no liveness, since a `while` in the
source may run for ever; `Names` and `Expressions` have no step that must happen.

Deadlock checking is off where a run ends by design (all builds done, a call returned and not
repeated, a text or a module refused, or compiled and nothing exported, a program written, a
compile that panicked) and on in `MCBodyArrayOut`, whose host can always call again.

## Proofs

`PublishProofs`, for every number of runs, modules, stages and faults, with or without crashes and
late rename errors:

* types and the range of the cursor, without further assumptions;
* `PreviousSurvives`, `IoRestoresPrevious`, `StrandedRecoverable` and `OkMeansWholeSet`, assuming
  `~Overlap` (no two live builds of one module). Staging names may be reused at will.

Two ways a file can be lost are not assumed away: they are in the model, and the properties stop
short of them by history: a file that `is_file()` or `exists()` denied (`misread`), and a stage
that a later build of the same name has cleared (`owner`, read by `OwnsStage`).

The properties say nothing about the middle of a move, so they are not inductive. The invariant
says of each artifact of a publishing run which of four states it is in (`Untouched`, `Displaced`,
`Replaced`, `Settled`), by its position relative to the cursor: everything before it is replaced,
everything after it untouched when moving forward and settled when going back. A file no probe saw
(`Unseen`) is only known not to be named as stranded. A failed removal or a late error may leave
the new file at a destination, so `Displaced` and `Settled` ask where the old one is and not what
stands in its place. Steps of other runs are dealt with once (`OthersKeepInv`): a run sees
nothing of them but a change of `latest`, and of `owner` once it has ended (`Owning`: while a run
uses its stage the name is its own, since a live process has its id to itself).

`StringPromiseProofs`, of `StringOut`, for every body, memory, capacity, buffer address and overlap, over a flat
memory (`Addr = Int`, so that no address is out of the model): types, `OnlyBufferWritten`,
`FailureWritesNothing`, `BuiltIsTerminated`. The invariant adds that each writer leaves the last
byte of the capacity free (`Sizes`), which is what makes the terminator fit without any trust in
pass 1, and that nothing of the host's has changed before the sizes are known (`Frozen`).

Of `StringPromise`, for every body, memory, capacity, buffer address and overlap, again over a
flat memory: `Q12`, the abstraction to `CallerBuffer` step by step, and `RetryConverges`. The
promise speaks of one text, the passes of pieces one after another. `Lead` is the text of the first
pieces; `LeadNext` and `LeadPlace` say where in the whole each piece lies, and `TextIsLead` that
the whole is what `Text` joins. The invariant `PInv` says how far each pass has come in it: the
binding loops have passed over no piece that fails (`BindsFirst`), the count has the pieces before
`i` and `k` bytes of a string (`Counted`), at its end it is the size of the text (`Sized`), and from
then on, if nothing overlaps, the memory is the one before the call with the first `off + k` bytes
to send in the buffer (`Appended`, `Copied`, both in terms of `Poured`). The hard stops of the
writers are then never reached, which needs the exact size of pass 1. A body returns with the
step `Fail` or `Answer` of the promise and otherwise does not move it. That a text has a length, and
that its first pieces stay where they are, are inductions over the pieces; `Induction`
states them for a set of naturals, and not for a predicate, which no prover here could instantiate.
The three modules that need it prove it each, since none of them may extend another's
specification.
`RetryConverges` follows because the text asked for is that of the memory before the call, which a
call answered with -1 has not changed (`Retried`).

`RecursionProofs`, of `HelperChecks`, for every set of functions and call graph: types, `PathDecides`,
`RaisedIsCaught`, `StatusIsDeclared`, `Linked`, `NoDeadCopy`. The idea is `Guarded`: a body running
below a fallible function either has a status, or was reached by the analysis and found unable to
overflow; whatever a guarded body calls is guarded. The invariant joins that to what the three
loops maintain (`Closed`, `Memo`, `KeptBodies`). Recursion is not excluded: it would only cost
termination.

Of `Recursion`, for every set of functions and call graph: types, `CycleIsReal`, `NoReentry`.
The walk never descends into a marked function, and whatever it has left for good calls only what
it left before: `Offered` says that nothing is forgotten (a function not walked is still in some
frame), `Ranked` that every call of a function that is done goes to a function done earlier.
An accepted module has every function done, so the ranks fall strictly along the host's stack
(`Descending`), and no function is there twice.

`FunctionBodyProofs`, for every set of bodies of any length and nesting, and every memory, capacity
and length: types, `LoweredBuilds`, and `HonoursContract` for functions that are not array
functions with out parameters (`NoArrayOuts`; for those it is false, finding 1). `LoweredBuilds`
leaves one panic of the compiler open, an array function's with a `return` (finding 3), and shows
that there is no other. The bodies are a constant closed under
"block of" and "rest of", with a size that falls along both (`ConstantsAssumption`), so they are
trees, however large. The invariant reads each block in progress as what is left of an accepted one
(`Kept`): what its operations and outs may be, and that every return in it comes after the outs it
still owes are written, counting those written so far. `Blockwise` adds, by the position of
`result`, what an array body may still hold: before it, one `result` to come at the top level with no
element written before (`ToCome`); after it, nothing that fails (`Unclean`). `BeforeLength` and
`AfterLength` tie that to the host's memory, and are what lets the body's many steps count as one of
the contract: until it returns, a body has shown the host nothing it may not show. That
`Blocks` and `AssignedAtReturns`, defined by recursion, exist at all is proved first
(`SolutionExists`): a definition by recursion is only a choice of a function with that property.

`WideArithProofs`, for every i32 expression, array, set of functions, and widths where a product
of two i32 fits the i64: `ValueIsExact`, `NeverStricter`, `FirstRealStop`, `PlainWraps`. Expressions
are a constant set closed under operands, with a size that falls along them (`TreesAssumption`);
the call graphs are those `reject_recursion` lets through: among any functions there is one that
calls none of them (`CallsAssumption`). The state machine is short and its invariant says little
(`IInv`: the analysis under way has found only functions that return; an answer is what is emitted).
The work is an induction over expressions for each kind of body. In a fallible one every
expression is `Sound`: in either width, if it gives a value it is the `Meaning`, and if it stops it
stops as `FirstStop` says of it there, or because some part of it is beyond i64. The weak point of
that induction is where the compiler and the meaning could disagree about what may be deferred:
`PureIsOverflowsOnly` says that `is_pure` finds exactly the trees that can stop by an overflow only,
which needs that `loop_free_functions` has found every function that returns (`FreeIsLoopFree`, by
the function that calls none of those it could have missed). Deferring loses nothing because a value within i32
at every operator is within i64 as well (`Agrees`). That an infallible body wraps once is modular
arithmetic: `WrapsThrough` moves the wrapping of the operands to the root. That `Meaning`, `Eager`,
`FirstStop`, `Subtrees` and `emitted` are what their recursive definitions say is proved first
(`TreeSolution`).

`NamesProofs`, for every set of identifiers, reserved words and temporaries and every depth of
blocks: types, `OneMeaning`, `NoCapture`, `TextIsAccepted`. Two assumptions on the constants:
`NamesAssumption` (companions and lower case are defined where they are used) and
`LexicalAssumption`, which is how the compiler's own names are formed: temporaries and the triple
have a reserved prefix, which lower case keeps, the triple is in lower case, `<name>_len` determines `<name>` up to case and is
never a Pascal word or one of `out_value` and the triple. The invariant ties the scope of each open
block to what was live when the block was opened (`ScopesMatch`), which `Close` needs to give the
outer scope back, and keeps what the checker asked of each declaration, each pair of parameters
and the head (`Checked`), because the checks were made earlier than the text that relies on them.

`ExpressionsProofs`, for every scope, set of signatures and program over them: `Linked`,
`NothingUnused`, `BindingsTellAll`, `Lowerable`. The first three compare two answers for a whole
module that nothing computes from each other: what the walkers found and what the lowering wrote.
The induction therefore goes over expressions. Every expression on the stack is `Sound`: the calls
and events in the text of its operands are those its walkers answer for, and the pieces of a string
that is still to be written hold exactly what `return` can add. A body and a module are `Told` when
the same agreement holds of their texts, and `HeadKnows` keeps what `check_block` asked of the head
(a status, an exported string return) for the texts that rely on it. `Lowerable` is about strings
and statuses; what arrays as values do is finding 3, and nothing is proved of it. The assumption on the
constants is that the callees that round are `floor`, `ceil`, `round` and `trunc`.

`ParserProofs`, for every limit, vocabulary and token stream: `StackBounded`, `BudgetBalances`,
`Precedence`, `TreeBounded`. `StackBounded` counts the calls under way of functions that can reach themselves (`Suspended`): an expression, a block,
an operand of a prefix operator. It is not inductive, because an expression gives its whole charge
back in one assignment (`self.depth = outer`), whatever was charged since. The invariant `Paid`
therefore also says of each suspended expression that the calls below it were paid for out of the
charge it will restore. Most steps put only goals on the stack that suspend nothing
(`QuietStep`); `Descent` and `Return` deal once with those that do.

The other three need to know which tree belongs to which goal. `TreeInv` reads the stack of goals
as a chain from the items, which demand nothing, up to the goal under way: the *place* of a goal (in
an expression or between statements, the charge at which that began, the prefix operators still to
be applied) and its *shape* (for each tree below it, the least level of the root and the depth it
may have) are computed from those of the goal after it (`PlaceBefore`, `ShapeBefore`). The trees lie
under the shape (`Lie`) and the charge fits the place (`Charged`). A tree of the expression under
way may be deeper by what has been charged since the expression began. That allowance is what makes
the bound quadratic, and an expression inside an expression must not take part in it:
`<<"leave", d>>` freezes the demands around it at the charge `d` and, when it restores that charge,
gives them back as they were (`LieFrozen`). `WholeIsExpression` is the arithmetic of this: what an
expression begun at charge `d` may have built, `Twice(d)`, is no more than a child of the expression
around it may have. Between statements no demand depends on the charge (`Settled`). Each action
has its lemma (`ExprKeeps`, `WrapKeeps`, ...); `PushGoal` and `PopGoal` are the only places where the
whole chain is looked at.

The types of `Publish`, `StringOut` and `Recursion` are proved and not run: the theorems say more.

Only model-checked: everything about liveness (`RunsEnd`, `CallsReturn`, `CompileEnds`,
`ParseEnds`).

## What the models disagree with

1. `docs/HOST_ABI.md` 131 says a successful call writes every out parameter. An array function
   returns through its end, where nothing asks for them (`MCBodyArrayOut`).
2. `docs/LANGUAGE.md` 240 says that declaring `xs_len` beside an array `xs` is refused. Only a
   parameter is: a local of that name is accepted, and is what `len(xs)` and the bounds check of
   `xs[i]` then read (`MCNamesCompanion`).
3. `codegen.rs` 703 holds a `return <expr>` of an array function unreachable, because the type
   checker refuses it, and `docs/LANGUAGE.md` 236 takes arrays in parameter position only. The
   types of a returned array parameter agree, which is all `check_stmt` asks (`typeck.rs` 1506): it
   is accepted, and the compiler panics (`MCArrayValues`; in `FunctionBody`, phase "panicked").
   The same property has a second way to fail, which the run would meet next: two arrays are
   accepted as operands of `==` (`typeck.rs` 2473), and their addresses are compared, which
   `codegen.rs` 1393 calls a silent wrong answer and routes strings around.
4. A test of `string_input.rs` (727) and the table at `ir.rs` 424 say that a non-ASCII literal is
   not compared. A span cut out of one is, because the walker takes a span's string for an output
   wherever the span stands (`MCSpanOfLiteral`).

Found with the models' help and stated without a run of their own:

* `emit.rs` 191 says that publish leaves `out_dir` as it was if a move fails, and 263 that an empty
  result of `rollback` means it is exactly as it was. When `remove_file` fails on a destination
  that had no backup, or the rename of a new file reports failure after moving it where nothing
  stood, the new file stays and the result is empty. (`IoRestoresPrevious` is what does hold:
  everything displaced is back.)
* The same lines, and 206, which keeps the stage so that no displaced file is destroyed:
  `dest.is_file()` (230) answers false when it cannot tell. The new file is then moved over the old
  one without a backup, and a later failure removes it too. When the displacing rename reports
  failure after moving, `b.exists()` (236) alone decides whether the stage is kept, and answers
  false as well: the only copy goes with the stage. The properties hold of every other file
  (`Arts` without `misread[r]`).
* `emit.rs` 55 says the stage is left on disk for recovery by hand. A later process with the same
  id clears a stage of that name before it starts (321); the run reaches this, and
  `StrandedRecoverable` speaks of the time before.
* `docs/HOST_ABI.md` 149 says an output behind its source gets the right value. In a concatenation
  an earlier piece can be written over a later piece's source.
* `docs/LANGUAGE.md` 123 says operands are evaluated left to right, but the pieces of a
  concatenation are bound kind by kind, and two kinds fail with different statuses (`codegen.rs`
  1629-1690).
* `typeck.rs` 147 says that a local called `result` is refused in an array function; `Let` asks no
  such question, nor do parameters. In `result[i] = result` the two are then different things
  (`OneMeaning` is about expressions, where the name is only the local's).
* The comment on `wrap` (`parser.rs` 205) says the charge keeps the tree bounded during construction
  and not merely checked afterwards. It does, but not by `MAX_NESTING`: a chain's charge is given
  back with its expression, and what it built may stand inside the next, so the bound is the
  1 + N(N-1)/2 of `TreeBounded`, 2017 levels at 64 and reached, before `tree_depth` sees the tree.
  That so deep a tree, refused then, can be dropped without overflowing the stack is not shown here:
  what a level of `Drop` costs is outside the model.
* `parser.rs` 310 says that at the check of the tree's depth the cursor is at the function's closing
  brace. The brace has been consumed: the error is at the token behind it. Where lexing stopped
  there, the lexer's error is the one shown, although the function stands before it and `lib.rs`
  28 has the earlier of two errors win.
* The grammar at `parser.rs` 10-40 has neither arrays, indices nor `result`.
* The helpers of concatenations are defined for modules that only compare spans, and `ml_strout` for
  modules whose string returns are all built; `NothingUnused` leaves those groups out.

## Not modelled, and why

* What f64 operations, roundings and the digit renderers compute, and the concatenation of more than
  three pieces: planned below where there is a property to state.
* Text generation without state (header, Delphi unit, diagnostics' wording).
* Whether the lists of reserved words are complete. (`None`, `Some`, `Ok` and `Err` are in none of
  them, and Rust does not let a binding have those names.)
* Cargo, the linker and the loader. `build_cdylib` is one step that succeeds or fails.
* Overlapping builds of one module: `Publish` can run them (`Overlap`), and they can mix two
  builds' files. No document says what they should do, so no run asks.
* The lexer: a loop over characters without state beyond its position, well covered by tests. Its
  classes of token, and that it may stop early, are in `Parser`.
* The interface manifest, the command line, the probe and the hosts: text, dispatch and a loader.

## Plan

In order of what the program would lose most by getting wrong.

1. Done: `Publish`, `StringOut`, `HelperChecks`, `Recursion`, `FunctionBody`, `WideArith`, `Names`,
   `Expressions`, `Parser` and the theorems above.
2. `Deploy`: `iface.rs` and the host's load gate composed with `Publish`: a host that loads a
   module with a header of an earlier build is rejected unless every call it makes means the same.
   Abstract: a host never calls through a signature the module does not have.
3. `Digits`: `ilen`/`wint` and `fixlen`/`wfix` (`codegen.rs` 1899-1958, 2419-2513) agree on every
   value of a bounded width, the smallest included; joins `StringOut`, which takes them as given.
4. `FindArtifact`: `single_artifact` (`codegen.rs` 53-97) over directory trees of depth up to five:
   one file at the least depth, or an error, never a guess.
5. Proofs: `Deploy`.
