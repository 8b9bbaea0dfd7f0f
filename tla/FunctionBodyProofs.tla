------------------------- MODULE FunctionBodyProofs -------------------------
(***************************************************************************)
(* Every accepted body builds, and every call of it keeps the promise of     *)
(* CallContract, for any set of functions, of any length and nesting, any     *)
(* capacities and any lengths.                                              *)
(***************************************************************************)
EXTENDS FunctionBody, WellFoundedInduction, TLAPS

-----------------------------------------------------------------------------
(* Natural numbers, with a set in place of a predicate, and that a definition  *)
(* by recursion on a size is the function it says.                            *)

LEMMA LeastNumber ==
  ASSUME NEW T \in SUBSET Nat, T # {}
  PROVE  \E x \in T : \A y \in T : x <= y
<1> DEFINE R == OpToRel(<, Nat)
<1>1. IsWellFoundedOn(R, Nat)
  BY NatLessThanWellFounded
<1>2. \A x, y \in Nat : <<x, y>> \in R <=> x < y
  BY DEF OpToRel
<1> HIDE DEF R
<1>3. PICK x \in T : \A y \in T : ~(<<y, x>> \in R)
  BY <1>1, WFMin
<1>4. ASSUME NEW y \in T
      PROVE  x <= y
  <2>1. x \in Nat /\ y \in Nat
    OBVIOUS
  <2>2. ~(y < x)
    BY <1>2, <1>3, <2>1
  <2> QED
    BY <2>1, <2>2
<1> QED
  BY <1>4

LEMMA Induction ==
  ASSUME NEW P \in SUBSET Nat, 0 \in P, \A j \in P : j + 1 \in P
  PROVE  \A j \in Nat : j \in P
<1> SUFFICES ASSUME NEW j \in Nat, j \notin P
             PROVE  FALSE
  OBVIOUS
<1> DEFINE T == Nat \ P
<1>1. T \in SUBSET Nat /\ T # {}
  OBVIOUS
<1>2. PICK x \in T : \A y \in T : x <= y
  BY <1>1, LeastNumber
<1>3. x \in Nat /\ x # 0 /\ x \notin P
  OBVIOUS
<1>4. x - 1 \in Nat /\ x - 1 + 1 = x
  BY <1>3
<1>5. x - 1 \notin T
  BY <1>2, <1>4
<1> QED
  BY <1>3, <1>4, <1>5

\* f is what the step says wherever the measure is below h.
SolvesBelow(f, h, D, size, step) == \A d \in D : size[d] < h => f[d] = step[d][f]

\* The step at d looks at the function where the measure is smaller only.
LooksBelow(D, V, size, step) ==
  \A d \in D, f, g \in [D -> V] :
    (\A c \in D : size[c] < size[d] => f[c] = g[c]) => step[d][f] = step[d][g]

\* A definition by recursion on the measure.
ByRecursion(D, V, size, step) ==
  /\ size \in [D -> Nat] /\ step \in [D -> [[D -> V] -> V]]
  /\ LooksBelow(D, V, size, step)

LEMMA SolutionsAgree ==
  ASSUME NEW D, NEW V, NEW size, NEW step, ByRecursion(D, V, size, step),
         NEW h \in Nat, NEW f \in [D -> V], NEW g \in [D -> V],
         SolvesBelow(f, h, D, size, step), SolvesBelow(g, h, D, size, step)
  PROVE  \A d \in D : size[d] < h => f[d] = g[d]
<1> USE DEF ByRecursion
<1> DEFINE P == {j \in Nat : \A d \in D : size[d] < h /\ size[d] < j => f[d] = g[d]}
<1>1. 0 \in P
  OBVIOUS
<1>2. ASSUME NEW j \in P PROVE j + 1 \in P
  <2> SUFFICES ASSUME NEW d \in D, size[d] < h, size[d] < j + 1
               PROVE  f[d] = g[d]
    OBVIOUS
  <2>1. \A c \in D : size[c] < size[d] => f[c] = g[c]
    OBVIOUS
  <2>2. step[d][f] = step[d][g]
    BY <2>1 DEF LooksBelow
  <2> QED
    BY <2>2 DEF SolvesBelow
<1> HIDE DEF P
<1>3. P \in SUBSET Nat
  BY DEF P
<1>4. \A j \in Nat : j \in P
  BY <1>1, <1>2, <1>3, Induction
<1> QED
  BY <1>4 DEF P

\* A recursive definition whose step looks only below has a solution.
LEMMA SolutionExists ==
  ASSUME NEW D, NEW V, V # {}, NEW size, NEW step, ByRecursion(D, V, size, step)
  PROVE  \E f \in [D -> V] : \A d \in D : f[d] = step[d][f]
<1>0. \A h \in Nat, f, g \in [D -> V] :
        SolvesBelow(f, h, D, size, step) /\ SolvesBelow(g, h, D, size, step) =>
          \A d \in D : size[d] < h => f[d] = g[d]
  <2> SUFFICES ASSUME NEW h \in Nat, NEW f \in [D -> V], NEW g \in [D -> V],
                      SolvesBelow(f, h, D, size, step), SolvesBelow(g, h, D, size, step)
               PROVE  \A d \in D : size[d] < h => f[d] = g[d]
    OBVIOUS
  <2> QED
    BY SolutionsAgree
<1> USE DEF ByRecursion
<1> DEFINE P == {h \in Nat : \E f \in [D -> V] : SolvesBelow(f, h, D, size, step)}
<1>1. 0 \in P
  <2>1. PICK v \in V : TRUE
    OBVIOUS
  <2>2. [d \in D |-> v] \in [D -> V] /\ SolvesBelow([d \in D |-> v], 0, D, size, step)
    BY <2>1 DEF SolvesBelow
  <2> QED
    BY <2>2
<1>2. ASSUME NEW h \in P PROVE h + 1 \in P
  <2>1. PICK f \in [D -> V] : SolvesBelow(f, h, D, size, step)
    OBVIOUS
  <2> DEFINE g == [d \in D |-> step[d][f]]
  <2>2. g \in [D -> V]
    OBVIOUS
  <2>3. ASSUME NEW d \in D, size[d] < h + 1 PROVE g[d] = step[d][g]
    <3>1. \A c \in D : size[c] < size[d] => f[c] = g[c]
      BY <2>1, <2>3 DEF SolvesBelow
    <3> HIDE DEF g
    <3>2. step[d][f] = step[d][g]
      BY <2>2, <3>1 DEF LooksBelow
    <3> QED
      BY <3>2 DEF g
  <2>4. SolvesBelow(g, h + 1, D, size, step)
    BY <2>3 DEF SolvesBelow
  <2> HIDE DEF g
  <2> QED
    BY <2>2, <2>4
<1>3. \A h \in Nat : h \in P
  <2>1. P \in SUBSET Nat
    OBVIOUS
  <2> HIDE DEF P
  <2> QED
    BY <1>1, <1>2, <2>1, Induction
<1> DEFINE Upto == [h \in Nat |-> CHOOSE f \in [D -> V] : SolvesBelow(f, h, D, size, step)]
<1>4. \A h \in Nat : Upto[h] \in [D -> V] /\ SolvesBelow(Upto[h], h, D, size, step)
  BY <1>3
<1> HIDE DEF Upto, P
<1> DEFINE F == [d \in D |-> Upto[size[d] + 1][d]]
<1>5. F \in [D -> V]
  BY <1>4
<1>6. ASSUME NEW d \in D PROVE F[d] = step[d][F]
  <2> DEFINE u == Upto[size[d] + 1]
  <2>1. u \in [D -> V] /\ SolvesBelow(u, size[d] + 1, D, size, step) /\ size[d] \in Nat
    BY <1>4
  <2>2. ASSUME NEW c \in D, size[c] < size[d] PROVE F[c] = u[c]
    <3> DEFINE w == Upto[size[c] + 1]
    <3>1. size[c] \in Nat /\ w \in [D -> V] /\ SolvesBelow(w, size[c] + 1, D, size, step)
      BY <1>4
    <3>2. SolvesBelow(u, size[c] + 1, D, size, step)
      BY <2>1, <2>2, <3>1 DEF SolvesBelow
    <3>3. F[c] = w[c]
      OBVIOUS
    <3> HIDE DEF w, u, F
    <3>4. size[c] + 1 \in Nat /\ size[c] < size[c] + 1
      BY <3>1
    <3>5. \A e \in D : size[e] < size[c] + 1 => w[e] = u[e]
      BY <1>0, <2>1, <3>1, <3>2, <3>4
    <3>6. w[c] = u[c]
      BY <3>4, <3>5
    <3> QED
      BY <3>3, <3>6
  <2>3. F[d] = u[d]
    OBVIOUS
  <2> HIDE DEF u, F
  <2>4. step[d][u] = step[d][F]
    BY <1>5, <2>1, <2>2 DEF LooksBelow
  <2>5. u[d] = step[d][u]
    BY <2>1 DEF SolvesBelow
  <2> QED
    BY <2>3, <2>4, <2>5
<1> HIDE DEF F
<1> QED
  BY <1>5, <1>6

-----------------------------------------------------------------------------
(* The blocks of a body that runs.                                            *)

\* What an array body may not hold once its length is out.
Unclean == {"result", "fail"} \union Trying

\* A block of f keeps what was accepted of the whole body, O being the outs
\* written by now.
Kept(b, f, O) ==
  /\ OpsIn(b) \subseteq OpsIn(f.body)
  /\ OutsIn(b) \subseteq f.outs
  /\ \A assigned \in AssignedAtReturns[b] : f.outs \subseteq O \union assigned

\* Before `result <n>` of an array body: it is still to come at the top level,
\* with no element written before it.
ToCome(s) ==
  /\ check_result_placement(s[1])
  /\ \A m \in 2..Len(s) : OpsIn(s[m]) \intersect {"result", "set"} = {}

\* The blocks in progress of a body of f.
Blockwise(s, f, O, started) ==
  /\ s \in Seq(Bodies) /\ s # <<>>
  /\ \A m \in DOMAIN s : Kept(s[m], f, O)
  /\ f.ret # "array" => block_always_returns(s[1])
  /\ ~started /\ f.ret = "array" => ToCome(s)
  /\ started => \A m \in DOMAIN s : OpsIn(s[m]) \intersect Unclean = {}

\* The host's memory before `result <n>`, and after it.
BeforeLength == needed = 0 /\ \A x \in Cells : buf[x] = "host"
AfterLength ==
  /\ fn.ret = "array"
  /\ n = NotNegative(length) /\ n <= NotNegative(cap) /\ needed = n
  /\ \A x \in Cells : buf[x] = "host" <=> x >= n

InProgress ==
  /\ Blockwise(rest, fn, outs, n # Undeclared)
  /\ value = "host"
  /\ n = Undeclared => BeforeLength
  /\ n # Undeclared => AfterLength

IInv ==
  /\ TypeOK
  /\ fn \in Functions /\ Accepted(fn) /\ cap \in Int /\ length \in Int
  /\ phase \notin {"fell", "unbound"}
  /\ phase = "panicked" => fn.ret = "array" /\ "return" \in OpsIn(fn.body)
  /\ phase \in {"ready", "running", "returned"} /\ fn.ret = "array" => "return" \notin OpsIn(fn.body)
  /\ phase = "running" => InProgress

-----------------------------------------------------------------------------
(* Bodies: what one step into a block, or past a statement, leaves of it.    *)

Stmts == [op : Ops, to : Outs \union {"none"}, body : Bodies]

LEMMA BodyTyped ==
  ASSUME NEW body \in Bodies
  PROVE  /\ body \in Seq(Stmts)
         /\ \A j \in DOMAIN body : body[j] \in Stmts /\ body[j].body \in Bodies
         /\ body # <<>> => /\ Tail(body) \in Bodies
                           /\ Head(body) = body[1] /\ 1 \in DOMAIN body
                           /\ Head(body).body \in Bodies
<1>1. body \in Seq(Stmts)
  BY ConstantsAssumption DEF Stmts
<1>2. \A j \in DOMAIN body : body[j] \in Stmts
  BY <1>1
<1>25. \A s \in Stmts : s.body \in Bodies
  BY DEF Stmts
<1>3. ASSUME body # <<>> PROVE 1 \in DOMAIN body /\ Head(body) = body[1]
  BY <1>1, <1>3
<1>4. ASSUME body # <<>> PROVE Tail(body) \in Bodies
  BY <1>4, ConstantsAssumption
<1> QED
  BY <1>1, <1>2, <1>25, <1>3, <1>4

\* Past the first statement of a body.
LEMMA TailOf ==
  ASSUME NEW body \in Bodies, body # <<>>
  PROVE  /\ Len(body) \in Nat /\ Len(body) >= 1
         /\ DOMAIN body = 1..Len(body)
         /\ DOMAIN Tail(body) = 1..(Len(body) - 1)
         /\ Len(Tail(body)) = Len(body) - 1
         /\ \A j \in 1..(Len(body) - 1) : Tail(body)[j] = body[j + 1]
BY BodyTyped

LEMMA BlocksUnfold ==
  ASSUME NEW body \in Bodies
  PROVE  Blocks[body] = {body} \union UNION {Blocks[body[j].body] : j \in DOMAIN body}
<1> DEFINE V == SUBSET Bodies
           B(f) == [b \in Bodies |-> {b} \union UNION {f[b[j].body] : j \in DOMAIN b}]
           step == [b \in Bodies |-> [f \in [Bodies -> V] |-> B(f)[b]]]
<1>1. \A b \in Bodies : \A j \in DOMAIN b : b[j].body \in Bodies /\ Size[b[j].body] < Size[b]
  BY BodyTyped, ConstantsAssumption
<1>2. V # {} /\ Size \in [Bodies -> Nat]
  BY ConstantsAssumption
<1>3. \A f \in [Bodies -> V], b \in Bodies : B(f)[b] \in V
  BY <1>1
<1>4. step \in [Bodies -> [[Bodies -> V] -> V]]
  BY <1>3
<1>5. LooksBelow(Bodies, V, Size, step)
  <2> SUFFICES ASSUME NEW b \in Bodies, NEW f \in [Bodies -> V], NEW g \in [Bodies -> V],
                      \A c \in Bodies : Size[c] < Size[b] => f[c] = g[c]
               PROVE  step[b][f] = step[b][g]
    BY DEF LooksBelow
  <2>1. \A j \in DOMAIN b : f[b[j].body] = g[b[j].body]
    BY <1>1
  <2>2. {f[b[j].body] : j \in DOMAIN b} = {g[b[j].body] : j \in DOMAIN b}
    BY <2>1
  <2> QED
    BY <2>2
<1>6. ByRecursion(Bodies, V, Size, step)
  BY <1>2, <1>4, <1>5 DEF ByRecursion
<1> HIDE DEF step, V, B
<1>7. PICK f \in [Bodies -> V] : \A b \in Bodies : f[b] = step[b][f]
  BY <1>2, <1>6, SolutionExists
<1>8. f = B(f)
  BY <1>7 DEF step, B
<1>9. Blocks = B(Blocks)
  BY <1>8 DEF Blocks, B
<1> QED
  BY <1>9 DEF B

LEMMA OpsUnfold ==
  ASSUME NEW body \in Bodies, NEW o
  PROVE  o \in OpsIn(body) <=> \E j \in DOMAIN body : o \in OpsOf(body[j])
<1>1. o \in OpsIn(body) <=> \E b \in Blocks[body] : \E j \in DOMAIN b : o = b[j].op
  BY DEF OpsIn
<1>2. \A j \in DOMAIN body :
        o \in OpsOf(body[j]) <=>
          o = body[j].op \/ \E b \in Blocks[body[j].body] : \E k \in DOMAIN b : o = b[k].op
  BY DEF OpsOf, OpsIn
<1>3. \A b : b \in Blocks[body] <=> b = body \/ \E j \in DOMAIN body : b \in Blocks[body[j].body]
  BY BlocksUnfold
<1> QED
  BY <1>1, <1>2, <1>3

LEMMA OutsUnfold ==
  ASSUME NEW body \in Bodies, NEW o
  PROVE  o \in OutsIn(body) <=>
           \E j \in DOMAIN body : \/ body[j].op \in {"out", "try out"} /\ o = body[j].to
                                  \/ o \in OutsIn(body[j].body)
<1>1. \A b \in Bodies : o \in OutsIn(b) <=>
        \E c \in Blocks[b] : \E k \in DOMAIN c : c[k].op \in {"out", "try out"} /\ o = c[k].to
  <2> DEFINE Of(c) == {c[j].to : j \in {k \in DOMAIN c : c[k].op \in {"out", "try out"}}}
  <2> TAKE b \in Bodies
  <2>1. o \in OutsIn(b) <=> \E c \in Blocks[b] : o \in Of(c)
    BY DEF OutsIn
  <2>2. \A c : o \in Of(c) <=> \E k \in DOMAIN c : c[k].op \in {"out", "try out"} /\ o = c[k].to
    OBVIOUS
  <2> QED
    BY <2>1, <2>2
<1>2. \A b : b \in Blocks[body] <=> b = body \/ \E j \in DOMAIN body : b \in Blocks[body[j].body]
  BY BlocksUnfold
<1>3. \A j \in DOMAIN body : body[j].body \in Bodies
  BY BodyTyped
<1>4. body \in Bodies
  OBVIOUS
<1> DEFINE In(c) == \E k \in DOMAIN c : c[k].op \in {"out", "try out"} /\ o = c[k].to
<1>5. \A b \in Bodies : o \in OutsIn(b) <=> \E c \in Blocks[b] : In(c)
  BY <1>1
<1>6. In(body) <=> \E j \in DOMAIN body : body[j].op \in {"out", "try out"} /\ o = body[j].to
  OBVIOUS
<1> HIDE DEF In
<1>7. o \in OutsIn(body) <=>
        In(body) \/ \E j \in DOMAIN body : \E c \in Blocks[body[j].body] : In(c)
  BY <1>2, <1>4, <1>5
<1>8. \A j \in DOMAIN body : o \in OutsIn(body[j].body) <=> \E c \in Blocks[body[j].body] : In(c)
  BY <1>3, <1>5
<1> QED
  BY <1>6, <1>7, <1>8

LEMMA OpsParts ==
  ASSUME NEW body \in Bodies, body # <<>>
  PROVE  /\ Head(body).op \in OpsIn(body)
         /\ OpsIn(Head(body).body) \subseteq OpsIn(body)
         /\ OpsIn(Tail(body)) \subseteq OpsIn(body)
<1>1. Head(body) = body[1] /\ 1 \in DOMAIN body /\ Tail(body) \in Bodies
  BY BodyTyped
<1>2. Head(body).op \in OpsIn(body)
  BY <1>1, OpsUnfold DEF OpsOf
<1>3. ASSUME NEW o \in OpsIn(Head(body).body) PROVE o \in OpsIn(body)
  BY <1>1, OpsUnfold DEF OpsOf
<1>4. ASSUME NEW o \in OpsIn(Tail(body)) PROVE o \in OpsIn(body)
  <2>1. PICK j \in DOMAIN Tail(body) : o \in OpsOf(Tail(body)[j])
    BY <1>1, OpsUnfold
  <2>2. j + 1 \in DOMAIN body /\ Tail(body)[j] = body[j + 1]
    BY TailOf
  <2> QED
    BY <2>1, <2>2, OpsUnfold
<1> QED
  BY <1>2, <1>3, <1>4

LEMMA OutsParts ==
  ASSUME NEW body \in Bodies, body # <<>>
  PROVE  /\ Head(body).op \in {"out", "try out"} => Head(body).to \in OutsIn(body)
         /\ OutsIn(Head(body).body) \subseteq OutsIn(body)
         /\ OutsIn(Tail(body)) \subseteq OutsIn(body)
<1>1. Head(body) = body[1] /\ 1 \in DOMAIN body /\ Tail(body) \in Bodies
  BY BodyTyped
<1>2. ASSUME Head(body).op \in {"out", "try out"} PROVE Head(body).to \in OutsIn(body)
  BY <1>1, <1>2, OutsUnfold
<1>3. ASSUME NEW o \in OutsIn(Head(body).body) PROVE o \in OutsIn(body)
  BY <1>1, OutsUnfold
<1>4. ASSUME NEW o \in OutsIn(Tail(body)) PROVE o \in OutsIn(body)
  <2>1. PICK j \in DOMAIN Tail(body) : \/ Tail(body)[j].op \in {"out", "try out"} /\ o = Tail(body)[j].to
                                       \/ o \in OutsIn(Tail(body)[j].body)
    BY <1>1, OutsUnfold
  <2>2. j + 1 \in DOMAIN body /\ Tail(body)[j] = body[j + 1]
    BY TailOf
  <2> QED
    BY <2>1, <2>2, OutsUnfold
<1> QED
  BY <1>2, <1>3, <1>4

LEMMA ReturnsUnfold ==
  ASSUME NEW body \in Bodies
  PROVE  AssignedAtReturns[body] =
           IF body = <<>> THEN {}
           ELSE (IF Head(body).op \in {"return", "return try"} THEN {{}} ELSE {})
                \union (IF Head(body).op \in Blocky
                        THEN AssignedAtReturns[Head(body).body] ELSE {})
                \union {Assigns(Head(body)) \union more : more \in AssignedAtReturns[Tail(body)]}
<1> DEFINE V == SUBSET (SUBSET (Outs \union {"none"}))
           At1(b, f) == IF Head(b).op \in Blocky THEN f[Head(b).body] ELSE {}
           At2(b, f) == {Assigns(Head(b)) \union more : more \in f[Tail(b)]}
           At0(b) == IF Head(b).op \in {"return", "return try"} THEN {{}} ELSE {}
           R(f) == [b \in Bodies |-> IF b = <<>> THEN {} ELSE At0(b) \union At1(b, f) \union At2(b, f)]
           step == [b \in Bodies |-> [f \in [Bodies -> V] |-> R(f)[b]]]
<1>1. \A b \in Bodies \ {<<>>} :
        /\ Head(b).body \in Bodies /\ Size[Head(b).body] < Size[b]
        /\ Tail(b) \in Bodies /\ Size[Tail(b)] < Size[b]
        /\ Assigns(Head(b)) \subseteq Outs \union {"none"}
  <2> SUFFICES ASSUME NEW b \in Bodies, b # <<>>
               PROVE  /\ Head(b).body \in Bodies /\ Size[Head(b).body] < Size[b]
                      /\ Tail(b) \in Bodies /\ Size[Tail(b)] < Size[b]
                      /\ Assigns(Head(b)) \subseteq Outs \union {"none"}
    OBVIOUS
  <2>1. Head(b) = b[1] /\ 1 \in DOMAIN b /\ b[1] \in Stmts /\ Tail(b) \in Bodies /\ Head(b).body \in Bodies
    BY BodyTyped
  <2>2. Assigns(Head(b)) \subseteq Outs \union {"none"}
    BY <2>1 DEF Assigns, Stmts
  <2> QED
    BY <2>1, <2>2, ConstantsAssumption
<1>2. V # {} /\ Size \in [Bodies -> Nat]
  BY ConstantsAssumption
<1>3. ASSUME NEW f \in [Bodies -> V], NEW b \in Bodies PROVE R(f)[b] \in V
  <2>1. CASE b = <<>>
    BY <2>1
  <2>2. CASE b # <<>>
    <3>1. At0(b) \in V
      OBVIOUS
    <3>2. At1(b, f) \in V
      BY <1>1, <2>2
    <3>3. f[Tail(b)] \in V
      BY <1>1, <2>2
    <3>4. At2(b, f) \in V
      BY <1>1, <2>2, <3>3
    <3> HIDE DEF At0, At1, At2
    <3> QED
      BY <2>2, <3>1, <3>2, <3>4
  <2> QED
    BY <2>1, <2>2
<1>4. step \in [Bodies -> [[Bodies -> V] -> V]]
  <2> HIDE DEF R
  <2> QED
    BY <1>3
<1>5. LooksBelow(Bodies, V, Size, step)
  <2> SUFFICES ASSUME NEW b \in Bodies, NEW f \in [Bodies -> V], NEW g \in [Bodies -> V],
                      \A c \in Bodies : Size[c] < Size[b] => f[c] = g[c]
               PROVE  step[b][f] = step[b][g]
    BY DEF LooksBelow
  <2>1. b # <<>> => At1(b, f) = At1(b, g) /\ f[Tail(b)] = g[Tail(b)]
    BY <1>1
  <2>2. b # <<>> => At2(b, f) = At2(b, g)
    BY <2>1
  <2> HIDE DEF At1, At2, At0
  <2> QED
    BY <2>1, <2>2
<1>6. ByRecursion(Bodies, V, Size, step)
  BY <1>2, <1>4, <1>5 DEF ByRecursion
<1> HIDE DEF step
<1>7. PICK f \in [Bodies -> V] : \A b \in Bodies : f[b] = step[b][f]
  BY <1>2, <1>6, SolutionExists
<1>8. f = R(f)
  BY <1>7 DEF step
<1>9. AssignedAtReturns = R(AssignedAtReturns)
  BY <1>8 DEF AssignedAtReturns
<1> QED
  BY <1>9

\* Of the returns ahead, one statement on.
LEMMA ReturnsParts ==
  ASSUME NEW body \in Bodies, body # <<>>
  PROVE  /\ Head(body).op \in {"return", "return try"} => {} \in AssignedAtReturns[body]
         /\ Head(body).op \in Blocky =>
              AssignedAtReturns[Head(body).body] \subseteq AssignedAtReturns[body]
         /\ \A more \in AssignedAtReturns[Tail(body)] :
              Assigns(Head(body)) \union more \in AssignedAtReturns[body]
<1>1. AssignedAtReturns[body] =
       (IF Head(body).op \in {"return", "return try"} THEN {{}} ELSE {})
       \union (IF Head(body).op \in Blocky THEN AssignedAtReturns[Head(body).body] ELSE {})
       \union {Assigns(Head(body)) \union more : more \in AssignedAtReturns[Tail(body)]}
  BY ReturnsUnfold
<1> QED
  BY <1>1

\* Before its `result`, a body loses neither it nor what is asked of it.
LEMMA PlacementParts ==
  ASSUME NEW body \in Bodies, check_result_placement(body)
  PROVE  /\ body # <<>>
         /\ Head(body).op # "result" =>
              /\ check_result_placement(Tail(body))
              /\ Head(body).op # "set"
              /\ OpsIn(Head(body).body) \intersect {"result", "set"} = {}
         /\ Head(body).op = "result" =>
              OpsIn(Tail(body)) \intersect ({"result", "fail"} \union Trying) = {}
<1>1. PICK at \in DOMAIN body :
        /\ {j \in DOMAIN body : "result" \in OpsOf(body[j])} = {at}
        /\ body[at].op = "result"
        /\ \A j \in 1..(at - 1) : "set" \notin OpsOf(body[j])
        /\ \A j \in (at + 1)..Len(body) : OpsOf(body[j]) \intersect ({"fail"} \union Trying) = {}
  BY DEF check_result_placement
<1>2. \A j \in DOMAIN body : "result" \in OpsOf(body[j]) <=> j = at
  BY <1>1
<1>3. body # <<>>
  BY <1>1
<1>4. /\ Head(body) = body[1] /\ 1 \in DOMAIN body /\ Tail(body) \in Bodies
      /\ Len(body) \in Nat /\ DOMAIN body = 1..Len(body)
      /\ DOMAIN Tail(body) = 1..(Len(body) - 1) /\ Len(Tail(body)) = Len(body) - 1
      /\ \A j \in 1..(Len(body) - 1) : Tail(body)[j] = body[j + 1]
  BY <1>3, BodyTyped, TailOf
<1>5. ASSUME Head(body).op # "result"
      PROVE  /\ check_result_placement(Tail(body))
             /\ Head(body).op # "set"
             /\ OpsIn(Head(body).body) \intersect {"result", "set"} = {}
  <2>1. at # 1 /\ at \in 2..Len(body) /\ at - 1 \in DOMAIN Tail(body) /\ at \in Nat
    BY <1>1, <1>4, <1>5
  <2>2. "result" \notin OpsOf(body[1]) /\ "set" \notin OpsOf(body[1])
    BY <1>1, <1>2, <1>4, <2>1
  <2>3. Head(body).op # "set" /\ OpsIn(Head(body).body) \intersect {"result", "set"} = {}
    BY <2>2, <1>4 DEF OpsOf
  <2>4. \A j \in DOMAIN Tail(body) : "result" \in OpsOf(Tail(body)[j]) <=> j = at - 1
    BY <1>2, <1>4, <2>1
  <2>5. {j \in DOMAIN Tail(body) : "result" \in OpsOf(Tail(body)[j])} = {at - 1}
    BY <2>1, <2>4
  <2>6. Tail(body)[at - 1].op = "result"
    BY <1>1, <1>4, <2>1
  <2>7. \A j \in 1..(at - 1 - 1) : "set" \notin OpsOf(Tail(body)[j])
    <3> TAKE j \in 1..(at - 1 - 1)
    <3>1. j + 1 \in 1..(at - 1) /\ j \in 1..(Len(body) - 1)
      BY <2>1, <1>4
    <3> QED
      BY <3>1, <1>1, <1>4
  <2>8. \A j \in (at - 1 + 1)..Len(Tail(body)) :
          OpsOf(Tail(body)[j]) \intersect ({"fail"} \union Trying) = {}
    <3> TAKE j \in (at - 1 + 1)..Len(Tail(body))
    <3>1. j + 1 \in (at + 1)..Len(body) /\ j \in 1..(Len(body) - 1)
      BY <2>1, <1>4
    <3> QED
      BY <3>1, <1>1, <1>4
  <2>9. check_result_placement(Tail(body))
    BY <2>1, <2>5, <2>6, <2>7, <2>8 DEF check_result_placement
  <2> QED
    BY <2>3, <2>9
<1>6. ASSUME Head(body).op = "result"
      PROVE  OpsIn(Tail(body)) \intersect ({"result", "fail"} \union Trying) = {}
  <2>1. at = 1
    BY <1>2, <1>4, <1>6 DEF OpsOf
  <2>2. ASSUME NEW o \in OpsIn(Tail(body)) PROVE o \notin {"result", "fail"} \union Trying
    <3>1. PICK j \in DOMAIN Tail(body) : o \in OpsOf(Tail(body)[j])
      BY <1>4, OpsUnfold
    <3>2. j + 1 \in DOMAIN body /\ j + 1 \in 2..Len(body) /\ Tail(body)[j] = body[j + 1] /\ j + 1 # at
      BY <1>4, <2>1, <3>1
    <3>3. o # "result"
      BY <1>2, <3>1, <3>2
    <3>4. o \notin {"fail"} \union Trying
      BY <1>1, <2>1, <3>1, <3>2
    <3> QED
      BY <3>3, <3>4
  <2> QED
    BY <2>2
<1> QED
  BY <1>3, <1>5, <1>6

\* A body that ends in a terminator still does, short of it.
LEMMA TerminatorStays ==
  ASSUME NEW body \in Bodies, block_always_returns(body), ~is_terminator(Head(body))
  PROVE  body # <<>> /\ block_always_returns(Tail(body))
<1>1. body # <<>> /\ is_terminator(body[Len(body)])
  BY DEF block_always_returns
<1>2. /\ Head(body) = body[1] /\ Len(body) \in Nat /\ Len(body) >= 1
      /\ Len(Tail(body)) = Len(body) - 1 /\ Tail(body) \in Seq(Stmts)
      /\ \A j \in 1..(Len(body) - 1) : Tail(body)[j] = body[j + 1]
  BY <1>1, BodyTyped, TailOf
<1>3. Len(body) # 1
  BY <1>1, <1>2
<1>4. Len(body) - 1 \in 1..(Len(body) - 1) /\ Tail(body)[Len(body) - 1] = body[Len(body)]
  BY <1>2, <1>3
<1>5. Tail(body) # <<>>
  <2>1. Len(Tail(body)) # 0
    BY <1>2, <1>3
  <2>2. \A s \in Seq(Stmts) : Len(s) # 0 => s # <<>>
    OBVIOUS
  <2> QED
    BY <1>2, <2>1, <2>2
<1> QED
  BY <1>1, <1>2, <1>4, <1>5 DEF block_always_returns

-----------------------------------------------------------------------------
(* The blocks in progress, one step on.                                     *)

LEMMA BlocksTyped ==
  ASSUME NEW s \in Seq(Bodies), s # <<>>
  PROVE  /\ Len(s) \in Nat /\ Len(s) >= 1 /\ DOMAIN s = 1..Len(s)
         /\ Len(s) \in DOMAIN s /\ 1 \in DOMAIN s
         /\ \A m \in DOMAIN s : s[m] \in Bodies
OBVIOUS

LEMMA PassedTyped ==
  ASSUME NEW s \in Seq(Bodies), s # <<>>, NEW b \in Bodies, NEW t, t = [s EXCEPT ![Len(s)] = b]
  PROVE  /\ t \in Seq(Bodies) /\ t # <<>> /\ Len(t) = Len(s) /\ DOMAIN t = DOMAIN s
         /\ t[Len(s)] = b
         /\ \A m \in DOMAIN s : m # Len(s) => t[m] = s[m]
BY BlocksTyped

LEMMA AppendTyped ==
  ASSUME NEW s \in Seq(Bodies), s # <<>>, NEW b \in Bodies, NEW t, t = Append(s, b)
  PROVE  /\ t \in Seq(Bodies) /\ t # <<>> /\ Len(t) = Len(s) + 1 /\ DOMAIN t = 1..(Len(s) + 1)
         /\ t[Len(s) + 1] = b
         /\ \A m \in DOMAIN s : t[m] = s[m]
BY BlocksTyped

LEMMA LeftTyped ==
  ASSUME NEW s \in Seq(Bodies), Len(s) > 1, NEW t, t = SubSeq(s, 1, Len(s) - 1)
  PROVE  /\ t \in Seq(Bodies) /\ t # <<>> /\ Len(t) = Len(s) - 1 /\ DOMAIN t = 1..(Len(s) - 1)
         /\ \A m \in 1..(Len(s) - 1) : t[m] = s[m]
<1>1. s # <<>> /\ Len(s) \in Nat /\ Len(s) - 1 \in Nat /\ Len(s) - 1 <= Len(s)
  OBVIOUS
<1>2. t \in Seq(Bodies) /\ Len(t) = Len(s) - 1 /\ \A m \in 1..(Len(s) - 1) : t[m] = s[m]
  BY <1>1
<1>3. t # <<>>
  <2>1. Len(t) # 0
    BY <1>1, <1>2
  <2>2. \A u \in Seq(Bodies) : Len(u) # 0 => u # <<>>
    OBVIOUS
  <2> QED
    BY <1>2, <2>1, <2>2
<1>4. DOMAIN t = 1..(Len(s) - 1)
  BY <1>2
<1> QED
  BY <1>2, <1>3, <1>4

\* More outs written lose nothing.
LEMMA KeptMore ==
  ASSUME NEW b, NEW f, NEW O, NEW more, Kept(b, f, O)
  PROVE  Kept(b, f, O \union more)
BY DEF Kept

LEMMA KeptParts ==
  ASSUME NEW b \in Bodies, b # <<>>, NEW f, NEW O, Kept(b, f, O)
  PROVE  /\ Kept(Tail(b), f, O \union Assigns(Head(b)))
         /\ Head(b).op \in Blocky => Kept(Head(b).body, f, O)
         /\ Head(b).op \in OpsIn(f.body)
         /\ Head(b).op \in {"out", "try out"} => Head(b).to \in f.outs
         /\ Head(b).op \in {"return", "return try"} => f.outs \subseteq O
<1>1. \A assigned \in AssignedAtReturns[b] : f.outs \subseteq O \union assigned
  BY DEF Kept
<1>2. OpsIn(b) \subseteq OpsIn(f.body) /\ OutsIn(b) \subseteq f.outs
  BY DEF Kept
<1>3. ASSUME NEW more \in AssignedAtReturns[Tail(b)]
      PROVE  f.outs \subseteq (O \union Assigns(Head(b))) \union more
  <2>1. Assigns(Head(b)) \union more \in AssignedAtReturns[b]
    BY ReturnsParts
  <2>2. f.outs \subseteq O \union (Assigns(Head(b)) \union more)
    BY <1>1, <2>1
  <2> QED
    BY <2>2
<1>4. Kept(Tail(b), f, O \union Assigns(Head(b)))
  BY <1>2, <1>3, OpsParts, OutsParts DEF Kept
<1>5. Head(b).op \in Blocky => Kept(Head(b).body, f, O)
  BY <1>1, <1>2, OpsParts, OutsParts, ReturnsParts DEF Kept
<1>6. Head(b).op \in OpsIn(f.body) /\ (Head(b).op \in {"out", "try out"} => Head(b).to \in f.outs)
  BY <1>2, OpsParts, OutsParts
<1>7. ASSUME Head(b).op \in {"return", "return try"} PROVE f.outs \subseteq O
  <2>1. {} \in AssignedAtReturns[b]
    BY <1>7, ReturnsParts
  <2>2. f.outs \subseteq O \union {}
    BY <1>1, <2>1
  <2> QED
    BY <2>2
<1> QED
  BY <1>4, <1>5, <1>6, <1>7

LEMMA Started ==
  ASSUME NEW f \in Functions, Accepted(f)
  PROVE  Blockwise(<<f.body>>, f, {}, FALSE)
<1>1. f.body \in Bodies
  BY ConstantsAssumption
<1>2. <<f.body>> \in Seq(Bodies) /\ <<f.body>> # <<>> /\ Len(<<f.body>>) = 1
      /\ DOMAIN <<f.body>> = {1} /\ <<f.body>>[1] = f.body
  BY <1>1
<1>3. Kept(f.body, f, {})
  BY DEF Kept, Accepted, check_outs_assigned
<1>4. f.ret # "array" => block_always_returns(f.body)
  BY DEF Accepted
<1>5. f.ret = "array" => check_result_placement(f.body)
  BY DEF Accepted
<1>6. 2..Len(<<f.body>>) = {}
  BY <1>2
<1> HIDE DEF Kept
<1> QED
  BY <1>2, <1>3, <1>4, <1>5, <1>6 DEF Blockwise, ToCome

\* Past a statement that is not `result`.
LEMMA Advanced ==
  ASSUME NEW s, NEW f, NEW O, NEW started \in BOOLEAN, Blockwise(s, f, O, started),
         NEW top, top = s[Len(s)], top # <<>>,
         ~is_terminator(Head(top)), Head(top).op # "result",
         NEW t, t = [s EXCEPT ![Len(s)] = Tail(top)]
  PROVE  Blockwise(t, f, O \union Assigns(Head(top)), started)
<1>1. s \in Seq(Bodies) /\ s # <<>>
  BY DEF Blockwise
<1>2. /\ Len(s) \in Nat /\ Len(s) >= 1 /\ DOMAIN s = 1..Len(s) /\ Len(s) \in DOMAIN s /\ 1 \in DOMAIN s
      /\ top \in Bodies /\ Tail(top) \in Bodies
  BY <1>1, BlocksTyped, BodyTyped
<1>3. /\ t \in Seq(Bodies) /\ t # <<>> /\ Len(t) = Len(s) /\ DOMAIN t = DOMAIN s
      /\ t[Len(s)] = Tail(top) /\ \A m \in DOMAIN s : m # Len(s) => t[m] = s[m]
  BY <1>1, <1>2, PassedTyped
<1>4. \A m \in DOMAIN s : OpsIn(t[m]) \subseteq OpsIn(s[m])
  BY <1>2, <1>3, OpsParts
<1>5. \A m \in DOMAIN t : Kept(t[m], f, O \union Assigns(Head(top)))
  <2>1. \A m \in DOMAIN s : Kept(s[m], f, O)
    BY DEF Blockwise
  <2>2. Kept(Tail(top), f, O \union Assigns(Head(top)))
    BY <1>2, <2>1, KeptParts
  <2> QED
    BY <1>2, <1>3, <2>1, <2>2, KeptMore
<1>6. f.ret # "array" => block_always_returns(t[1])
  BY <1>2, <1>3, TerminatorStays DEF Blockwise
<1>7. ~started /\ f.ret = "array" => ToCome(t)
  <2> SUFFICES ASSUME ~started, f.ret = "array" PROVE ToCome(t)
    OBVIOUS
  <2>1. check_result_placement(s[1]) /\ \A m \in 2..Len(s) : OpsIn(s[m]) \intersect {"result", "set"} = {}
    BY DEF Blockwise, ToCome
  <2>2. check_result_placement(t[1])
    BY <1>2, <1>3, <2>1, PlacementParts
  <2>3. \A m \in 2..Len(t) : m \in 2..Len(s) /\ m \in DOMAIN s
    BY <1>2, <1>3
  <2>4. \A m \in 2..Len(t) : OpsIn(t[m]) \intersect {"result", "set"} = {}
    BY <1>4, <2>1, <2>3
  <2> QED
    BY <2>2, <2>4 DEF ToCome
<1>8. started => \A m \in DOMAIN t : OpsIn(t[m]) \intersect Unclean = {}
  BY <1>3, <1>4 DEF Blockwise
<1> QED
  BY <1>3, <1>5, <1>6, <1>7, <1>8 DEF Blockwise

\* Past `result <n>`, which can only be in the outermost block.
LEMMA Measured ==
  ASSUME NEW s, NEW f, NEW O, Blockwise(s, f, O, FALSE), f.ret = "array",
         NEW top, top = s[Len(s)], top # <<>>, Head(top).op = "result",
         NEW t, t = [s EXCEPT ![Len(s)] = Tail(top)]
  PROVE  Blockwise(t, f, O, TRUE)
<1>1. s \in Seq(Bodies) /\ s # <<>>
  BY DEF Blockwise
<1>2. /\ Len(s) \in Nat /\ Len(s) >= 1 /\ DOMAIN s = 1..Len(s) /\ Len(s) \in DOMAIN s /\ 1 \in DOMAIN s
      /\ top \in Bodies /\ Tail(top) \in Bodies
  BY <1>1, BlocksTyped, BodyTyped
<1>3. /\ t \in Seq(Bodies) /\ t # <<>> /\ Len(t) = Len(s) /\ DOMAIN t = DOMAIN s
      /\ t[Len(s)] = Tail(top) /\ \A m \in DOMAIN s : m # Len(s) => t[m] = s[m]
  BY <1>1, <1>2, PassedTyped
<1>4. check_result_placement(s[1]) /\ \A m \in 2..Len(s) : OpsIn(s[m]) \intersect {"result", "set"} = {}
  BY DEF Blockwise, ToCome
<1>5. "result" \in OpsIn(top)
  BY <1>2, OpsParts
<1>6. Len(s) = 1
  BY <1>2, <1>4, <1>5
<1>7. DOMAIN t = {1} /\ t[1] = Tail(top)
  BY <1>2, <1>3, <1>6
<1>8. OpsIn(Tail(top)) \intersect Unclean = {}
  BY <1>2, <1>4, <1>6, PlacementParts DEF Unclean
<1>9. Kept(Tail(top), f, O)
  <2>1. Kept(top, f, O)
    BY <1>2 DEF Blockwise
  <2>2. Assigns(Head(top)) = {}
    BY DEF Assigns
  <2>3. O \union {} = O
    OBVIOUS
  <2>4. Kept(Tail(top), f, O \union Assigns(Head(top)))
    BY <1>2, <2>1, KeptParts
  <2> QED
    BY <2>2, <2>3, <2>4
<1> QED
  BY <1>3, <1>7, <1>8, <1>9 DEF Blockwise

\* Into the block of an `if` or a `while`.
LEMMA Entered ==
  ASSUME NEW s, NEW f, NEW O, NEW started \in BOOLEAN, Blockwise(s, f, O, started),
         NEW top, top = s[Len(s)], top # <<>>, Head(top).op \in Blocky,
         NEW u, u \in {s, [s EXCEPT ![Len(s)] = Tail(top)]},
         NEW t, t = Append(u, Head(top).body)
  PROVE  Blockwise(t, f, O, started)
<1> DEFINE block == Head(top).body
<1>1. s \in Seq(Bodies) /\ s # <<>>
  BY DEF Blockwise
<1>2. /\ Len(s) \in Nat /\ Len(s) >= 1 /\ DOMAIN s = 1..Len(s) /\ Len(s) \in DOMAIN s /\ 1 \in DOMAIN s
      /\ top \in Bodies /\ block \in Bodies
  BY <1>1, BlocksTyped, BodyTyped
<1>3. ~is_terminator(Head(top)) /\ Head(top).op # "result" /\ Assigns(Head(top)) = {}
  BY DEF is_terminator, Blocky, Assigns
<1>4. O \union {} = O
  OBVIOUS
<1>5. Blockwise(u, f, O, started)
  BY <1>3, <1>4, Advanced
<1>6. u \in Seq(Bodies) /\ u # <<>> /\ Len(u) \in Nat /\ Len(u) >= 1 /\ DOMAIN u = 1..Len(u) /\ 1 \in DOMAIN u
  BY <1>5, BlocksTyped DEF Blockwise
<1>7. /\ t \in Seq(Bodies) /\ t # <<>> /\ Len(t) = Len(u) + 1 /\ DOMAIN t = 1..(Len(u) + 1)
      /\ t[Len(u) + 1] = block /\ \A m \in DOMAIN u : t[m] = u[m]
  <2>1. \A w \in Seq(Bodies), b \in Bodies : w # <<>> =>
          /\ Append(w, b) \in Seq(Bodies) /\ Append(w, b) # <<>> /\ Len(Append(w, b)) = Len(w) + 1
          /\ DOMAIN Append(w, b) = 1..(Len(w) + 1) /\ Append(w, b)[Len(w) + 1] = b
          /\ \A m \in DOMAIN w : Append(w, b)[m] = w[m]
    BY AppendTyped
  <2>2. t = Append(u, block)
    OBVIOUS
  <2>3. block \in Bodies /\ u \in Seq(Bodies) /\ u # <<>>
    BY <1>2, <1>6
  <2> HIDE DEF block
  <2>4. /\ Append(u, block) \in Seq(Bodies) /\ Append(u, block) # <<>> /\ Len(Append(u, block)) = Len(u) + 1
        /\ DOMAIN Append(u, block) = 1..(Len(u) + 1) /\ Append(u, block)[Len(u) + 1] = block
        /\ \A m \in DOMAIN u : Append(u, block)[m] = u[m]
    BY <2>1, <2>3, Zenon
  <2> QED
    BY <2>2, <2>4, Zenon
<1>8. Kept(block, f, O) /\ OpsIn(block) \subseteq OpsIn(top)
  <2>1. Kept(top, f, O)
    BY <1>2 DEF Blockwise
  <2> QED
    BY <1>2, <2>1, KeptParts, OpsParts
<1>9. \A m \in DOMAIN t : m \in DOMAIN u \/ m = Len(u) + 1
  BY <1>6, <1>7
<1>10. \A m \in DOMAIN t : Kept(t[m], f, O)
  BY <1>5, <1>7, <1>8, <1>9 DEF Blockwise
<1>11. f.ret # "array" => block_always_returns(t[1])
  BY <1>5, <1>6, <1>7 DEF Blockwise
<1>12. ~started /\ f.ret = "array" => ToCome(t)
  <2> SUFFICES ASSUME ~started, f.ret = "array" PROVE ToCome(t)
    OBVIOUS
  <2>1. check_result_placement(s[1]) /\ \A m \in 2..Len(s) : OpsIn(s[m]) \intersect {"result", "set"} = {}
    BY DEF Blockwise, ToCome
  <2>2. check_result_placement(u[1]) /\ \A m \in 2..Len(u) : OpsIn(u[m]) \intersect {"result", "set"} = {}
    BY <1>5 DEF Blockwise, ToCome
  <2>3. OpsIn(block) \intersect {"result", "set"} = {}
    <3>1. CASE Len(s) = 1
      BY <1>2, <1>3, <2>1, <3>1, PlacementParts
    <3>2. CASE Len(s) # 1
      <4>1. Len(s) \in 2..Len(s)
        BY <1>2, <3>2
      <4>2. OpsIn(top) \intersect {"result", "set"} = {}
        BY <2>1, <4>1
      <4> QED
        BY <1>8, <4>2
    <3> QED
      BY <3>1, <3>2
  <2>4. \A m \in 2..Len(t) : m \in 2..Len(u) \/ m = Len(u) + 1
    BY <1>6, <1>7
  <2>5. \A m \in 2..Len(u) : m \in DOMAIN u
    BY <1>6
  <2> HIDE DEF block
  <2> QED
    BY <1>6, <1>7, <2>2, <2>3, <2>4, <2>5 DEF ToCome
<1>13. started => \A m \in DOMAIN t : OpsIn(t[m]) \intersect Unclean = {}
  <2>1. started => OpsIn(block) \intersect Unclean = {}
    BY <1>2, <1>8 DEF Blockwise
  <2> HIDE DEF block
  <2> QED
    BY <1>5, <1>7, <1>9, <2>1 DEF Blockwise
<1> QED
  BY <1>7, <1>10, <1>11, <1>12, <1>13 DEF Blockwise

LEMMA BlockLeft ==
  ASSUME NEW s, NEW f, NEW O, NEW started \in BOOLEAN, Blockwise(s, f, O, started), Len(s) > 1,
         NEW t, t = SubSeq(s, 1, Len(s) - 1)
  PROVE  Blockwise(t, f, O, started)
<1>1. s \in Seq(Bodies) /\ s # <<>> /\ Len(s) \in Nat /\ DOMAIN s = 1..Len(s)
  BY BlocksTyped DEF Blockwise
<1>2. /\ t \in Seq(Bodies) /\ t # <<>> /\ Len(t) = Len(s) - 1 /\ DOMAIN t = 1..(Len(s) - 1)
      /\ \A m \in 1..(Len(s) - 1) : t[m] = s[m]
  BY <1>1, LeftTyped
<1>3. /\ \A m \in DOMAIN t : m \in DOMAIN s /\ t[m] = s[m]
      /\ t[1] = s[1]
      /\ \A m \in 2..Len(t) : m \in 2..Len(s) /\ t[m] = s[m]
  BY <1>1, <1>2
<1>4. ToCome(s) => ToCome(t)
  BY <1>3 DEF ToCome
<1> QED
  BY <1>2, <1>3, <1>4 DEF Blockwise

-----------------------------------------------------------------------------
(* The inductive invariant.                                                 *)

LEMMA FunctionTyped ==
  ASSUME NEW f \in Functions
  PROVE  f.ret \in {"plain", "fallible", "array"} /\ f.outs \subseteq Outs /\ f.body \in Bodies
BY ConstantsAssumption

\* What is known of the statement a body is at.
LEMMA AtStatement ==
  ASSUME IInv, phase = "running", Top # <<>>
  PROVE  /\ Top \in Bodies /\ Len(rest) \in Nat
         /\ fn.ret \in {"plain", "fallible", "array"}
         /\ Here.op \in Admitted(fn.ret)
         /\ Here.op \in {"out", "try out"} => Here.to \in fn.outs
         /\ Here.op \in {"return", "return try"} => fn.outs \subseteq outs /\ fn.ret # "array"
         /\ n # Undeclared => Here.op \notin Unclean
         /\ fn.ret = "array" /\ n = Undeclared => Here.op # "set"
<1>1. Blockwise(rest, fn, outs, n # Undeclared) /\ fn \in Functions /\ Accepted(fn)
  BY DEF IInv, InProgress
<1>2. rest \in Seq(Bodies) /\ rest # <<>>
  BY <1>1 DEF Blockwise
<1>3. /\ Len(rest) \in Nat /\ Len(rest) >= 1 /\ Len(rest) \in DOMAIN rest /\ DOMAIN rest = 1..Len(rest)
      /\ Top \in Bodies
  BY <1>2, BlocksTyped DEF Top
<1>4. Kept(Top, fn, outs)
  BY <1>1, <1>3 DEF Blockwise, Top
<1>5. /\ Here.op \in OpsIn(fn.body)
      /\ Here.op \in {"out", "try out"} => Here.to \in fn.outs
      /\ Here.op \in {"return", "return try"} => fn.outs \subseteq outs
  BY <1>3, <1>4, KeptParts DEF Here
<1>6. Here.op \in Admitted(fn.ret)
  BY <1>1, <1>5 DEF Accepted
<1>7. Here.op \in OpsIn(Top)
  BY <1>3, OpsParts DEF Here
<1>8. fn.ret = "array" => Here.op \notin {"return", "return try"}
  BY <1>5, <1>6 DEF Admitted, IInv, Blocky, Trying
<1>9. n # Undeclared => Here.op \notin Unclean
  BY <1>1, <1>3, <1>7 DEF Blockwise, Top
<1>10. ASSUME fn.ret = "array", n = Undeclared PROVE Here.op # "set"
  <2>1. /\ check_result_placement(rest[1])
        /\ \A m \in 2..Len(rest) : OpsIn(rest[m]) \intersect {"result", "set"} = {}
    BY <1>1, <1>10 DEF Blockwise, ToCome
  <2>2. CASE Len(rest) = 1
    <3>1. Top = rest[1]
      BY <2>2 DEF Top
    <3> QED
      BY <1>3, <2>1, <3>1, PlacementParts DEF Here
  <2>3. CASE Len(rest) # 1
    <3>1. Len(rest) \in 2..Len(rest)
      BY <1>3, <2>3
    <3> QED
      BY <1>7, <2>1, <3>1 DEF Top
  <2> QED
    BY <2>2, <2>3
<1>11. fn.ret \in {"plain", "fallible", "array"}
  BY <1>1, FunctionTyped
<1> QED
  BY <1>3, <1>5, <1>6, <1>8, <1>9, <1>10, <1>11

\* Where a body falls off its end, its `result` is behind it.
LEMMA AtEnd ==
  ASSUME IInv, phase = "running", rest = <<<<>>>>
  PROVE  fn.ret = "array" /\ n # Undeclared
<1>1. Blockwise(rest, fn, outs, n # Undeclared)
  BY DEF IInv, InProgress
<1>2. rest[1] = <<>>
  OBVIOUS
<1>3. ~block_always_returns(<<>>)
  BY DEF block_always_returns
<1>4. ~check_result_placement(<<>>)
  BY DEF check_result_placement
<1> QED
  BY <1>1, <1>2, <1>3, <1>4 DEF Blockwise, ToCome

LEMMA InitInv == Init => IInv
<1> SUFFICES ASSUME Init PROVE IInv
  OBVIOUS
<1>1. fn \in Functions /\ Accepted(fn) /\ phase = "source"
  BY DEF Init
<1>2. TypeOK
  BY DEF Init, TypeOK, Undeclared
<1>3. cap \in Int /\ length \in Int
  BY ConstantsAssumption DEF Init
<1> QED
  BY <1>1, <1>2, <1>3 DEF IInv

\* A body that has left keeps only the types.
LEMMA LeaveInv ==
  ASSUME IInv, phase = "running", UNCHANGED input,
         NEW s \in {0, 1, -1, -2, -3}, Leave(s), TypeOK'
  PROVE  IInv'
BY DEF IInv, Leave, input

\* Past a statement that writes nothing but outs.
LEMMA AdvanceInv ==
  ASSUME IInv, phase = "running", Top # <<>>, Advance, UNCHANGED <<value, buf, needed, n, input>>,
         ~is_terminator(Here), Here.op # "result", outs' = outs \union Assigns(Here)
  PROVE  IInv'
<1>1. Blockwise(rest, fn, outs, n # Undeclared)
  BY DEF IInv, InProgress
<1>2. Blockwise(rest', fn, outs', n # Undeclared)
  <2>1. rest' = [rest EXCEPT ![Len(rest)] = Tail(Top)]
    BY DEF Advance, Passed
  <2>2. Blockwise([rest EXCEPT ![Len(rest)] = Tail(Top)], fn, outs \union Assigns(Here), n # Undeclared)
    BY <1>1, Advanced DEF Top, Here
  <2> QED
    BY <2>1, <2>2
<1>3. outs' \subseteq fn.outs
  BY AtStatement DEF Assigns, IInv, TypeOK
<1>4. TypeOK'
  BY <1>3 DEF IInv, TypeOK, Advance, input
<1>5. InProgress'
  BY <1>2 DEF IInv, InProgress, BeforeLength, AfterLength, input
<1> QED
  BY <1>4, <1>5 DEF IInv, Advance, input

LEMMA NextInv == IInv /\ [Next]_vars => IInv'
<1> SUFFICES ASSUME IInv, [Next]_vars PROVE IInv'
  OBVIOUS
<1>0. /\ fn \in Functions /\ Accepted(fn) /\ fn.ret \in {"plain", "fallible", "array"}
      /\ cap \in Int /\ length \in Int
  BY FunctionTyped DEF IInv
<1>1. CASE Lower
  BY <1>1 DEF IInv, Lower, TypeOK, memory, input
<1>2. CASE Call
  <2>1. cap' \in Int /\ length' \in Int /\ fn' = fn
    BY <1>0, <1>2, ConstantsAssumption DEF Call, IInv, TypeOK
  <2>2. TypeOK'
    BY <1>2 DEF Call, IInv, TypeOK, Undeclared
  <2>3. InProgress'
    <3>1. Blockwise(<<fn.body>>, fn, {}, FALSE)
      BY <1>0, Started
    <3>2. (n' # Undeclared) = FALSE
      BY <1>2 DEF Call
    <3>3. Blockwise(rest', fn', outs', n' # Undeclared)
      BY <1>2, <2>1, <3>1, <3>2 DEF Call
    <3> QED
      BY <1>2, <3>2, <3>3 DEF Call, InProgress, BeforeLength
  <2> QED
    BY <1>2, <2>1, <2>2, <2>3 DEF Call, IInv
<1>3. CASE EvalFails
  <2>1. PICK s \in {-2, -3} : Leave(s)
    BY <1>3 DEF EvalFails
  <2>2. TypeOK'
    BY <1>3, <2>1 DEF EvalFails, Leave, IInv, TypeOK, memory, input
  <2> QED
    BY <1>3, <2>1, <2>2, LeaveInv DEF EvalFails
<1>4. CASE Eval
  <2>1. ~is_terminator(Here) /\ Here.op # "result" /\ Assigns(Here) = {}
    BY <1>4 DEF Eval, At, is_terminator, Assigns
  <2>2. outs' = outs \union Assigns(Here)
    BY <1>4, <2>1 DEF Eval, memory
  <2> QED
    BY <1>4, <2>1, <2>2, AdvanceInv DEF Eval, At, memory
<1>5. CASE AssignOut
  <2>1. ~is_terminator(Here) /\ Here.op # "result" /\ Assigns(Here) = {Here.to}
    BY <1>5 DEF AssignOut, At, is_terminator, Assigns
  <2> QED
    BY <1>5, <2>1, AdvanceInv DEF AssignOut, At
<1>6. CASE TryErr
  <2>1. PICK s \in {1, -2, -3} : Leave(s)
    BY <1>6 DEF TryErr
  <2>2. TypeOK'
    BY <1>6, <2>1 DEF TryErr, Leave, IInv, TypeOK, memory, input
  <2> QED
    BY <1>6, <2>1, <2>2, LeaveInv DEF TryErr, At
<1>7. CASE TryOk
  <2>1. ~is_terminator(Here) /\ Here.op # "result"
    BY <1>7 DEF TryOk, At, is_terminator
  <2>2. outs' = outs \union Assigns(Here)
    BY <1>7 DEF TryOk, At, Assigns
  <2> QED
    BY <1>7, <2>1, <2>2, AdvanceInv DEF TryOk, At
<1>8. CASE Return
  <2>1. TypeOK'
    BY <1>8 DEF Return, Leave, IInv, TypeOK, input
  <2> QED
    BY <1>8, <2>1, LeaveInv DEF Return, At
<1>9. CASE Fail
  <2>1. TypeOK'
    BY <1>9 DEF Fail, Leave, IInv, TypeOK, memory, input
  <2> QED
    BY <1>9, <2>1, LeaveInv DEF Fail, At
<1>10. CASE ResultLen
  <2> DEFINE len == NotNegative(length)
  <2>0. phase = "running" /\ Top # <<>> /\ Here.op = "result" /\ UNCHANGED <<outs, value, input>>
    BY <1>10 DEF ResultLen, At
  <2>1. len \in Nat /\ NotNegative(cap) \in Nat /\ needed' = len
    BY <1>0, <1>10 DEF ResultLen, Publish, NotNegative
  <2>2. n = Undeclared /\ fn.ret = "array"
    BY <2>0, AtStatement DEF Unclean, Admitted, Blocky, Trying
  <2>3. CASE len > NotNegative(cap)
    <3>1. Leave(-1) /\ UNCHANGED <<buf, n>>
      BY <1>10, <2>3 DEF ResultLen
    <3>2. TypeOK'
      BY <2>0, <2>1, <3>1 DEF Leave, IInv, TypeOK, input
    <3> QED
      BY <2>0, <3>1, <3>2, LeaveInv
  <2>4. CASE ~(len > NotNegative(cap))
    <3>1. /\ n' = len /\ Advance
          /\ buf' = [x \in Cells |-> IF x < len THEN "zero" ELSE buf[x]]
      BY <1>10, <2>4 DEF ResultLen
    <3>2. n' # Undeclared /\ len <= NotNegative(cap)
      BY <2>1, <2>4, <3>1 DEF Undeclared
    <3>3. TypeOK'
      BY <2>0, <2>1, <3>1 DEF Advance, IInv, TypeOK, input
    <3>4. Blockwise(rest', fn, outs, TRUE)
      <4>1. Blockwise(rest, fn, outs, n # Undeclared)
        BY <2>0 DEF IInv, InProgress
      <4>2. (n # Undeclared) = FALSE
        BY <2>2
      <4>3. rest' = [rest EXCEPT ![Len(rest)] = Tail(Top)]
        BY <3>1 DEF Advance, Passed
      <4>4. Blockwise([rest EXCEPT ![Len(rest)] = Tail(Top)], fn, outs, TRUE)
        BY <2>0, <2>2, <4>1, <4>2, Measured DEF Top, Here
      <4> QED
        BY <4>3, <4>4
    <3>5. \A x \in Cells : buf'[x] = "host" <=> x >= len
      <4>1. \A x \in Cells : buf[x] = "host" /\ x \in Nat
        BY <2>0, <2>2, ConstantsAssumption DEF IInv, InProgress, BeforeLength
      <4> HIDE DEF len
      <4> QED
        BY <2>1, <3>1, <4>1
    <3>6. AfterLength'
      <4>1. fn' = fn /\ length' = length /\ cap' = cap
        BY <2>0 DEF input
      <4> QED
        BY <2>1, <2>2, <3>1, <3>2, <3>5, <4>1 DEF AfterLength, NotNegative
    <3>7. InProgress'
      <4>1. (n' # Undeclared) = TRUE /\ fn' = fn /\ outs' = outs /\ value' = "host"
        BY <2>0, <3>2 DEF input, IInv, InProgress
      <4> QED
        BY <3>2, <3>4, <3>6, <4>1 DEF InProgress
    <3> QED
      BY <2>0, <3>1, <3>3, <3>7 DEF IInv, Advance, input
  <2> QED
    BY <2>3, <2>4
<1>11. CASE ResultSet
  <2>0. phase = "running" /\ Top # <<>> /\ Here.op = "set" /\ UNCHANGED <<outs, value, needed, n, input>>
    BY <1>11 DEF ResultSet, At
  <2>1. n # Undeclared
    BY <2>0, AtStatement DEF Admitted, Blocky, Trying
  <2>2. PICK i \in Cells \union {-1} :
          IF InResult(i) THEN buf' = [buf EXCEPT ![i] = "element"] /\ Advance
                         ELSE Leave(-2) /\ UNCHANGED buf
    BY <1>11, <2>1 DEF ResultSet
  <2>3. CASE ~InResult(i)
    <3>1. TypeOK'
      BY <2>0, <2>2, <2>3 DEF Leave, IInv, TypeOK, input
    <3> QED
      BY <2>0, <2>2, <2>3, <3>1, LeaveInv
  <2>4. CASE InResult(i)
    <3>1. buf' = [buf EXCEPT ![i] = "element"] /\ Advance /\ i >= 0 /\ i < n
      BY <2>2, <2>4 DEF InResult
    <3>2. AfterLength /\ value = "host" /\ Blockwise(rest, fn, outs, n # Undeclared)
      BY <2>0, <2>1 DEF IInv, InProgress
    <3>3. Assigns(Here) = {} /\ ~is_terminator(Here) /\ Here.op # "result"
      BY <2>0 DEF Assigns, is_terminator
    <3>4. Blockwise(rest', fn, outs, n # Undeclared)
      <4>1. rest' = [rest EXCEPT ![Len(rest)] = Tail(Top)]
        BY <3>1 DEF Advance, Passed
      <4>2. Blockwise([rest EXCEPT ![Len(rest)] = Tail(Top)], fn, outs \union Assigns(Here), n # Undeclared)
        BY <2>0, <3>2, <3>3, Advanced DEF Top, Here
      <4>3. outs \union Assigns(Here) = outs
        BY <3>3
      <4> QED
        BY <4>1, <4>2, <4>3
    <3>5. TypeOK'
      BY <2>0, <3>1 DEF Advance, IInv, TypeOK, input
    <3>6. buf \in [Cells -> {"host", "zero", "element"}] /\ \A x \in Cells : buf[x] = "host" <=> x >= n
      BY <3>2 DEF IInv, TypeOK, AfterLength
    <3>7. \A x \in Cells : buf'[x] = "host" <=> x >= n
      <4> TAKE x \in Cells
      <4>1. CASE x = i
        <5>1. buf'[x] = "element"
          BY <3>1, <3>6, <4>1
        <5>2. ~(x >= n)
          <6>1. n \in Int /\ i \in Int
            BY ConstantsAssumption DEF IInv, TypeOK, Undeclared
          <6> QED
            BY <3>1, <4>1, <6>1
        <5> QED
          BY <5>1, <5>2
      <4>2. CASE x # i
        BY <3>1, <3>6, <4>2
      <4> QED
        BY <4>1, <4>2
    <3>8. AfterLength'
      <4>1. fn' = fn /\ length' = length /\ cap' = cap
        BY <2>0 DEF input
      <4> QED
        BY <2>0, <3>2, <3>7, <4>1 DEF AfterLength, NotNegative
    <3>9. InProgress'
      <4>1. n' = n /\ fn' = fn /\ outs' = outs /\ value' = "host"
        BY <2>0, <3>2 DEF input
      <4> QED
        BY <2>1, <3>4, <3>8, <4>1 DEF InProgress
    <3> QED
      BY <2>0, <3>1, <3>5, <3>9 DEF IInv, Advance, input
  <2> QED
    BY <2>3, <2>4
<1>12. CASE Skip
  <2>1. ~is_terminator(Here) /\ Here.op # "result" /\ Assigns(Here) = {}
    BY <1>12 DEF Skip, At, is_terminator, Assigns, Blocky
  <2>2. outs' = outs \union Assigns(Here)
    BY <1>12, <2>1 DEF Skip, memory
  <2> QED
    BY <1>12, <2>1, <2>2, AdvanceInv DEF Skip, At, memory
<1>13. CASE EnterBlock
  <2>0. /\ phase = "running" /\ phase' = "running" /\ Top # <<>> /\ Here.op \in Blocky
        /\ UNCHANGED <<outs, value, buf, needed, n, input, status>>
    BY <1>13 DEF EnterBlock, At, memory
  <2>1. Blockwise(rest', fn, outs, n # Undeclared)
    <3> DEFINE u == IF Here.op = "while" THEN rest ELSE [rest EXCEPT ![Len(rest)] = Tail(Top)]
    <3>1. Blockwise(rest, fn, outs, n # Undeclared)
      BY <2>0 DEF IInv, InProgress
    <3>2. u \in {rest, [rest EXCEPT ![Len(rest)] = Tail(Top)]}
      OBVIOUS
    <3>3. rest' = Append(u, Head(Top).body)
      BY <1>13 DEF EnterBlock, Passed, Here
    <3> HIDE DEF u
    <3>4. Blockwise(Append(u, Head(Top).body), fn, outs, n # Undeclared)
      BY <2>0, <3>1, <3>2, Entered DEF Top, Here
    <3> QED
      BY <3>3, <3>4
  <2>2. TypeOK'
    BY <2>0 DEF IInv, TypeOK, input
  <2>3. InProgress'
    BY <2>0, <2>1 DEF IInv, InProgress, BeforeLength, AfterLength, NotNegative, input
  <2> QED
    BY <2>0, <2>2, <2>3 DEF IInv, input
<1>14. CASE LeaveBlock
  <2>0. /\ phase = "running" /\ phase' = "running" /\ Len(rest) > 1
        /\ UNCHANGED <<outs, value, buf, needed, n, input, status>>
        /\ rest' = SubSeq(rest, 1, Len(rest) - 1)
    BY <1>14 DEF LeaveBlock, memory
  <2>1. Blockwise(rest', fn, outs, n # Undeclared)
    <3>1. Blockwise(rest, fn, outs, n # Undeclared)
      BY <2>0 DEF IInv, InProgress
    <3>2. Blockwise(SubSeq(rest, 1, Len(rest) - 1), fn, outs, n # Undeclared)
      BY <2>0, <3>1, BlockLeft
    <3> QED
      BY <2>0, <3>2
  <2>2. TypeOK'
    BY <2>0 DEF IInv, TypeOK, input
  <2>3. InProgress'
    BY <2>0, <2>1 DEF IInv, InProgress, BeforeLength, AfterLength, NotNegative, input
  <2> QED
    BY <2>0, <2>2, <2>3 DEF IInv, input
<1>15. CASE FallOff
  <2>1. phase = "running" /\ Leave(0) /\ UNCHANGED <<memory, n, input>>
    BY <1>15, AtEnd DEF FallOff
  <2>2. TypeOK'
    BY <2>1 DEF Leave, IInv, TypeOK, memory, input
  <2> QED
    BY <2>1, <2>2, LeaveInv
<1>16. CASE UNCHANGED vars
  BY <1>16 DEF vars, memory, input, IInv, TypeOK, InProgress, BeforeLength, AfterLength
<1> QED
  BY <1>1, <1>2, <1>3, <1>4, <1>5, <1>6, <1>7, <1>8, <1>9, <1>10, <1>11, <1>12, <1>13, <1>14,
     <1>15, <1>16 DEF Next, Run

-----------------------------------------------------------------------------
(* What the invariant says of every call.                                   *)

LEMMA InvAlways == Spec => []IInv
BY InitInv, NextInv, PTL DEF Spec

\* Types of the host's variables and of the body in progress; the outs written
\* are outs of the function, and counts are natural numbers.
THEOREM TypeCorrect == Spec => []TypeOK
<1>1. IInv => TypeOK
  BY DEF IInv
<1> QED
  BY <1>1, InvAlways, PTL

\* No accepted body, however deep or long, ends without a value or writes an
\* element outside the scope of the length (typeck.rs, check_function and
\* check_result_placement), and the compiler panics on none but an array
\* function's with a `return` in it (codegen.rs 703).
THEOREM LoweredBuildsAlways == Spec => []LoweredBuilds
<1>1. IInv => LoweredBuilds
  BY DEF IInv, LoweredBuilds, OpsIn
<1> QED
  BY <1>1, InvAlways, PTL

-----------------------------------------------------------------------------
(* The call as the host sees it.                                            *)

\* What the mapping makes of the host's memory.
LEMMA HostSees ==
  /\ Promise!Count = NotNegative(length)
  /\ Promise!Promised = {x \in Cells : x < NotNegative(length)}
BY DEF Promise!Count, Promise!Promised, NotNegative

\* The arrays of what is checked here take no out parameter: what becomes of one
\* that does is in the run MCBodyArrayOut.
NoArrayOuts == \A f \in Functions : f.ret = "array" => f.outs = {}

LEMMA InitMaps == Init => Promise!Init
<1> SUFFICES ASSUME Init PROVE Promise!Init
  OBVIOUS
<1>1. fn.ret \in {"plain", "fallible", "array"} /\ fn.outs \subseteq Outs
  BY FunctionTyped DEF Init
<1> QED
  BY <1>1 DEF Init, Promise!Init, Promise!Fresh, Running

\* While the body runs the host sees nothing.
LEMMA StaysMaps ==
  ASSUME phase = "running", phase' = "running", UNCHANGED <<status, input>>
  PROVE  UNCHANGED Promise!vars
BY DEF Promise!vars, Running, input

LEMMA AnswerMaps ==
  ASSUME IInv, TypeOK', phase = "running", NEW s, Leave(s), UNCHANGED input,
         Promise!Success \/ Promise!Truncation \/ Promise!DomainError \/ Promise!Reserved
  PROVE  Promise!Answer
<1>1. outs' \subseteq fn.outs /\ fn' = fn /\ cap' = cap /\ length' = length /\ phase' = "returned"
  BY DEF TypeOK, input, Leave
<1> QED
  BY <1>1 DEF Promise!Answer, Running

\* Of the memory of a running body.
LEMMA RunningMemory ==
  ASSUME IInv, phase = "running"
  PROVE  /\ value = "host" /\ cap \in Int /\ length \in Int
         /\ NotNegative(cap) \in Nat /\ NotNegative(length) \in Nat
         /\ fn.ret \in {"plain", "fallible", "array"}
         /\ \A x \in Cells : x \in Nat /\ (x >= cap => buf[x] = "host")
         /\ n = Undeclared => BeforeLength
         /\ n # Undeclared => AfterLength
<1>1. /\ value = "host" /\ cap \in Int /\ length \in Int
      /\ n = Undeclared => BeforeLength
      /\ n # Undeclared => AfterLength
      /\ n \in Nat \union {Undeclared}
  BY DEF IInv, InProgress, TypeOK
<1>2. fn.ret \in {"plain", "fallible", "array"}
  BY FunctionTyped DEF IInv
<1>3. NotNegative(cap) \in Nat /\ NotNegative(length) \in Nat
  BY <1>1 DEF NotNegative
<1>4. ASSUME NEW x \in Cells PROVE x \in Nat /\ (x >= cap => buf[x] = "host")
  <2>1. x \in Nat
    BY ConstantsAssumption
  <2>2. CASE n = Undeclared
    BY <1>1, <2>1, <2>2 DEF BeforeLength
  <2>3. CASE n # Undeclared
    <3>1. n \in Nat /\ n <= NotNegative(cap) /\ (buf[x] = "host" <=> x >= n)
      BY <1>1, <2>3 DEF AfterLength
    <3>2. x >= cap => x >= n
      BY <1>1, <2>1, <3>1 DEF NotNegative
    <3> QED
      BY <2>1, <3>1, <3>2
  <2> QED
    BY <2>2, <2>3
<1> QED
  BY <1>1, <1>2, <1>3, <1>4

\* A reserved status leaves what lies beyond the capacity alone.
LEMMA ReservedMaps ==
  ASSUME IInv, TypeOK', phase = "running", fn.ret # "plain",
         NEW s \in {-2, -3}, Leave(s), UNCHANGED <<value, buf, input>>
  PROVE  Promise!Answer
<1>1. Promise!Reserved
  BY RunningMemory DEF Promise!Reserved, Running, Leave
<1> QED
  BY <1>1, AnswerMaps

\* A domain error leaves all of it alone: nothing was published before it.
LEMMA DomainErrorMaps ==
  ASSUME IInv, TypeOK', phase = "running", fn.ret # "plain", n = Undeclared,
         Leave(1), UNCHANGED <<value, buf, needed, input>>
  PROVE  Promise!Answer
<1>1. value = "host" /\ needed = 0 /\ buf = [x \in Cells |-> "host"]
  BY RunningMemory DEF BeforeLength, IInv, TypeOK
<1>2. Promise!DomainError
  BY <1>1 DEF Promise!DomainError, Running, Leave
<1> QED
  BY <1>2, AnswerMaps

\* `return`: every out is written, and no element is.
LEMMA ReturnMaps ==
  ASSUME IInv, TypeOK', Return
  PROVE  Promise!Answer
<1>1. /\ phase = "running" /\ Top # <<>> /\ Here.op \in {"return", "return try"} /\ Leave(0)
      /\ value' = "module" /\ UNCHANGED <<outs, buf, needed, n, input>>
  BY DEF Return, At
<1>2. fn.outs \subseteq outs /\ fn.ret # "array"
  BY <1>1, AtStatement
<1>3. outs' = fn.outs
  BY <1>1, <1>2 DEF IInv, TypeOK
<1>4. n = Undeclared
  BY <1>1, <1>2, RunningMemory DEF AfterLength
<1>5. needed' = 0 /\ buf' = [x \in Cells |-> "host"]
  BY <1>1, <1>4, RunningMemory DEF BeforeLength, IInv, TypeOK
<1>6. Promise!Success
  BY <1>1, <1>2, <1>3, <1>5 DEF Promise!Success, Running, Leave
<1> QED
  BY <1>1, <1>6, AnswerMaps

\* The end of an array body: exactly the promised elements are the module's.
LEMMA FallOffMaps ==
  ASSUME NoArrayOuts, IInv, TypeOK', FallOff
  PROVE  Promise!Answer
<1>1. phase = "running" /\ Leave(0) /\ UNCHANGED <<memory, n, input>> /\ fn.ret = "array" /\ n # Undeclared
  BY AtEnd DEF FallOff
<1>2. outs = {} /\ fn.outs = {}
  BY <1>1 DEF NoArrayOuts, IInv, TypeOK
<1>3. /\ n = NotNegative(length) /\ n <= NotNegative(cap) /\ needed = n
      /\ \A x \in Cells : buf[x] = "host" <=> x >= n
      /\ value = "host" /\ cap \in Int /\ NotNegative(length) \in Nat
      /\ \A x \in Cells : x \in Nat
  BY <1>1, RunningMemory DEF AfterLength
<1>4. Promise!Count <= cap \/ Promise!Count = 0
  <2>1. NotNegative(cap) = 0 \/ NotNegative(cap) = cap
    BY DEF NotNegative
  <2>2. Promise!Count = n /\ n \in Nat
    BY <1>3, HostSees
  <2> QED
    BY <1>3, <2>1, <2>2
<1>5. \A x \in Cells : buf'[x] = "host" <=> x \notin Promise!Promised
  BY <1>1, <1>3, HostSees DEF memory
<1>6. Promise!Success
  BY <1>1, <1>2, <1>3, <1>4, <1>5, HostSees DEF Promise!Success, Running, Leave, memory
<1> QED
  BY <1>1, <1>6, AnswerMaps

\* `result <n>` with a capacity that is too small: the size, and nothing else.
LEMMA ResultLenMaps ==
  ASSUME IInv, TypeOK', ResultLen
  PROVE  Promise!Answer \/ UNCHANGED Promise!vars
<1>1. phase = "running" /\ Top # <<>> /\ Here.op = "result" /\ UNCHANGED <<outs, value, input>>
  BY DEF ResultLen, At
<1>2. needed' = NotNegative(length)
  BY DEF ResultLen, Publish
<1>3. n = Undeclared /\ fn.ret = "array"
  BY <1>1, AtStatement DEF Unclean, Admitted, Blocky, Trying
<1>4. CASE NotNegative(length) > NotNegative(cap)
  <2>1. Leave(-1) /\ UNCHANGED <<buf, n>>
    BY <1>4 DEF ResultLen
  <2>2. NotNegative(length) > cap /\ value = "host" /\ buf = [x \in Cells |-> "host"]
    BY <1>1, <1>3, <1>4, RunningMemory DEF NotNegative, BeforeLength, IInv, TypeOK
  <2>3. Promise!Truncation
    BY <1>1, <1>2, <1>3, <2>1, <2>2, HostSees DEF Promise!Truncation, Running, Leave
  <2> QED
    BY <1>1, <2>1, <2>3, AnswerMaps
<1>5. CASE ~(NotNegative(length) > NotNegative(cap))
  <2>1. Advance
    BY <1>5 DEF ResultLen
  <2> QED
    BY <1>1, <2>1, StaysMaps DEF Advance
<1> QED
  BY <1>4, <1>5

LEMMA CallMaps ==
  ASSUME IInv, Call
  PROVE  Promise!Call
<1>1. phase \in {"ready", "returned"} /\ phase' = "running" /\ UNCHANGED <<fn, status>>
  BY DEF Call
<1>2. \/ cap' \in Caps /\ length' \in Lengths
      \/ phase = "returned" /\ status = -1 /\ cap' = needed /\ UNCHANGED length
  BY DEF Call
<1>3. Promise!Fresh'
  BY <1>1 DEF Promise!Fresh, Running
<1> QED
  BY <1>1, <1>2, <1>3 DEF Promise!Call, Running

LEMMA NextMaps ==
  ASSUME NoArrayOuts, IInv, IInv', [Next]_vars
  PROVE  [Promise!Call \/ Promise!Answer]_Promise!vars
<1>0. TypeOK'
  BY DEF IInv
<1>1. CASE Lower
  BY <1>1 DEF Lower, Promise!vars, Running, memory, input
<1>2. CASE Call
  BY <1>2, CallMaps
<1>3. CASE EvalFails
  BY <1>0, <1>3, ReservedMaps DEF EvalFails, memory
<1>4. CASE TryErr
  <2>1. phase = "running" /\ Top # <<>> /\ Here.op \in Trying /\ UNCHANGED <<memory, n, input>>
    BY <1>4 DEF TryErr, At
  <2>2. n = Undeclared /\ fn.ret # "plain"
    BY <2>1, AtStatement DEF Unclean, Admitted, Blocky, Trying
  <2>3. PICK s \in {1, -2, -3} : Leave(s)
    BY <1>4 DEF TryErr
  <2>4. CASE s = 1
    BY <1>0, <2>1, <2>2, <2>3, <2>4, DomainErrorMaps DEF memory
  <2>5. CASE s \in {-2, -3}
    BY <1>0, <2>1, <2>2, <2>3, <2>5, ReservedMaps DEF memory
  <2> QED
    BY <2>3, <2>4, <2>5
<1>5. CASE Return
  BY <1>0, <1>5, ReturnMaps
<1>6. CASE Fail
  <2>1. phase = "running" /\ Top # <<>> /\ Here.op = "fail" /\ Leave(1) /\ UNCHANGED <<memory, n, input>>
    BY <1>6 DEF Fail, At
  <2>2. n = Undeclared /\ fn.ret # "plain"
    BY <2>1, AtStatement DEF Unclean, Admitted, Blocky, Trying
  <2> QED
    BY <1>0, <2>1, <2>2, DomainErrorMaps DEF memory
<1>7. CASE ResultLen
  BY <1>0, <1>7, ResultLenMaps
<1>8. CASE ResultSet
  <2>1. phase = "running" /\ Top # <<>> /\ Here.op = "set" /\ UNCHANGED <<outs, value, needed, n, input>>
    BY <1>8 DEF ResultSet, At
  <2>2. n # Undeclared /\ fn.ret # "plain"
    BY <2>1, AtStatement DEF Admitted, Blocky, Trying
  <2>3. Advance \/ (Leave(-2) /\ UNCHANGED buf)
    BY <1>8, <2>2 DEF ResultSet
  <2>4. CASE Advance
    BY <2>1, <2>4, StaysMaps DEF Advance
  <2>5. CASE Leave(-2) /\ UNCHANGED buf
    BY <1>0, <2>1, <2>2, <2>5, ReservedMaps
  <2> QED
    BY <2>3, <2>4, <2>5
<1>9. CASE FallOff
  BY <1>0, <1>9, FallOffMaps
<1>10. CASE Eval \/ AssignOut \/ TryOk \/ Skip
  <2>1. phase = "running" /\ Advance /\ UNCHANGED input
    BY <1>10 DEF Eval, AssignOut, TryOk, Skip, At
  <2> QED
    BY <2>1, StaysMaps DEF Advance
<1>11. CASE EnterBlock
  BY <1>11, StaysMaps DEF EnterBlock, At
<1>12. CASE LeaveBlock
  BY <1>12, StaysMaps DEF LeaveBlock
<1>13. CASE UNCHANGED vars
  BY <1>13 DEF vars, memory, input, Promise!vars, Running
<1> QED
  BY <1>1, <1>2, <1>3, <1>4, <1>5, <1>6, <1>7, <1>8, <1>9, <1>10, <1>11, <1>12, <1>13 DEF Next, Run

\* HOST_ABI's status table and out-parameter contract for every accepted body:
\* each call, whatever happens in the body, is answered as the one atomic step
\* of CallContract; an array function with out parameters apart.
THEOREM BodiesHonourContract == ASSUME NoArrayOuts PROVE Spec => HonoursContract
<1>1. Init => Promise!Init
  BY InitMaps
<1>2. IInv /\ IInv' /\ [Next]_vars => [Promise!Call \/ Promise!Answer]_Promise!vars
  BY NextMaps
<1> QED
  BY <1>1, <1>2, InvAlways, PTL DEF Spec, HonoursContract, Promise!Spec

=============================================================================
