--------------------------- MODULE WideArithProofs ---------------------------
(***************************************************************************)
(* Proofs about WideArith, for any widths with WideHalf >= Half * Half, any   *)
(* finite or infinite set of expressions closed under operands, any array,    *)
(* and any call graphs in which no functions all call one another.           *)
(*                                                                          *)
(* The definitions over expressions are recursive: the first half shows that  *)
(* each is the function its definition says, by induction on Size.  The       *)
(* second relates what is emitted for a tree to what is emitted for its       *)
(* operands, and so to the tree's meaning.                                  *)
(***************************************************************************)
EXTENDS WideArith, WellFoundedInduction, TLAPS

-----------------------------------------------------------------------------
(* Natural numbers, with a set in place of a predicate.                       *)

LEMMA LeastNumber ==
  ASSUME NEW T \in SUBSET Nat, T # {}
  PROVE  \E x \in T : \A y \in T : x <= y
<1> DEFINE R == OpToRel(<, Nat)
<1>1. IsWellFoundedOn(R, Nat)
  BY NatLessThanWellFounded
<1>2. \A x, y \in Nat : <<x, y>> \in R <=> x < y
  BY DEF OpToRel
<1> HIDE DEF R
<1>3. PICK x \in T : \A y \in T : ~(<<y, x>> \in R)
  BY <1>1, WFMin
<1>4. ASSUME NEW y \in T
      PROVE  x <= y
  <2>1. x \in Nat /\ y \in Nat
    OBVIOUS
  <2>2. ~(y < x)
    BY <1>2, <1>3, <2>1
  <2> QED
    BY <2>1, <2>2
<1> QED
  BY <1>4

LEMMA Induction ==
  ASSUME NEW P \in SUBSET Nat, 0 \in P, \A j \in P : j + 1 \in P
  PROVE  \A j \in Nat : j \in P
<1> SUFFICES ASSUME NEW j \in Nat, j \notin P
             PROVE  FALSE
  OBVIOUS
<1> DEFINE T == Nat \ P
<1>1. T \in SUBSET Nat /\ T # {}
  OBVIOUS
<1>2. PICK x \in T : \A y \in T : x <= y
  BY <1>1, LeastNumber
<1>3. x \in Nat /\ x # 0 /\ x \notin P
  OBVIOUS
<1>4. x - 1 \in Nat /\ x - 1 + 1 = x
  BY <1>3
<1>5. x - 1 \notin T
  BY <1>2, <1>4
<1> QED
  BY <1>3, <1>4, <1>5

-----------------------------------------------------------------------------
(* Expressions are trees.                                                   *)

LEMMA Trees ==
  ASSUME NEW e \in Expressions
  PROVE  /\ e.op \in Kinds /\ Size[e] \in Nat
         /\ DOMAIN e.args = 1..Arity(e.op)
         /\ \A j \in DOMAIN e.args :
              e.args[j] \in Expressions /\ e.args[j].op # "<" /\ Size[e.args[j]] < Size[e]
         /\ e.op = "var" => e.name \in Vars
         /\ e.op = "call" => e.name \in Functions
<1>1. e.op \in Kinds /\ e.args \in Seq(Expressions) /\ Len(e.args) = Arity(e.op)
  BY TreesAssumption
<1>2. DOMAIN e.args = 1..Arity(e.op) /\ \A j \in DOMAIN e.args : e.args[j] \in Expressions
  BY <1>1
<1>3. \A j \in DOMAIN e.args : e.args[j].op # "<" /\ Size[e.args[j]] < Size[e]
  BY TreesAssumption
<1>4. Size[e] \in Nat
  BY TreesAssumption
<1> QED
  BY <1>1, <1>2, <1>3, <1>4, TreesAssumption

LEMMA Operands ==
  ASSUME NEW e \in Expressions
  PROVE  /\ e.op = "var" => Arity(e.op) = 0
         /\ e.op \in {"index", "call", "neg"} => Arity(e.op) = 1
         /\ e.op \in Operators \union {"<"} => Arity(e.op) = 2
         /\ Arity(e.op) \in 0..2
         /\ Arity(e.op) >= 1 => /\ 1 \in DOMAIN e.args /\ e.args[1] \in Expressions
                                /\ Size[e.args[1]] < Size[e] /\ e.args[1].op # "<"
         /\ Arity(e.op) = 2 => /\ 2 \in DOMAIN e.args /\ e.args[2] \in Expressions
                               /\ Size[e.args[2]] < Size[e] /\ e.args[2].op # "<"
<1>1. /\ e.op = "var" => Arity(e.op) = 0
      /\ e.op \in {"index", "call", "neg"} => Arity(e.op) = 1
      /\ e.op \in Operators \union {"<"} => Arity(e.op) = 2
      /\ e.op \in Kinds
  BY Trees DEF Arity, Operators
<1>2. Arity(e.op) \in 0..2
  BY <1>1 DEF Kinds
<1>3. DOMAIN e.args = 1..Arity(e.op)
  BY Trees
<1>4. Arity(e.op) >= 1 => 1 \in DOMAIN e.args
  BY <1>2, <1>3
<1>5. Arity(e.op) = 2 => 2 \in DOMAIN e.args
  BY <1>2, <1>3
<1> QED
  BY <1>1, <1>2, <1>4, <1>5, Trees

\* Induction over trees.
LEMMA TreeInduction ==
  ASSUME NEW P \in SUBSET Expressions,
         \A e \in Expressions : (\A j \in DOMAIN e.args : e.args[j] \in P) => e \in P
  PROVE  \A e \in Expressions : e \in P
<1> SUFFICES ASSUME NEW d \in Expressions, d \notin P PROVE FALSE
  OBVIOUS
<1> DEFINE T == {Size[e] : e \in Expressions \ P}
<1>1. \A e \in Expressions : Size[e] \in Nat
  BY Trees
<1>2. T \in SUBSET Nat /\ T # {}
  BY <1>1
<1>3. PICK x \in T : \A y \in T : x <= y
  BY <1>2, LeastNumber
<1>4. PICK e \in Expressions \ P : x = Size[e]
  OBVIOUS
<1>5. ASSUME NEW j \in DOMAIN e.args PROVE e.args[j] \in P
  <2>1. /\ e.args[j] \in Expressions /\ Size[e.args[j]] < Size[e]
        /\ Size[e.args[j]] \in Nat /\ Size[e] \in Nat
    BY <1>1, Trees
  <2>2. ~(Size[e] <= Size[e.args[j]])
    BY <2>1
  <2>3. Size[e.args[j]] \notin T
    BY <1>3, <1>4, <2>2
  <2> QED
    BY <2>1, <2>3
<1> QED
  BY <1>4, <1>5

\* A definition by recursion over trees: the step at e looks at the operands only.
OnOperands(V, step) ==
  /\ step \in [Expressions -> [[Expressions -> V] -> V]]
  /\ \A e \in Expressions, f, g \in [Expressions -> V] :
       (\A j \in DOMAIN e.args : f[e.args[j]] = g[e.args[j]]) => step[e][f] = step[e][g]

Solvable(V, step) ==
  \E f \in [Expressions -> V] : \A e \in Expressions : f[e] = step[e][f]

\* f is what the step says on the trees smaller than h.
SolvesBelow(f, h, step) == \A e \in Expressions : Size[e] < h => f[e] = step[e][f]

LEMMA SolutionsAgree ==
  ASSUME NEW V, NEW step, OnOperands(V, step), NEW h \in Nat,
         NEW f \in [Expressions -> V], NEW g \in [Expressions -> V],
         SolvesBelow(f, h, step), SolvesBelow(g, h, step)
  PROVE  \A e \in Expressions : Size[e] < h => f[e] = g[e]
<1> DEFINE P == {e \in Expressions : Size[e] < h => f[e] = g[e]}
<1>1. ASSUME NEW e \in Expressions, \A j \in DOMAIN e.args : e.args[j] \in P PROVE e \in P
  <2> SUFFICES ASSUME Size[e] < h PROVE f[e] = g[e]
    OBVIOUS
  <2>1. \A j \in DOMAIN e.args : Size[e.args[j]] < h
    <3>1. \A j \in DOMAIN e.args :
            e.args[j] \in Expressions /\ Size[e.args[j]] < Size[e] /\ Size[e.args[j]] \in Nat
      BY Trees
    <3>2. Size[e] \in Nat
      BY Trees
    <3> QED
      BY <3>1, <3>2
  <2>2. \A j \in DOMAIN e.args : f[e.args[j]] = g[e.args[j]]
    BY <1>1, <2>1
  <2>3. step[e][f] = step[e][g]
    BY <2>2 DEF OnOperands
  <2> QED
    BY <2>3 DEF SolvesBelow
<1>2. P \in SUBSET Expressions
  OBVIOUS
<1> HIDE DEF P
<1>3. \A e \in Expressions : e \in P
  BY <1>1, <1>2, TreeInduction
<1> QED
  BY <1>3 DEF P

\* Such a definition has a solution.
LEMMA TreeSolution ==
  ASSUME NEW V, V # {}, NEW step, OnOperands(V, step)
  PROVE  Solvable(V, step)
<1>0. \A e \in Expressions : /\ Size[e] \in Nat
                            /\ \A j \in DOMAIN e.args :
                                 e.args[j] \in Expressions /\ Size[e.args[j]] < Size[e]
  BY Trees
<1> DEFINE P == {h \in Nat : \E f \in [Expressions -> V] : SolvesBelow(f, h, step)}
<1>1. 0 \in P
  <2>1. PICK v \in V : TRUE
    OBVIOUS
  <2>2. /\ [e \in Expressions |-> v] \in [Expressions -> V]
        /\ SolvesBelow([e \in Expressions |-> v], 0, step)
    BY <1>0, <2>1 DEF SolvesBelow
  <2> QED
    BY <2>2
<1>2. ASSUME NEW h \in P PROVE h + 1 \in P
  <2>1. PICK f \in [Expressions -> V] : SolvesBelow(f, h, step)
    OBVIOUS
  <2> DEFINE g == [e \in Expressions |-> step[e][f]]
  <2>2. g \in [Expressions -> V]
    BY DEF OnOperands
  <2>3. ASSUME NEW e \in Expressions, Size[e] < h + 1 PROVE g[e] = step[e][g]
    <3>1. \A j \in DOMAIN e.args : e.args[j] \in Expressions /\ Size[e.args[j]] < h
      BY <1>0, <2>3
    <3>2. \A j \in DOMAIN e.args : f[e.args[j]] = g[e.args[j]]
      BY <2>1, <3>1 DEF SolvesBelow
    <3>3. g[e] = step[e][f]
      OBVIOUS
    <3> HIDE DEF g
    <3> QED
      BY <2>2, <3>2, <3>3 DEF OnOperands
  <2>4. SolvesBelow(g, h + 1, step)
    BY <2>3 DEF SolvesBelow
  <2> HIDE DEF g
  <2> QED
    BY <2>2, <2>4
<1>3. \A h \in Nat : h \in P
  <2>1. P \in SUBSET Nat
    OBVIOUS
  <2> HIDE DEF P
  <2> QED
    BY <1>1, <1>2, <2>1, Induction
<1> DEFINE Upto == [h \in Nat |-> CHOOSE f \in [Expressions -> V] : SolvesBelow(f, h, step)]
<1>4. \A h \in Nat : Upto[h] \in [Expressions -> V] /\ SolvesBelow(Upto[h], h, step)
  BY <1>3
<1> HIDE DEF Upto, P
<1> DEFINE F == [e \in Expressions |-> Upto[Size[e] + 1][e]]
<1>5. F \in [Expressions -> V]
  BY <1>0, <1>4
<1>6. ASSUME NEW e \in Expressions PROVE F[e] = step[e][F]
  <2> DEFINE u == Upto[Size[e] + 1]
  <2>1. u \in [Expressions -> V] /\ SolvesBelow(u, Size[e] + 1, step) /\ Size[e] \in Nat
    BY <1>0, <1>4
  <2>2. ASSUME NEW j \in DOMAIN e.args PROVE F[e.args[j]] = u[e.args[j]]
    <3> DEFINE c == e.args[j]  w == Upto[Size[c] + 1]
    <3>1. /\ c \in Expressions /\ Size[c] \in Nat /\ Size[c] < Size[e]
          /\ w \in [Expressions -> V] /\ SolvesBelow(w, Size[c] + 1, step)
      BY <1>0, <1>4
    <3>2. F[c] = w[c]
      BY <3>1
    <3> HIDE DEF w, u, F, c
    <3>3. SolvesBelow(u, Size[c] + 1, step)
      BY <1>0, <2>1, <3>1 DEF SolvesBelow
    <3>4. Size[c] + 1 \in Nat /\ Size[c] < Size[c] + 1
      BY <3>1
    <3>5. w[c] = u[c]
      BY <2>1, <3>1, <3>3, <3>4, SolutionsAgree
    <3> QED
      BY <3>2, <3>5 DEF c
  <2>3. F[e] = u[e]
    OBVIOUS
  <2> HIDE DEF u, F
  <2>4. step[e][u] = step[e][F]
    BY <1>5, <2>1, <2>2 DEF OnOperands
  <2>5. Size[e] < Size[e] + 1
    BY <2>1
  <2>6. u[e] = step[e][u]
    BY <2>1, <2>5 DEF SolvesBelow
  <2> QED
    BY <2>3, <2>4, <2>6
<1> HIDE DEF F
<1> QED
  BY <1>5, <1>6 DEF Solvable

-----------------------------------------------------------------------------
(* Outcomes.                                                                *)

Stopped == {"overflow", "range", "hang"}
Outcome == [stop : {"no"} \union Stopped, v : Int]

LEMMA Widths ==
  /\ Half \in Nat /\ WideHalf \in Nat /\ Half > 0
  /\ Int32 \subseteq Int64 /\ Int32 \subseteq Int /\ Int64 \subseteq Int /\ -1 \in Int32 /\ 0 \in Int32
<1>1. Half \in Nat /\ WideHalf \in Nat /\ Half > 0 /\ WideHalf >= Half * Half
  BY ConstantsAssumption
<1>2. Half * Half >= Half
  BY <1>1
<1>3. WideHalf >= Half
  BY <1>1, <1>2
<1> QED
  BY <1>1, <1>3 DEF Int32, Int64

LEMMA Outcomes ==
  /\ \A v \in Int : Ok(v) \in Outcome
  /\ \A how \in Stopped : Stop(how) \in Outcome
BY DEF Ok, Stop, Outcome, Stopped

LEMMA WrapTyped == ASSUME NEW v \in Int PROVE Wrap(v) \in Int32
<1>1. Half \in Nat /\ 2 * Half \in Nat /\ 2 * Half > 0 /\ v + Half \in Int
  BY Widths
<1>2. \A x \in Int, m \in Nat : m > 0 => x % m \in 0..(m - 1)
  OBVIOUS
<1>3. (v + Half) % (2 * Half) \in 0..(2 * Half - 1)
  BY <1>1, <1>2
<1> DEFINE w == (v + Half) % (2 * Half)
<1> HIDE DEF w
<1>4. w \in 0..(2 * Half - 1)
  BY <1>3 DEF w
<1>5. w - Half \in -Half..(Half - 1)
  BY <1>1, <1>4
<1> QED
  BY <1>5 DEF Wrap, Int32, w

LEMMA LoweredTyped == \A v \in Int : Lowered(v) \in Outcome
BY WrapTyped, Widths DEF Lowered, Ok, Stop, Outcome, Stopped

LEMMA WidthsTyped == \A v \in Int : Checked64(v) \in Outcome /\ Narrow(v) \in Outcome
BY DEF Checked64, Narrow, Ok, Stop, Outcome, Stopped

LEMMA ElementTyped == \A v \in Int : Element(v) \in Outcome
<1> SUFFICES ASSUME NEW v \in Int PROVE Element(v) \in Outcome
  OBVIOUS
<1>1. v + 1 \in DOMAIN Elements => Elements[v + 1] \in Int32
  BY ConstantsAssumption
<1>2. v + 1 \in DOMAIN Elements => Elements[v + 1] \in Int
  BY <1>1, Widths
<1>3. CASE v + 1 \in DOMAIN Elements
  BY <1>2, <1>3, Outcomes DEF Element
<1>4. CASE v + 1 \notin DOMAIN Elements
  BY <1>4, Outcomes DEF Element, Stopped
<1> QED
  BY <1>3, <1>4

LEMMA CalledTyped == \A f : \A v \in Int : Called(f, v) \in Outcome
BY LoweredTyped, Outcomes DEF Called, Stopped

LEMMA LessTyped == \A l, r : Less(l, r) \in Outcome
BY DEF Less, Ok, Outcome

LEMMA QuotientTyped == ASSUME NEW l \in Int, NEW r \in Int, r # 0 PROVE Quotient(l, r) \in Int
<1>1. Magnitude(l) \in Int /\ Magnitude(r) \in Nat /\ Magnitude(r) > 0
  BY DEF Magnitude
<1>2. \A x \in Int, m \in Nat : m > 0 => x \div m \in Int
  OBVIOUS
<1>3. Magnitude(l) \div Magnitude(r) \in Int
  BY <1>1, <1>2
<1> DEFINE q == Magnitude(l) \div Magnitude(r)
<1> HIDE DEF q
<1>4. q \in Int /\ -q \in Int
  BY <1>3 DEF q
<1> QED
  BY <1>4 DEF Quotient, q

LEMMA ArithTyped ==
  ASSUME NEW l \in Int, NEW r \in Int, NEW op \in Operators
  PROVE  Arith(op, l, r) \in Int
<1>1. CASE op = "+"
  BY <1>1 DEF Arith
<1>2. CASE op = "-"
  BY <1>2 DEF Arith
<1>3. CASE op = "*"
  BY <1>3 DEF Arith
<1>4. CASE op = "/"
  BY <1>4, QuotientTyped DEF Arith
<1>5. CASE op = "%"
  <2>1. Arith(op, l, r) = IF r = 0 THEN 0 ELSE l - r * Quotient(l, r)
    BY <1>5 DEF Arith
  <2>2. r # 0 => l - r * Quotient(l, r) \in Int
    BY QuotientTyped
  <2> QED
    BY <2>1, <2>2
<1> QED
  BY <1>1, <1>2, <1>3, <1>4, <1>5 DEF Operators

LEMMA SequenceTyped ==
  ASSUME NEW l \in Outcome, NEW r \in Outcome, NEW next \in Outcome
  PROVE  After(l, next) \in Outcome /\ Both(l, r, next) \in Outcome /\ l.v \in Int /\ r.v \in Int
BY DEF After, Both, Outcome


\* What is emitted depends on these variables and on no others.
LEMMA SameEmitted ==
  ASSUME UNCHANGED <<abi, whiles, calls, free, env>>
  PROVE  emitted' = emitted
BY SMTT(60) DEF emitted, emit, emit_expr, emit_exact, emit_wide, is_pure, is_i32_arith, After,
     Both, Lowered, Operators, Checked64, Narrow, Element, Called, Returns, Less, Ok, Stop, Arith,
     Wrap, Int32, Int64, Quotient, Magnitude, Subtrees
-----------------------------------------------------------------------------
(* The functions over trees: their values, and that they are what their       *)
(* definitions by recursion say.                                            *)

LEMMA SubtreesUnfold ==
  /\ Subtrees \in [Expressions -> SUBSET Expressions]
  /\ \A e \in Expressions : Subtrees[e] = {e} \union UNION {Subtrees[e.args[j]] : j \in DOMAIN e.args}
<1> DEFINE B(f) == [e \in Expressions |-> {e} \union UNION {f[e.args[j]] : j \in DOMAIN e.args}]
           step == [e \in Expressions |-> [f \in [Expressions -> SUBSET Expressions] |-> B(f)[e]]]
<1>1. \A e \in Expressions : \A j \in DOMAIN e.args : e.args[j] \in Expressions
  BY Trees
<1>2. \A f \in [Expressions -> SUBSET Expressions], e \in Expressions : B(f)[e] \in SUBSET Expressions
  BY <1>1
<1>3. OnOperands(SUBSET Expressions, step)
  <2>1. step \in [Expressions -> [[Expressions -> SUBSET Expressions] -> SUBSET Expressions]]
    BY <1>2
  <2>2. ASSUME NEW e \in Expressions,
               NEW f \in [Expressions -> SUBSET Expressions], NEW g \in [Expressions -> SUBSET Expressions],
               \A j \in DOMAIN e.args : f[e.args[j]] = g[e.args[j]]
        PROVE  step[e][f] = step[e][g]
    <3>1. {f[e.args[j]] : j \in DOMAIN e.args} = {g[e.args[j]] : j \in DOMAIN e.args}
      BY <2>2
    <3> QED
      BY <3>1
  <2> HIDE DEF step
  <2> QED
    BY <2>1, <2>2 DEF OnOperands
<1>4. SUBSET Expressions # {}
  OBVIOUS
<1> HIDE DEF step, B
<1>5. PICK f \in [Expressions -> SUBSET Expressions] : \A e \in Expressions : f[e] = step[e][f]
  <2>1. Solvable(SUBSET Expressions, step)
    BY <1>3, <1>4, TreeSolution
  <2> QED
    BY <2>1 DEF Solvable
<1>6. f = B(f)
  BY <1>5 DEF step, B
<1>7. Subtrees = B(Subtrees)
  BY <1>6 DEF Subtrees, B
<1>8. Subtrees = [e \in Expressions |-> B(Subtrees)[e]]
  BY <1>7 DEF B
<1>9. \A e \in Expressions : Subtrees[e] = {e} \union UNION {Subtrees[e.args[j]] : j \in DOMAIN e.args}
  BY <1>7 DEF B
<1> DEFINE P == {e \in Expressions : Subtrees[e] \subseteq Expressions}
<1>10. \A e \in Expressions : (\A j \in DOMAIN e.args : e.args[j] \in P) => e \in P
  BY <1>9
<1>11. P \in SUBSET Expressions
  OBVIOUS
<1> HIDE DEF P
<1>12. \A e \in Expressions : e \in P
  BY <1>10, <1>11, TreeInduction
<1>13. \A e \in Expressions : Subtrees[e] \subseteq Expressions
  BY <1>12 DEF P
<1> QED
  BY <1>8, <1>9, <1>13

\* What the variables of a call hold.
EnvTyped == env \in [Vars -> Int32]

LEMMA MeaningCases ==
  ASSUME NEW e \in Expressions, NEW l, NEW r
  PROVE  /\ e.op = "var"   => MeaningOf(e, l, r) = env[e.name]
         /\ e.op = "index" => MeaningOf(e, l, r) = Element(l).v
         /\ e.op = "call"  => MeaningOf(e, l, r) = Called(e.name, l).v
         /\ e.op = "neg"   => MeaningOf(e, l, r) = -l
         /\ e.op = "<"     => MeaningOf(e, l, r) = Less(l, r).v
         /\ e.op \in Operators => MeaningOf(e, l, r) = Arith(e.op, l, r)
BY DEF MeaningOf, Operators

LEMMA OfKinds ==
  ASSUME NEW e \in Expressions
  PROVE  e.op \in {"var", "index", "call", "neg", "<"} \/ e.op \in Operators
BY Trees DEF Kinds

LEMMA MeaningDepends ==
  ASSUME NEW e \in Expressions, NEW l, NEW r, NEW l2, NEW r2,
         Arity(e.op) >= 1 => l = l2, Arity(e.op) = 2 => r = r2
  PROVE  MeaningOf(e, l, r) = MeaningOf(e, l2, r2)
<1>1. CASE e.op = "var"
  BY <1>1, MeaningCases
<1>2. CASE e.op \in {"index", "call", "neg"}
  <2>1. l = l2
    BY <1>2, Operands
  <2> QED
    BY <1>2, <2>1, MeaningCases
<1>3. CASE e.op \in Operators \union {"<"}
  <2>1. l = l2 /\ r = r2
    BY <1>3, Operands
  <2> QED
    BY <2>1
<1> QED
  BY <1>1, <1>2, <1>3, OfKinds

LEMMA MeaningTyped ==
  ASSUME EnvTyped, NEW e \in Expressions, NEW l, NEW r,
         Arity(e.op) >= 1 => l \in Int, Arity(e.op) = 2 => r \in Int
  PROVE  MeaningOf(e, l, r) \in Int
<1>1. CASE e.op = "var"
  <2>1. MeaningOf(e, l, r) = env[e.name] /\ e.name \in Vars
    BY <1>1, MeaningCases, Trees
  <2> QED
    BY <2>1, Widths DEF EnvTyped
<1>2. CASE e.op = "index"
  <2>1. l \in Int
    BY <1>2, Operands
  <2> QED
    BY <1>2, <2>1, MeaningCases, ElementTyped DEF Outcome
<1>3. CASE e.op = "call"
  <2>1. l \in Int
    BY <1>3, Operands
  <2> QED
    BY <1>3, <2>1, MeaningCases, CalledTyped DEF Outcome
<1>4. CASE e.op = "neg"
  <2>1. l \in Int
    BY <1>4, Operands
  <2>2. -l \in Int
    BY <2>1
  <2> QED
    BY <1>4, <2>2, MeaningCases
<1>5. CASE e.op = "<"
  BY <1>5, MeaningCases, LessTyped DEF Outcome
<1>6. CASE e.op \in Operators
  <2>1. l \in Int /\ r \in Int
    BY <1>6, Operands
  <2> QED
    BY <1>6, <2>1, MeaningCases, ArithTyped
<1> QED
  BY <1>1, <1>2, <1>3, <1>4, <1>5, <1>6, OfKinds

LEMMA MeaningUnfold ==
  ASSUME EnvTyped
  PROVE  /\ Meaning \in [Expressions -> Int]
         /\ \A e \in Expressions : Meaning[e] = MeaningOf(e, Meaning[e.args[1]], Meaning[e.args[2]])
<1> DEFINE B(f) == [e \in Expressions |-> MeaningOf(e, f[e.args[1]], f[e.args[2]])]
           step == [e \in Expressions |-> [f \in [Expressions -> Int] |-> B(f)[e]]]
<1>1. \A f \in [Expressions -> Int], e \in Expressions : B(f)[e] \in Int
  <2> SUFFICES ASSUME NEW f \in [Expressions -> Int], NEW e \in Expressions
               PROVE  MeaningOf(e, f[e.args[1]], f[e.args[2]]) \in Int
    OBVIOUS
  <2>1. /\ Arity(e.op) >= 1 => f[e.args[1]] \in Int
        /\ Arity(e.op) = 2 => f[e.args[2]] \in Int
    BY Operands
  <2> QED
    BY <2>1, MeaningTyped
<1>2. OnOperands(Int, step)
  <2>1. step \in [Expressions -> [[Expressions -> Int] -> Int]]
    BY <1>1
  <2>2. ASSUME NEW e \in Expressions,
               NEW f \in [Expressions -> Int], NEW g \in [Expressions -> Int],
               \A j \in DOMAIN e.args : f[e.args[j]] = g[e.args[j]]
        PROVE  step[e][f] = step[e][g]
    <3>1. /\ Arity(e.op) >= 1 => f[e.args[1]] = g[e.args[1]]
          /\ Arity(e.op) = 2 => f[e.args[2]] = g[e.args[2]]
      BY <2>2, Operands
    <3>2. MeaningOf(e, f[e.args[1]], f[e.args[2]]) = MeaningOf(e, g[e.args[1]], g[e.args[2]])
      BY <3>1, MeaningDepends
    <3> QED
      BY <3>2
  <2> HIDE DEF step
  <2> QED
    BY <2>1, <2>2 DEF OnOperands
<1>3. Int # {}
  OBVIOUS
<1> HIDE DEF step, B
<1>4. PICK f \in [Expressions -> Int] : \A e \in Expressions : f[e] = step[e][f]
  <2>1. Solvable(Int, step)
    BY <1>2, <1>3, TreeSolution
  <2> QED
    BY <2>1 DEF Solvable
<1>5. f = B(f)
  BY <1>4 DEF step, B
<1>6. Meaning = B(Meaning)
  BY <1>5 DEF Meaning, B
<1>7. \A e \in Expressions : Meaning[e] = MeaningOf(e, Meaning[e.args[1]], Meaning[e.args[2]])
  BY <1>6 DEF B
<1> DEFINE P == {e \in Expressions : Meaning[e] \in Int}
<1>8. ASSUME NEW e \in Expressions, \A j \in DOMAIN e.args : e.args[j] \in P PROVE e \in P
  <2>1. /\ Arity(e.op) >= 1 => Meaning[e.args[1]] \in Int
        /\ Arity(e.op) = 2 => Meaning[e.args[2]] \in Int
    BY <1>8, Operands
  <2> QED
    BY <1>7, <2>1, MeaningTyped
<1>9. P \in SUBSET Expressions
  OBVIOUS
<1> HIDE DEF P
<1>10. \A e \in Expressions : e \in P
  BY <1>8, <1>9, TreeInduction
<1>11. \A e \in Expressions : Meaning[e] \in Int
  BY <1>10 DEF P
<1> QED
  BY <1>6, <1>7, <1>11 DEF B

LEMMA OutcomeInhabited == Outcome # {}
BY Outcomes

LEMMA EagerCases ==
  ASSUME NEW e \in Expressions, NEW l, NEW r
  PROVE  /\ e.op = "var"   => EagerOf(e, l, r) = Ok(env[e.name])
         /\ e.op = "index" => EagerOf(e, l, r) = After(l, Element(l.v))
         /\ e.op = "call"  => EagerOf(e, l, r) = After(l, Called(e.name, l.v))
         /\ e.op = "neg"   => EagerOf(e, l, r) = After(l, Lowered(-l.v))
         /\ e.op = "<"     => EagerOf(e, l, r) = Both(l, r, Less(l.v, r.v))
         /\ e.op \in Operators => EagerOf(e, l, r) = Both(l, r, Lowered(Arith(e.op, l.v, r.v)))
BY DEF EagerOf, Operators

LEMMA EagerDepends ==
  ASSUME NEW e \in Expressions, NEW l, NEW r, NEW l2, NEW r2,
         Arity(e.op) >= 1 => l = l2, Arity(e.op) = 2 => r = r2
  PROVE  EagerOf(e, l, r) = EagerOf(e, l2, r2)
<1>1. CASE e.op = "var"
  BY <1>1, EagerCases
<1>2. CASE e.op \in {"index", "call", "neg"}
  <2>1. l = l2
    BY <1>2, Operands
  <2> QED
    BY <1>2, <2>1, EagerCases
<1>3. CASE e.op \in Operators \union {"<"}
  <2>1. l = l2 /\ r = r2
    BY <1>3, Operands
  <2> QED
    BY <2>1
<1> QED
  BY <1>1, <1>2, <1>3, OfKinds

\* Outcomes of operands that have one.
LEMMA OperandValue ==
  /\ \A l \in Outcome : l.v \in Int /\ -l.v \in Int
  /\ \A l \in Outcome, next \in Outcome : After(l, next) \in Outcome
  /\ \A l \in Outcome, r \in Outcome, next \in Outcome : Both(l, r, next) \in Outcome
BY SequenceTyped DEF Outcome, After, Both

LEMMA EagerTyped ==
  ASSUME EnvTyped, NEW e \in Expressions, NEW l, NEW r,
         Arity(e.op) >= 1 => l \in Outcome, Arity(e.op) = 2 => r \in Outcome
  PROVE  EagerOf(e, l, r) \in Outcome
<1>1. CASE e.op = "var"
  <2>1. env[e.name] \in Int
    BY <1>1, Trees, Widths DEF EnvTyped
  <2> QED
    BY <1>1, <2>1, Outcomes, EagerCases
<1>2. CASE e.op \in {"index", "call", "neg"}
  <2>1. l \in Outcome
    BY <1>2, Operands
  <2>2. l.v \in Int /\ -l.v \in Int
    BY <2>1, OperandValue
  <2>3. /\ Element(l.v) \in Outcome /\ Called(e.name, l.v) \in Outcome /\ Lowered(-l.v) \in Outcome
    BY <2>2, ElementTyped, CalledTyped, LoweredTyped
  <2> QED
    BY <1>2, <2>1, <2>3, OperandValue, EagerCases
<1>3. CASE e.op = "<"
  <2>1. l \in Outcome /\ r \in Outcome
    BY <1>3, Operands
  <2>2. Less(l.v, r.v) \in Outcome
    BY LessTyped
  <2> QED
    BY <1>3, <2>1, <2>2, OperandValue, EagerCases
<1>4. CASE e.op \in Operators
  <2>1. l \in Outcome /\ r \in Outcome
    BY <1>4, Operands
  <2>2. l.v \in Int /\ r.v \in Int
    BY <2>1, OperandValue
  <2>3. Lowered(Arith(e.op, l.v, r.v)) \in Outcome
    BY <1>4, <2>2, ArithTyped, LoweredTyped
  <2> QED
    BY <1>4, <2>1, <2>3, OperandValue, EagerCases
<1> QED
  BY <1>1, <1>2, <1>3, <1>4, OfKinds

LEMMA EagerUnfold ==
  ASSUME EnvTyped
  PROVE  /\ Eager \in [Expressions -> Outcome]
         /\ \A e \in Expressions : Eager[e] = EagerOf(e, Eager[e.args[1]], Eager[e.args[2]])
<1> DEFINE B(f) == [e \in Expressions |-> EagerOf(e, f[e.args[1]], f[e.args[2]])]
           step == [e \in Expressions |-> [f \in [Expressions -> Outcome] |-> B(f)[e]]]
<1>1. \A f \in [Expressions -> Outcome], e \in Expressions : B(f)[e] \in Outcome
  <2> SUFFICES ASSUME NEW f \in [Expressions -> Outcome], NEW e \in Expressions
               PROVE  EagerOf(e, f[e.args[1]], f[e.args[2]]) \in Outcome
    OBVIOUS
  <2>1. /\ Arity(e.op) >= 1 => f[e.args[1]] \in Outcome
        /\ Arity(e.op) = 2 => f[e.args[2]] \in Outcome
    BY Operands
  <2> QED
    BY <2>1, EagerTyped
<1>2. OnOperands(Outcome, step)
  <2>1. step \in [Expressions -> [[Expressions -> Outcome] -> Outcome]]
    BY <1>1
  <2>2. ASSUME NEW e \in Expressions,
               NEW f \in [Expressions -> Outcome], NEW g \in [Expressions -> Outcome],
               \A j \in DOMAIN e.args : f[e.args[j]] = g[e.args[j]]
        PROVE  step[e][f] = step[e][g]
    <3>1. /\ Arity(e.op) >= 1 => f[e.args[1]] = g[e.args[1]]
          /\ Arity(e.op) = 2 => f[e.args[2]] = g[e.args[2]]
      BY <2>2, Operands
    <3>2. EagerOf(e, f[e.args[1]], f[e.args[2]]) = EagerOf(e, g[e.args[1]], g[e.args[2]])
      BY <3>1, EagerDepends
    <3> QED
      BY <3>2
  <2> HIDE DEF step
  <2> QED
    BY <2>1, <2>2 DEF OnOperands
<1>3. Outcome # {}
  BY OutcomeInhabited
<1> HIDE DEF step, B
<1>4. PICK f \in [Expressions -> Outcome] : \A e \in Expressions : f[e] = step[e][f]
  <2>1. Solvable(Outcome, step)
    BY <1>2, <1>3, TreeSolution
  <2> QED
    BY <2>1 DEF Solvable
<1>5. f = B(f)
  BY <1>4 DEF step, B
<1>6. Eager = B(Eager)
  BY <1>5 DEF Eager, B
<1>7. \A e \in Expressions : Eager[e] = EagerOf(e, Eager[e.args[1]], Eager[e.args[2]])
  BY <1>6 DEF B
<1> DEFINE P == {e \in Expressions : Eager[e] \in Outcome}
<1>8. ASSUME NEW e \in Expressions, \A j \in DOMAIN e.args : e.args[j] \in P PROVE e \in P
  <2>1. /\ Arity(e.op) >= 1 => Eager[e.args[1]] \in Outcome
        /\ Arity(e.op) = 2 => Eager[e.args[2]] \in Outcome
    BY <1>8, Operands
  <2>2. EagerOf(e, Eager[e.args[1]], Eager[e.args[2]]) \in Outcome
    BY <2>1, EagerTyped
  <2> QED
    BY <1>7, <2>2
<1>9. P \in SUBSET Expressions
  OBVIOUS
<1> HIDE DEF P
<1>10. \A e \in Expressions : e \in P
  BY <1>8, <1>9, TreeInduction
<1>11. \A e \in Expressions : Eager[e] \in Outcome
  BY <1>10 DEF P
<1> QED
  BY <1>6, <1>7, <1>11 DEF B

TwoWidths == {"i32", "i64"}
Pairs     == [TwoWidths -> Outcome]

LEMMA PairsInhabited == Pairs # {}
<1>1. PICK o \in Outcome : TRUE
  BY OutcomeInhabited
<1>2. [width \in TwoWidths |-> o] \in Pairs
  BY <1>1 DEF Pairs
<1> QED
  BY <1>2

LEMMA WideShape ==
  ASSUME NEW e
  PROVE  /\ is_i32_arith(e) <=> e.op \in Operators \/ e.op = "neg"
         /\ emit_wide(e) => is_i32_arith(e) \/ e.op = "<"
         /\ e.op \in {"var", "index", "call", "<"} => ~is_i32_arith(e)
         /\ e.op \in {"var", "index", "call"} => ~emit_wide(e)
BY DEF is_i32_arith, emit_wide, Operators

LEMMA ExactCases ==
  ASSUME NEW e, NEW l, NEW r
  PROVE  /\ e.op = "neg" => emit_exact(e, l, r) = After(l["i64"], Checked64(-l["i64"].v))
         /\ e.op \in Operators =>
              emit_exact(e, l, r) =
                Both(l["i64"], r["i64"], Checked64(Arith(e.op, l["i64"].v, r["i64"].v)))
BY DEF emit_exact, Operators

LEMMA ExprCases ==
  ASSUME NEW e, NEW l, NEW r
  PROVE  /\ e.op = "var"   => emit_expr(e, l, r) = Ok(env[e.name])
         /\ e.op = "index" => emit_expr(e, l, r) = After(l["i32"], Element(l["i32"].v))
         /\ e.op = "call"  => emit_expr(e, l, r) = After(l["i32"], Called(e.name, l["i32"].v))
         /\ e.op = "neg" /\ ~emit_wide(e) =>
              emit_expr(e, l, r) = After(l["i32"], Lowered(-l["i32"].v))
         /\ e.op = "<" /\ ~emit_wide(e) =>
              emit_expr(e, l, r) = Both(l["i32"], r["i32"], Less(l["i32"].v, r["i32"].v))
         /\ e.op \in Operators /\ ~emit_wide(e) =>
              emit_expr(e, l, r) =
                Both(l["i32"], r["i32"], Lowered(Arith(e.op, l["i32"].v, r["i32"].v)))
         /\ e.op = "<" /\ emit_wide(e) =>
              emit_expr(e, l, r) = Both(l["i64"], r["i64"], Less(l["i64"].v, r["i64"].v))
         /\ is_i32_arith(e) /\ emit_wide(e) =>
              emit_expr(e, l, r) = After(emit_exact(e, l, r), Narrow(emit_exact(e, l, r).v))
<1>1. e.op = "var"   => emit_expr(e, l, r) = Ok(env[e.name])
  BY WideShape DEF emit_expr
<1>2. e.op = "index" => emit_expr(e, l, r) = After(l["i32"], Element(l["i32"].v))
  BY WideShape DEF emit_expr
<1>3. e.op = "call"  => emit_expr(e, l, r) = After(l["i32"], Called(e.name, l["i32"].v))
  BY WideShape DEF emit_expr
<1>4. e.op = "neg" /\ ~emit_wide(e) =>
              emit_expr(e, l, r) = After(l["i32"], Lowered(-l["i32"].v))
  BY DEF emit_expr
<1>5. e.op = "<" /\ ~emit_wide(e) =>
              emit_expr(e, l, r) = Both(l["i32"], r["i32"], Less(l["i32"].v, r["i32"].v))
  BY DEF emit_expr
<1>6. e.op \in Operators /\ ~emit_wide(e) =>
              emit_expr(e, l, r) =
                Both(l["i32"], r["i32"], Lowered(Arith(e.op, l["i32"].v, r["i32"].v)))
  BY DEF emit_expr, Operators
<1>7. e.op = "<" /\ emit_wide(e) =>
              emit_expr(e, l, r) = Both(l["i64"], r["i64"], Less(l["i64"].v, r["i64"].v))
  BY DEF emit_expr
<1>8. is_i32_arith(e) /\ emit_wide(e) =>
              emit_expr(e, l, r) = After(emit_exact(e, l, r), Narrow(emit_exact(e, l, r).v))
  BY WideShape DEF emit_expr
<1> QED
  BY <1>1, <1>2, <1>3, <1>4, <1>5, <1>6, <1>7, <1>8

LEMMA ExactDepends ==
  ASSUME NEW e \in Expressions, is_i32_arith(e), NEW l, NEW r, NEW l2, NEW r2,
         Arity(e.op) >= 1 => l = l2, Arity(e.op) = 2 => r = r2
  PROVE  emit_exact(e, l, r) = emit_exact(e, l2, r2)
<1>1. CASE e.op = "neg"
  BY <1>1, Operands, ExactCases
<1>2. CASE e.op \in Operators
  BY <1>2, Operands, ExactCases
<1> QED
  BY <1>1, <1>2, WideShape

LEMMA ExprDepends ==
  ASSUME NEW e \in Expressions, NEW l, NEW r, NEW l2, NEW r2,
         Arity(e.op) >= 1 => l = l2, Arity(e.op) = 2 => r = r2
  PROVE  emit_expr(e, l, r) = emit_expr(e, l2, r2)
<1>1. CASE e.op = "var"
  BY <1>1, ExprCases
<1>2. CASE e.op \in {"index", "call"}
  <2>1. l = l2
    BY <1>2, Operands
  <2> QED
    BY <1>2, <2>1, ExprCases
<1>3. CASE e.op = "neg"
  <2>1. l = l2
    BY <1>3, Operands
  <2>2. is_i32_arith(e)
    BY <1>3, WideShape
  <2>3. CASE emit_wide(e)
    <3>1. emit_exact(e, l, r) = emit_exact(e, l2, r2)
      BY <2>2, ExactDepends
    <3> QED
      BY <2>2, <2>3, <3>1, ExprCases
  <2>4. CASE ~emit_wide(e)
    BY <1>3, <2>1, <2>4, ExprCases
  <2> QED
    BY <2>3, <2>4
<1>4. CASE e.op \in Operators \union {"<"}
  <2>1. l = l2 /\ r = r2
    BY <1>4, Operands
  <2> QED
    BY <2>1
<1> QED
  BY <1>1, <1>2, <1>3, <1>4, OfKinds

LEMMA EmitPairDepends ==
  ASSUME NEW e \in Expressions, NEW l, NEW r, NEW l2, NEW r2,
         Arity(e.op) >= 1 => l = l2, Arity(e.op) = 2 => r = r2
  PROVE  [width \in TwoWidths |-> emit(e, width, l, r)]
       = [width \in TwoWidths |-> emit(e, width, l2, r2)]
<1>1. emit_expr(e, l, r) = emit_expr(e, l2, r2)
  BY ExprDepends
<1>2. is_i32_arith(e) => emit_exact(e, l, r) = emit_exact(e, l2, r2)
  BY ExactDepends
<1>3. \A width : emit(e, width, l, r) = emit(e, width, l2, r2)
  BY <1>1, <1>2 DEF emit
<1> QED
  BY <1>3

LEMMA ExactTyped ==
  ASSUME NEW e \in Expressions, is_i32_arith(e), NEW l, NEW r,
         Arity(e.op) >= 1 => l["i64"] \in Outcome, Arity(e.op) = 2 => r["i64"] \in Outcome
  PROVE  emit_exact(e, l, r) \in Outcome
<1>1. CASE e.op = "neg"
  <2>1. l["i64"] \in Outcome
    BY <1>1, Operands
  <2>2. -l["i64"].v \in Int
    BY <2>1, OperandValue
  <2>3. Checked64(-l["i64"].v) \in Outcome
    BY <2>2, WidthsTyped
  <2> QED
    BY <1>1, <2>1, <2>3, OperandValue, ExactCases
<1>2. CASE e.op \in Operators
  <2>1. l["i64"] \in Outcome /\ r["i64"] \in Outcome
    BY <1>2, Operands
  <2>2. l["i64"].v \in Int /\ r["i64"].v \in Int
    BY <2>1, OperandValue
  <2>3. Checked64(Arith(e.op, l["i64"].v, r["i64"].v)) \in Outcome
    BY <1>2, <2>2, ArithTyped, WidthsTyped
  <2> QED
    BY <1>2, <2>1, <2>3, OperandValue, ExactCases
<1> QED
  BY <1>1, <1>2, WideShape

LEMMA ExprTyped ==
  ASSUME EnvTyped, NEW e \in Expressions, NEW l, NEW r,
         Arity(e.op) >= 1 => l \in Pairs, Arity(e.op) = 2 => r \in Pairs
  PROVE  emit_expr(e, l, r) \in Outcome
<1>0. /\ Arity(e.op) >= 1 => l["i32"] \in Outcome /\ l["i64"] \in Outcome
      /\ Arity(e.op) = 2 => r["i32"] \in Outcome /\ r["i64"] \in Outcome
  BY DEF Pairs, TwoWidths
<1>1. CASE e.op = "var"
  <2>1. env[e.name] \in Int
    BY <1>1, Trees, Widths DEF EnvTyped
  <2> QED
    BY <1>1, <2>1, Outcomes, ExprCases
<1>2. CASE e.op \in {"index", "call"}
  <2>1. l["i32"] \in Outcome
    BY <1>0, <1>2, Operands
  <2>2. l["i32"].v \in Int
    BY <2>1, OperandValue
  <2>3. Element(l["i32"].v) \in Outcome /\ Called(e.name, l["i32"].v) \in Outcome
    BY <2>2, ElementTyped, CalledTyped
  <2> QED
    BY <1>2, <2>1, <2>3, OperandValue, ExprCases
<1>3. CASE e.op = "<"
  <2>1. l["i32"] \in Outcome /\ r["i32"] \in Outcome /\ l["i64"] \in Outcome /\ r["i64"] \in Outcome
    BY <1>0, <1>3, Operands
  <2>2. \A x, y : Less(x, y) \in Outcome
    BY LessTyped
  <2> QED
    BY <1>3, <2>1, <2>2, OperandValue, ExprCases
<1>4. CASE is_i32_arith(e) /\ emit_wide(e)
  <2>1. emit_exact(e, l, r) \in Outcome
    BY <1>0, <1>4, ExactTyped
  <2>2. Narrow(emit_exact(e, l, r).v) \in Outcome
    BY <2>1, OperandValue, WidthsTyped
  <2> QED
    BY <1>4, <2>1, <2>2, OperandValue, ExprCases
<1>5. CASE e.op = "neg" /\ ~emit_wide(e)
  <2>1. l["i32"] \in Outcome
    BY <1>0, <1>5, Operands
  <2>2. Lowered(-l["i32"].v) \in Outcome
    BY <2>1, OperandValue, LoweredTyped
  <2> QED
    BY <1>5, <2>1, <2>2, OperandValue, ExprCases
<1>6. CASE e.op \in Operators /\ ~emit_wide(e)
  <2>1. l["i32"] \in Outcome /\ r["i32"] \in Outcome
    BY <1>0, <1>6, Operands
  <2>2. l["i32"].v \in Int /\ r["i32"].v \in Int
    BY <2>1, OperandValue
  <2>3. Lowered(Arith(e.op, l["i32"].v, r["i32"].v)) \in Outcome
    BY <1>6, <2>2, ArithTyped, LoweredTyped
  <2> QED
    BY <1>6, <2>1, <2>3, OperandValue, ExprCases
<1> QED
  BY <1>1, <1>2, <1>3, <1>4, <1>5, <1>6, OfKinds, WideShape

LEMMA EmitPairTyped ==
  ASSUME EnvTyped, NEW e \in Expressions, NEW l, NEW r,
         Arity(e.op) >= 1 => l \in Pairs, Arity(e.op) = 2 => r \in Pairs
  PROVE  [width \in TwoWidths |-> emit(e, width, l, r)] \in Pairs
<1>1. emit_expr(e, l, r) \in Outcome
  BY ExprTyped
<1>2. is_i32_arith(e) => emit_exact(e, l, r) \in Outcome
  BY ExactTyped DEF Pairs, TwoWidths
<1>3. \A width : emit(e, width, l, r) \in Outcome
  BY <1>1, <1>2 DEF emit
<1> QED
  BY <1>3 DEF Pairs

LEMMA EmittedUnfold ==
  ASSUME EnvTyped
  PROVE  /\ emitted \in [Expressions -> Pairs]
         /\ \A e \in Expressions :
              emitted[e] = [width \in TwoWidths |-> emit(e, width, emitted[e.args[1]], emitted[e.args[2]])]
<1> DEFINE B(f) ==
             [e \in Expressions |-> [width \in TwoWidths |-> emit(e, width, f[e.args[1]], f[e.args[2]])]]
           step == [e \in Expressions |-> [f \in [Expressions -> Pairs] |-> B(f)[e]]]
<1>1. \A f \in [Expressions -> Pairs], e \in Expressions : B(f)[e] \in Pairs
  <2> SUFFICES ASSUME NEW f \in [Expressions -> Pairs], NEW e \in Expressions
               PROVE  [width \in TwoWidths |-> emit(e, width, f[e.args[1]], f[e.args[2]])] \in Pairs
    OBVIOUS
  <2>1. /\ Arity(e.op) >= 1 => f[e.args[1]] \in Pairs
        /\ Arity(e.op) = 2 => f[e.args[2]] \in Pairs
    BY Operands
  <2> QED
    BY <2>1, EmitPairTyped
<1>2. OnOperands(Pairs, step)
  <2>1. step \in [Expressions -> [[Expressions -> Pairs] -> Pairs]]
    BY <1>1
  <2>2. ASSUME NEW e \in Expressions,
               NEW f \in [Expressions -> Pairs], NEW g \in [Expressions -> Pairs],
               \A j \in DOMAIN e.args : f[e.args[j]] = g[e.args[j]]
        PROVE  step[e][f] = step[e][g]
    <3>1. /\ Arity(e.op) >= 1 => f[e.args[1]] = g[e.args[1]]
          /\ Arity(e.op) = 2 => f[e.args[2]] = g[e.args[2]]
      BY <2>2, Operands
    <3>2. [width \in TwoWidths |-> emit(e, width, f[e.args[1]], f[e.args[2]])]
        = [width \in TwoWidths |-> emit(e, width, g[e.args[1]], g[e.args[2]])]
      BY <3>1, EmitPairDepends
    <3> QED
      BY <3>2
  <2> HIDE DEF step
  <2> QED
    BY <2>1, <2>2 DEF OnOperands
<1>3. Pairs # {}
  BY PairsInhabited
<1> HIDE DEF step, B
<1>4. PICK f \in [Expressions -> Pairs] : \A e \in Expressions : f[e] = step[e][f]
  <2>1. Solvable(Pairs, step)
    BY <1>2, <1>3, TreeSolution
  <2> QED
    BY <2>1 DEF Solvable
<1>5. f = B(f)
  BY <1>4 DEF step, B
<1>6. emitted = B(emitted)
  BY <1>5 DEF emitted, B, TwoWidths
<1>7. \A e \in Expressions :
        emitted[e] = [width \in TwoWidths |-> emit(e, width, emitted[e.args[1]], emitted[e.args[2]])]
  BY <1>6 DEF B
<1> DEFINE P == {e \in Expressions : emitted[e] \in Pairs}
<1>8. ASSUME NEW e \in Expressions, \A j \in DOMAIN e.args : e.args[j] \in P PROVE e \in P
  <2>1. /\ Arity(e.op) >= 1 => emitted[e.args[1]] \in Pairs
        /\ Arity(e.op) = 2 => emitted[e.args[2]] \in Pairs
    BY <1>8, Operands
  <2>2. [width \in TwoWidths |-> emit(e, width, emitted[e.args[1]], emitted[e.args[2]])] \in Pairs
    BY <2>1, EmitPairTyped
  <2> QED
    BY <1>7, <2>2
<1>9. P \in SUBSET Expressions
  OBVIOUS
<1> HIDE DEF P
<1>10. \A e \in Expressions : e \in P
  BY <1>8, <1>9, TreeInduction
<1>11. \A e \in Expressions : emitted[e] \in Pairs
  BY <1>10 DEF P
<1> QED
  BY <1>6, <1>7, <1>11 DEF B

Ways  == {"no"} \union Stopped
Stops == [BOOLEAN -> Ways]

LEMMA StopsInhabited == Stops # {}
<1>1. [inside \in BOOLEAN |-> "no"] \in Stops
  BY DEF Stops, Ways
<1> QED
  BY <1>1

LEMMA FirstCases ==
  ASSUME NEW e, NEW inside, NEW l, NEW r
  PROVE  /\ Arity(e.op) = 0 => FirstOf(e, inside, l, r) = OwnStop(e, inside)
         /\ Arity(e.op) = 1 => FirstOf(e, inside, l, r) = First(l[Deferred(e)], OwnStop(e, inside))
         /\ Arity(e.op) = 2 =>
              FirstOf(e, inside, l, r) =
                First(l[Deferred(e)], First(r[Deferred(e)], OwnStop(e, inside)))
<1> DEFINE n == Arity(e.op)
<1>1. n = 0 => n # 1 /\ n # 2
  OBVIOUS
<1>2. n = 1 => n # 0 /\ n # 2
  OBVIOUS
<1>3. n = 2 => n # 0 /\ n # 1
  OBVIOUS
<1> QED
  BY <1>1, <1>2, <1>3 DEF FirstOf

LEMMA FirstDepends ==
  ASSUME NEW e \in Expressions, NEW l, NEW r, NEW l2, NEW r2,
         Arity(e.op) >= 1 => l = l2, Arity(e.op) = 2 => r = r2
  PROVE  [inside \in BOOLEAN |-> FirstOf(e, inside, l, r)]
       = [inside \in BOOLEAN |-> FirstOf(e, inside, l2, r2)]
<1>1. Arity(e.op) \in 0..2
  BY Operands
<1>2. ASSUME NEW inside \in BOOLEAN PROVE FirstOf(e, inside, l, r) = FirstOf(e, inside, l2, r2)
  <2>1. CASE Arity(e.op) = 0
    BY <2>1, FirstCases
  <2>2. CASE Arity(e.op) = 1
    BY <2>2, FirstCases
  <2>3. CASE Arity(e.op) = 2
    BY <2>3, FirstCases
  <2> QED
    BY <1>1, <2>1, <2>2, <2>3
<1> QED
  BY <1>2

LEMMA OwnTyped ==
  ASSUME EnvTyped, NEW e \in Expressions, NEW inside \in BOOLEAN
  PROVE  OwnStop(e, inside) \in Ways
<1>0. \A o \in Outcome : o.stop \in Ways
  BY DEF Outcome, Ways
<1>1. CASE e.op \in {"index", "call"}
  <2>1. Meaning[e.args[1]] \in Int
    BY <1>1, Operands, MeaningUnfold
  <2>2. Element(Meaning[e.args[1]]) \in Outcome /\ Called(e.name, Meaning[e.args[1]]) \in Outcome
    BY <2>1, ElementTyped, CalledTyped
  <2>3. Element(Meaning[e.args[1]]).stop \in Ways /\ Called(e.name, Meaning[e.args[1]]).stop \in Ways
    BY <1>0, <2>2
  <2>4. CASE e.op = "index"
    BY <2>3, <2>4, WideShape DEF OwnStop
  <2>5. CASE e.op = "call"
    BY <2>3, <2>5, WideShape DEF OwnStop
  <2> QED
    BY <1>1, <2>4, <2>5
<1>2. CASE is_i32_arith(e)
  <2>1. Lowered(Meaning[e]) \in Outcome
    BY MeaningUnfold, LoweredTyped
  <2>2. Lowered(Meaning[e]).stop \in Ways
    BY <1>0, <2>1
  <2>3. e.op \notin {"index", "call"}
    BY <1>2, WideShape
  <2> QED
    BY <1>2, <2>2, <2>3 DEF OwnStop, Ways
<1>3. CASE e.op \notin {"index", "call"} /\ ~is_i32_arith(e)
  BY <1>3 DEF OwnStop, Ways
<1> QED
  BY <1>1, <1>2, <1>3

LEMMA FirstStopTyped ==
  ASSUME EnvTyped, NEW e \in Expressions, NEW l, NEW r,
         Arity(e.op) >= 1 => l \in Stops, Arity(e.op) = 2 => r \in Stops
  PROVE  [inside \in BOOLEAN |-> FirstOf(e, inside, l, r)] \in Stops
<1>0. \A x, y \in Ways : First(x, y) \in Ways
  BY DEF First
<1>1. Arity(e.op) \in 0..2
  BY Operands
<1>2. Deferred(e) \in BOOLEAN
  BY DEF Deferred
<1>3. ASSUME NEW inside \in BOOLEAN PROVE FirstOf(e, inside, l, r) \in Ways
  <2>0. OwnStop(e, inside) \in Ways
    BY OwnTyped
  <2>1. CASE Arity(e.op) = 0
    BY <2>0, <2>1, FirstCases
  <2>2. CASE Arity(e.op) = 1
    <3>1. l[Deferred(e)] \in Ways
      BY <1>2, <2>2 DEF Stops
    <3> QED
      BY <1>0, <2>0, <2>2, <3>1, FirstCases
  <2>3. CASE Arity(e.op) = 2
    <3>1. l[Deferred(e)] \in Ways /\ r[Deferred(e)] \in Ways
      BY <1>2, <2>3 DEF Stops
    <3>2. First(r[Deferred(e)], OwnStop(e, inside)) \in Ways
      BY <1>0, <2>0, <3>1
    <3> QED
      BY <1>0, <2>3, <3>1, <3>2, FirstCases
  <2> QED
    BY <1>1, <2>1, <2>2, <2>3
<1> QED
  BY <1>3 DEF Stops

LEMMA FirstStopUnfold ==
  ASSUME EnvTyped
  PROVE  /\ FirstStop \in [Expressions -> Stops]
         /\ \A e \in Expressions :
              FirstStop[e] =
                [inside \in BOOLEAN |-> FirstOf(e, inside, FirstStop[e.args[1]], FirstStop[e.args[2]])]
<1> DEFINE B(f) ==
             [e \in Expressions |->
                [inside \in BOOLEAN |-> FirstOf(e, inside, f[e.args[1]], f[e.args[2]])]]
           step == [e \in Expressions |-> [f \in [Expressions -> Stops] |-> B(f)[e]]]
<1>1. \A f \in [Expressions -> Stops], e \in Expressions : B(f)[e] \in Stops
  <2> SUFFICES ASSUME NEW f \in [Expressions -> Stops], NEW e \in Expressions
               PROVE  [inside \in BOOLEAN |-> FirstOf(e, inside, f[e.args[1]], f[e.args[2]])] \in Stops
    OBVIOUS
  <2>1. /\ Arity(e.op) >= 1 => f[e.args[1]] \in Stops
        /\ Arity(e.op) = 2 => f[e.args[2]] \in Stops
    BY Operands
  <2> QED
    BY <2>1, FirstStopTyped
<1>2. OnOperands(Stops, step)
  <2>1. step \in [Expressions -> [[Expressions -> Stops] -> Stops]]
    BY <1>1
  <2>2. ASSUME NEW e \in Expressions,
               NEW f \in [Expressions -> Stops], NEW g \in [Expressions -> Stops],
               \A j \in DOMAIN e.args : f[e.args[j]] = g[e.args[j]]
        PROVE  step[e][f] = step[e][g]
    <3>1. /\ Arity(e.op) >= 1 => f[e.args[1]] = g[e.args[1]]
          /\ Arity(e.op) = 2 => f[e.args[2]] = g[e.args[2]]
      BY <2>2, Operands
    <3>2. [inside \in BOOLEAN |-> FirstOf(e, inside, f[e.args[1]], f[e.args[2]])]
        = [inside \in BOOLEAN |-> FirstOf(e, inside, g[e.args[1]], g[e.args[2]])]
      BY <3>1, FirstDepends
    <3> QED
      BY <3>2
  <2> HIDE DEF step
  <2> QED
    BY <2>1, <2>2 DEF OnOperands
<1>3. Stops # {}
  BY StopsInhabited
<1> HIDE DEF step, B
<1>4. PICK f \in [Expressions -> Stops] : \A e \in Expressions : f[e] = step[e][f]
  <2>1. Solvable(Stops, step)
    BY <1>2, <1>3, TreeSolution
  <2> QED
    BY <2>1 DEF Solvable
<1>5. f = B(f)
  BY <1>4 DEF step, B
<1>6. FirstStop = B(FirstStop)
  BY <1>5 DEF FirstStop, B
<1>7. \A e \in Expressions :
        FirstStop[e] =
          [inside \in BOOLEAN |-> FirstOf(e, inside, FirstStop[e.args[1]], FirstStop[e.args[2]])]
  BY <1>6 DEF B
<1> DEFINE P == {e \in Expressions : FirstStop[e] \in Stops}
<1>8. ASSUME NEW e \in Expressions, \A j \in DOMAIN e.args : e.args[j] \in P PROVE e \in P
  <2>1. /\ Arity(e.op) >= 1 => FirstStop[e.args[1]] \in Stops
        /\ Arity(e.op) = 2 => FirstStop[e.args[2]] \in Stops
    BY <1>8, Operands
  <2>2. [inside \in BOOLEAN |-> FirstOf(e, inside, FirstStop[e.args[1]], FirstStop[e.args[2]])] \in Stops
    BY <2>1, FirstStopTyped
  <2> QED
    BY <1>7, <2>2
<1>9. P \in SUBSET Expressions
  OBVIOUS
<1> HIDE DEF P
<1>10. \A e \in Expressions : e \in P
  BY <1>8, <1>9, TreeInduction
<1>11. \A e \in Expressions : FirstStop[e] \in Stops
  BY <1>10 DEF P
<1> QED
  BY <1>6, <1>7, <1>11 DEF B

-----------------------------------------------------------------------------
(* What the compiler defers is what can only overflow.                      *)

\* loop_free_functions, under way and when it is done.
FreeReturn == \A f \in free : f \notin whiles /\ calls[f] \subseteq free
FreeIsAll  == \A f \in Functions : ~Joins(f)

Compiled ==
  /\ abi \in {"plain", "fallible"} /\ calls \in CallGraphs
  /\ free \subseteq Functions /\ FreeReturn /\ FreeIsAll
  /\ EnvTyped

LEMMA FreeIsLoopFree ==
  ASSUME Compiled, NEW f \in Functions
  PROVE  f \in free <=> Returns(f)
<1>1. calls \in [Functions -> SUBSET Functions]
  BY CallsAssumption DEF Compiled
<1>2. ASSUME f \in free PROVE Returns(f)
  <2>1. free \in SUBSET (Functions \ whiles) /\ f \in free /\ \A g \in free : calls[g] \subseteq free
    BY <1>2 DEF Compiled, FreeReturn
  <2> QED
    BY <2>1 DEF Returns
<1>3. ASSUME Returns(f), f \notin free PROVE FALSE
  <2>1. PICK F \in SUBSET (Functions \ whiles) : f \in F /\ \A g \in F : calls[g] \subseteq F
    BY <1>3 DEF Returns
  <2> DEFINE S == F \ free
  <2>2. S \in (SUBSET Functions) \ {{}}
    BY <1>3, <2>1
  <2> HIDE DEF S
  <2>3. PICK g \in S : calls[g] \intersect S = {}
    BY <2>2, CallsAssumption DEF Compiled
  <2>4. g \in F /\ g \in Functions /\ g \notin free /\ g \notin whiles /\ calls[g] \subseteq F
    BY <2>1, <2>3 DEF S
  <2>5. calls[g] \subseteq free
    BY <2>3, <2>4 DEF S
  <2>6. Joins(g)
    BY <2>4, <2>5 DEF Joins
  <2> QED
    BY <2>4, <2>6 DEF Compiled, FreeIsAll
<1> QED
  BY <1>2, <1>3

LEMMA LoweredStops == ASSUME NEW v PROVE Lowered(v).stop \in {"no", "overflow"}
BY DEF Lowered, Ok, Stop

LEMMA ReturnsNeverHangs ==
  ASSUME NEW f
  PROVE  Returns(f) <=> \A v \in Int32 : Called(f, v).stop # "hang"
<1>1. ASSUME Returns(f), NEW v \in Int32 PROVE Called(f, v).stop # "hang"
  <2>1. Called(f, v) = Lowered(v + 1)
    BY <1>1 DEF Called
  <2>2. Lowered(v + 1).stop \in {"no", "overflow"}
    BY LoweredStops
  <2> QED
    BY <2>1, <2>2
<1>2. ASSUME ~Returns(f) PROVE Called(f, -1).stop = "hang"
  <2>1. -1 < 0
    OBVIOUS
  <2>2. Called(f, -1) = Stop("hang")
    BY <1>2, <2>1 DEF Called
  <2> QED
    BY <2>2 DEF Stop
<1> QED
  BY <1>1, <1>2, Widths

LEMMA OperandsCompareNothing ==
  \A e \in Expressions : \A t \in Subtrees[e] : t \in Expressions /\ (t = e \/ t.op # "<")
<1> DEFINE P == {e \in Expressions : \A t \in Subtrees[e] : t = e \/ t.op # "<"}
<1>1. ASSUME NEW e \in Expressions, \A j \in DOMAIN e.args : e.args[j] \in P PROVE e \in P
  <2> SUFFICES ASSUME NEW t \in Subtrees[e], t # e PROVE t.op # "<"
    OBVIOUS
  <2>1. PICK j \in DOMAIN e.args : t \in Subtrees[e.args[j]]
    BY SubtreesUnfold
  <2>2. t = e.args[j] \/ t.op # "<"
    BY <1>1, <2>1
  <2>3. e.args[j].op # "<"
    BY Trees
  <2> QED
    BY <2>2, <2>3
<1>2. P \in SUBSET Expressions
  OBVIOUS
<1> HIDE DEF P
<1>3. \A e \in Expressions : e \in P
  BY <1>1, <1>2, TreeInduction
<1> QED
  BY <1>3, SubtreesUnfold DEF P

\* The condition of is_pure, and that of OverflowsOnly, on one part.
LEMMA PartsAgree ==
  ASSUME Compiled, NEW t \in Expressions, t.op # "<"
  PROVE  (t.op \in {"var", "call"} \/ is_i32_arith(t)) /\ (t.op = "call" => t.name \in free)
         <=> t.op # "index" /\ (t.op = "call" => \A v \in Int32 : Called(t.name, v).stop # "hang")
<1>1. t.op \in {"var", "call"} \/ is_i32_arith(t) <=> t.op # "index"
  BY OfKinds, WideShape
<1>2. t.op = "call" => (t.name \in free <=> \A v \in Int32 : Called(t.name, v).stop # "hang")
  <2> SUFFICES ASSUME t.op = "call"
               PROVE  t.name \in free <=> \A v \in Int32 : Called(t.name, v).stop # "hang"
    OBVIOUS
  <2>1. t.name \in Functions
    BY Trees
  <2>2. t.name \in free <=> Returns(t.name)
    BY <2>1, FreeIsLoopFree
  <2>3. Returns(t.name) <=> \A v \in Int32 : Called(t.name, v).stop # "hang"
    BY ReturnsNeverHangs
  <2> QED
    BY <2>2, <2>3
<1> QED
  BY <1>1, <1>2

LEMMA PureIsOverflowsOnly ==
  ASSUME Compiled, NEW e \in Expressions, e.op # "<"
  PROVE  is_pure(e) <=> OverflowsOnly(e)
<1>1. \A t \in Subtrees[e] : t \in Expressions /\ t.op # "<"
  BY OperandsCompareNothing
<1>2. \A t \in Subtrees[e] :
        (t.op \in {"var", "call"} \/ is_i32_arith(t)) /\ (t.op = "call" => t.name \in free)
        <=> t.op # "index" /\ (t.op = "call" => \A v \in Int32 : Called(t.name, v).stop # "hang")
  BY <1>1, PartsAgree
<1> QED
  BY <1>2 DEF is_pure, OverflowsOnly

\* A part of e is e or a part of an operand.
LEMMA OverflowsSplit ==
  ASSUME NEW e \in Expressions, e.op \notin {"index", "call"}
  PROVE  OverflowsOnly(e) <=> \A j \in DOMAIN e.args : OverflowsOnly(e.args[j])
<1>1. \A t : t \in Subtrees[e] <=> t = e \/ \E j \in DOMAIN e.args : t \in Subtrees[e.args[j]]
  BY SubtreesUnfold
<1> QED
  BY <1>1 DEF OverflowsOnly

Beyond(e) == \E t \in Subtrees[e] : Meaning[t] \notin Int64

LEMMA BeyondSplit ==
  ASSUME NEW e \in Expressions
  PROVE  /\ Meaning[e] \notin Int64 => Beyond(e)
         /\ \A j \in DOMAIN e.args : Beyond(e.args[j]) => Beyond(e)
<1>1. \A t : t \in Subtrees[e] <=> t = e \/ \E j \in DOMAIN e.args : t \in Subtrees[e.args[j]]
  BY SubtreesUnfold
<1> QED
  BY <1>1 DEF Beyond

-----------------------------------------------------------------------------
(* A fallible body: values are exact, and the first stop is the right one.    *)

\* o is the value of e if it is one; o stops as `how` says, or with an overflow of
\* i64 itself.
Right(o, e)   == o.stop = "no" => o.v = Meaning[e]
At(o, how, e) == o.stop = how \/ (o.stop = "overflow" /\ Beyond(e))

LEMMA AfterAt ==
  ASSUME NEW l, NEW next, NEW x, NEW y, NEW e,
         At(l, x, e), l.stop = "no" => At(next, y, e)
  PROVE  At(After(l, next), First(x, y), e)
BY DEF At, After, First

\* Of e from what is emitted for an operand a.
LEMMA AtUp ==
  ASSUME NEW e \in Expressions, NEW j \in DOMAIN e.args, NEW o, NEW how, At(o, how, e.args[j])
  PROVE  At(o, how, e)
BY BeyondSplit DEF At

Sound(e) ==
  /\ Right(emitted[e]["i32"], e) /\ Right(emitted[e]["i64"], e)
  /\ At(emitted[e]["i32"], FirstStop[e][FALSE], e)
  /\ OverflowsOnly(e) /\ e.op # "<" => At(emitted[e]["i64"], FirstStop[e][TRUE], e)

LEMMA EmittedIs ==
  ASSUME EnvTyped, NEW e \in Expressions
  PROVE  LET l == emitted[e.args[1]]  r == emitted[e.args[2]] IN
         /\ emitted[e]["i32"] = emit_expr(e, l, r)
         /\ is_i32_arith(e) => emitted[e]["i64"] = emit_exact(e, l, r)
         /\ ~is_i32_arith(e) => emitted[e]["i64"] = emit_expr(e, l, r)
<1> DEFINE l == emitted[e.args[1]]
           r == emitted[e.args[2]]
<1>1. emitted[e] = [width \in TwoWidths |-> emit(e, width, l, r)]
  BY EmittedUnfold
<1> HIDE DEF l, r
<1>2. emitted[e]["i32"] = emit(e, "i32", l, r) /\ emitted[e]["i64"] = emit(e, "i64", l, r)
  BY <1>1 DEF TwoWidths
<1>3. emit(e, "i32", l, r) = emit_expr(e, l, r)
  BY DEF emit
<1>4. is_i32_arith(e) => emit(e, "i64", l, r) = emit_exact(e, l, r)
  BY DEF emit
<1>5. ~is_i32_arith(e) => emit(e, "i64", l, r) = emit_expr(e, l, r)
  BY DEF emit
<1> QED
  BY <1>2, <1>3, <1>4, <1>5 DEF l, r

LEMMA FirstIs ==
  ASSUME EnvTyped, NEW e \in Expressions, NEW inside \in BOOLEAN
  PROVE  LET l == FirstStop[e.args[1]][Deferred(e)]  r == FirstStop[e.args[2]][Deferred(e)] IN
         /\ Arity(e.op) = 0 => FirstStop[e][inside] = OwnStop(e, inside)
         /\ Arity(e.op) = 1 => FirstStop[e][inside] = First(l, OwnStop(e, inside))
         /\ Arity(e.op) = 2 => FirstStop[e][inside] = First(l, First(r, OwnStop(e, inside)))
<1>1. FirstStop[e] = [i \in BOOLEAN |-> FirstOf(e, i, FirstStop[e.args[1]], FirstStop[e.args[2]])]
  BY FirstStopUnfold
<1>2. FirstStop[e][inside] = FirstOf(e, inside, FirstStop[e.args[1]], FirstStop[e.args[2]])
  BY <1>1
<1> QED
  BY <1>2, FirstCases

LEMMA OwnCases ==
  ASSUME NEW e, NEW inside \in BOOLEAN
  PROVE  /\ e.op = "index" => OwnStop(e, inside) = Element(Meaning[e.args[1]]).stop
         /\ e.op = "call"  => OwnStop(e, inside) = Called(e.name, Meaning[e.args[1]]).stop
         /\ is_i32_arith(e) => OwnStop(e, FALSE) = Lowered(Meaning[e]).stop
         /\ is_i32_arith(e) => OwnStop(e, TRUE) = "no"
         /\ e.op \in {"var", "<"} => OwnStop(e, inside) = "no"
<1>1. e.op = "index" => OwnStop(e, inside) = Element(Meaning[e.args[1]]).stop
  BY WideShape DEF OwnStop
<1>2. e.op = "call"  => OwnStop(e, inside) = Called(e.name, Meaning[e.args[1]]).stop
  BY WideShape DEF OwnStop
<1>3. is_i32_arith(e) => OwnStop(e, FALSE) = Lowered(Meaning[e]).stop
  BY WideShape DEF OwnStop
<1>4. is_i32_arith(e) => OwnStop(e, TRUE) = "no"
  BY WideShape DEF OwnStop
<1>5. e.op \in {"var", "<"} => OwnStop(e, inside) = "no"
  BY WideShape DEF OwnStop
<1> QED
  BY <1>1, <1>2, <1>3, <1>4, <1>5

LEMMA VarSound ==
  ASSUME Compiled, NEW e \in Expressions, e.op = "var"
  PROVE  Sound(e)
<1>0. EnvTyped
  BY DEF Compiled
<1>1. emitted[e]["i32"] = Ok(env[e.name]) /\ emitted[e]["i64"] = Ok(env[e.name])
  BY <1>0, EmittedIs, ExprCases, WideShape
<1>2. Meaning[e] = env[e.name]
  BY <1>0, MeaningUnfold, MeaningCases
<1>3. \A inside \in BOOLEAN : FirstStop[e][inside] = "no"
  <2> SUFFICES ASSUME NEW inside \in BOOLEAN PROVE FirstStop[e][inside] = "no"
    OBVIOUS
  <2>1. FirstStop[e][inside] = OwnStop(e, inside)
    BY <1>0, FirstIs, Operands
  <2> QED
    BY <2>1, OwnCases
<1>4. FirstStop[e][TRUE] = "no" /\ FirstStop[e][FALSE] = "no"
  BY <1>3
<1>5. Ok(env[e.name]).stop = "no" /\ Ok(env[e.name]).v = env[e.name]
  BY DEF Ok
<1> QED
  BY <1>1, <1>2, <1>4, <1>5 DEF Sound, Right, At

\* An index or a call, `next` being what follows its operand.
LEMMA ThenSound ==
  ASSUME Compiled, NEW e \in Expressions, e.op \in {"index", "call"}, Sound(e.args[1])
  PROVE  Sound(e)
<1> DEFINE a    == e.args[1]
           x    == emitted[a]["i32"]
           Then(v) == IF e.op = "index" THEN Element(v) ELSE Called(e.name, v)
<1>0. EnvTyped
  BY DEF Compiled
<1>1. a \in Expressions /\ 1 \in DOMAIN e.args /\ Arity(e.op) = 1
  BY Operands
<1>2. emitted[e]["i32"] = After(x, Then(x.v)) /\ emitted[e]["i64"] = After(x, Then(x.v))
  <2>1. emitted[e]["i32"] = emit_expr(e, emitted[e.args[1]], emitted[e.args[2]])
        /\ emitted[e]["i64"] = emit_expr(e, emitted[e.args[1]], emitted[e.args[2]])
    BY <1>0, EmittedIs, WideShape
  <2>2. emit_expr(e, emitted[e.args[1]], emitted[e.args[2]]) = After(x, Then(x.v))
    <3>1. CASE e.op = "index"
      BY <3>1, ExprCases
    <3>2. CASE e.op = "call"
      BY <3>2, ExprCases
    <3> QED
      BY <3>1, <3>2
  <2> QED
    BY <2>1, <2>2
<1>3. Meaning[e] = Then(Meaning[a]).v
  <2>1. Meaning[e] = MeaningOf(e, Meaning[e.args[1]], Meaning[e.args[2]])
    BY <1>0, MeaningUnfold
  <2>2. CASE e.op = "index"
    BY <2>1, <2>2, MeaningCases
  <2>3. CASE e.op = "call"
    BY <2>1, <2>3, MeaningCases
  <2> QED
    BY <2>2, <2>3
<1>4. ASSUME NEW inside \in BOOLEAN
      PROVE  FirstStop[e][inside] = First(FirstStop[a][FALSE], Then(Meaning[a]).stop)
  <2>1. Deferred(e) = FALSE
    BY WideShape DEF Deferred
  <2>2. FirstStop[e][inside] = First(FirstStop[a][FALSE], OwnStop(e, inside))
    BY <1>0, <1>1, <2>1, FirstIs
  <2>3. CASE e.op = "index"
    BY <2>2, <2>3, OwnCases
  <2>4. CASE e.op = "call"
    BY <2>2, <2>4, OwnCases
  <2> QED
    BY <2>3, <2>4
<1>5. FirstStop[e][TRUE] = First(FirstStop[a][FALSE], Then(Meaning[a]).stop)
      /\ FirstStop[e][FALSE] = First(FirstStop[a][FALSE], Then(Meaning[a]).stop)
  BY <1>4
<1> HIDE DEF Then, x, a
<1>6. Right(x, a) /\ At(x, FirstStop[a][FALSE], a)
  BY DEF Sound, x, a
<1>7. At(x, FirstStop[a][FALSE], e)
  BY <1>1, <1>6, AtUp DEF a
<1>8. x.stop = "no" => x.v = Meaning[a]
  BY <1>6 DEF Right
<1>9. x.stop = "no" => At(Then(x.v), Then(Meaning[a]).stop, e)
  BY <1>8 DEF At
<1>10. At(After(x, Then(x.v)), First(FirstStop[a][FALSE], Then(Meaning[a]).stop), e)
  BY <1>7, <1>9, AfterAt
<1>11. Right(After(x, Then(x.v)), e)
  BY <1>3, <1>8 DEF Right, After
<1> QED
  BY <1>2, <1>5, <1>10, <1>11 DEF Sound


LEMMA FallibleNarrows ==
  ASSUME abi = "fallible", NEW v
  PROVE  /\ Narrow(v) = Lowered(v)
         /\ Lowered(v).stop = "no" => Lowered(v).v = v
BY DEF Narrow, Lowered, Ok, Stop

LEMMA CheckedSound ==
  ASSUME NEW e \in Expressions
  PROVE  Right(Checked64(Meaning[e]), e) /\ At(Checked64(Meaning[e]), "no", e)
BY BeyondSplit DEF Right, At, Checked64, Ok, Stop

\* In which order the parts of an operator stop.
LEMMA ArithStops ==
  ASSUME EnvTyped, NEW e \in Expressions, is_i32_arith(e)
  PROVE  FirstStop[e][FALSE] = First(FirstStop[e][TRUE], Lowered(Meaning[e]).stop)
<1>1. OwnStop(e, TRUE) = "no" /\ OwnStop(e, FALSE) = Lowered(Meaning[e]).stop
  BY OwnCases
<1>2. \A x, y, z : /\ First(x, z) = First(First(x, "no"), z)
                   /\ First(x, First(y, z)) = First(First(x, First(y, "no")), z)
  BY DEF First
<1> DEFINE l == FirstStop[e.args[1]][Deferred(e)]  r == FirstStop[e.args[2]][Deferred(e)]
<1>3. ASSUME NEW inside \in BOOLEAN
      PROVE  /\ Arity(e.op) = 1 => FirstStop[e][inside] = First(l, OwnStop(e, inside))
             /\ Arity(e.op) = 2 => FirstStop[e][inside] = First(l, First(r, OwnStop(e, inside)))
  BY FirstIs
<1> HIDE DEF l, r
<1>4. CASE Arity(e.op) = 1
  <2>1. FirstStop[e][TRUE] = First(l, "no") /\ FirstStop[e][FALSE] = First(l, Lowered(Meaning[e]).stop)
    BY <1>1, <1>4, <1>3
  <2> QED
    BY <1>2, <2>1
<1>5. CASE Arity(e.op) = 2
  <2>1. /\ FirstStop[e][TRUE] = First(l, First(r, "no"))
        /\ FirstStop[e][FALSE] = First(l, First(r, Lowered(Meaning[e]).stop))
    BY <1>1, <1>5, <1>3
  <2> QED
    BY <1>2, <2>1
<1> QED
  BY <1>4, <1>5, Operands, WideShape

\* An operator inside an exact tree.
LEMMA ExactSound ==
  ASSUME Compiled, NEW e \in Expressions, is_i32_arith(e),
         \A j \in DOMAIN e.args : Sound(e.args[j])
  PROVE  LET exact == emit_exact(e, emitted[e.args[1]], emitted[e.args[2]]) IN
         Right(exact, e) /\ (OverflowsOnly(e) => At(exact, FirstStop[e][TRUE], e))
<1> DEFINE a == e.args[1]  b == e.args[2]
           x == emitted[a]["i64"]  y == emitted[b]["i64"]
           exact == emit_exact(e, emitted[a], emitted[b])
           next == Checked64(IF e.op = "neg" THEN -x.v ELSE Arith(e.op, x.v, y.v))
<1>0. EnvTyped
  BY DEF Compiled
<1>1. OverflowsOnly(e) => Deferred(e) = TRUE
  BY DEF Deferred
<1>2. OwnStop(e, TRUE) = "no"
  BY OwnCases
<1>3. Meaning[e] = MeaningOf(e, Meaning[a], Meaning[b])
  BY <1>0, MeaningUnfold
<1>4. OverflowsOnly(e) => \A j \in DOMAIN e.args : OverflowsOnly(e.args[j])
  BY OverflowsSplit, WideShape
<1>5. CASE e.op = "neg"
  <2>1. 1 \in DOMAIN e.args /\ a \in Expressions /\ a.op # "<" /\ Arity(e.op) = 1
    BY <1>5, Operands
  <2>2. exact = After(x, Checked64(-x.v))
    BY <1>5, ExactCases
  <2>3. Meaning[e] = -Meaning[a]
    BY <1>3, <1>5, MeaningCases
  <2>4. OverflowsOnly(e) => FirstStop[e][TRUE] = First(FirstStop[a][TRUE], "no")
    BY <1>0, <1>1, <1>2, <2>1, FirstIs
  <2>5. OverflowsOnly(e) => At(x, FirstStop[a][TRUE], a)
    BY <1>4, <2>1 DEF Sound
  <2>6. x.stop = "no" => x.v = Meaning[a]
    BY <2>1 DEF Sound, Right
  <2> HIDE DEF x, exact, a
  <2>7. x.stop = "no" => Checked64(-x.v) = Checked64(Meaning[e])
    BY <2>3, <2>6
  <2>8. Right(exact, e)
    BY <2>2, <2>7, CheckedSound DEF Right, After
  <2>9. ASSUME OverflowsOnly(e) PROVE At(exact, FirstStop[e][TRUE], e)
    <3>1. At(x, FirstStop[a][TRUE], e)
      BY <2>1, <2>5, <2>9, AtUp DEF a
    <3>2. x.stop = "no" => At(Checked64(-x.v), "no", e)
      BY <2>7, CheckedSound
    <3> QED
      BY <2>2, <2>4, <2>9, <3>1, <3>2, AfterAt
  <2> QED
    BY <2>8, <2>9 DEF exact, a
<1>6. CASE e.op \in Operators
  <2>1. /\ 1 \in DOMAIN e.args /\ a \in Expressions /\ a.op # "<" /\ Arity(e.op) = 2
        /\ 2 \in DOMAIN e.args /\ b \in Expressions /\ b.op # "<"
    BY <1>6, Operands
  <2> DEFINE w == Checked64(Arith(e.op, x.v, y.v))
  <2>2. exact = After(x, After(y, w))
    BY <1>6, ExactCases DEF Both
  <2>3. Meaning[e] = Arith(e.op, Meaning[a], Meaning[b])
    BY <1>3, <1>6, MeaningCases
  <2>4. OverflowsOnly(e) =>
          FirstStop[e][TRUE] = First(FirstStop[a][TRUE], First(FirstStop[b][TRUE], "no"))
    BY <1>0, <1>1, <1>2, <2>1, FirstIs
  <2>5. OverflowsOnly(e) => At(x, FirstStop[a][TRUE], a) /\ At(y, FirstStop[b][TRUE], b)
    BY <1>4, <2>1 DEF Sound
  <2>6. (x.stop = "no" => x.v = Meaning[a]) /\ (y.stop = "no" => y.v = Meaning[b])
    BY <2>1 DEF Sound, Right
  <2>7. x.stop = "no" /\ y.stop = "no" => w = Checked64(Meaning[e])
    BY <2>3, <2>6
  <2> HIDE DEF x, y, w, exact, a, b
  <2>8. Right(exact, e)
    BY <2>2, <2>7, CheckedSound DEF Right, After
  <2>9. ASSUME OverflowsOnly(e) PROVE At(exact, FirstStop[e][TRUE], e)
    <3>1. At(x, FirstStop[a][TRUE], e) /\ At(y, FirstStop[b][TRUE], e)
      BY <2>1, <2>5, <2>9, AtUp DEF a, b
    <3>2. x.stop = "no" /\ y.stop = "no" => At(w, "no", e)
      BY <2>7, CheckedSound
    <3>3. x.stop = "no" => At(After(y, w), First(FirstStop[b][TRUE], "no"), e)
      BY <3>1, <3>2, AfterAt
    <3> QED
      BY <2>2, <2>4, <2>9, <3>1, <3>3, AfterAt
  <2> QED
    BY <2>8, <2>9 DEF exact, a, b
<1> QED
  BY <1>5, <1>6, WideShape

\* An operator of i32, its own check being the next thing.
LEMMA NarrowSound ==
  ASSUME Compiled, abi = "fallible", NEW e \in Expressions, is_i32_arith(e), ~emit_wide(e),
         \A j \in DOMAIN e.args : Sound(e.args[j])
  PROVE  LET o == emit_expr(e, emitted[e.args[1]], emitted[e.args[2]]) IN
         Right(o, e) /\ At(o, FirstStop[e][FALSE], e)
<1> DEFINE a == e.args[1]  b == e.args[2]
           x == emitted[a]["i32"]  y == emitted[b]["i32"]
           o == emit_expr(e, emitted[a], emitted[b])
           own == Lowered(Meaning[e]).stop
<1>0. EnvTyped
  BY DEF Compiled
<1>1. Deferred(e) = FALSE
  BY PureIsOverflowsOnly, WideShape DEF emit_wide, Deferred
<1>2. OwnStop(e, FALSE) = own
  BY OwnCases
<1>3. Meaning[e] = MeaningOf(e, Meaning[a], Meaning[b])
  BY <1>0, MeaningUnfold
<1>4. Right(Lowered(Meaning[e]), e) /\ At(Lowered(Meaning[e]), own, e)
  BY FallibleNarrows DEF Right, At
<1>5. CASE e.op = "neg"
  <2>1. 1 \in DOMAIN e.args /\ a \in Expressions /\ Arity(e.op) = 1
    BY <1>5, Operands
  <2>2. o = After(x, Lowered(-x.v))
    BY <1>5, ExprCases
  <2>3. Meaning[e] = -Meaning[a]
    BY <1>3, <1>5, MeaningCases
  <2>4. FirstStop[e][FALSE] = First(FirstStop[a][FALSE], own)
    BY <1>0, <1>1, <1>2, <2>1, FirstIs
  <2>5. At(x, FirstStop[a][FALSE], a)
    BY <2>1 DEF Sound
  <2>6. x.stop = "no" => x.v = Meaning[a]
    BY <2>1 DEF Sound, Right
  <2> HIDE DEF x, o, a, own
  <2>7. x.stop = "no" => Lowered(-x.v) = Lowered(Meaning[e])
    BY <2>3, <2>6
  <2>8. Right(o, e)
    BY <1>4, <2>2, <2>7 DEF Right, After
  <2>9. At(x, FirstStop[a][FALSE], e)
    BY <2>1, <2>5, AtUp DEF a
  <2>10. x.stop = "no" => At(Lowered(-x.v), own, e)
    BY <1>4, <2>7
  <2>11. At(o, FirstStop[e][FALSE], e)
    BY <2>2, <2>4, <2>9, <2>10, AfterAt
  <2> QED
    BY <2>8, <2>11 DEF o, a
<1>6. CASE e.op \in Operators
  <2>1. /\ 1 \in DOMAIN e.args /\ a \in Expressions /\ Arity(e.op) = 2
        /\ 2 \in DOMAIN e.args /\ b \in Expressions
    BY <1>6, Operands
  <2> DEFINE w == Lowered(Arith(e.op, x.v, y.v))
  <2>2. o = After(x, After(y, w))
    BY <1>6, ExprCases DEF Both
  <2>3. Meaning[e] = Arith(e.op, Meaning[a], Meaning[b])
    BY <1>3, <1>6, MeaningCases
  <2>4. FirstStop[e][FALSE] = First(FirstStop[a][FALSE], First(FirstStop[b][FALSE], own))
    BY <1>0, <1>1, <1>2, <2>1, FirstIs
  <2>5. At(x, FirstStop[a][FALSE], a) /\ At(y, FirstStop[b][FALSE], b)
    BY <2>1 DEF Sound
  <2>6. (x.stop = "no" => x.v = Meaning[a]) /\ (y.stop = "no" => y.v = Meaning[b])
    BY <2>1 DEF Sound, Right
  <2>7. x.stop = "no" /\ y.stop = "no" => w = Lowered(Meaning[e])
    BY <2>3, <2>6
  <2> HIDE DEF x, y, w, o, a, b, own
  <2>8. Right(o, e)
    BY <1>4, <2>2, <2>7 DEF Right, After
  <2>9. At(x, FirstStop[a][FALSE], e) /\ At(y, FirstStop[b][FALSE], e)
    BY <2>1, <2>5, AtUp DEF a, b
  <2>10. x.stop = "no" /\ y.stop = "no" => At(w, own, e)
    BY <1>4, <2>7
  <2>11. x.stop = "no" => At(After(y, w), First(FirstStop[b][FALSE], own), e)
    BY <2>9, <2>10, AfterAt
  <2>12. At(o, FirstStop[e][FALSE], e)
    BY <2>2, <2>4, <2>9, <2>11, AfterAt
  <2> QED
    BY <2>8, <2>12 DEF o, a, b
<1> QED
  BY <1>5, <1>6, WideShape

LEMMA ArithSound ==
  ASSUME Compiled, abi = "fallible", NEW e \in Expressions, is_i32_arith(e),
         \A j \in DOMAIN e.args : Sound(e.args[j])
  PROVE  Sound(e)
<1> DEFINE l == emitted[e.args[1]]  r == emitted[e.args[2]]
           exact == emit_exact(e, l, r)
           o     == emit_expr(e, l, r)
<1>0. EnvTyped
  BY DEF Compiled
<1>1. emitted[e]["i32"] = o /\ emitted[e]["i64"] = exact
  BY <1>0, EmittedIs
<1>2. Right(exact, e) /\ (OverflowsOnly(e) => At(exact, FirstStop[e][TRUE], e))
  BY ExactSound
<1>3. Right(o, e) /\ At(o, FirstStop[e][FALSE], e)
  <2>1. CASE ~emit_wide(e)
    BY <2>1, NarrowSound
  <2>2. CASE emit_wide(e)
    <3>1. o = After(exact, Narrow(exact.v))
      BY <2>2, ExprCases
    <3>2. is_pure(e)
      BY <2>2, WideShape DEF emit_wide
    <3>3. At(exact, FirstStop[e][TRUE], e)
      BY <1>2, <3>2, PureIsOverflowsOnly, WideShape
    <3>4. FirstStop[e][FALSE] = First(FirstStop[e][TRUE], Lowered(Meaning[e]).stop)
      BY <1>0, ArithStops
    <3> HIDE DEF exact, o
    <3>5. exact.stop = "no" => Narrow(exact.v) = Lowered(Meaning[e])
      BY <1>2, FallibleNarrows DEF Right
    <3>6. exact.stop = "no" => At(Narrow(exact.v), Lowered(Meaning[e]).stop, e)
      BY <3>5 DEF At
    <3>7. At(o, FirstStop[e][FALSE], e)
      BY <3>1, <3>3, <3>4, <3>6, AfterAt
    <3>8. Right(o, e)
      BY <1>2, <3>1, <3>5, FallibleNarrows DEF Right, After
    <3> QED
      BY <3>7, <3>8
  <2> QED
    BY <2>1, <2>2
<1> QED
  BY <1>1, <1>2, <1>3 DEF Sound

LEMMA LessSound ==
  ASSUME Compiled, abi = "fallible", NEW e \in Expressions, e.op = "<",
         \A j \in DOMAIN e.args : Sound(e.args[j])
  PROVE  Sound(e)
<1> DEFINE a == e.args[1]  b == e.args[2]
           l == emitted[a]  r == emitted[b]
           side == IF Deferred(e) THEN "i64" ELSE "i32"
           o == emit_expr(e, l, r)
<1>0. EnvTyped
  BY DEF Compiled
<1>1. /\ 1 \in DOMAIN e.args /\ a \in Expressions /\ a.op # "<" /\ Arity(e.op) = 2
      /\ 2 \in DOMAIN e.args /\ b \in Expressions /\ b.op # "<"
      /\ DOMAIN e.args = 1..2
  BY Operands, Trees
<1>2. Deferred(e) \in BOOLEAN /\ (Deferred(e) <=> OverflowsOnly(a) /\ OverflowsOnly(b))
  BY <1>1, OverflowsSplit DEF Deferred
<1>3. Deferred(e) <=> is_pure(a) /\ is_pure(b)
  BY <1>1, <1>2, PureIsOverflowsOnly
<1>4. o = Both(l[side], r[side], Less(l[side].v, r[side].v))
  <2>1. CASE emit_wide(e)
    <3>1. Deferred(e)
      BY <1>3, <2>1, WideShape DEF emit_wide
    <3> QED
      BY <2>1, <3>1, ExprCases
  <2>2. CASE ~emit_wide(e)
    <3>1. o = Both(l["i32"], r["i32"], Less(l["i32"].v, r["i32"].v))
      BY <2>2, ExprCases
    <3>2. CASE Deferred(e)
      <4>1. ~is_i32_arith(a) /\ ~is_i32_arith(b)
        BY <1>1, <1>3, <2>2, <3>2 DEF emit_wide
      <4>2. l["i32"] = l["i64"] /\ r["i32"] = r["i64"]
        BY <1>0, <1>1, <4>1, EmittedIs
      <4> QED
        BY <3>1, <3>2, <4>2
    <3>3. CASE ~Deferred(e)
      BY <3>1, <3>3
    <3> QED
      BY <3>2, <3>3
  <2> QED
    BY <2>1, <2>2
<1> DEFINE x == l[side]  y == r[side]
<1>5. Right(x, a) /\ Right(y, b)
  BY <1>1, <1>2 DEF Sound
<1>6. At(x, FirstStop[a][Deferred(e)], a) /\ At(y, FirstStop[b][Deferred(e)], b)
  <2>1. CASE Deferred(e)
    <3>1. Deferred(e) = TRUE /\ x = l["i64"] /\ y = r["i64"]
      BY <1>2, <2>1
    <3> QED
      BY <1>1, <1>2, <3>1 DEF Sound
  <2>2. CASE ~Deferred(e)
    <3>1. Deferred(e) = FALSE /\ x = l["i32"] /\ y = r["i32"]
      BY <1>2, <2>2
    <3> QED
      BY <1>1, <3>1 DEF Sound
  <2> QED
    BY <2>1, <2>2
<1>7. Meaning[e] = Less(Meaning[a], Meaning[b]).v
  BY <1>0, MeaningUnfold, MeaningCases
<1>8. \A inside \in BOOLEAN : FirstStop[e][inside] =
        First(FirstStop[a][Deferred(e)], First(FirstStop[b][Deferred(e)], "no"))
  BY <1>0, <1>1, OwnCases, FirstIs
<1>9. emitted[e]["i32"] = o /\ emitted[e]["i64"] = o
  BY <1>0, EmittedIs, WideShape
<1> DEFINE w == Less(x.v, y.v)
<1>10. o = After(x, After(y, w))
  BY <1>4 DEF Both
<1>11. w.stop = "no"
  BY DEF Less, Ok
<1>12. x.stop = "no" /\ y.stop = "no" => w.v = Meaning[e]
  BY <1>5, <1>7 DEF Right
<1> HIDE DEF x, y, w, o, a, b, side
<1>13. Right(o, e)
  BY <1>10, <1>12 DEF Right, After
<1>14. At(x, FirstStop[a][Deferred(e)], e) /\ At(y, FirstStop[b][Deferred(e)], e)
  BY <1>1, <1>6, AtUp DEF a, b
<1>15. At(w, "no", e)
  BY <1>11 DEF At
<1>16. At(After(y, w), First(FirstStop[b][Deferred(e)], "no"), e)
  BY <1>14, <1>15, AfterAt
<1>17. At(o, First(FirstStop[a][Deferred(e)], First(FirstStop[b][Deferred(e)], "no")), e)
  BY <1>10, <1>14, <1>16, AfterAt
<1>18. FirstStop[e][FALSE] = First(FirstStop[a][Deferred(e)], First(FirstStop[b][Deferred(e)], "no"))
  BY <1>8
<1> QED
  BY <1>9, <1>13, <1>17, <1>18 DEF Sound

\* What is emitted for each expression of a fallible body.
LEMMA AllSound ==
  ASSUME Compiled, abi = "fallible"
  PROVE  \A e \in Expressions : Sound(e)
<1> DEFINE P == {e \in Expressions : Sound(e)}
<1>1. ASSUME NEW e \in Expressions, \A j \in DOMAIN e.args : e.args[j] \in P PROVE e \in P
  <2>1. \A j \in DOMAIN e.args : Sound(e.args[j])
    BY <1>1
  <2>2. CASE e.op = "var"
    BY <2>2, VarSound
  <2>3. CASE e.op \in {"index", "call"}
    BY <2>1, <2>3, Operands, ThenSound
  <2>4. CASE is_i32_arith(e)
    BY <2>1, <2>4, ArithSound
  <2>5. CASE e.op = "<"
    BY <2>1, <2>5, LessSound
  <2> QED
    BY <2>2, <2>3, <2>4, <2>5, OfKinds, WideShape
<1>2. P \in SUBSET Expressions
  OBVIOUS
<1> HIDE DEF P
<1>3. \A e \in Expressions : e \in P
  BY <1>1, <1>2, TreeInduction
<1> QED
  BY <1>3 DEF P

-----------------------------------------------------------------------------
(* Deferring loses no value.                                                *)

\* With every operator checked, e has a value: then it is the one emitted.
Agrees(e) ==
  /\ abi = "plain" => emitted[e]["i32"] = Eager[e]
  /\ abi = "fallible" /\ Eager[e].stop = "no" =>
       emitted[e]["i32"] = Eager[e] /\ emitted[e]["i64"] = Eager[e]

LEMMA AfterNo ==
  \A l, next : After(l, next).stop = "no" => l.stop = "no" /\ next.stop = "no" /\ After(l, next) = next
BY DEF After

LEMMA LoweredFits ==
  ASSUME abi = "fallible", NEW v, Lowered(v).stop = "no"
  PROVE  /\ Lowered(v).v = v
         /\ Checked64(v) = Lowered(v) /\ Narrow(v) = Lowered(v)
BY Widths DEF Lowered, Checked64, Narrow, Ok, Stop

LEMMA EagerIs ==
  ASSUME EnvTyped, NEW e \in Expressions
  PROVE  Eager[e] = EagerOf(e, Eager[e.args[1]], Eager[e.args[2]])
BY EagerUnfold

LEMMA VarAgrees ==
  ASSUME EnvTyped, NEW e \in Expressions, e.op = "var"
  PROVE  Agrees(e)
<1>1. emitted[e]["i32"] = Ok(env[e.name]) /\ emitted[e]["i64"] = Ok(env[e.name])
  BY EmittedIs, ExprCases, WideShape
<1>2. Eager[e] = Ok(env[e.name])
  BY EagerIs, EagerCases
<1> QED
  BY <1>1, <1>2 DEF Agrees

LEMMA ThenAgrees ==
  ASSUME EnvTyped, NEW e \in Expressions, e.op \in {"index", "call"}, Agrees(e.args[1])
  PROVE  Agrees(e)
<1> DEFINE x == emitted[e.args[1]]["i32"]  l == Eager[e.args[1]]
           Then(v) == IF e.op = "index" THEN Element(v) ELSE Called(e.name, v)
<1>1. emitted[e]["i32"] = After(x, Then(x.v)) /\ emitted[e]["i64"] = After(x, Then(x.v))
  <2>1. emitted[e]["i32"] = emit_expr(e, emitted[e.args[1]], emitted[e.args[2]])
        /\ emitted[e]["i64"] = emit_expr(e, emitted[e.args[1]], emitted[e.args[2]])
    BY EmittedIs, WideShape
  <2>2. CASE e.op = "index"
    BY <2>1, <2>2, ExprCases
  <2>3. CASE e.op = "call"
    BY <2>1, <2>3, ExprCases
  <2> QED
    BY <2>2, <2>3
<1>2. Eager[e] = After(l, Then(l.v))
  <2>1. Eager[e] = EagerOf(e, Eager[e.args[1]], Eager[e.args[2]])
    BY EagerIs
  <2>2. CASE e.op = "index"
    BY <2>1, <2>2, EagerCases
  <2>3. CASE e.op = "call"
    BY <2>1, <2>3, EagerCases
  <2> QED
    BY <2>2, <2>3
<1>3. /\ abi = "plain" => x = l
      /\ abi = "fallible" /\ l.stop = "no" => x = l
  BY DEF Agrees
<1> HIDE DEF x, l, Then
<1>4. abi = "plain" => emitted[e]["i32"] = Eager[e]
  BY <1>1, <1>2, <1>3
<1>5. ASSUME abi = "fallible", Eager[e].stop = "no"
      PROVE  emitted[e]["i32"] = Eager[e] /\ emitted[e]["i64"] = Eager[e]
  BY <1>1, <1>2, <1>3, <1>5, AfterNo
<1> QED
  BY <1>4, <1>5 DEF Agrees

\* The operands' values are those emitted, in either width.
LEMMA NegAgrees ==
  ASSUME EnvTyped, NEW e \in Expressions, e.op = "neg", Agrees(e.args[1])
  PROVE  Agrees(e)
<1> DEFINE p == emitted[e.args[1]]  l == Eager[e.args[1]]  q == emitted[e.args[2]]
           exact == emit_exact(e, p, q)
<1>1. emitted[e]["i32"] = emit_expr(e, p, q) /\ emitted[e]["i64"] = exact
  BY EmittedIs, WideShape
<1>2. Eager[e] = After(l, Lowered(-l.v))
  BY EagerIs, EagerCases
<1>3. exact = After(p["i64"], Checked64(-p["i64"].v))
  BY ExactCases
<1>4. /\ emit_wide(e) => emit_expr(e, p, q) = After(exact, Narrow(exact.v))
      /\ ~emit_wide(e) => emit_expr(e, p, q) = After(p["i32"], Lowered(-p["i32"].v))
  BY ExprCases, WideShape
<1>5. /\ abi = "plain" => p["i32"] = l
      /\ abi = "fallible" /\ l.stop = "no" => p["i32"] = l /\ p["i64"] = l
  BY DEF Agrees
<1> HIDE DEF p, l, q, exact
<1>6. abi = "plain" => emitted[e]["i32"] = Eager[e]
  BY <1>1, <1>2, <1>4, <1>5 DEF emit_wide
<1>7. ASSUME abi = "fallible", Eager[e].stop = "no"
      PROVE  emitted[e]["i32"] = Eager[e] /\ emitted[e]["i64"] = Eager[e]
  <2>1. l.stop = "no" /\ Lowered(-l.v).stop = "no" /\ Eager[e] = Lowered(-l.v)
    BY <1>2, <1>7, AfterNo
  <2>2. p["i32"] = l /\ p["i64"] = l
    BY <1>5, <1>7, <2>1
  <2>3. exact = Lowered(-l.v)
    BY <1>3, <1>7, <2>1, <2>2, LoweredFits DEF After
  <2>4. After(exact, Narrow(exact.v)) = Lowered(-l.v)
    BY <1>7, <2>1, <2>3, LoweredFits DEF After
  <2>5. After(p["i32"], Lowered(-p["i32"].v)) = Lowered(-l.v)
    BY <2>1, <2>2 DEF After
  <2> QED
    BY <1>1, <1>4, <2>1, <2>3, <2>4, <2>5
<1> QED
  BY <1>6, <1>7 DEF Agrees

LEMMA OperatorAgrees ==
  ASSUME EnvTyped, NEW e \in Expressions, e.op \in Operators, Agrees(e.args[1]), Agrees(e.args[2])
  PROVE  Agrees(e)
<1> DEFINE p == emitted[e.args[1]]  l == Eager[e.args[1]]
           q == emitted[e.args[2]]  r == Eager[e.args[2]]
           exact == emit_exact(e, p, q)
           w == Lowered(Arith(e.op, l.v, r.v))
<1>1. emitted[e]["i32"] = emit_expr(e, p, q) /\ emitted[e]["i64"] = exact
  BY EmittedIs, WideShape
<1>2. Eager[e] = After(l, After(r, w))
  BY EagerIs, EagerCases DEF Both
<1>3. exact = After(p["i64"], After(q["i64"], Checked64(Arith(e.op, p["i64"].v, q["i64"].v))))
  BY ExactCases DEF Both
<1>4. /\ emit_wide(e) => emit_expr(e, p, q) = After(exact, Narrow(exact.v))
      /\ ~emit_wide(e) => emit_expr(e, p, q) =
           After(p["i32"], After(q["i32"], Lowered(Arith(e.op, p["i32"].v, q["i32"].v))))
  BY ExprCases, WideShape DEF Both
<1>5. /\ abi = "plain" => p["i32"] = l /\ q["i32"] = r
      /\ abi = "fallible" /\ l.stop = "no" => p["i32"] = l /\ p["i64"] = l
      /\ abi = "fallible" /\ r.stop = "no" => q["i32"] = r /\ q["i64"] = r
  BY DEF Agrees
<1> HIDE DEF p, l, q, r, exact
<1>6. abi = "plain" => emitted[e]["i32"] = Eager[e]
  BY <1>1, <1>2, <1>4, <1>5 DEF emit_wide
<1>7. ASSUME abi = "fallible", Eager[e].stop = "no"
      PROVE  emitted[e]["i32"] = Eager[e] /\ emitted[e]["i64"] = Eager[e]
  <2>1. l.stop = "no" /\ r.stop = "no" /\ w.stop = "no" /\ Eager[e] = w
    BY <1>2, <1>7, AfterNo
  <2>2. p["i32"] = l /\ p["i64"] = l /\ q["i32"] = r /\ q["i64"] = r
    BY <1>5, <1>7, <2>1
  <2>3. Checked64(Arith(e.op, l.v, r.v)) = w /\ w.v = Arith(e.op, l.v, r.v)
        /\ Narrow(Arith(e.op, l.v, r.v)) = w
    BY <1>7, <2>1, LoweredFits
  <2>4. exact = w
    BY <1>3, <2>1, <2>2, <2>3 DEF After
  <2>5. After(exact, Narrow(exact.v)) = w
    BY <2>1, <2>3, <2>4 DEF After
  <2>6. After(p["i32"], After(q["i32"], Lowered(Arith(e.op, p["i32"].v, q["i32"].v)))) = w
    BY <2>1, <2>2 DEF After
  <2> QED
    BY <1>1, <1>4, <2>1, <2>4, <2>5, <2>6
<1> QED
  BY <1>6, <1>7 DEF Agrees

LEMMA LessAgrees ==
  ASSUME EnvTyped, NEW e \in Expressions, e.op = "<", Agrees(e.args[1]), Agrees(e.args[2])
  PROVE  Agrees(e)
<1> DEFINE p == emitted[e.args[1]]  l == Eager[e.args[1]]
           q == emitted[e.args[2]]  r == Eager[e.args[2]]
<1>1. emitted[e]["i32"] = emit_expr(e, p, q) /\ emitted[e]["i64"] = emit_expr(e, p, q)
  BY EmittedIs, WideShape
<1>2. Eager[e] = After(l, After(r, Less(l.v, r.v)))
  BY EagerIs, EagerCases DEF Both
<1>3. /\ emit_wide(e) => emit_expr(e, p, q) =
           After(p["i64"], After(q["i64"], Less(p["i64"].v, q["i64"].v)))
      /\ ~emit_wide(e) => emit_expr(e, p, q) =
           After(p["i32"], After(q["i32"], Less(p["i32"].v, q["i32"].v)))
  BY ExprCases DEF Both
<1>4. /\ abi = "plain" => p["i32"] = l /\ q["i32"] = r
      /\ abi = "fallible" /\ l.stop = "no" => p["i32"] = l /\ p["i64"] = l
      /\ abi = "fallible" /\ r.stop = "no" => q["i32"] = r /\ q["i64"] = r
  BY DEF Agrees
<1> HIDE DEF p, l, q, r
<1>5. abi = "plain" => emitted[e]["i32"] = Eager[e]
  BY <1>1, <1>2, <1>3, <1>4 DEF emit_wide
<1>6. ASSUME abi = "fallible", Eager[e].stop = "no"
      PROVE  emitted[e]["i32"] = Eager[e] /\ emitted[e]["i64"] = Eager[e]
  <2>1. l.stop = "no" /\ r.stop = "no"
    BY <1>2, <1>6, AfterNo
  <2>2. p["i32"] = l /\ p["i64"] = l /\ q["i32"] = r /\ q["i64"] = r
    BY <1>4, <1>6, <2>1
  <2> QED
    BY <1>1, <1>2, <1>3, <2>2
<1> QED
  BY <1>5, <1>6 DEF Agrees

LEMMA AllAgree ==
  ASSUME EnvTyped
  PROVE  \A e \in Expressions : Agrees(e)
<1> DEFINE P == {e \in Expressions : Agrees(e)}
<1>1. ASSUME NEW e \in Expressions, \A j \in DOMAIN e.args : e.args[j] \in P PROVE e \in P
  <2>1. \A j \in DOMAIN e.args : Agrees(e.args[j])
    BY <1>1
  <2>2. CASE e.op = "var"
    BY <2>2, VarAgrees
  <2>3. CASE e.op \in {"index", "call"}
    BY <2>1, <2>3, Operands, ThenAgrees
  <2>4. CASE e.op = "neg"
    BY <2>1, <2>4, Operands, NegAgrees
  <2>5. CASE e.op \in Operators
    BY <2>1, <2>5, Operands, OperatorAgrees
  <2>6. CASE e.op = "<"
    BY <2>1, <2>6, Operands, LessAgrees
  <2> QED
    BY <2>2, <2>3, <2>4, <2>5, <2>6, OfKinds
<1>2. P \in SUBSET Expressions
  OBVIOUS
<1> HIDE DEF P
<1>3. \A e \in Expressions : e \in P
  BY <1>1, <1>2, TreeInduction
<1> QED
  BY <1>3 DEF P

-----------------------------------------------------------------------------
(* Wrapping.                                                                *)

LEMMA Ring ==
  \A x, y, k, l, m \in Int :
    /\ k + l \in Int /\ k - l \in Int /\ -k \in Int /\ x * l + k * y + k * l * m \in Int
    /\ (x + k * m) + (y + l * m) = (x + y) + (k + l) * m
    /\ (x + k * m) - (y + l * m) = (x - y) + (k - l) * m
    /\ -(x + k * m) = -x + (-k) * m
    /\ (x + k * m) * (y + l * m) = x * y + (x * l + k * y + k * l * m) * m
OBVIOUS

LEMMA Multiples ==
  \A k \in Int, m \in Nat : (k >= 1 => k * m >= m) /\ (k <= -1 => k * m <= -m)
OBVIOUS

\* Two numbers of i32 that differ by a multiple of 2 * Half are equal.
LEMMA SameI32 ==
  ASSUME NEW a \in Int32, NEW b \in Int32, NEW k \in Int, a = b + k * (2 * Half)
  PROVE  a = b
<1> DEFINE m == 2 * Half
<1>1. m \in Nat /\ a \in Int /\ b \in Int /\ a - b < m /\ b - a < m /\ a - b > -m
  BY Widths DEF Int32
<1>2. a - b = k * m
  BY <1>1
<1> HIDE DEF m
<1>3. ~(k >= 1)
  BY <1>1, <1>2, Multiples
<1>4. ~(k <= -1)
  BY <1>1, <1>2, Multiples
<1>5. k = 0
  BY <1>3, <1>4
<1> QED
  BY <1>1, <1>2, <1>5

LEMMA WrapShifts ==
  ASSUME NEW v \in Int
  PROVE  \E k \in Int : Wrap(v) = v + k * (2 * Half)
<1> DEFINE m == 2 * Half
<1>1. m \in Nat /\ m > 0 /\ v + Half \in Int /\ Half \in Int
  BY Widths
<1>2. \A x \in Int, n \in Nat : n > 0 => x \div n \in Int /\ x % n = x - n * (x \div n)
  OBVIOUS
<1> DEFINE q == (v + Half) \div m
<1>3. q \in Int /\ Wrap(v) = (v + Half) - m * q - Half
  BY <1>1, <1>2 DEF Wrap
<1> HIDE DEF q, m
<1>4. -q \in Int /\ Wrap(v) = v + (-q) * m
  BY <1>1, <1>3
<1> QED
  BY <1>4 DEF m

LEMMA WrapSame ==
  ASSUME NEW u \in Int, NEW v \in Int, NEW k \in Int, u = v + k * (2 * Half)
  PROVE  Wrap(u) = Wrap(v)
<1>1. PICK i \in Int : Wrap(u) = u + i * (2 * Half)
  BY WrapShifts
<1>2. PICK j \in Int : Wrap(v) = v + j * (2 * Half)
  BY WrapShifts
<1> DEFINE m == 2 * Half
<1>3. m \in Int /\ k + i - j \in Int
  BY Widths
<1> HIDE DEF m
<1>4. Wrap(u) = Wrap(v) + (k + i - j) * m
  BY <1>1, <1>2, <1>3 DEF m
<1>5. Wrap(u) \in Int32 /\ Wrap(v) \in Int32
  BY WrapTyped
<1> QED
  BY <1>3, <1>4, <1>5, SameI32 DEF m

LEMMA WrapFits ==
  ASSUME NEW v \in Int32
  PROVE  Wrap(v) = v
<1>1. v \in Int
  BY Widths
<1>2. PICK k \in Int : Wrap(v) = v + k * (2 * Half)
  BY <1>1, WrapShifts
<1> QED
  BY <1>1, <1>2, WrapTyped, SameI32

\* Wrapping goes through sums, differences, products and negations.
LEMMA WrapsThrough ==
  ASSUME NEW x \in Int, NEW y \in Int, NEW op \in {"+", "-", "*"}
  PROVE  Wrap(Arith(op, Wrap(x), Wrap(y))) = Wrap(Arith(op, x, y))
<1>1. PICK k \in Int : Wrap(x) = x + k * (2 * Half)
  BY WrapShifts
<1>2. PICK l \in Int : Wrap(y) = y + l * (2 * Half)
  BY WrapShifts
<1> DEFINE m == 2 * Half
<1>3. m \in Int
  BY Widths
<1>4. Wrap(x) = x + k * m /\ Wrap(y) = y + l * m
  BY <1>1, <1>2
<1>5. op \in Operators
  BY DEF Operators
<1> HIDE DEF m
<1>6. \E n \in Int : Arith(op, Wrap(x), Wrap(y)) = Arith(op, x, y) + n * m
  <2>1. CASE op = "+"
    <3>1. Arith(op, Wrap(x), Wrap(y)) = (x + k * m) + (y + l * m) /\ Arith(op, x, y) = x + y
      BY <1>4, <2>1 DEF Arith
    <3>2. k + l \in Int
      BY <1>3, Ring
    <3>3. (x + k * m) + (y + l * m) = (x + y) + (k + l) * m
      BY <1>3, Ring
    <3> QED
      BY <3>1, <3>2, <3>3
  <2>2. CASE op = "-"
    <3>1. Arith(op, Wrap(x), Wrap(y)) = (x + k * m) - (y + l * m) /\ Arith(op, x, y) = x - y
      BY <1>4, <2>2 DEF Arith
    <3>2. k - l \in Int
      BY <1>3, Ring
    <3>3. (x + k * m) - (y + l * m) = (x - y) + (k - l) * m
      BY <1>3, Ring
    <3> QED
      BY <3>1, <3>2, <3>3
  <2>3. CASE op = "*"
    <3>1. Arith(op, Wrap(x), Wrap(y)) = (x + k * m) * (y + l * m) /\ Arith(op, x, y) = x * y
      BY <1>4, <2>3 DEF Arith
    <3>2. x * l + k * y + k * l * m \in Int
      BY <1>3, Ring
    <3>3. (x + k * m) * (y + l * m) = (x * y) + (x * l + k * y + k * l * m) * m
      BY <1>3, Ring
    <3> QED
      BY <3>1, <3>2, <3>3
  <2> QED
    BY <2>1, <2>2, <2>3
<1>7. Wrap(x) \in Int /\ Wrap(y) \in Int
  BY WrapTyped, Widths
<1>8. Arith(op, Wrap(x), Wrap(y)) \in Int /\ Arith(op, x, y) \in Int
  BY <1>5, <1>7, ArithTyped
<1> QED
  BY <1>6, <1>8, WrapSame DEF m

LEMMA WrapsNegation ==
  ASSUME NEW x \in Int
  PROVE  Wrap(-Wrap(x)) = Wrap(-x)
<1>1. PICK k \in Int : Wrap(x) = x + k * (2 * Half)
  BY WrapShifts
<1> DEFINE m == 2 * Half
<1>2. m \in Int /\ -k \in Int /\ -x \in Int /\ -Wrap(x) \in Int
  <2>1. Wrap(x) \in Int
    BY Widths, WrapTyped
  <2> QED
    BY <2>1, Widths
<1>3. Wrap(x) = x + k * m
  BY <1>1
<1> HIDE DEF m
<1>4. -Wrap(x) = -x + (-k) * m
  BY <1>2, <1>3, Ring
<1> QED
  BY <1>2, <1>4, WrapSame DEF m

LEMMA PlainLowered ==
  ASSUME abi = "plain", NEW v \in Int
  PROVE  Lowered(v) = Ok(Wrap(v))
BY WrapFits DEF Lowered

-----------------------------------------------------------------------------
(* An infallible body wraps.                                                *)

LEMMA UsesSplit ==
  ASSUME NEW e \in Expressions
  PROVE  e.op \in Uses(e) /\ \A j \in DOMAIN e.args : Uses(e.args[j]) \subseteq Uses(e)
<1>1. \A t : t \in Subtrees[e] <=> t = e \/ \E j \in DOMAIN e.args : t \in Subtrees[e.args[j]]
  BY SubtreesUnfold
<1> QED
  BY <1>1 DEF Uses

Sums == {"var", "+", "-", "*", "neg"}

Wraps(e) ==
  /\ "index" \notin Uses(e) => emitted[e]["i32"].stop \in {"no", "hang"}
  /\ Uses(e) \subseteq Sums => emitted[e]["i32"] = Ok(Wrap(Meaning[e]))

\* The operands are computed in i32, and the operator wraps.
LEMMA PlainCases ==
  ASSUME abi = "plain", EnvTyped, NEW e \in Expressions
  PROVE  LET x == emitted[e.args[1]]["i32"]  y == emitted[e.args[2]]["i32"] IN
         /\ e.op = "var"   => emitted[e]["i32"] = Ok(env[e.name])
         /\ e.op = "call"  => emitted[e]["i32"] = After(x, Called(e.name, x.v))
         /\ e.op = "neg"   => emitted[e]["i32"] = After(x, Ok(Wrap(-x.v)))
         /\ e.op = "<"     => emitted[e]["i32"] = After(x, After(y, Less(x.v, y.v)))
         /\ e.op \in Operators => emitted[e]["i32"] = After(x, After(y, Ok(Wrap(Arith(e.op, x.v, y.v)))))
<1> DEFINE p == emitted[e.args[1]]  q == emitted[e.args[2]]
<1>1. emitted[e]["i32"] = emit_expr(e, p, q) /\ ~emit_wide(e)
  BY EmittedIs DEF emit_wide
<1>2. /\ Arity(e.op) >= 1 => p["i32"].v \in Int
      /\ Arity(e.op) = 2 => q["i32"].v \in Int
  BY Operands, EmittedUnfold DEF Pairs, TwoWidths, Outcome
<1> HIDE DEF p, q
<1>3. e.op = "var" => emitted[e]["i32"] = Ok(env[e.name])
  BY <1>1, ExprCases
<1>4. e.op = "call" => emitted[e]["i32"] = After(p["i32"], Called(e.name, p["i32"].v))
  BY <1>1, ExprCases
<1>5. ASSUME e.op = "neg" PROVE emitted[e]["i32"] = After(p["i32"], Ok(Wrap(-p["i32"].v)))
  <2>1. p["i32"].v \in Int /\ -p["i32"].v \in Int
    BY <1>2, <1>5, Operands
  <2>2. Lowered(-p["i32"].v) = Ok(Wrap(-p["i32"].v))
    BY <2>1, PlainLowered
  <2> QED
    BY <1>1, <1>5, <2>2, ExprCases
<1>6. e.op = "<" =>
        emitted[e]["i32"] = After(p["i32"], After(q["i32"], Less(p["i32"].v, q["i32"].v)))
  BY <1>1, ExprCases DEF Both
<1>7. ASSUME e.op \in Operators
      PROVE  emitted[e]["i32"] =
               After(p["i32"], After(q["i32"], Ok(Wrap(Arith(e.op, p["i32"].v, q["i32"].v)))))
  <2>1. Arith(e.op, p["i32"].v, q["i32"].v) \in Int
    BY <1>2, <1>7, Operands, ArithTyped
  <2>2. Lowered(Arith(e.op, p["i32"].v, q["i32"].v)) = Ok(Wrap(Arith(e.op, p["i32"].v, q["i32"].v)))
    BY <2>1, PlainLowered
  <2> QED
    BY <1>1, <1>7, <2>2, ExprCases DEF Both
<1> QED
  BY <1>3, <1>4, <1>5, <1>6, <1>7 DEF p, q

LEMMA PlainStops ==
  ASSUME abi = "plain", EnvTyped, NEW e \in Expressions, "index" \notin Uses(e),
         \A j \in DOMAIN e.args : Wraps(e.args[j])
  PROVE  emitted[e]["i32"].stop \in {"no", "hang"}
<1> DEFINE x == emitted[e.args[1]]["i32"]  y == emitted[e.args[2]]["i32"]
<1>1. \A v : Ok(v).stop = "no"
  BY DEF Ok
<1>2. \A l, next : l.stop \in {"no", "hang"} /\ next.stop \in {"no", "hang"}
                     => After(l, next).stop \in {"no", "hang"}
  BY DEF After
<1>3. /\ Arity(e.op) >= 1 => x.stop \in {"no", "hang"} /\ x.v \in Int
      /\ Arity(e.op) = 2 => y.stop \in {"no", "hang"}
  <2>1. \A j \in DOMAIN e.args : "index" \notin Uses(e.args[j])
    BY UsesSplit
  <2>2. Arity(e.op) >= 1 => x.v \in Int
    BY Operands, EmittedUnfold DEF Pairs, TwoWidths, Outcome
  <2> QED
    BY <2>1, <2>2, Operands DEF Wraps
<1>4. e.op # "index"
  BY UsesSplit
<1> HIDE DEF x, y
<1>5. CASE e.op = "var"
  BY <1>1, <1>5, PlainCases
<1>6. CASE e.op = "call"
  <2>1. x.stop \in {"no", "hang"} /\ x.v \in Int /\ x.v + 1 \in Int
    BY <1>3, <1>6, Operands
  <2>2. Called(e.name, x.v).stop \in {"no", "hang"}
    BY <2>1, <1>1, PlainLowered DEF Called, Stop
  <2> QED
    BY <1>2, <1>6, <2>1, <2>2, PlainCases DEF x
<1>7. CASE e.op = "neg"
  BY <1>1, <1>2, <1>3, <1>7, PlainCases, Operands DEF x
<1>8. CASE e.op = "<"
  <2>1. x.stop \in {"no", "hang"} /\ y.stop \in {"no", "hang"}
    BY <1>3, <1>8, Operands
  <2>2. Less(x.v, y.v).stop = "no"
    BY DEF Less, Ok
  <2> QED
    BY <1>2, <1>8, <2>1, <2>2, PlainCases DEF x, y
<1>9. CASE e.op \in Operators
  <2>1. x.stop \in {"no", "hang"} /\ y.stop \in {"no", "hang"}
    BY <1>3, <1>9, Operands
  <2> QED
    BY <1>1, <1>2, <1>9, <2>1, PlainCases DEF x, y
<1> QED
  BY <1>4, <1>5, <1>6, <1>7, <1>8, <1>9, OfKinds

LEMMA PlainSums ==
  ASSUME abi = "plain", EnvTyped, NEW e \in Expressions, Uses(e) \subseteq Sums,
         \A j \in DOMAIN e.args : Wraps(e.args[j])
  PROVE  emitted[e]["i32"] = Ok(Wrap(Meaning[e]))
<1> DEFINE x == emitted[e.args[1]]["i32"]  y == emitted[e.args[2]]["i32"]
           u == Meaning[e.args[1]]  w == Meaning[e.args[2]]
<1>1. e.op \in Sums /\ \A j \in DOMAIN e.args : Uses(e.args[j]) \subseteq Sums
  BY UsesSplit
<1>2. /\ Arity(e.op) >= 1 => x = Ok(Wrap(u)) /\ u \in Int
      /\ Arity(e.op) = 2 => y = Ok(Wrap(w)) /\ w \in Int
  BY <1>1, Operands, MeaningUnfold DEF Wraps
<1>3. Meaning[e] = MeaningOf(e, u, w)
  BY MeaningUnfold
<1>4. \A v : Ok(v).stop = "no" /\ Ok(v).v = v
  BY DEF Ok
<1> HIDE DEF x, y, u, w
<1>5. CASE e.op = "var"
  <2>1. env[e.name] \in Int32
    BY <1>5, Trees DEF EnvTyped
  <2> QED
    BY <1>3, <1>5, <2>1, MeaningCases, PlainCases, WrapFits
<1>6. CASE e.op = "neg"
  <2>1. x = Ok(Wrap(u)) /\ u \in Int
    BY <1>2, <1>6, Operands
  <2>2. emitted[e]["i32"] = After(x, Ok(Wrap(-x.v)))
    BY <1>6, PlainCases DEF x
  <2>3. emitted[e]["i32"] = Ok(Wrap(-Wrap(u)))
    BY <1>4, <2>1, <2>2 DEF After
  <2> QED
    BY <1>3, <1>6, <2>1, <2>3, MeaningCases, WrapsNegation
<1>7. CASE e.op \in {"+", "-", "*"}
  <2>0. e.op \in Operators
    BY <1>7 DEF Operators
  <2>1. x = Ok(Wrap(u)) /\ u \in Int /\ y = Ok(Wrap(w)) /\ w \in Int
    BY <1>2, <2>0, Operands
  <2>2. emitted[e]["i32"] = After(x, After(y, Ok(Wrap(Arith(e.op, x.v, y.v)))))
    BY <2>0, PlainCases DEF x, y
  <2>3. emitted[e]["i32"] = Ok(Wrap(Arith(e.op, Wrap(u), Wrap(w))))
    BY <1>4, <2>1, <2>2 DEF After
  <2>4. Meaning[e] = Arith(e.op, u, w)
    BY <1>3, <2>0, MeaningCases
  <2> QED
    BY <1>7, <2>1, <2>3, <2>4, WrapsThrough
<1> QED
  BY <1>1, <1>5, <1>6, <1>7 DEF Sums

LEMMA AllWrap ==
  ASSUME abi = "plain", EnvTyped
  PROVE  \A e \in Expressions : Wraps(e)
<1> DEFINE P == {e \in Expressions : Wraps(e)}
<1>1. ASSUME NEW e \in Expressions, \A j \in DOMAIN e.args : e.args[j] \in P PROVE e \in P
  <2>1. \A j \in DOMAIN e.args : Wraps(e.args[j])
    BY <1>1
  <2> QED
    BY <2>1, PlainStops, PlainSums DEF Wraps
<1>2. P \in SUBSET Expressions
  OBVIOUS
<1> HIDE DEF P
<1>3. \A e \in Expressions : e \in P
  BY <1>1, <1>2, TreeInduction
<1> QED
  BY <1>3 DEF P

-----------------------------------------------------------------------------
(* The specification.                                                       *)

\* What holds throughout: `free` is on its way to loop_free_functions and is all of
\* it once the crate is compiled, and an answer is what is emitted.
IInv ==
  /\ abi \in {"plain", "fallible"} /\ expr \in Expressions /\ whiles \subseteq Functions
  /\ calls \in CallGraphs
  /\ abi = "plain" => "index" \notin Uses(expr)
  /\ free \subseteq Functions /\ FreeReturn
  /\ phase \in {"loops", "compiled", "called", "answered"}
  /\ phase # "loops" => FreeIsAll
  /\ EnvTyped
  /\ phase = "answered" => result = emitted[expr]["i32"]

LEMMA Initial == Init => IInv
<1> SUFFICES ASSUME Init PROVE IInv
  OBVIOUS
<1>1. EnvTyped
  <2>1. [Vars -> {0}] \subseteq [Vars -> Int32]
    BY Widths
  <2> QED
    BY <2>1 DEF Init, EnvTyped
<1> QED
  BY <1>1 DEF Init, IInv, FreeReturn

LEMMA JoinKeeps == ASSUME IInv, NEW f \in Functions, Join(f) PROVE IInv'
<1>1. FreeReturn'
  BY CallsAssumption DEF IInv, FreeReturn, Join, Joins, source
<1>2. EnvTyped' /\ (abi = "plain" => "index" \notin Uses(expr))'
  BY DEF IInv, Join, EnvTyped, source, Uses, Subtrees
<1> QED
  BY <1>1, <1>2 DEF IInv, Join, source

LEMMA JoinedKeeps == ASSUME IInv, Joined PROVE IInv'
<1>1. FreeReturn' /\ FreeIsAll'
  BY DEF IInv, FreeReturn, FreeIsAll, Joined, Joins, source
<1>2. EnvTyped' /\ (abi = "plain" => "index" \notin Uses(expr))'
  BY DEF IInv, Joined, EnvTyped, source, Uses, Subtrees
<1> QED
  BY <1>1, <1>2 DEF IInv, Joined, source

LEMMA CallKeeps == ASSUME IInv, Call PROVE IInv'
<1>1. FreeReturn' /\ FreeIsAll'
  BY DEF IInv, FreeReturn, FreeIsAll, Call, Joins, source
<1>2. EnvTyped'
  BY ConstantsAssumption DEF Call, EnvTyped
<1>3. (abi = "plain" => "index" \notin Uses(expr))'
  BY DEF IInv, Call, source, Uses, Subtrees
<1> QED
  BY <1>1, <1>2, <1>3 DEF IInv, Call, source

LEMMA EvaluateKeeps == ASSUME IInv, Evaluate PROVE IInv'
<1>1. FreeReturn' /\ FreeIsAll'
  BY DEF IInv, FreeReturn, FreeIsAll, Evaluate, Joins, source
<1>2. EnvTyped' /\ (abi = "plain" => "index" \notin Uses(expr))'
  BY DEF IInv, Evaluate, EnvTyped, source, Uses, Subtrees
<1>3. emitted' = emitted
  BY SameEmitted DEF Evaluate, source
<1> QED
  BY <1>1, <1>2, <1>3 DEF IInv, Evaluate, source

LEMMA StutterKeeps == ASSUME IInv, UNCHANGED vars PROVE IInv'
<1>1. FreeReturn' /\ (phase # "loops" => FreeIsAll)'
  BY DEF IInv, FreeReturn, FreeIsAll, Joins, source, vars
<1>2. EnvTyped' /\ (abi = "plain" => "index" \notin Uses(expr))'
  BY DEF IInv, EnvTyped, source, vars, Uses, Subtrees
<1>3. emitted' = emitted
  BY SameEmitted DEF source, vars
<1> QED
  BY <1>1, <1>2, <1>3 DEF IInv, source, vars

LEMMA Inductive == Spec => []IInv
<1>1. IInv /\ [Next]_vars => IInv'
  BY JoinKeeps, JoinedKeeps, CallKeeps, EvaluateKeeps, StutterKeeps DEF Next
<1> QED
  BY Initial, <1>1, PTL DEF Spec

LEMMA AnswersAreCompiled == IInv /\ phase = "answered" => Compiled
BY DEF IInv, Compiled

\* Where a fallible body gives a value, it is the integer its source means, for any
\* tree: no intermediate of emit_wide wraps, truncates or saturates.
THEOREM ExactValues == Spec => []ValueIsExact
<1>1. IInv => ValueIsExact
  <2> SUFFICES ASSUME IInv, Answered("fallible"), result.stop = "no" PROVE result.v = Meaning[expr]
    BY DEF ValueIsExact
  <2>1. Sound(expr)
    BY AnswersAreCompiled, AllSound DEF IInv, Answered
  <2> QED
    BY <2>1 DEF IInv, Answered, Sound, Right
<1> QED
  BY <1>1, Inductive, PTL

\* emit_wide gives every value that checking each operator where it stands gives.
THEOREM DeferringLosesNothing == Spec => []NeverStricter
<1>1. IInv => NeverStricter
  <2> SUFFICES ASSUME IInv, phase = "answered", Eager[expr].stop = "no" PROVE result = Eager[expr]
    BY DEF NeverStricter
  <2>1. Agrees(expr)
    BY AllAgree DEF IInv
  <2> QED
    BY <2>1 DEF IInv, Agrees
<1> QED
  BY <1>1, Inductive, PTL

\* is_pure defers nothing that matters: a body stops as the first part that really
\* stops does, in evaluation order, unless i64 itself overflows.  It rests on
\* loop_free_functions finding exactly the functions that return.
THEOREM RealStopsFirst == Spec => []FirstRealStop
<1>1. IInv => FirstRealStop
  <2> SUFFICES ASSUME IInv, Answered("fallible")
               PROVE  result.stop \in {FirstStop[expr][FALSE]}
                                      \union (IF BeyondI64 THEN {"overflow"} ELSE {})
    BY DEF FirstRealStop
  <2>1. Sound(expr)
    BY AnswersAreCompiled, AllSound DEF IInv, Answered
  <2>2. At(result, FirstStop[expr][FALSE], expr)
    BY <2>1 DEF IInv, Answered, Sound
  <2> QED
    BY <2>2 DEF At, Beyond, BeyondI64
<1> QED
  BY <1>1, Inductive, PTL

\* An infallible body without an index gives a value or hangs in a call, and its
\* sums, differences, products and negations wrap once, however they nest.
THEOREM InfallibleBodiesWrap == Spec => []PlainWraps
<1>1. IInv => PlainWraps
  <2> SUFFICES ASSUME IInv, Answered("plain")
               PROVE  /\ result.stop \in {"no", "hang"}
                      /\ Uses(expr) \subseteq Sums => result.v = Wrap(Meaning[expr])
    BY DEF PlainWraps, Sums
  <2>1. Wraps(expr)
    BY AllWrap DEF IInv, Answered
  <2> QED
    BY <2>1 DEF IInv, Answered, Wraps, Ok
<1> QED
  BY <1>1, Inductive, PTL
=============================================================================
