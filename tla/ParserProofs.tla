----------------------------- MODULE ParserProofs -----------------------------
(***************************************************************************)
(* The parser's invariants for every limit, every vocabulary and every       *)
(* program.                                                                  *)
(*                                                                          *)
(* The charge is given back in one assignment when an expression ends, so    *)
(* the invariant of the stack (Paid) also says of each suspended expression  *)
(* that what is below it was paid for out of the charge it will restore.     *)
(*                                                                          *)
(* The invariant of the trees (TreeInv) reads the stack of goals as a chain: *)
(* what each goal demands of the trees below it, the level of a root and the *)
(* depth, follows from what the goal after it demands and from the charge at *)
(* which the expression around it began.                                     *)
(***************************************************************************)
EXTENDS Parser, FiniteSetTheorems, SequenceTheorems, TLAPS

\* What may stand on the stack: the type of `goals`.
Kinds == {"items", "constant", "negated", "end_of_constant", "function", "check", "parameters",
          "parameter", "parameter?", "type", "type_end", "block", "statements", "leave_block",
          "statement", "leaf", "value", "try", "arguments", "argument?", "expr", "casts", "unary",
          "operand", "negate", "primary", "after_name", "group", "join", "name"}

Goals == {<<k>> : k \in Kinds} \cup ({"eat", "optional"} \X AllTokens) \cup ({"leave"} \X Nat)
           \cup ({"operators"} \X DOMAIN OpsAt) \cup ({"node", "wrap"} \X Nat \X Nat)

\* The suspended calls of a stack below its i-th goal.
Frames(gs, i) == {j \in DOMAIN gs : j > i /\ Suspended(gs[j])}

Quiet(new) == new \in Seq(Goals) /\ \A j \in DOMAIN new : ~Suspended(new[j])

EndsInItems(gs) == gs[Len(gs)] = Goal("items")

Paid(gs, d) ==
  /\ gs \in Seq(Goals) /\ d \in 0..MAX_NESTING
  /\ gs # <<>> => EndsInItems(gs)
  /\ Cardinality(Frames(gs, 0)) <= d
  /\ \A i \in DOMAIN gs : gs[i][1] = "leave" =>
       gs[i][2] \in 0..MAX_NESTING /\ Cardinality(Frames(gs, i)) <= gs[i][2]

IInv == Paid(goals, depth) /\ (outcome = "parsing" => goals # <<>>)

-----------------------------------------------------------------------------
(* Counting.                                                               *)

LEMMA FramesFinite ==
  ASSUME NEW gs \in Seq(Goals), NEW i
  PROVE  IsFiniteSet(Frames(gs, i)) /\ Cardinality(Frames(gs, i)) \in Nat
<1>1. Frames(gs, i) \in SUBSET (1..Len(gs)) /\ Len(gs) \in Nat
  BY DEF Frames
<1>2. IsFiniteSet(1..Len(gs))
  BY <1>1, FS_Interval
<1> QED
  BY <1>1, <1>2, FS_Subset, FS_CardinalityType

\* The goals of a step over the tail of a stack.
LEMMA Stacked ==
  ASSUME NEW gs \in Seq(Goals), gs # <<>>, NEW new \in Seq(Goals)
  PROVE  /\ new \o Tail(gs) \in Seq(Goals)
         /\ Len(new \o Tail(gs)) = Len(new) + Len(gs) - 1
         /\ Len(gs) \in Nat \ {0} /\ Len(new) \in Nat
         /\ \A j \in 1..Len(new) : (new \o Tail(gs))[j] = new[j]
         /\ \A j \in 2..Len(gs) : (new \o Tail(gs))[j + Len(new) - 1] = gs[j]
<1>1. /\ Tail(gs) \in Seq(Goals) /\ Len(Tail(gs)) = Len(gs) - 1 /\ Len(gs) \in Nat \ {0}
      /\ \A j \in 2..Len(gs) : Tail(gs)[j - 1] = gs[j]
  OBVIOUS
<1>2. Len(new) \in Nat
  OBVIOUS
<1>3. /\ new \o Tail(gs) \in Seq(Goals)
      /\ Len(new \o Tail(gs)) = Len(new) + Len(gs) - 1
      /\ \A j \in 1..Len(new) : (new \o Tail(gs))[j] = new[j]
  BY <1>1, <1>2
<1>4. ASSUME NEW j \in 2..Len(gs)
      PROVE  (new \o Tail(gs))[j + Len(new) - 1] = gs[j]
  <2>1. /\ j + Len(new) - 1 \in Len(new) + 1 .. Len(new) + Len(Tail(gs))
        /\ (j + Len(new) - 1) - Len(new) = j - 1
    BY <1>1, <1>2
  <2>2. (new \o Tail(gs))[j + Len(new) - 1] = Tail(gs)[(j + Len(new) - 1) - Len(new)]
    BY <1>1, <1>2, <2>1
  <2> QED
    BY <1>1, <2>1, <2>2
<1> QED
  BY <1>1, <1>2, <1>3, <1>4

LEMMA Shifted ==
  ASSUME NEW gs \in Seq(Goals), gs # <<>>, NEW new \in Seq(Goals), NEW i \in 1..Len(gs)
  PROVE  Cardinality(Frames(new \o Tail(gs), i + Len(new) - 1)) = Cardinality(Frames(gs, i))
<1> DEFINE st == new \o Tail(gs)
           n == Len(new)
           S == Frames(gs, i)
           T == Frames(st, i + n - 1)
           f == [j \in S |-> j + n - 1]
<1>1. /\ Len(st) = n + Len(gs) - 1 /\ Len(gs) \in Nat \ {0} /\ n \in Nat
      /\ \A j \in 2..Len(gs) : st[j + n - 1] = gs[j]
      /\ st \in Seq(Goals)
  BY Stacked
<1> HIDE DEF st
<1>2. /\ S = {j \in 1..Len(gs) : j > i /\ Suspended(gs[j])}
      /\ T = {k \in 1..Len(st) : k > i + n - 1 /\ Suspended(st[k])}
  BY <1>1 DEF Frames
<1> HIDE DEF S, T, n
<1>3. \A j \in S : j + n - 1 \in T
  BY <1>1, <1>2
<1>4. \A k \in T : k - n + 1 \in S /\ (k - n + 1) + n - 1 = k
  <2> TAKE k \in T
  <2>1. k - n + 1 \in 2..Len(gs) /\ (k - n + 1) + n - 1 = k /\ k - n + 1 > i
    BY <1>1, <1>2
  <2> QED
    BY <1>1, <1>2, <2>1
<1>5. \A a, b \in S : a + n - 1 = b + n - 1 => a = b
  BY <1>1, <1>2
<1>6. f \in Bijection(S, T)
  <2>1. f \in [S -> T]
    BY <1>3
  <2>2. \A a, b \in S : f[a] = f[b] => a = b
    BY <1>5
  <2>3. \A k \in T : \E j \in S : f[j] = k
    BY <1>4
  <2> QED
    BY <2>1, <2>2, <2>3 DEF Bijection, Injection, Surjection, IsInjective
<1>7. IsFiniteSet(S)
  BY FramesFinite DEF S
<1> QED
  BY <1>6, <1>7, FS_Bijection DEF ExistsBijection, S, T, st, n

\* What is below the head of a stack, and the head.
LEMMA Popped ==
  ASSUME NEW gs \in Seq(Goals), gs # <<>>
  PROVE  Cardinality(Frames(gs, 0)) = Cardinality(Frames(gs, 1)) + IF Suspended(gs[1]) THEN 1 ELSE 0
<1>1. 1 \in DOMAIN gs /\ \A j \in DOMAIN gs : j > 0 <=> j > 1 \/ j = 1
  OBVIOUS
<1>2. IsFiniteSet(Frames(gs, 1)) /\ Cardinality(Frames(gs, 1)) \in Nat
  BY FramesFinite
<1>3. CASE Suspended(gs[1])
  <2>1. Frames(gs, 0) = Frames(gs, 1) \cup {1} /\ 1 \notin Frames(gs, 1)
    BY <1>1, <1>3 DEF Frames
  <2> QED
    BY <1>2, <1>3, <2>1, FS_AddElement
<1>4. CASE ~Suspended(gs[1])
  <2>1. Frames(gs, 0) = Frames(gs, 1)
    BY <1>1, <1>4 DEF Frames
  <2> QED
    BY <1>2, <1>4, <2>1
<1> QED
  BY <1>3, <1>4

\* Goals that suspend nothing put nothing on the count.
LEMMA NothingAdded ==
  ASSUME NEW gs \in Seq(Goals), gs # <<>>, NEW new, Quiet(new)
  PROVE  Cardinality(Frames(new \o Tail(gs), 0)) = Cardinality(Frames(gs, 1))
<1> DEFINE st == new \o Tail(gs)
<1>0. new \in Seq(Goals)
  BY DEF Quiet
<1>1. /\ st \in Seq(Goals) /\ Len(new) \in Nat /\ Len(gs) \in Nat \ {0}
      /\ \A j \in 1..Len(new) : st[j] = new[j]
  BY <1>0, Stacked
<1>2. \A j \in DOMAIN st : j > 0 /\ j <= Len(new) => ~Suspended(st[j])
  BY <1>0, <1>1 DEF Quiet
<1> HIDE DEF st
<1>3. Frames(st, 0) = Frames(st, Len(new))
  BY <1>1, <1>2 DEF Frames
<1>4. Cardinality(Frames(st, 1 + Len(new) - 1)) = Cardinality(Frames(gs, 1))
  BY <1>0, <1>1, Shifted DEF st
<1> QED
  BY <1>1, <1>3, <1>4 DEF st

\* One suspended goal among the new ones adds one, and lies over all that was below the head.
LEMMA OneAdded ==
  ASSUME NEW gs \in Seq(Goals), gs # <<>>, NEW new \in Seq(Goals),
         NEW k \in DOMAIN new, \A j \in DOMAIN new : Suspended(new[j]) <=> j = k
  PROVE  /\ Cardinality(Frames(new \o Tail(gs), 0)) = Cardinality(Frames(gs, 1)) + 1
         /\ Cardinality(Frames(new \o Tail(gs), k)) = Cardinality(Frames(gs, 1))
<1> DEFINE st == new \o Tail(gs)
<1>1. /\ st \in Seq(Goals) /\ Len(new) \in Nat /\ Len(gs) \in Nat \ {0}
      /\ Len(st) = Len(new) + Len(gs) - 1
      /\ \A j \in 1..Len(new) : st[j] = new[j]
  BY Stacked
<1>2. k \in 1..Len(new) /\ \A j \in 1..Len(new) : Suspended(st[j]) <=> j = k
  BY <1>1
<1> HIDE DEF st
<1> DEFINE n == Len(new)
<1>3. Frames(st, k) = Frames(st, n) /\ Frames(st, 0) = Frames(st, n) \cup {k}
  <2>1. DOMAIN st = 1..Len(st) /\ Len(st) \in Nat /\ k \in 1..Len(st)
    BY <1>1, <1>2
  <2>2. \A i \in Nat : Frames(st, i) = {j \in 1..Len(st) : j > i /\ Suspended(st[j])}
    BY <2>1 DEF Frames
  <2>3. n \in Nat /\ k \in Nat /\ \A j \in 1..n : Suspended(st[j]) <=> j = k
    BY <1>1, <1>2
  <2>4. k \in 1..n
    BY <1>2
  <2> HIDE DEF n
  <2>5. \A j \in 1..Len(st) : j > k /\ Suspended(st[j]) <=> j > n /\ Suspended(st[j])
    BY <2>1, <2>3, <2>4
  <2>6. \A j \in 1..Len(st) : j > 0 /\ Suspended(st[j]) <=> (j > n /\ Suspended(st[j])) \/ j = k
    BY <2>1, <2>3, <2>4
  <2>7. Frames(st, k) = Frames(st, n)
    BY <2>2, <2>3, <2>5
  <2>8. Frames(st, 0) = {j \in 1..Len(st) : (j > n /\ Suspended(st[j])) \/ j = k}
    BY <2>2, <2>6
  <2>9. Frames(st, n) = {j \in 1..Len(st) : j > n /\ Suspended(st[j])}
    BY <2>2, <2>3
  <2> QED
    BY <2>1, <2>7, <2>8, <2>9
<1>4. Cardinality(Frames(st, 1 + Len(new) - 1)) = Cardinality(Frames(gs, 1))
  BY <1>1, Shifted DEF st
<1>5. k \notin Frames(st, n) /\ IsFiniteSet(Frames(st, n))
  <2>1. ~(k > n)
    BY <1>1, <1>2
  <2> QED
    BY <1>1, <2>1, FramesFinite DEF Frames
<1>6. Cardinality(Frames(st, 0)) = Cardinality(Frames(st, Len(new))) + 1
  BY <1>3, <1>5, FS_AddElement
<1> QED
  BY <1>1, <1>3, <1>4, <1>6 DEF st

-----------------------------------------------------------------------------
(* Steps.                                                                  *)

\* What the tail of a stack keeps under the new goals.
LEMMA Kept ==
  ASSUME NEW gs, NEW d, Paid(gs, d), gs # <<>>, NEW new \in Seq(Goals),
         gs[1] # Goal("items") \/ (new # <<>> /\ EndsInItems(new))
  PROVE  LET st == new \o Tail(gs)
         IN  /\ st \in Seq(Goals) /\ st # <<>> /\ EndsInItems(st)
             /\ \A i \in DOMAIN st : i > Len(new) /\ st[i][1] = "leave" =>
                  st[i][2] \in 0..MAX_NESTING /\ Cardinality(Frames(st, i)) <= st[i][2]
<1> DEFINE st == new \o Tail(gs)
<1>0. gs \in Seq(Goals) /\ EndsInItems(gs)
  BY DEF Paid
<1>1. /\ st \in Seq(Goals) /\ Len(new) \in Nat /\ Len(gs) \in Nat \ {0}
      /\ Len(st) = Len(new) + Len(gs) - 1
      /\ \A j \in 1..Len(new) : st[j] = new[j]
      /\ \A j \in 2..Len(gs) : st[j + Len(new) - 1] = gs[j]
  BY <1>0, Stacked
<1>2. \A i \in 1..Len(gs) : Cardinality(Frames(st, i + Len(new) - 1)) = Cardinality(Frames(gs, i))
  BY <1>0, Shifted
<1> HIDE DEF st
<1>3. Len(st) # 0 /\ st[Len(st)] = Goal("items")
  <2>1. CASE Len(gs) = 1
    <3>1. Len(new) # 0 /\ new[Len(new)] = Goal("items") /\ Len(new) \in 1..Len(new)
      BY <1>0, <1>1, <2>1 DEF EndsInItems
    <3> QED
      BY <1>1, <2>1, <3>1
  <2>2. CASE Len(gs) # 1
    <3>1. Len(gs) \in 2..Len(gs) /\ Len(gs) + Len(new) - 1 = Len(st)
      <4> HIDE DEF Goals
      <4>1. \A m, n \in Nat : m # 0 /\ m # 1 => m \in 2..m /\ m + n - 1 = n + m - 1
        OBVIOUS
      <4> QED
        BY <1>1, <2>2, <4>1
    <3> QED
      BY <1>0, <1>1, <3>1 DEF EndsInItems
  <2> QED
    BY <2>1, <2>2
<1>4. ASSUME NEW i \in DOMAIN st, i > Len(new), st[i][1] = "leave"
      PROVE  st[i][2] \in 0..MAX_NESTING /\ Cardinality(Frames(st, i)) <= st[i][2]
  <2> DEFINE j == i - Len(new) + 1
  <2>1. j \in 2..Len(gs) /\ j + Len(new) - 1 = i /\ j \in 1..Len(gs)
    BY <1>1, <1>4
  <2> HIDE DEF j
  <2>2. st[i] = gs[j] /\ Cardinality(Frames(st, i)) = Cardinality(Frames(gs, j))
    BY <1>1, <1>2, <2>1
  <2>3. gs[j][2] \in 0..MAX_NESTING /\ Cardinality(Frames(gs, j)) <= gs[j][2]
    BY <1>0, <1>4, <2>1, <2>2 DEF Paid
  <2> QED
    BY <2>2, <2>3
<1> QED
  BY <1>1, <1>3, <1>4 DEF EndsInItems, st

\* A step that suspends nothing, and gives nothing back.
LEMMA QuietStep ==
  ASSUME NEW gs, NEW d, Paid(gs, d), gs # <<>>, NEW new, Quiet(new),
         gs[1] # Goal("items") \/ (new # <<>> /\ EndsInItems(new)),
         NEW e \in 0..MAX_NESTING, d <= e
  PROVE  Paid(new \o Tail(gs), e) /\ new \o Tail(gs) # <<>>
<1> DEFINE st == new \o Tail(gs)
<1>1. gs \in Seq(Goals) /\ new \in Seq(Goals) /\ Cardinality(Frames(gs, 0)) <= d /\ d \in 0..MAX_NESTING
  BY DEF Paid, Quiet
<1>2. /\ st \in Seq(Goals) /\ st # <<>> /\ EndsInItems(st)
      /\ \A i \in DOMAIN st : i > Len(new) /\ st[i][1] = "leave" =>
           st[i][2] \in 0..MAX_NESTING /\ Cardinality(Frames(st, i)) <= st[i][2]
  BY <1>1, Kept
<1>3. Cardinality(Frames(st, 0)) <= e
  <2>1. Cardinality(Frames(st, 0)) = Cardinality(Frames(gs, 1)) /\ Cardinality(Frames(gs, 1)) \in Nat
    BY <1>1, NothingAdded, FramesFinite
  <2>2. Cardinality(Frames(gs, 1)) <= Cardinality(Frames(gs, 0)) /\ Cardinality(Frames(gs, 0)) \in Nat
    BY <1>1, <2>1, Popped, FramesFinite
  <2> QED
    BY <1>1, <2>1, <2>2, ConstantsAssumption
<1>4. \A i \in DOMAIN st : i <= Len(new) => st[i][1] # "leave"
  <2>1. \A i \in 1..Len(new) : st[i] = new[i]
    BY <1>1, Stacked
  <2>2. \A i \in 1..Len(new) : new[i][1] # "leave"
    <3>1. \A i \in 1..Len(new) : i \in DOMAIN new
      BY <1>1
    <3>2. \A i \in 1..Len(new) : ~Suspended(new[i])
      BY <3>1 DEF Quiet
    <3> QED
      BY <3>2 DEF Suspended
  <2> HIDE DEF st
  <2>3. \A i \in DOMAIN st : i <= Len(new) => i \in 1..Len(new)
    BY <1>1, <1>2
  <2> SUFFICES ASSUME NEW i \in DOMAIN st, i <= Len(new)
               PROVE  st[i][1] # "leave"
    OBVIOUS
  <2>4. i \in 1..Len(new)
    BY <2>3
  <2>5. st[i] = new[i]
    BY <2>1, <2>4
  <2> QED
    BY <2>2, <2>4, <2>5
<1> HIDE DEF st
<1>5. \A i \in DOMAIN st : i \in Int /\ Len(new) \in Int
  BY <1>1, <1>2
<1>6. \A i \in DOMAIN st : st[i][1] = "leave" =>
           st[i][2] \in 0..MAX_NESTING /\ Cardinality(Frames(st, i)) <= st[i][2]
  BY <1>2, <1>4, <1>5
<1> QED
  BY <1>2, <1>3, <1>6 DEF Paid, st

\* A descent that is charged, with one goal that suspends; an expression notes the charge before it.
LEMMA Descent ==
  ASSUME NEW gs, NEW d, Paid(gs, d), gs # <<>>, gs[1] # Goal("items"), d < MAX_NESTING,
         NEW new \in Seq(Goals), NEW k \in DOMAIN new,
         \A j \in DOMAIN new : Suspended(new[j]) <=> j = k,
         new[k][1] = "leave" => new[k][2] = d
  PROVE  Paid(new \o Tail(gs), d + 1) /\ new \o Tail(gs) # <<>>
<1> DEFINE st == new \o Tail(gs)
<1>1. gs \in Seq(Goals) /\ Cardinality(Frames(gs, 0)) <= d /\ d \in 0..MAX_NESTING
  BY DEF Paid
<1>2. /\ st \in Seq(Goals) /\ st # <<>> /\ EndsInItems(st)
      /\ \A i \in DOMAIN st : i > Len(new) /\ st[i][1] = "leave" =>
           st[i][2] \in 0..MAX_NESTING /\ Cardinality(Frames(st, i)) <= st[i][2]
  BY <1>1, Kept
<1>3. /\ Cardinality(Frames(gs, 1)) \in Nat /\ Cardinality(Frames(gs, 1)) <= d
  <2>1. Cardinality(Frames(gs, 1)) \in Nat /\ Cardinality(Frames(gs, 0)) \in Nat
    BY <1>1, FramesFinite
  <2> QED
    BY <1>1, <2>1, Popped
<1>4. /\ Cardinality(Frames(st, 0)) = Cardinality(Frames(gs, 1)) + 1
      /\ Cardinality(Frames(st, k)) = Cardinality(Frames(gs, 1))
  BY <1>1, OneAdded
<1>5. \A i \in DOMAIN new : st[i] = new[i]
  BY <1>1, Stacked
<1> HIDE DEF st
<1>6. ASSUME NEW i \in DOMAIN st, st[i][1] = "leave"
      PROVE  st[i][2] \in 0..MAX_NESTING /\ Cardinality(Frames(st, i)) <= st[i][2]
  <2>1. CASE i > Len(new)
    BY <1>2, <1>6, <2>1
  <2>2. CASE i <= Len(new)
    <3>1. i \in DOMAIN new
      BY <1>2, <2>2
    <3>2. i = k /\ st[i] = new[k]
      BY <1>5, <1>6, <3>1 DEF Suspended
    <3> QED
      BY <1>1, <1>3, <1>4, <1>6, <3>2
  <2> QED
    BY <1>2, <2>1, <2>2
<1>7. d + 1 \in 0..MAX_NESTING /\ Cardinality(Frames(st, 0)) <= d + 1
  BY <1>1, <1>3, <1>4, ConstantsAssumption
<1> QED
  BY <1>2, <1>6, <1>7 DEF Paid, st

\* A suspended call returns: the charge becomes e, which pays for what is below it.
LEMMA Return ==
  ASSUME NEW gs, NEW d, Paid(gs, d), gs # <<>>, gs[1] # Goal("items"),
         NEW e \in 0..MAX_NESTING, Cardinality(Frames(gs, 1)) <= e
  PROVE  Paid(<<>> \o Tail(gs), e) /\ <<>> \o Tail(gs) # <<>>
<1> DEFINE st == <<>> \o Tail(gs)
<1>1. gs \in Seq(Goals) /\ <<>> \in Seq(Goals) /\ Len(<<>>) = 0 /\ Quiet(<<>>)
  BY DEF Paid, Quiet
<1>2. /\ st \in Seq(Goals) /\ st # <<>> /\ EndsInItems(st)
      /\ \A i \in DOMAIN st : i > Len(<<>>) /\ st[i][1] = "leave" =>
           st[i][2] \in 0..MAX_NESTING /\ Cardinality(Frames(st, i)) <= st[i][2]
  BY <1>1, Kept
<1>3. Cardinality(Frames(st, 0)) = Cardinality(Frames(gs, 1))
  BY <1>1, NothingAdded
<1> HIDE DEF st
<1>4. \A i \in DOMAIN st : i > Len(<<>>)
  BY <1>1, <1>2
<1> QED
  BY <1>2, <1>3, <1>4 DEF Paid, st

-----------------------------------------------------------------------------
(* The goals the actions put up.                                           *)

\* Goals of the three shapes, by what they are called.
LEMMA GoalShapes ==
  /\ \A k \in Kinds : <<k>> \in Goals
  /\ \A t \in AllTokens : <<"eat", t>> \in Goals /\ <<"optional", t>> \in Goals
  /\ \A l \in 1..5 : <<"operators", l>> \in Goals
  /\ \A m, n \in Nat : <<"node", m, n>> \in Goals /\ <<"wrap", m, n>> \in Goals
  /\ \A d \in Nat : <<"leave", d>> \in Goals
<1>1. DOMAIN OpsAt = 1..5
  BY DEF OpsAt
<1> QED
  BY <1>1 DEF Goals

LEMMA LevelsAre == CastLevel = 6 /\ UnaryLevel = 7 /\ PrimaryLevel = 8 /\ DOMAIN OpsAt = 1..5
BY DEF CastLevel, UnaryLevel, PrimaryLevel, OpsAt

LEMMA SequenceOf ==
  ASSUME NEW n \in Nat, NEW S, NEW f \in [1..n -> S]
  PROVE  f \in Seq(S) /\ Len(f) = n
<1>1. f \in Seq(S)
  OBVIOUS
<1> QED
  BY <1>1, LenProperties

\* Goals that are called by their name alone.
LEMMA Called ==
  ASSUME NEW names \in Seq(Kinds)
  PROVE  /\ Call(names) \in Seq(Goals) /\ Len(Call(names)) = Len(names)
         /\ \A i \in 1..Len(names) : Call(names)[i] = <<names[i]>>
<1>1. \A i \in 1..Len(names) : names[i] \in Kinds /\ <<names[i]>> \in Goals
  BY GoalShapes
<1>2. Call(names) = [i \in 1..Len(names) |-> <<names[i]>>] /\ Len(names) \in Nat
  BY DEF Call, Goal
<1>3. Call(names) \in [1..Len(names) -> Goals]
  BY <1>1, <1>2
<1>4. Call(names) \in Seq(Goals) /\ Len(Call(names)) = Len(names)
  BY <1>2, <1>3, SequenceOf
<1> QED
  BY <1>2, <1>4

\* The levels of an expression are goals that suspend nothing.
LEMMA LevelsQuiet ==
  ASSUME NEW l \in 1..6
  PROVE  /\ Quiet(Levels(l)) /\ Len(Levels(l)) = 8 - l
         /\ \A j \in DOMAIN Levels(l) : Levels(l)[j][1] \in {"unary", "casts", "operators"}
<1> DEFINE names == <<"unary", "casts">>
           top == Call(names)
           ops == [i \in 1..(CastLevel - l) |-> <<"operators", CastLevel - i>>]
<1>1. top \in Seq(Goals) /\ Len(top) = 2 /\ \A i \in 1..2 : top[i][1] \in {"unary", "casts"}
  <2>1. names \in Seq(Kinds) /\ Len(names) = 2 /\ names[1] = "unary" /\ names[2] = "casts"
    BY DEF Kinds
  <2> HIDE DEF names
  <2>2. top \in Seq(Goals) /\ Len(top) = 2 /\ \A i \in 1..2 : top[i] = <<names[i]>>
    BY <2>1, Called
  <2>3. \A i \in 1..2 : names[i] \in {"unary", "casts"}
    BY <2>1
  <2> QED
    BY <2>2, <2>3
<1>2. ops \in Seq(Goals) /\ Len(ops) = 6 - l /\ \A i \in 1..(6 - l) : ops[i][1] = "operators"
  <2>1. \A i \in 1..(6 - l) : <<"operators", 6 - i>> \in Goals
    <3> TAKE i \in 1..(6 - l)
    <3>1. 6 - i \in 1..5
      OBVIOUS
    <3> QED
      BY <3>1, GoalShapes
  <2>2. 6 - l \in Nat
    OBVIOUS
  <2>3. ops = [i \in 1..(6 - l) |-> <<"operators", 6 - i>>]
    BY LevelsAre
  <2> HIDE DEF ops
  <2>4. ops \in [1..(6 - l) -> Goals]
    BY <2>1, <2>3
  <2>5. \A i \in 1..(6 - l) : ops[i] = <<"operators", 6 - i>>
    BY <2>3
  <2> QED
    BY <2>2, <2>4, <2>5, SequenceOf
<1>3. Levels(l) = top \o ops
  BY DEF Levels
<1> HIDE DEF top, ops
<1>4. /\ Levels(l) \in Seq(Goals) /\ Len(Levels(l)) = 8 - l
      /\ \A j \in 1..(8 - l) : Levels(l)[j] = IF j <= 2 THEN top[j] ELSE ops[j - 2]
  <2>1. Len(top) + Len(ops) = 8 - l /\ \A j \in 1..Len(top) + Len(ops) : j - Len(top) = j - 2
    BY <1>1, <1>2
  <2>2. /\ Levels(l) \in Seq(Goals) /\ Len(Levels(l)) = Len(top) + Len(ops)
        /\ \A j \in 1..Len(top) + Len(ops) :
             Levels(l)[j] = IF j <= Len(top) THEN top[j] ELSE ops[j - Len(top)]
    <3>1. top \in Seq(Goals) /\ ops \in Seq(Goals)
      BY <1>1, <1>2
    <3> QED
      BY <3>1, <1>3, ConcatProperties
  <2>3. Len(top) = 2
    BY <1>1
  <2> QED
    BY <2>1, <2>2, <2>3
<1>5. ASSUME NEW j \in 1..(8 - l)
      PROVE  Levels(l)[j][1] \in {"unary", "casts", "operators"}
  <2>1. CASE j \in 1..2
    BY <1>1, <1>4, <2>1
  <2>2. CASE j > 2
    <3>1. j - 2 \in 1..(6 - l)
      BY <2>2
    <3>2. Levels(l)[j] = ops[j - 2]
      BY <1>4, <2>2
    <3> QED
      BY <1>2, <3>1, <3>2
  <2> QED
    BY <2>1, <2>2
<1>6. DOMAIN Levels(l) = 1..(8 - l)
  BY <1>4
<1>7. \A j \in DOMAIN Levels(l) : ~Suspended(Levels(l)[j])
  BY <1>5, <1>6 DEF Suspended
<1> QED
  BY <1>4, <1>5, <1>6, <1>7 DEF Quiet

\* The goals that suspend nothing, by name.
QuietGoals == {g \in Goals : ~Suspended(g)}

LEMMA QuietIs == ASSUME NEW new \in Seq(QuietGoals) PROVE Quiet(new)
<1>1. QuietGoals \subseteq Goals
  BY DEF QuietGoals
<1>2. new \in Seq(Goals)
  BY <1>1, SeqMonotonic
<1> QED
  BY <1>2 DEF Quiet, QuietGoals

LEMMA QuietMeans == ASSUME NEW new, Quiet(new) PROVE new \in Seq(QuietGoals)
<1>1. new \in Seq(Goals) /\ \A j \in 1..Len(new) : new[j] \in QuietGoals
  BY DEF Quiet, QuietGoals
<1> QED
  BY <1>1

QuietKinds == Kinds \ {"leave_block", "negate"}

LEMMA QuietByName == \A k \in QuietKinds : <<k>> \in QuietGoals /\ Goal(k) \in QuietGoals
<1>1. \A k \in QuietKinds : k \in Kinds /\ k \notin {"leave", "leave_block", "negate"}
  BY DEF QuietKinds, Kinds
<1> QED
  BY <1>1, GoalShapes DEF QuietGoals, Suspended, Goal

LEMMA QuietTokens ==
  /\ \A t \in {"(", ")", "[", "]", "{", "}", "=", ":", "->", "fn", "int", "scalar"} : eat(t) \in QuietGoals
  /\ \A t \in {"export", "out", "mut", "!"} : <<"optional", t>> \in QuietGoals
<1>1. {"(", ")", "[", "]", "{", "}", "=", ":", "->", "fn", "int", "scalar", "export", "out", "mut", "!"}
        \subseteq AllTokens
  BY DEF AllTokens, Literals, Names
<1>2. \A t \in AllTokens : <<"eat", t>> \in QuietGoals /\ <<"optional", t>> \in QuietGoals
  BY GoalShapes DEF QuietGoals, Suspended
<1> QED
  BY <1>1, <1>2 DEF eat

LEMMA QuietKindsAre ==
  /\ "items" \in QuietKinds /\ "constant" \in QuietKinds /\ "negated" \in QuietKinds /\ "end_of_constant" \in QuietKinds
  /\ "function" \in QuietKinds /\ "check" \in QuietKinds /\ "parameters" \in QuietKinds /\ "parameter" \in QuietKinds
  /\ "parameter?" \in QuietKinds /\ "type" \in QuietKinds /\ "type_end" \in QuietKinds /\ "block" \in QuietKinds
  /\ "statements" \in QuietKinds /\ "statement" \in QuietKinds /\ "leaf" \in QuietKinds /\ "value" \in QuietKinds
  /\ "try" \in QuietKinds /\ "arguments" \in QuietKinds /\ "argument?" \in QuietKinds /\ "expr" \in QuietKinds
  /\ "casts" \in QuietKinds /\ "unary" \in QuietKinds /\ "operand" \in QuietKinds /\ "primary" \in QuietKinds
  /\ "after_name" \in QuietKinds /\ "group" \in QuietKinds /\ "join" \in QuietKinds /\ "name" \in QuietKinds
BY DEF QuietKinds, Kinds

LEMMA QuietNames ==
  /\ Goal("items") \in QuietGoals /\ Goal("constant") \in QuietGoals /\ Goal("negated") \in QuietGoals
  /\ Goal("end_of_constant") \in QuietGoals /\ Goal("function") \in QuietGoals /\ Goal("check") \in QuietGoals
  /\ Goal("parameters") \in QuietGoals /\ Goal("parameter") \in QuietGoals /\ Goal("parameter?") \in QuietGoals
  /\ Goal("type") \in QuietGoals /\ Goal("type_end") \in QuietGoals /\ Goal("block") \in QuietGoals
  /\ Goal("statements") \in QuietGoals /\ Goal("statement") \in QuietGoals /\ Goal("leaf") \in QuietGoals
  /\ Goal("value") \in QuietGoals /\ Goal("try") \in QuietGoals /\ Goal("arguments") \in QuietGoals
  /\ Goal("argument?") \in QuietGoals /\ Goal("expr") \in QuietGoals /\ Goal("casts") \in QuietGoals
  /\ Goal("unary") \in QuietGoals /\ Goal("operand") \in QuietGoals /\ Goal("primary") \in QuietGoals
  /\ Goal("after_name") \in QuietGoals /\ Goal("group") \in QuietGoals /\ Goal("join") \in QuietGoals
  /\ Goal("name") \in QuietGoals
BY QuietByName, QuietKindsAre

LEMMA QuietNodes ==
  ASSUME NEW n \in Nat, NEW l \in Nat
  PROVE  Root(n) \in QuietGoals /\ <<"wrap", n, l>> \in QuietGoals
<1>1. <<"node", n, 8>> \in QuietGoals /\ <<"wrap", n, l>> \in QuietGoals
  BY GoalShapes DEF QuietGoals, Suspended
<1> QED
  BY <1>1, LevelsAre DEF Root, Node

LEMMA QuietCall ==
  ASSUME NEW names \in Seq(QuietKinds)
  PROVE  Call(names) \in Seq(QuietGoals) /\ Len(Call(names)) = Len(names)
         /\ \A i \in 1..Len(names) : Call(names)[i] = <<names[i]>>
<1>1. \A i \in 1..Len(names) : <<names[i]>> \in QuietGoals
  BY QuietByName
<1>2. Call(names) = [i \in 1..Len(names) |-> <<names[i]>>] /\ Len(names) \in Nat
  BY DEF Call, Goal
<1>3. Call(names) \in [1..Len(names) -> QuietGoals]
  BY <1>1, <1>2
<1> QED
  BY <1>2, <1>3, SequenceOf

-----------------------------------------------------------------------------
(* The invariant, action by action.                                        *)

LEMMA Emptied == Paid(<<>>, 0)
<1>1. Frames(<<>>, 0) = {} /\ <<>> \in Seq(Goals)
  BY DEF Frames
<1> QED
  BY <1>1, FS_EmptySet, ConstantsAssumption DEF Paid

LEMMA InitIInv == Init => IInv
<1> SUFFICES ASSUME Init PROVE IInv
  OBVIOUS
<1>0. <<"items">> \in Goals
  BY GoalShapes DEF Kinds
<1>1. goals = << <<"items">> >> /\ goals \in Seq(Goals) /\ depth = 0
  BY <1>0 DEF Init, Goal
<1>2. \A j \in DOMAIN goals : goals[j] = <<"items">> /\ goals[j][1] = "items"
  BY <1>1
<1>3. Frames(goals, 0) = {}
  BY <1>2 DEF Frames, Suspended
<1> QED
  BY <1>1, <1>2, <1>3, FS_EmptySet, ConstantsAssumption DEF IInv, Paid, EndsInItems, Goal

LEMMA RefusePays ==
  ASSUME IInv, Refuse
  PROVE  IInv'
BY Emptied DEF IInv, Refuse, Stop

LEMMA PlainPays ==
  ASSUME IInv, outcome = "parsing", NEW new, Quiet(new), Become(new),
         goals[1][1] # "items" \/ (new # <<>> /\ EndsInItems(new)),
         depth' = depth \/ (depth < MAX_NESTING /\ depth' = depth + 1)
  PROVE  IInv'
<1>1. /\ Paid(goals, depth) /\ goals # <<>> /\ depth \in 0..MAX_NESTING
      /\ goals[1] # Goal("items") \/ (new # <<>> /\ EndsInItems(new))
  BY DEF IInv, Paid, Goal
<1>2. depth' \in 0..MAX_NESTING /\ depth <= depth'
  BY <1>1, ConstantsAssumption
<1>3. Paid(new \o Tail(goals), depth') /\ new \o Tail(goals) # <<>>
  BY <1>1, <1>2, QuietStep
<1>4. goals' = new \o Tail(goals)
  BY DEF Become
<1> QED
  BY <1>3, <1>4 DEF IInv

LEMMA HeadIs ==
  ASSUME IInv, NEW k, Parsing(k)
  PROVE  /\ outcome = "parsing" /\ goals # <<>> /\ goals \in Seq(Goals)
         /\ goals[1] = Head(goals) /\ goals[1][1] = k
BY DEF IInv, Paid, Parsing

\* An action that reaches its goal, or puts up goals of its own in its place.
LEMMA StepPays ==
  ASSUME IInv, NEW k, Parsing(k), k # "items", NEW new, Quiet(new), Become(new), depth' = depth
  PROVE  IInv'
BY HeadIs, PlainPays

LEMMA ItemsPay ==
  ASSUME IInv, parse_module \/ LookAtItem
  PROVE  IInv'
<1>1. CASE LookAtItem
  BY <1>1 DEF LookAtItem, LookAhead, IInv
<1>2. CASE parse_module
  <2>0. outcome = "parsing"
    BY <1>2, HeadIs DEF parse_module
  <2>1. ASSUME NEW n, NEW new, Step(n, new) \/ Expand(new), Quiet(new), new # <<>>, EndsInItems(new)
        PROVE  IInv'
    BY <2>0, <2>1, PlainPays DEF Step, Expand
  <2>2. /\ Goal("name") \in QuietGoals /\ Goal("items") \in QuietGoals /\ Goal("constant") \in QuietGoals
        /\ eat("=") \in QuietGoals /\ eat("int") \in QuietGoals
    BY QuietNames, QuietTokens
  <2>3. Step(1, <<Goal("name"), eat("="), eat("int"), Goal("items")>>) => IInv'
    <3> DEFINE new == <<Goal("name"), eat("="), eat("int"), Goal("items")>>
    <3>1. new \in Seq(QuietGoals) /\ Len(new) = 4 /\ new[4] = Goal("items")
      BY <2>2
    <3> HIDE DEF new
    <3>2. Quiet(new) /\ new # <<>> /\ EndsInItems(new)
      BY <3>1, QuietIs DEF EndsInItems
    <3> QED
      BY <2>1, <3>2 DEF new
  <2>4. ASSUME NEW n, Step(n, <<Goal("name"), eat("="), Goal("constant"), Goal("items")>>)
        PROVE  IInv'
    <3> DEFINE new == <<Goal("name"), eat("="), Goal("constant"), Goal("items")>>
    <3>1. new \in Seq(QuietGoals) /\ Len(new) = 4 /\ new[4] = Goal("items")
      BY <2>2
    <3> HIDE DEF new
    <3>2. Quiet(new) /\ new # <<>> /\ EndsInItems(new)
      BY <3>1, QuietIs DEF EndsInItems
    <3> QED
      BY <2>1, <2>4, <3>2 DEF new
  <2>5. Expand(Call(<<"function", "check", "items">>)) => IInv'
    <3> DEFINE names == <<"function", "check", "items">>
    <3>1. names \in Seq(QuietKinds) /\ Len(names) = 3 /\ names[3] = "items"
      BY DEF QuietKinds, Kinds
    <3> HIDE DEF names
    <3>2. Call(names) \in Seq(QuietGoals) /\ Len(Call(names)) = 3 /\ Call(names)[3] = Goal("items")
      BY <3>1, QuietCall DEF Goal
    <3>3. Quiet(Call(names)) /\ EndsInItems(Call(names)) /\ Call(names) # <<>>
      BY <3>2, QuietIs DEF EndsInItems
    <3> QED
      BY <2>1, <3>3 DEF names
  <2>6. ASSUME NEW answer, Stop(answer), answer # "parsing"
        PROVE  IInv'
    BY <2>6, Emptied DEF IInv, Stop
  <2> QED
    BY <1>2, <2>3, <2>4, <2>5, <2>6 DEF parse_module
<1> QED
  BY <1>1, <1>2

\* The same for goals known by name.
LEMMA MovePays ==
  ASSUME IInv, NEW k, Parsing(k), k # "items", NEW new \in Seq(QuietGoals), Become(new), depth' = depth
  PROVE  IInv'
BY QuietIs, StepPays

LEMMA TokensPay ==
  ASSUME IInv, Eat \/ Ident \/ Optional \/ Build \/ Join
  PROVE  IInv'
<1>0. <<>> \in Seq(QuietGoals)
  OBVIOUS
<1> QED
  BY <1>0, MovePays, RefusePays DEF Eat, Ident, Optional, Build, Join, Step

LEMMA DeclarationsPay ==
  ASSUME IInv, \/ ConstantValue \/ NegatedValue \/ EndOfConstant \/ parse_function \/ Parameters
               \/ Parameter \/ NextParameter \/ parse_type \/ TypeEnd \/ CheckTree
  PROVE  IInv'
<1>1. CASE ConstantValue
  <2>1. Call(<<"negated", "end_of_constant">>) \in Seq(QuietGoals)
    <3>1. <<"negated", "end_of_constant">> \in Seq(QuietKinds)
      BY DEF QuietKinds, Kinds
    <3> QED
      BY <3>1, QuietCall
  <2>2. <<Goal("end_of_constant")>> \in Seq(QuietGoals)
    <3>1. Goal("end_of_constant") \in QuietGoals
      BY QuietNames, QuietTokens
    <3> QED
      BY <3>1
  <2> QED
    BY <1>1, <2>1, <2>2, MovePays, RefusePays DEF ConstantValue, Step, Expand
<1>2. CASE NegatedValue
  <2>1. <<>> \in Seq(QuietGoals)
    OBVIOUS
  <2> QED
    BY <1>2, <2>1, MovePays, RefusePays DEF NegatedValue, Step, Expand
<1>3. CASE EndOfConstant
  <2>1. <<>> \in Seq(QuietGoals)
    OBVIOUS
  <2> QED
    BY <1>3, <2>1, MovePays, RefusePays DEF EndOfConstant, Step, Expand
<1>4. CASE parse_function
  <2>1. <<<<"optional", "export">>, eat("fn"), Goal("name"), eat("("), Goal("parameters"), eat(")"),
          eat("->"), Goal("type"), <<"optional", "!">>, Goal("block")>> \in Seq(QuietGoals)
    <3>1. /\ <<"optional", "export">> \in QuietGoals /\ eat("fn") \in QuietGoals
          /\ Goal("name") \in QuietGoals /\ eat("(") \in QuietGoals
          /\ Goal("parameters") \in QuietGoals /\ eat(")") \in QuietGoals
          /\ eat("->") \in QuietGoals /\ Goal("type") \in QuietGoals
          /\ <<"optional", "!">> \in QuietGoals /\ Goal("block") \in QuietGoals
      BY QuietNames, QuietTokens
    <3> QED
      BY <3>1
  <2> QED
    BY <1>4, <2>1, MovePays, RefusePays DEF parse_function, Step, Expand
<1>5. CASE Parameters
  <2>1. <<>> \in Seq(QuietGoals)
    OBVIOUS
  <2>2. <<Goal("parameter")>> \in Seq(QuietGoals)
    <3>1. Goal("parameter") \in QuietGoals
      BY QuietNames, QuietTokens
    <3> QED
      BY <3>1
  <2> QED
    BY <1>5, <2>1, <2>2, MovePays, RefusePays DEF Parameters, Step, Expand
<1>6. CASE Parameter
  <2>1. <<<<"optional", "out">>, Goal("name"), eat(":"), Goal("type"), Goal("parameter?")>> \in Seq(QuietGoals)
    <3>1. /\ <<"optional", "out">> \in QuietGoals /\ Goal("name") \in QuietGoals
          /\ eat(":") \in QuietGoals /\ Goal("type") \in QuietGoals
          /\ Goal("parameter?") \in QuietGoals
      BY QuietNames, QuietTokens
    <3> QED
      BY <3>1
  <2> QED
    BY <1>6, <2>1, MovePays, RefusePays DEF Parameter, Step, Expand
<1>7. CASE NextParameter
  <2>1. <<>> \in Seq(QuietGoals)
    OBVIOUS
  <2>2. <<Goal("parameter")>> \in Seq(QuietGoals)
    <3>1. Goal("parameter") \in QuietGoals
      BY QuietNames, QuietTokens
    <3> QED
      BY <3>1
  <2> QED
    BY <1>7, <2>1, <2>2, MovePays, RefusePays DEF NextParameter, Step, Expand
<1>8. CASE parse_type
  <2>1. <<Goal("type_end")>> \in Seq(QuietGoals)
    <3>1. Goal("type_end") \in QuietGoals
      BY QuietNames, QuietTokens
    <3> QED
      BY <3>1
  <2>2. <<eat("scalar"), eat("]"), Goal("type_end")>> \in Seq(QuietGoals)
    <3>1. /\ eat("scalar") \in QuietGoals /\ eat("]") \in QuietGoals
          /\ Goal("type_end") \in QuietGoals
      BY QuietNames, QuietTokens
    <3> QED
      BY <3>1
  <2> QED
    BY <1>8, <2>1, <2>2, MovePays, RefusePays DEF parse_type, Step, Expand
<1>9. CASE TypeEnd
  <2>1. <<>> \in Seq(QuietGoals)
    OBVIOUS
  <2> QED
    BY <1>9, <2>1, MovePays, RefusePays DEF TypeEnd, Step, Expand
<1>10. CASE CheckTree
  <2>1. <<>> \in Seq(QuietGoals)
    OBVIOUS
  <2> QED
    BY <1>10, <2>1, MovePays, RefusePays DEF CheckTree, Step, Expand
<1> QED
  BY <1>1, <1>2, <1>3, <1>4, <1>5, <1>6, <1>7, <1>8, <1>9, <1>10

LEMMA StatementsPay ==
  ASSUME IInv, \/ Statements \/ LookAtStatement \/ parse_stmt \/ FailCode \/ Value
               \/ parse_try_call \/ Arguments \/ NextArgument
  PROVE  IInv'
<1>1. CASE Statements
  <2>1. <<>> \in Seq(QuietGoals)
    OBVIOUS
  <2>2. Call(<<"statement", "join", "statements">>) \in Seq(QuietGoals)
    <3>1. <<"statement", "join", "statements">> \in Seq(QuietKinds)
      BY DEF QuietKinds, Kinds
    <3> QED
      BY <3>1, QuietCall
  <2> QED
    BY <1>1, <2>1, <2>2, MovePays, RefusePays DEF Statements, Step, Expand
<1>2. CASE LookAtStatement
  BY <1>2 DEF LookAtStatement, LookAhead, IInv
<1>3. CASE parse_stmt
  <2>1. <<Goal("expr"), Goal("block"), Root(2)>> \in Seq(QuietGoals)
    <3>1. /\ Goal("expr") \in QuietGoals /\ Goal("block") \in QuietGoals
          /\ Root(2) \in QuietGoals
      BY QuietNames, QuietTokens, QuietNodes
    <3> QED
      BY <3>1
  <2>2. <<Goal("value"), Root(1)>> \in Seq(QuietGoals)
    <3>1. Goal("value") \in QuietGoals /\ Root(1) \in QuietGoals
      BY QuietNames, QuietTokens, QuietNodes
    <3> QED
      BY <3>1
  <2>3. <<Goal("name"), Goal("leaf")>> \in Seq(QuietGoals)
    <3>1. Goal("name") \in QuietGoals /\ Goal("leaf") \in QuietGoals
      BY QuietNames, QuietTokens
    <3> QED
      BY <3>1
  <2>4. <<<<"optional", "mut">>, Goal("name"), eat("="), Goal("value"), Root(1)>> \in Seq(QuietGoals)
    <3>1. /\ <<"optional", "mut">> \in QuietGoals /\ Goal("name") \in QuietGoals
          /\ eat("=") \in QuietGoals /\ Goal("value") \in QuietGoals /\ Root(1) \in QuietGoals
      BY QuietNames, QuietTokens, QuietNodes
    <3> QED
      BY <3>1
  <2>5. <<Goal("expr"), eat("]"), eat("="), Goal("expr"), Root(2)>> \in Seq(QuietGoals)
    <3>1. /\ Goal("expr") \in QuietGoals /\ eat("]") \in QuietGoals /\ eat("=") \in QuietGoals
          /\ Root(2) \in QuietGoals
      BY QuietNames, QuietTokens, QuietNodes
    <3> QED
      BY <3>1
  <2>6. <<Goal("expr"), Root(1)>> \in Seq(QuietGoals)
    <3>1. Goal("expr") \in QuietGoals /\ Root(1) \in QuietGoals
      BY QuietNames, QuietTokens, QuietNodes
    <3> QED
      BY <3>1
  <2> QED
    BY <1>3, <2>1, <2>2, <2>3, <2>4, <2>5, <2>6, MovePays, RefusePays DEF parse_stmt, Step, Expand
<1>4. CASE FailCode
  <2>1. <<>> \in Seq(QuietGoals)
    OBVIOUS
  <2> QED
    BY <1>4, <2>1, MovePays, RefusePays DEF FailCode, Step, Expand
<1>5. CASE Value
  <2>1. <<Goal("try")>> \in Seq(QuietGoals)
    <3>1. Goal("try") \in QuietGoals
      BY QuietNames, QuietTokens
    <3> QED
      BY <3>1
  <2>2. <<Goal("expr")>> \in Seq(QuietGoals)
    <3>1. Goal("expr") \in QuietGoals
      BY QuietNames, QuietTokens
    <3> QED
      BY <3>1
  <2> QED
    BY <1>5, <2>1, <2>2, MovePays, RefusePays DEF Value, Step, Expand
<1>6. CASE parse_try_call
  <2>1. <<Goal("name"), eat("("), Goal("arguments"), eat(")")>> \in Seq(QuietGoals)
    <3>1. /\ Goal("name") \in QuietGoals /\ eat("(") \in QuietGoals
          /\ Goal("arguments") \in QuietGoals /\ eat(")") \in QuietGoals
      BY QuietNames, QuietTokens
    <3> QED
      BY <3>1
  <2> QED
    BY <1>6, <2>1, MovePays, RefusePays DEF parse_try_call, Step, Expand
<1>7. CASE Arguments
  <2>1. <<>> \in Seq(QuietGoals)
    OBVIOUS
  <2>2. Call(<<"expr", "join", "argument?">>) \in Seq(QuietGoals)
    <3>1. <<"expr", "join", "argument?">> \in Seq(QuietKinds)
      BY DEF QuietKinds, Kinds
    <3> QED
      BY <3>1, QuietCall
  <2> QED
    BY <1>7, <2>1, <2>2, MovePays, RefusePays DEF Arguments, Step, Expand
<1>8. CASE NextArgument
  <2>1. <<>> \in Seq(QuietGoals)
    OBVIOUS
  <2>2. Call(<<"expr", "join", "argument?">>) \in Seq(QuietGoals)
    <3>1. <<"expr", "join", "argument?">> \in Seq(QuietKinds)
      BY DEF QuietKinds, Kinds
    <3> QED
      BY <3>1, QuietCall
  <2> QED
    BY <1>8, <2>1, <2>2, MovePays, RefusePays DEF NextArgument, Step, Expand
<1> QED
  BY <1>1, <1>2, <1>3, <1>4, <1>5, <1>6, <1>7, <1>8

LEMMA OperandsPay ==
  ASSUME IInv, \/ Operators \/ parse_cast \/ parse_unary \/ parse_primary \/ AfterName \/ Group
  PROVE  IInv'
<1>1. CASE Operators
  <2> DEFINE l == Head(goals)[2]
             new == Levels(l + 1) \o << <<"wrap", 2, l>>, Head(goals) >>
  <2>1. Head(goals) \in QuietGoals /\ l \in 1..5
    <3>1. Head(goals) \in Goals /\ Head(goals)[1] = "operators"
      BY <1>1, HeadIs DEF Operators, Parsing
    <3>2. "operators" \notin Kinds
      BY DEF Kinds
    <3> QED
      BY <3>1, <3>2, LevelsAre DEF QuietGoals, Suspended, Goals
  <2>2. <<>> \in Seq(QuietGoals)
    OBVIOUS
  <2>3. new \in Seq(QuietGoals)
    <3>1. Levels(l + 1) \in Seq(QuietGoals)
      <4>1. l + 1 \in 1..6
        BY <2>1
      <4>2. Quiet(Levels(l + 1))
        BY <4>1, LevelsQuiet
      <4> QED
        BY <4>2, QuietMeans
    <3>2. <<"wrap", 2, l>> \in QuietGoals
      BY <2>1, QuietNodes
    <3>3. << <<"wrap", 2, l>>, Head(goals) >> \in Seq(QuietGoals)
      BY <2>1, <3>2
    <3> QED
      BY <3>1, <3>3
  <2> QED
    BY <1>1, <2>2, <2>3, MovePays DEF Operators, Step, Expand
<1>2. CASE parse_cast
  <2>1. <<>> \in Seq(QuietGoals)
    OBVIOUS
  <2>2. <<Goal("type"), <<"wrap", 1, CastLevel>>, Goal("casts")>> \in Seq(QuietGoals)
    <3>1. Goal("type") \in QuietGoals /\ <<"wrap", 1, CastLevel>> \in QuietGoals /\ Goal("casts") \in QuietGoals
      BY QuietNames, QuietNodes, LevelsAre
    <3> QED
      BY <3>1
  <2> QED
    BY <1>2, <2>1, <2>2, MovePays, RefusePays DEF parse_cast, Step, Expand
<1>3. CASE parse_unary
  <2>1. <<Goal("operand")>> \in Seq(QuietGoals)
    <3>1. Goal("operand") \in QuietGoals
      BY QuietNames, QuietTokens, QuietNodes
    <3> QED
      BY <3>1
  <2>2. <<Goal("primary")>> \in Seq(QuietGoals)
    <3>1. Goal("primary") \in QuietGoals
      BY QuietNames, QuietTokens, QuietNodes
    <3> QED
      BY <3>1
  <2> QED
    BY <1>3, <2>1, <2>2, MovePays, RefusePays DEF parse_unary, Step, Expand
<1>4. CASE parse_primary
  <2>1. <<>> \in Seq(QuietGoals)
    OBVIOUS
  <2>2. <<Goal("after_name")>> \in Seq(QuietGoals)
    <3>1. Goal("after_name") \in QuietGoals
      BY QuietNames, QuietTokens, QuietNodes
    <3> QED
      BY <3>1
  <2>3. <<Goal("expr"), eat(")"), Goal("group")>> \in Seq(QuietGoals)
    <3>1. Goal("expr") \in QuietGoals /\ eat(")") \in QuietGoals /\ Goal("group") \in QuietGoals
      BY QuietNames, QuietTokens, QuietNodes
    <3> QED
      BY <3>1
  <2> QED
    BY <1>4, <2>1, <2>2, <2>3, MovePays, RefusePays DEF parse_primary, Step, Expand
<1>5. CASE AfterName
  <2>1. <<>> \in Seq(QuietGoals)
    OBVIOUS
  <2>2. <<Goal("arguments"), eat(")"), Root(1)>> \in Seq(QuietGoals)
    <3>1. Goal("arguments") \in QuietGoals /\ eat(")") \in QuietGoals /\ Root(1) \in QuietGoals
      BY QuietNames, QuietTokens, QuietNodes
    <3> QED
      BY <3>1
  <2>3. <<Goal("expr"), eat("]"), Root(1)>> \in Seq(QuietGoals)
    <3>1. Goal("expr") \in QuietGoals /\ eat("]") \in QuietGoals /\ Root(1) \in QuietGoals
      BY QuietNames, QuietTokens, QuietNodes
    <3> QED
      BY <3>1
  <2> QED
    BY <1>5, <2>1, <2>2, <2>3, MovePays, RefusePays DEF AfterName, Step, Expand
<1>6. CASE Group
  <2>1. <<>> \in Seq(QuietGoals)
    OBVIOUS
  <2> QED
    BY <1>6, <2>1, MovePays, RefusePays DEF Group, Step, Expand
<1> QED
  BY <1>1, <1>2, <1>3, <1>4, <1>5, <1>6

\* A descent puts up one goal that suspends and is charged for it.
LEMMA DescentPays ==
  ASSUME IInv, NEW k, Parsing(k), k # "items", depth < MAX_NESTING, depth' = depth + 1,
         NEW new \in Seq(Goals), Become(new), NEW j \in 1..Len(new),
         \A i \in 1..Len(new) : Suspended(new[i]) <=> i = j,
         new[j][1] = "leave" => new[j][2] = depth
  PROVE  IInv'
<1>1. Paid(goals, depth) /\ goals # <<>> /\ goals[1] # Goal("items")
  BY HeadIs DEF IInv, Goal
<1>2. j \in DOMAIN new /\ \A i \in DOMAIN new : Suspended(new[i]) <=> i = j
  OBVIOUS
<1>3. Paid(new \o Tail(goals), depth + 1) /\ new \o Tail(goals) # <<>>
  BY <1>1, <1>2, Descent
<1> QED
  BY <1>3 DEF IInv, Become

LEMMA BelowHead ==
  ASSUME IInv, goals # <<>>
  PROVE  /\ Cardinality(Frames(goals, 1)) \in Nat
         /\ Cardinality(Frames(goals, 1)) <= depth
         /\ Suspended(goals[1]) => Cardinality(Frames(goals, 1)) <= depth - 1
         /\ depth \in 0..MAX_NESTING
<1>1. goals \in Seq(Goals) /\ Cardinality(Frames(goals, 0)) <= depth /\ depth \in 0..MAX_NESTING
  BY DEF IInv, Paid
<1>2. Cardinality(Frames(goals, 1)) \in Nat /\ Cardinality(Frames(goals, 0)) \in Nat
  BY <1>1, FramesFinite
<1> QED
  BY <1>1, <1>2, Popped, ConstantsAssumption

LEMMA ChargeIs ==
  ASSUME IInv
  PROVE  /\ depth \in Nat
         /\ depth < MAX_NESTING \/ depth >= MAX_NESTING
         /\ ~(depth < MAX_NESTING /\ depth >= MAX_NESTING)
BY ConstantsAssumption DEF IInv, Paid

LEMMA LastSuspends ==
  ASSUME NEW a \in QuietGoals, NEW b \in QuietGoals, NEW c \in QuietGoals, NEW d \in Goals, Suspended(d)
  PROVE  /\ <<a, b, c, d>> \in Seq(Goals) /\ Len(<<a, b, c, d>>) = 4
         /\ \A i \in 1..4 : Suspended(<<a, b, c, d>>[i]) <=> i = 4
<1>1. a \in Goals /\ b \in Goals /\ c \in Goals /\ ~Suspended(a) /\ ~Suspended(b) /\ ~Suspended(c)
  BY DEF QuietGoals
<1>2. <<a, b, c, d>> \in Seq(Goals)
  BY <1>1
<1> DEFINE new == <<a, b, c, d>>
<1>3. Len(new) = 4 /\ new[1] = a /\ new[2] = b /\ new[3] = c /\ new[4] = d
  OBVIOUS
<1> HIDE DEF new
<1>4. \A i \in 1..4 : Suspended(new[i]) <=> i = 4
  BY <1>1, <1>3
<1> QED
  BY <1>2, <1>3, <1>4 DEF new

LEMMA CallsPay ==
  ASSUME IInv, parse_block \/ parse_expr \/ Operand
  PROVE  IInv'
<1>1. CASE parse_block
  <2> DEFINE new == <<eat("{"), Goal("statements"), eat("}"), Goal("leave_block")>>
  <2>1. new \in Seq(Goals) /\ Len(new) = 4 /\ \A i \in 1..4 : Suspended(new[i]) <=> i = 4
    <3>1. /\ eat("{") \in QuietGoals /\ eat("}") \in QuietGoals /\ Goal("statements") \in QuietGoals
      BY QuietNames, QuietTokens
    <3>2. Goal("leave_block") \in Goals /\ Suspended(Goal("leave_block"))
      BY GoalShapes DEF Kinds, Suspended, Goal
    <3> QED
      BY <3>1, <3>2, LastSuspends
  <2>2. new[4][1] # "leave"
    BY DEF Goal
  <2> HIDE DEF new
  <2>3. CASE depth < MAX_NESTING
    <3>1. Parsing("block") /\ depth' = depth + 1 /\ Become(new)
      BY <1>1, <2>3, ChargeIs DEF parse_block, enter, new
    <3> QED
      BY <2>1, <2>2, <2>3, <3>1, DescentPays
  <2>4. CASE depth >= MAX_NESTING
    BY <1>1, <2>4, RefusePays DEF parse_block, enter
  <2> QED
    BY <2>3, <2>4, ChargeIs
<1>2. CASE Operand
  <2>1. Negated \in Seq(Goals) /\ Len(Negated) = 2 /\ \A i \in 1..2 : Suspended(Negated[i]) <=> i = 2
    <3> DEFINE names == <<"unary", "negate">>
    <3>1. names \in Seq(Kinds) /\ Len(names) = 2 /\ names[1] = "unary" /\ names[2] = "negate"
      BY DEF Kinds
    <3> HIDE DEF names
    <3>2. /\ Call(names) \in Seq(Goals) /\ Len(Call(names)) = 2
          /\ Call(names)[1] = <<"unary">> /\ Call(names)[2] = <<"negate">>
      BY <3>1, Called
    <3>3. ~Suspended(<<"unary">>) /\ Suspended(<<"negate">>)
      BY DEF Suspended
    <3> QED
      BY <3>2, <3>3 DEF Negated, names
  <2>2. Negated[2][1] # "leave"
    BY DEF Negated, Call, Goal
  <2>3. CASE depth < MAX_NESTING
    <3>1. Parsing("operand") /\ depth' = depth + 1 /\ Become(Negated)
      BY <1>2, <2>3, ChargeIs DEF Operand, enter
    <3> QED
      BY <2>1, <2>2, <2>3, <3>1, DescentPays
  <2>4. CASE depth >= MAX_NESTING
    BY <1>2, <2>4, RefusePays DEF Operand, enter
  <2> QED
    BY <2>3, <2>4, ChargeIs
<1>3. CASE parse_expr
  <2> DEFINE new == Levels(1) \o << <<"leave", depth>> >>
  <2>0. depth \in Nat
    BY ChargeIs
  <2>1. /\ new \in Seq(Goals) /\ Len(new) = 8 /\ new[8] = <<"leave", depth>>
        /\ \A i \in 1..7 : ~Suspended(new[i])
    <3>1. Quiet(Levels(1)) /\ Len(Levels(1)) = 7
      <4>1. 1 \in 1..6 /\ 8 - 1 = 7
        OBVIOUS
      <4> QED
        BY <4>1, LevelsQuiet
    <3>2. << <<"leave", depth>> >> \in Seq(Goals) /\ Len(<< <<"leave", depth>> >>) = 1
      BY <2>0, GoalShapes
    <3>3. Levels(1) \in Seq(Goals) /\ \A i \in 1..7 : ~Suspended(Levels(1)[i])
      BY <3>1 DEF Quiet
    <3> DEFINE last == << <<"leave", depth>> >>
    <3> HIDE DEF last
    <3>4. /\ new \in Seq(Goals) /\ Len(new) = 7 + 1
          /\ \A i \in 1..(7 + 1) : new[i] = IF i <= 7 THEN Levels(1)[i] ELSE last[i - 7]
      <4>1. Levels(1) \in Seq(Goals) /\ Len(Levels(1)) = 7
        BY <3>1, <3>3
      <4>2. last \in Seq(Goals) /\ Len(last) = 1
        BY <3>2 DEF last
      <4>3. new = Levels(1) \o last
        BY DEF last
      <4> HIDE DEF new
      <4>4. /\ new \in Seq(Goals) /\ Len(new) = Len(Levels(1)) + Len(last)
            /\ \A i \in 1..(Len(Levels(1)) + Len(last)) :
                 new[i] = IF i <= Len(Levels(1)) THEN Levels(1)[i] ELSE last[i - Len(Levels(1))]
        BY <4>1, <4>2, <4>3, ConcatProperties
      <4> QED
        BY <4>1, <4>2, <4>4
    <3>5. last[1] = <<"leave", depth>>
      BY DEF last
    <3> HIDE DEF new
    <3>6. \A i \in 1..7 : new[i] = Levels(1)[i]
      BY <3>4
    <3>7. new[8] = last[1] /\ Len(new) = 8
      BY <3>4
    <3> QED
      BY <3>3, <3>4, <3>5, <3>6, <3>7
  <2>2. Suspended(new[8]) /\ new[8][1] = "leave" /\ new[8][2] = depth
    BY <2>1 DEF Suspended
  <2> HIDE DEF new
  <2>3. \A i \in 1..Len(new) : Suspended(new[i]) <=> i = 8
    BY <2>1, <2>2
  <2>4. CASE depth < MAX_NESTING
    <3>1. Parsing("expr") /\ depth' = depth + 1 /\ Become(new)
      BY <1>3, <2>4, ChargeIs DEF parse_expr, enter, new
    <3>2. 8 \in 1..Len(new)
      BY <2>1
    <3> QED
      BY <2>1, <2>2, <2>3, <2>4, <3>1, <3>2, DescentPays
  <2>5. CASE depth >= MAX_NESTING
    BY <1>3, <2>5, RefusePays DEF parse_expr, enter
  <2> QED
    BY <2>4, <2>5, ChargeIs
<1> QED
  BY <1>1, <1>2, <1>3

LEMMA ReturnsPay ==
  ASSUME IInv, Leave \/ LeaveBlock \/ Negate \/ Wrap
  PROVE  IInv'
<1>0. \A k : Parsing(k) => /\ goals # <<>> /\ Paid(goals, depth) /\ goals[1][1] = k /\ goals[1] = Head(goals)
                          /\ 1 \in DOMAIN goals
  BY HeadIs DEF IInv
<1>1. ASSUME NEW k, Parsing(k), k # "items", Become(<<>>), depth' \in 0..MAX_NESTING,
             Cardinality(Frames(goals, 1)) <= depth'
      PROVE  IInv'
  <2>1. goals[1] # Goal("items")
    BY <1>0, <1>1 DEF Goal
  <2>2. Paid(<<>> \o Tail(goals), depth') /\ <<>> \o Tail(goals) # <<>>
    BY <1>0, <1>1, <2>1, Return
  <2> QED
    BY <1>1, <2>2 DEF IInv, Become
<1>2. CASE Leave
  <2>1. depth' = goals[1][2] /\ goals[1][1] = "leave" /\ Parsing("leave") /\ Become(<<>>)
    BY <1>0, <1>2 DEF Leave
  <2>2. depth' \in 0..MAX_NESTING /\ Cardinality(Frames(goals, 1)) <= depth'
    BY <1>0, <2>1 DEF Paid
  <2> QED
    BY <1>1, <2>1, <2>2
<1>3. CASE LeaveBlock
  <2>1. depth' = depth - 1 /\ Suspended(goals[1]) /\ Parsing("leave_block") /\ Become(<<>>) /\ goals # <<>>
    BY <1>0, <1>3 DEF LeaveBlock, Suspended
  <2>2. depth' \in 0..MAX_NESTING /\ Cardinality(Frames(goals, 1)) <= depth'
    BY <2>1, BelowHead, ConstantsAssumption
  <2> QED
    BY <1>1, <2>1, <2>2
<1>4. CASE Negate
  <2>1. depth' = depth /\ Parsing("negate") /\ Become(<<>>) /\ goals # <<>>
    BY <1>0, <1>4 DEF Negate
  <2> QED
    BY <1>1, <2>1, BelowHead
<1>5. CASE Wrap
  <2>1. /\ Parsing("wrap") /\ goals # <<>>
        /\ Refuse \/ (~(depth >= MAX_NESTING) /\ depth' = depth + 1 /\ Become(<<>>))
    BY <1>0, <1>5 DEF Wrap, enter
  <2>2. ASSUME ~(depth >= MAX_NESTING), depth' = depth + 1
        PROVE  depth' \in 0..MAX_NESTING /\ Cardinality(Frames(goals, 1)) <= depth'
    BY <2>1, <2>2, BelowHead, ConstantsAssumption
  <2> QED
    BY <1>1, <2>1, <2>2, RefusePays
<1> QED
  BY <1>2, <1>3, <1>4, <1>5

LEMMA NextIInv == IInv /\ [Next]_vars => IInv'
<1> SUFFICES ASSUME IInv, [Next]_vars PROVE IInv'
  OBVIOUS
<1>1. CASE UNCHANGED vars
  BY <1>1 DEF IInv, vars
<1>2. CASE Next
  BY <1>2, TokensPay, ItemsPay, DeclarationsPay, StatementsPay, OperandsPay, CallsPay, ReturnsPay
  DEF Next, Items, Bodies, Expressions
<1> QED
  BY <1>1, <1>2

LEMMA IInvBounds == IInv => StackBounded
BY ConstantsAssumption DEF IInv, Paid, StackBounded, Below, Frames

\* Whatever the limit, the vocabulary and the program: the parser's own recursion is never deeper
\* than its charge, and its charge never passes MAX_NESTING.  So the stack of the compiler is safe
\* from the parser at 64 as it is at the 4 of the run.
THEOREM ParserStackBounded == Spec => []StackBounded
<1>1. Init => IInv
  BY InitIInv
<1>2. IInv /\ [Next]_vars => IInv'
  BY NextIInv
<1>3. IInv => StackBounded
  BY IInvBounds
<1> QED
  BY <1>1, <1>2, <1>3, PTL DEF Spec

-----------------------------------------------------------------------------
(* The trees.  A goal counts on the trees below it: the stack of goals is   *)
(* read as a chain, in which each goal's demands follow from those of the   *)
(* goal after it, down to the items, which demand nothing.                  *)

Tree == [deep : Nat, level : 1..PrimaryLevel, sound : BOOLEAN]

\* Twice the deepest tree of an expression that begins at this charge.
Twice(charge) == (MAX_NESTING - charge) * (MAX_NESTING - charge + 1)

\* What a goal may count on of one tree: the least level of its root, and twice the depth it may
\* have.  A tree of the expression under way may be deeper by what has been charged by then; no
\* tree is ever deeper than the cap.
Cap == Twice(1) + 2
Demand ==
  {x \in [level : 1..PrimaryLevel, room : Int, own : BOOLEAN] :
     IF x.own THEN x.room + 2 * MAX_NESTING <= Cap ELSE x.room <= Cap}

Meets(t, x, charge) ==
  /\ t.sound /\ x.level <= t.level
  /\ 2 * t.deep <= x.room + IF x.own THEN 2 * charge ELSE 0

\* Demands of the trees there are, the last one first.
Lie(ts, shape, charge) ==
  Len(ts) = Len(shape) /\ \A i \in 1..Len(shape) : Meets(ts[i], shape[i], charge)

\* Where a goal stands: in an expression or between statements, the charge at which that began,
\* and the operators before an operand that the expression has still to apply.
Place == [in : BOOLEAN, home : Nat, pending : Nat]
Top == [in |-> FALSE, home |-> 0, pending |-> 0]

Charged(p, charge) == IF p.in THEN p.home + 1 + p.pending <= charge ELSE charge = p.home

\* Twice the depth of a tree of the expression under way, before anything is charged.
NodeRoom(p) == Twice(p.home) - 2 * p.pending - 2 * MAX_NESTING

AtLevel(x, level) == [level |-> level, room |-> x.room, own |-> x.own]
Child(x) == [level |-> 1, room |-> x.room - 2, own |-> x.own]
Negand(x) == [level |-> UnaryLevel, room |-> x.room - 2, own |-> x.own]

\* An expression in an expression sets the charge aside.
Freeze(x, charge) ==
  [level |-> x.level, room |-> x.room + (IF x.own THEN 2 * charge ELSE 0), own |-> FALSE]
Frozen(shape, charge) == [i \in 1..Len(shape) |-> Freeze(shape[i], charge)]

Whole(charge) == [level |-> 1, room |-> Twice(charge) - 2 * MAX_NESTING, own |-> TRUE]
BodyTree == [level |-> 1, room |-> Cap, own |-> FALSE]

Looping == {"statements", "arguments", "argument?"}
Indifferent ==
  {"eat", "optional", "name", "type", "type_end", "constant", "negated", "end_of_constant",
   "parameters", "parameter", "parameter?"}
Giving ==
  {"function", "block", "statement", "leaf", "value", "try", "expr", "unary", "operand",
   "primary", "after_name"}

\* The trees a goal g of each kind takes, where the goal after it finds one that meets x.
Taken(g, x) ==
  CASE g[1] \in Giving -> <<>>
    [] g[1] = "casts" -> <<AtLevel(x, CastLevel)>>
    [] g[1] = "operators" -> <<AtLevel(x, g[2])>>
    [] g[1] = "wrap" /\ g[2] = 2 -> <<AtLevel(x, g[3] + 1), AtLevel(x, g[3])>>
    [] g[1] = "wrap" /\ g[2] # 2 -> <<AtLevel(x, CastLevel)>>
    [] g[1] = "negate" -> <<Negand(x)>>
    [] g[1] = "group" -> <<AtLevel(x, 1)>>
    [] g[1] = "join" -> <<AtLevel(x, 1), AtLevel(x, 1)>>
    [] g[1] = "node" /\ g[2] = 1 -> <<Child(x)>>
    [] g[1] = "node" /\ g[2] # 1 -> <<Child(x), Child(x)>>

\* Demands and place of a goal, from those of the goal after it.
ShapeBefore(g, shape) ==
  CASE g[1] \in Indifferent \cup Looping \cup {"leave_block"} -> shape
    [] g[1] = "check" -> <<BodyTree>> \o shape
    [] g[1] = "leave" -> <<Whole(g[2])>> \o Frozen(Tail(shape), g[2])
    [] OTHER -> Taken(g, shape[1]) \o Tail(shape)

PlaceBefore(g, p) ==
  CASE g[1] = "leave" -> [in |-> TRUE, home |-> g[2], pending |-> 0]
    [] g[1] = "leave_block" -> [p EXCEPT !.home = @ + 1]
    [] g[1] = "negate" -> [p EXCEPT !.pending = @ + 1]
    [] OTHER -> p

\* The tree a goal gives is one the goal after it may find.
FitsNode(x, p) == p.in /\ x.own /\ x.room >= NodeRoom(p)
FitsExpr(x, p) ==
  IF p.in THEN x.own /\ x.room >= NodeRoom(p) - 2
  ELSE ~x.own /\ p.home >= 1 /\ x.room >= Twice(p.home)
FitsBody(x, p) == ~p.in /\ ~x.own /\ p.home >= 1 /\ x.room >= Twice(p.home) + 2
FitsBlock(x, p) == ~p.in /\ ~x.own /\ (p.home < MAX_NESTING => x.room >= Twice(p.home + 1) + 2)

Gives(g, x, p) ==
  CASE g[1] \in {"arguments", "argument?"} -> FitsExpr(x, p)
    [] g[1] = "expr" -> FitsExpr(x, p) /\ x.level = 1
    [] g[1] \in {"value", "try"} -> FitsExpr(x, p) /\ x.level = 1 /\ ~p.in
    [] g[1] = "leave" -> /\ FitsExpr(x, p) /\ x.level = 1 /\ g[2] < MAX_NESTING
                         /\ Charged(p, g[2])
    [] g[1] \in {"statement", "leaf"} -> FitsBody(x, p) /\ x.level = 1
    [] g[1] = "statements" -> FitsBody(x, p)
    [] g[1] = "block" -> FitsBlock(x, p)
    [] g[1] = "function" -> FitsBlock(x, p) /\ p.home = 0
    [] g[1] \in {"unary", "operand", "negate"} -> FitsNode(x, p) /\ x.level <= UnaryLevel
    [] g[1] \in {"primary", "after_name"} -> FitsNode(x, p)
    [] g[1] = "casts" -> FitsNode(x, p) /\ x.level <= CastLevel
    [] g[1] = "operators" -> FitsNode(x, p) /\ x.level <= g[2]
    [] g[1] = "wrap" -> /\ FitsNode(x, p) /\ x.level <= g[3]
                        /\ (g[2] = 2 /\ g[3] \in DOMAIN OpsAt) \/ (g[2] = 1 /\ g[3] = CastLevel)
    [] g[1] = "node" -> g[2] \in 1..2 /\ g[3] = PrimaryLevel
    [] g[1] \in {"group", "join"} -> TRUE

Admits(g, p, shape) ==
  /\ g[1] # "items"
  /\ CASE g[1] \in Indifferent -> TRUE
       [] g[1] = "check" -> ~p.in /\ p.home = 0
       [] g[1] = "leave_block" -> ~p.in
       [] OTHER -> shape # <<>> /\ Gives(g, shape[1], p)

\* No tree of an expression under way is counted on.
Settled(shape) == \A i \in 1..Len(shape) : ~shape[i].own

\* The chain; between statements, the calls below are those of the blocks around.
Chained(gs, ps, shapes) ==
  /\ gs \in Seq(Goals) /\ gs # <<>> /\ EndsInItems(gs)
  /\ ps \in Seq(Place) /\ shapes \in Seq(Seq(Demand)) /\ Len(ps) = Len(gs) /\ Len(shapes) = Len(gs)
  /\ ps[Len(gs)] = Top /\ shapes[Len(gs)] = <<>>
  /\ \A i \in 1..Len(gs) - 1 :
       /\ Admits(gs[i], ps[i + 1], shapes[i + 1])
       /\ ps[i] = PlaceBefore(gs[i], ps[i + 1])
       /\ shapes[i] = ShapeBefore(gs[i], shapes[i + 1])
  /\ \A i \in 1..Len(gs) : ~ps[i].in =>
       /\ ps[i].home = Cardinality(Frames(gs, i - 1))
       /\ \A j \in i..Len(gs) : ~ps[j].in
       /\ Settled(shapes[i])

Stands(gs, p, shape) == \E ps, shapes : Chained(gs, ps, shapes) /\ ps[1] = p /\ shapes[1] = shape

TreeInv ==
  /\ trees \in Seq(Tree)
  /\ IF goals = <<>> THEN trees = <<>>
     ELSE \E p, shape : Stands(goals, p, shape) /\ Lie(trees, shape, depth) /\ Charged(p, depth)

-----------------------------------------------------------------------------
(* Arithmetic of the bound.                                                *)

LEMMA TwiceSteps ==
  ASSUME NEW a \in 0..MAX_NESTING
  PROVE  /\ Twice(a) \in Nat /\ Twice(a) >= 2 * (MAX_NESTING - a)
         /\ a < MAX_NESTING => Twice(a) = Twice(a + 1) + 2 * (MAX_NESTING - a)
<1> DEFINE r == MAX_NESTING - a
<1>1. r \in Nat /\ Twice(a) = r * (r + 1)
  BY ConstantsAssumption DEF Twice
<1>2. r * (r + 1) = r * r + r /\ r * r \in Nat /\ r * r >= r
  <2>1. r \in Nat
    BY <1>1
  <2> HIDE DEF r
  <2>2. r = 0 \/ r >= 1
    BY <2>1
  <2> QED
    BY <2>1, <2>2
<1>3. a < MAX_NESTING => Twice(a + 1) = (r - 1) * r
  <2>1. MAX_NESTING - (a + 1) = r - 1 /\ MAX_NESTING - (a + 1) + 1 = r
    BY ConstantsAssumption
  <2> QED
    BY <2>1 DEF Twice
<1>4. (r - 1) * r = r * r - r
  <2>1. r \in Nat
    BY <1>1
  <2> HIDE DEF r
  <2> QED
    BY <2>1
<1> HIDE DEF r
<1>5. r = MAX_NESTING - a
  BY DEF r
<1> QED
  BY <1>1, <1>2, <1>3, <1>4, <1>5

LEMMA TwiceFalls ==
  ASSUME NEW a \in Nat, NEW c \in Nat, a <= c, c <= MAX_NESTING
  PROVE  Twice(c) <= Twice(a)
<1> DEFINE r == MAX_NESTING - a
           s == MAX_NESTING - c
<1>1. r \in Nat /\ s \in Nat /\ s <= r /\ Twice(a) = r * (r + 1) /\ Twice(c) = s * (s + 1)
  BY ConstantsAssumption DEF Twice
<1>2. s * (s + 1) <= r * (r + 1)
  <2>1. r \in Nat /\ s \in Nat /\ s <= r
    BY <1>1
  <2> HIDE DEF r, s
  <2>2. s * (s + 1) <= s * (r + 1) /\ s * (r + 1) <= r * (r + 1)
    BY <2>1
  <2>3. s * (s + 1) \in Int /\ s * (r + 1) \in Int /\ r * (r + 1) \in Int
    BY <2>1
  <2> QED
    BY <2>2, <2>3
<1> QED
  BY <1>1, <1>2

\* What an expression begun at charge c may build fits, as a child, into the one around it.
LEMMA ExpressionFits ==
  ASSUME NEW a \in Nat, NEW n \in Nat, NEW c \in 0..MAX_NESTING, a + 1 + n <= c
  PROVE  Twice(c) <= Twice(a) - 2 * n - 2 - 2 * MAX_NESTING + 2 * c
<1>1. a \in 0..MAX_NESTING /\ a < MAX_NESTING /\ a + 1 \in Nat /\ a + 1 <= c /\ c <= MAX_NESTING /\ c \in Nat
  BY ConstantsAssumption
<1>2. Twice(a) = Twice(a + 1) + 2 * (MAX_NESTING - a)
  BY <1>1, TwiceSteps
<1>3. Twice(c) <= Twice(a + 1)
  BY <1>1, TwiceFalls
<1>4. Twice(c) \in Nat /\ Twice(a) \in Nat /\ Twice(a + 1) \in Nat
  BY <1>1, TwiceSteps, ConstantsAssumption
<1> QED
  BY <1>1, <1>2, <1>3, <1>4, ConstantsAssumption


-----------------------------------------------------------------------------
(* Sequences with one more in front, and the chain with one goal more.     *)

LEMMA Cons ==
  ASSUME NEW S, NEW e \in S, NEW s \in Seq(S)
  PROVE  LET t == <<e>> \o s
         IN  /\ t \in Seq(S) /\ t # <<>> /\ Len(t) = Len(s) + 1 /\ Len(s) \in Nat
             /\ t[1] = e /\ Tail(t) = s
             /\ \A i \in 1..Len(s) : t[i + 1] = s[i]
             /\ \A i \in 2..Len(t) : t[i] = s[i - 1] /\ i - 1 \in 1..Len(s)
OBVIOUS

LEMMA Uncons ==
  ASSUME NEW S, NEW s \in Seq(S), s # <<>>
  PROVE  /\ s = <<s[1]>> \o Tail(s) /\ s[1] \in S /\ Head(s) = s[1]
         /\ Tail(s) \in Seq(S) /\ Len(Tail(s)) = Len(s) - 1 /\ Len(s) \in Nat \ {0}
         /\ \A i \in 1..Len(s) - 1 : Tail(s)[i] = s[i + 1]
OBVIOUS

LEMMA FramesOfCons ==
  ASSUME NEW g \in Goals, NEW gs \in Seq(Goals)
  PROVE  LET st == <<g>> \o gs
         IN  /\ \A i \in 1..Len(st) : Cardinality(Frames(st, i)) = Cardinality(Frames(gs, i - 1))
             /\ Cardinality(Frames(st, 0)) =
                  Cardinality(Frames(gs, 0)) + IF Suspended(g) THEN 1 ELSE 0
<1> DEFINE st == <<g>> \o gs
<1>1. st \in Seq(Goals) /\ st # <<>> /\ st[1] = g /\ Tail(st) = gs /\ 1 \in 1..Len(st)
  BY Cons
<1> HIDE DEF st
<1>2. <<>> \in Seq(Goals) /\ Len(<<>>) = 0 /\ <<>> \o gs = gs
  OBVIOUS
<1>3. \A i \in 1..Len(st) : Cardinality(Frames(st, i)) = Cardinality(Frames(gs, i - 1))
  <2> SUFFICES ASSUME NEW i \in 1..Len(st)
               PROVE  Cardinality(Frames(st, i)) = Cardinality(Frames(gs, i - 1))
    OBVIOUS
  <2>1. Cardinality(Frames(<<>> \o Tail(st), i + Len(<<>>) - 1)) = Cardinality(Frames(st, i))
    BY <1>1, <1>2, Shifted
  <2>2. i + Len(<<>>) - 1 = i - 1 /\ <<>> \o Tail(st) = gs
    BY <1>1, <1>2
  <2> QED
    BY <2>1, <2>2
<1>4. Cardinality(Frames(st, 0)) = Cardinality(Frames(st, 1)) + IF Suspended(g) THEN 1 ELSE 0
  BY <1>1, Popped
<1> QED
  BY <1>1, <1>3, <1>4 DEF st


LEMMA RowOfTwo ==
  ASSUME NEW S, NEW T \in Seq(S), NEW a \in S, NEW b \in S
  PROVE  <<a, b>> \o T = <<a>> \o (<<b>> \o T)
<1> DEFINE r == <<a, b>>
           s == <<b>> \o T
<1>1. r \o T \in Seq(S) /\ <<a>> \o s \in Seq(S)
  OBVIOUS
<1>2. Len(r \o T) = Len(<<a>> \o s)
  OBVIOUS
<1>3. \A i \in 1..Len(r \o T) : (r \o T)[i] = (<<a>> \o s)[i]
  OBVIOUS
<1> HIDE DEF r, s
<1>4. r \o T = <<a>> \o s
  BY <1>1, <1>2, <1>3, SeqEqual
<1> QED
  BY <1>4 DEF r, s

-----------------------------------------------------------------------------
(* Goals, places and demands.                                              *)

\* The kinds of goals are told apart by their names.
LEMMA Kindly ==
  ASSUME NEW g \in Goals
  PROVE  /\ g[1] \in Kinds \cup {"eat", "optional", "leave", "operators", "node", "wrap"}
         /\ g[1] \in Kinds => g = <<g[1]>>
         /\ g[1] \in {"eat", "optional"} => g[2] \in AllTokens /\ g = <<g[1], g[2]>>
         /\ g[1] = "leave" => g[2] \in Nat /\ g = <<"leave", g[2]>>
         /\ g[1] = "operators" => g[2] \in 1..5 /\ g = <<"operators", g[2]>>
         /\ g[1] \in {"node", "wrap"} => g[2] \in Nat /\ g[3] \in Nat /\ g = <<g[1], g[2], g[3]>>
<1>1. {"eat", "optional", "leave", "operators", "node", "wrap"} \cap Kinds = {}
  BY DEF Kinds
<1>2. CASE g \in {<<k>> : k \in Kinds}
  BY <1>1, <1>2
<1>3. CASE g \in {"eat", "optional"} \X AllTokens
  BY <1>1, <1>3
<1>4. CASE g \in {"leave"} \X Nat
  BY <1>1, <1>4
<1>5. CASE g \in {"operators"} \X DOMAIN OpsAt
  BY <1>1, <1>5, LevelsAre
<1>6. CASE g \in {"node", "wrap"} \X Nat \X Nat
  BY <1>1, <1>6
<1> QED
  BY <1>2, <1>3, <1>4, <1>5, <1>6 DEF Goals

\* Demands and places made from others are demands and places.
LEMMA DemandsMade ==
  ASSUME NEW x \in Demand
  PROVE  /\ \A l \in 1..PrimaryLevel : AtLevel(x, l) \in Demand
         /\ Child(x) \in Demand /\ Negand(x) \in Demand
         /\ \A c \in 0..MAX_NESTING : Freeze(x, c) \in Demand
<1>0. 1 \in 1..PrimaryLevel /\ UnaryLevel \in 1..PrimaryLevel /\ MAX_NESTING \in Nat
  BY LevelsAre, ConstantsAssumption
<1>1. x = [level |-> x.level, room |-> x.room, own |-> x.own] /\ x.room \in Int /\ x.own \in BOOLEAN
      /\ x.level \in 1..PrimaryLevel /\ Cap \in Int
  BY ConstantsAssumption DEF Demand, Cap, Twice
<1>2. IF x.own THEN x.room + 2 * MAX_NESTING <= Cap ELSE x.room <= Cap
  BY DEF Demand
<1>3. \A l \in 1..PrimaryLevel : AtLevel(x, l) \in Demand
  BY <1>1, <1>2 DEF AtLevel, Demand
<1>4. Child(x) \in Demand
  BY <1>0, <1>1, <1>2 DEF Child, Demand
<1>5. Negand(x) \in Demand
  BY <1>0, <1>1, <1>2 DEF Negand, Demand
<1>6. ASSUME NEW c \in 0..MAX_NESTING
      PROVE  Freeze(x, c) \in Demand
  BY <1>0, <1>1, <1>2 DEF Freeze, Demand
<1> QED
  BY <1>3, <1>4, <1>5, <1>6

LEMMA WholeFits ==
  ASSUME NEW g \in Goals, g[1] = "leave", NEW p \in Place, NEW x, Gives(g, x, p)
  PROVE  g[2] \in 1..MAX_NESTING /\ g[2] < MAX_NESTING /\ Whole(g[2]) \in Demand
<1>1. g[2] \in Nat /\ g[2] < MAX_NESTING /\ FitsExpr(x, p) /\ Charged(p, g[2])
  BY Kindly DEF Gives
<1>2. g[2] >= 1
  BY <1>1 DEF FitsExpr, Charged, Place
<1>3. Twice(g[2]) <= Twice(1) /\ Twice(g[2]) \in Int /\ Twice(1) \in Int
  BY <1>1, <1>2, TwiceFalls, ConstantsAssumption DEF Twice
<1>4. Whole(g[2]) \in [level : 1..PrimaryLevel, room : Int, own : BOOLEAN]
  BY <1>3, LevelsAre, ConstantsAssumption DEF Whole
<1>5. Whole(g[2]).own = TRUE /\ Whole(g[2]).room + 2 * MAX_NESTING <= Cap
  BY <1>3, ConstantsAssumption DEF Whole, Cap
<1> QED
  BY <1>1, <1>2, <1>4, <1>5, ConstantsAssumption DEF Demand

LEMMA FrozenIs ==
  ASSUME NEW shape \in Seq(Demand), NEW c \in 0..MAX_NESTING
  PROVE  /\ Frozen(shape, c) \in Seq(Demand) /\ Len(Frozen(shape, c)) = Len(shape)
         /\ \A i \in 1..Len(shape) : Frozen(shape, c)[i] = Freeze(shape[i], c)
<1>1. \A i \in 1..Len(shape) : Freeze(shape[i], c) \in Demand
  <2> TAKE i \in 1..Len(shape)
  <2>1. shape[i] \in Demand
    OBVIOUS
  <2> QED
    BY <2>1, DemandsMade
<1>2. Len(shape) \in Nat
  OBVIOUS
<1>3. Frozen(shape, c) \in [1..Len(shape) -> Demand]
  BY <1>1 DEF Frozen
<1> QED
  BY <1>2, <1>3, SequenceOf DEF Frozen

\* What a goal takes are demands.
LEMMA TakenIs ==
  ASSUME NEW g \in Goals, NEW p \in Place, NEW x \in Demand, Gives(g, x, p),
         g[1] \notin Indifferent \cup Looping \cup {"items", "check", "leave", "leave_block"}
  PROVE  Taken(g, x) \in Seq(Demand)
<1>1. CASE g[1] \in Giving
  <2>1. Taken(g, x) = <<>>
    BY <1>1 DEF Taken, Giving
  <2> QED
    BY <2>1
<1>2. CASE g[1] = "casts"
  <2>1. AtLevel(x, CastLevel) \in Demand
    BY DemandsMade, LevelsAre
  <2> QED
    BY <1>2, <2>1 DEF Taken, Giving
<1>3. CASE g[1] = "operators"
  <2>1. AtLevel(x, g[2]) \in Demand
    <3>1. g[2] \in 1..PrimaryLevel
      BY <1>3, Kindly, LevelsAre
    <3> QED
      BY <3>1, DemandsMade
  <2> QED
    BY <1>3, <2>1 DEF Taken, Giving
<1>4. CASE g[1] = "wrap"
  <2>1. (g[2] = 2 /\ g[3] \in 1..5) \/ (g[2] = 1 /\ g[3] = CastLevel)
    BY <1>4, LevelsAre DEF Gives
  <2>2. CASE g[2] = 2
    <3>1. g[3] + 1 \in 1..PrimaryLevel /\ g[3] \in 1..PrimaryLevel
      BY <2>1, <2>2, LevelsAre
    <3>2. AtLevel(x, g[3] + 1) \in Demand /\ AtLevel(x, g[3]) \in Demand
      BY <3>1, DemandsMade
    <3> QED
      BY <1>4, <2>2, <3>2 DEF Taken, Giving
  <2>3. CASE g[2] # 2
    <3>1. AtLevel(x, CastLevel) \in Demand
      BY DemandsMade, LevelsAre
    <3> QED
      BY <1>4, <2>3, <3>1 DEF Taken, Giving
  <2> QED
    BY <2>2, <2>3
<1>5. CASE g[1] \in {"negate", "group", "join"}
  <2>1. Negand(x) \in Demand /\ AtLevel(x, 1) \in Demand
    BY DemandsMade, LevelsAre
  <2> QED
    BY <1>5, <2>1 DEF Taken, Giving
<1>6. CASE g[1] = "node"
  <2>1. Child(x) \in Demand
    BY DemandsMade
  <2> QED
    BY <1>6, <2>1 DEF Taken, Giving
<1>7. \/ g[1] \in Giving \/ g[1] \in {"casts", "operators", "wrap", "negate", "group", "join", "node"}
  BY Kindly DEF Kinds, Indifferent, Looping, Giving
<1> QED
  BY <1>1, <1>2, <1>3, <1>4, <1>5, <1>6, <1>7

LEMMA BeforeIs ==
  ASSUME NEW g \in Goals, NEW p \in Place, NEW shape \in Seq(Demand), Admits(g, p, shape)
  PROVE  PlaceBefore(g, p) \in Place /\ ShapeBefore(g, shape) \in Seq(Demand)
<1>1. PlaceBefore(g, p) \in Place
  <2>1. g[1] = "leave" => g[2] \in Nat
    BY Kindly
  <2> QED
    BY <2>1 DEF PlaceBefore, Place
<1>2. CASE g[1] \in Indifferent \cup Looping \cup {"leave_block"}
  BY <1>1, <1>2 DEF ShapeBefore, Indifferent, Looping
<1>3. CASE g[1] = "check"
  <2>1. Cap \in Int
    BY ConstantsAssumption DEF Cap, Twice
  <2>2. BodyTree \in Demand
    BY <2>1, LevelsAre DEF BodyTree, Demand
  <2>3. ShapeBefore(g, shape) = <<BodyTree>> \o shape
    BY <1>3 DEF ShapeBefore, Indifferent, Looping
  <2> QED
    BY <1>1, <2>2, <2>3, Cons
<1>4. CASE g[1] \notin Indifferent \cup Looping \cup {"leave_block", "check"}
  <2>1. shape # <<>> /\ Gives(g, shape[1], p) /\ g[1] # "items"
    BY <1>4 DEF Admits
  <2>2. shape[1] \in Demand /\ Tail(shape) \in Seq(Demand)
    BY <2>1, Uncons
  <2>3. CASE g[1] = "leave"
    <3>1. Whole(g[2]) \in Demand /\ g[2] \in 0..MAX_NESTING
      BY <2>1, <2>3, WholeFits, ConstantsAssumption
    <3>2. Frozen(Tail(shape), g[2]) \in Seq(Demand)
      BY <2>2, <3>1, FrozenIs
    <3>3. ShapeBefore(g, shape) = <<Whole(g[2])>> \o Frozen(Tail(shape), g[2])
      BY <2>3 DEF ShapeBefore, Indifferent, Looping
    <3> QED
      BY <1>1, <3>1, <3>2, <3>3, Cons
  <2>4. CASE g[1] # "leave"
    <3>1. Taken(g, shape[1]) \in Seq(Demand)
      BY <1>4, <2>1, <2>2, <2>4, TakenIs
    <3>2. ShapeBefore(g, shape) = Taken(g, shape[1]) \o Tail(shape)
      BY <1>4, <2>4 DEF ShapeBefore
    <3> QED
      BY <1>1, <2>2, <3>1, <3>2
  <2> QED
    BY <2>3, <2>4
<1> QED
  BY <1>1, <1>2, <1>3, <1>4

LEMMA SettledCons ==
  ASSUME NEW x \in Demand, ~x.own, NEW R \in Seq(Demand), Settled(R)
  PROVE  Settled(<<x>> \o R)
<1> DEFINE S == <<x>> \o R
<1>1. Len(S) = Len(R) + 1 /\ S[1] = x /\ \A i \in 2..Len(S) : S[i] = R[i - 1] /\ i - 1 \in 1..Len(R)
      /\ Len(R) \in Nat
  BY Cons
<1> HIDE DEF S
<1>2. \A i \in 1..Len(S) : i = 1 \/ i \in 2..Len(S)
  BY <1>1
<1> QED
  BY <1>1, <1>2 DEF Settled, S

\* Where nothing under way is counted on, one goal more counts on nothing under way.
LEMMA SettledBefore ==
  ASSUME NEW g \in Goals, NEW p \in Place, NEW shape \in Seq(Demand), Admits(g, p, shape),
         g[1] # "leave", Settled(shape)
  PROVE  Settled(ShapeBefore(g, shape))
<1>1. CASE g[1] \in Indifferent \cup Looping \cup {"leave_block"}
  BY <1>1 DEF ShapeBefore, Indifferent, Looping
<1>2. CASE g[1] = "check"
  <2>1. Cap \in Int
    BY ConstantsAssumption DEF Cap, Twice
  <2>2. BodyTree \in Demand /\ ~BodyTree.own
    BY <2>1, LevelsAre DEF BodyTree, Demand
  <2>3. ShapeBefore(g, shape) = <<BodyTree>> \o shape
    BY <1>2 DEF ShapeBefore, Indifferent, Looping
  <2> QED
    BY <2>2, <2>3, SettledCons
<1>3. CASE g[1] \notin Indifferent \cup Looping \cup {"leave_block", "check"}
  <2>1. shape # <<>> /\ Gives(g, shape[1], p) /\ g[1] # "items"
    BY <1>3 DEF Admits
  <2> DEFINE x == shape[1]
             R == Tail(shape)
  <2>2. x \in Demand /\ R \in Seq(Demand) /\ ~x.own /\ Settled(R)
    <3>1. /\ x \in Demand /\ R \in Seq(Demand) /\ Len(R) = Len(shape) - 1 /\ Len(shape) \in Nat \ {0}
          /\ \A i \in 1..Len(shape) - 1 : R[i] = shape[i + 1]
      BY <2>1, Uncons
    <3> HIDE DEF x, R
    <3>2. 1 \in 1..Len(shape) /\ \A i \in 1..Len(R) : i + 1 \in 1..Len(shape) /\ i \in 1..Len(shape) - 1
      BY <3>1
    <3> QED
      BY <3>1, <3>2 DEF Settled, x
  <2>3. ShapeBefore(g, shape) = Taken(g, x) \o R
    BY <1>3 DEF ShapeBefore
  <2>4. Taken(g, x) \in Seq(Demand)
    BY <1>3, <2>1, <2>2, TakenIs
  <2>5. \/ Taken(g, x) = <<>>
        \/ \E a : Taken(g, x) = <<a>> /\ a.own = x.own
        \/ \E a, b : Taken(g, x) = <<a, b>> /\ a.own = x.own /\ b.own = x.own
    <3> HIDE DEF x
    <3>1. \A l : AtLevel(x, l).own = x.own
      BY DEF AtLevel
    <3>2. Child(x).own = x.own /\ Negand(x).own = x.own
      BY DEF Child, Negand
    <3>3. \/ g[1] \in Giving \/ g[1] \in {"casts", "operators", "wrap", "negate", "group", "join", "node"}
      BY <1>3, <2>1, Kindly DEF Kinds, Indifferent, Looping, Giving
    <3>4. CASE g[1] = "node"
      <4>1. g[2] \in 1..2
        BY <2>1, <3>4 DEF Gives, x
      <4> QED
        BY <3>2, <3>4, <4>1 DEF Taken, Giving
    <3> QED
      BY <3>1, <3>2, <3>3, <3>4 DEF Taken, Giving
  <2> HIDE DEF x, R
  <2>6. CASE Taken(g, x) = <<>>
    BY <2>2, <2>3, <2>6
  <2>7. CASE \E a : Taken(g, x) = <<a>> /\ a.own = x.own
    <3>1. PICK a : Taken(g, x) = <<a>> /\ a.own = x.own
      BY <2>7
    <3>2. a \in Demand
      BY <2>4, <3>1
    <3> QED
      BY <2>2, <2>3, <3>1, <3>2, SettledCons
  <2>8. CASE \E a, b : Taken(g, x) = <<a, b>> /\ a.own = x.own /\ b.own = x.own
    <3>1. PICK a, b : Taken(g, x) = <<a, b>> /\ a.own = x.own /\ b.own = x.own
      BY <2>8
    <3>2. a \in Demand /\ b \in Demand
      <4>1. <<a, b>> \in Seq(Demand)
        BY <2>4, <3>1
      <4>2. \A i \in 1..Len(<<a, b>>) : <<a, b>>[i] \in Demand
        BY <4>1, ElementOfSeq
      <4> QED
        BY <4>2
    <3>3. <<b>> \o R \in Seq(Demand) /\ Settled(<<b>> \o R)
      BY <2>2, <3>1, <3>2, Cons, SettledCons
    <3>4. Settled(<<a>> \o (<<b>> \o R))
      BY <2>2, <3>1, <3>2, <3>3, SettledCons
    <3>5. <<a, b>> \o R = <<a>> \o (<<b>> \o R)
      BY <2>2, <3>2, RowOfTwo
    <3> QED
      BY <2>3, <3>1, <3>4, <3>5
  <2> QED
    BY <2>5, <2>6, <2>7, <2>8
<1> QED
  BY <1>1, <1>2, <1>3


\* The last item.
LEMMA ItemsStand == Stands(<<Goal("items")>>, Top, <<>>)
<1> DEFINE gs == <<Goal("items")>>
           ps == <<Top>>
           shapes == << <<>> >>
<1>1. gs \in Seq(Goals) /\ Len(gs) = 1 /\ gs[1] = Goal("items") /\ gs # <<>>
  BY GoalShapes DEF Goal, Kinds
<1>2. ps \in Seq(Place) /\ Len(ps) = 1 /\ ps[1] = Top /\ Top \in Place
  BY DEF Place, Top
<1>3. shapes \in Seq(Seq(Demand)) /\ Len(shapes) = 1 /\ shapes[1] = <<>>
  <2>1. <<>> \in Seq(Demand)
    OBVIOUS
  <2> QED
    BY <2>1
<1> HIDE DEF gs, ps, shapes
<1>4. Frames(gs, 0) = {}
  <2>1. \A j \in DOMAIN gs : gs[j][1] = "items"
    BY <1>1 DEF Goal
  <2> QED
    BY <2>1 DEF Frames, Suspended
<1>5. ps[1].home = Cardinality(Frames(gs, 1 - 1)) /\ ~ps[1].in
  <2>1. Cardinality(Frames(gs, 0)) = 0 /\ 1 - 1 = 0
    BY <1>4, FS_EmptySet
  <2>2. Top.home = 0 /\ ~Top.in
    BY DEF Top
  <2> QED
    BY <1>2, <2>1, <2>2
<1>6. \A i \in 1..Len(gs) : i = 1 /\ \A j \in i..Len(gs) : j = 1
  BY <1>1
<1>7. Settled(shapes[1])
  BY <1>3 DEF Settled
<1>8. Chained(gs, ps, shapes)
  BY <1>1, <1>2, <1>3, <1>5, <1>6, <1>7 DEF Chained, EndsInItems
<1> QED
  BY <1>2, <1>3, <1>8 DEF Stands, gs

\* One goal more.
LEMMA PushGoal ==
  ASSUME NEW g \in Goals, NEW gs, NEW p, NEW shape, Stands(gs, p, shape), Admits(g, p, shape)
  PROVE  Stands(<<g>> \o gs, PlaceBefore(g, p), ShapeBefore(g, shape))
<1> DEFINE q == PlaceBefore(g, p)
           made == ShapeBefore(g, shape)
<1>1. PICK ps, shapes : Chained(gs, ps, shapes) /\ ps[1] = p /\ shapes[1] = shape
  BY DEF Stands
<1>2. /\ gs \in Seq(Goals) /\ gs # <<>> /\ EndsInItems(gs)
      /\ ps \in Seq(Place) /\ shapes \in Seq(Seq(Demand)) /\ Len(ps) = Len(gs) /\ Len(shapes) = Len(gs)
      /\ ps[Len(gs)] = Top /\ shapes[Len(gs)] = <<>>
      /\ Len(gs) \in Nat \ {0}
  BY <1>1 DEF Chained
<1>3. /\ \A i \in 1..Len(gs) - 1 :
           /\ Admits(gs[i], ps[i + 1], shapes[i + 1])
           /\ ps[i] = PlaceBefore(gs[i], ps[i + 1])
           /\ shapes[i] = ShapeBefore(gs[i], shapes[i + 1])
      /\ \A i \in 1..Len(gs) : ~ps[i].in =>
           /\ ps[i].home = Cardinality(Frames(gs, i - 1))
           /\ \A j \in i..Len(gs) : ~ps[j].in
           /\ Settled(shapes[i])
  BY <1>1 DEF Chained
<1>4. p \in Place /\ shape \in Seq(Demand)
  <2>1. 1 \in 1..Len(gs)
    BY <1>2
  <2>2. ps[1] \in Place /\ shapes[1] \in Seq(Demand)
    <3> HIDE DEF Place
    <3> QED
      BY <1>2, <2>1
  <2> QED
    BY <1>1, <2>2
<1>5. q \in Place /\ made \in Seq(Demand)
  BY <1>4, BeforeIs
<1> DEFINE st == <<g>> \o gs
           qs == <<q>> \o ps
           mades == <<made>> \o shapes
           n == Len(gs)
<1>6. /\ st \in Seq(Goals) /\ st # <<>> /\ Len(st) = n + 1 /\ st[1] = g
      /\ \A i \in 1..n : st[i + 1] = gs[i]
      /\ \A i \in 2..n + 1 : st[i] = gs[i - 1] /\ i - 1 \in 1..n
  BY <1>2, Cons
<1>7. /\ qs \in Seq(Place) /\ Len(qs) = n + 1 /\ qs[1] = q
      /\ \A i \in 1..n : qs[i + 1] = ps[i]
      /\ \A i \in 2..n + 1 : qs[i] = ps[i - 1]
  BY <1>2, <1>5, Cons
<1>8. /\ mades \in Seq(Seq(Demand)) /\ Len(mades) = n + 1 /\ mades[1] = made
      /\ \A i \in 1..n : mades[i + 1] = shapes[i]
      /\ \A i \in 2..n + 1 : mades[i] = shapes[i - 1]
  BY <1>2, <1>5, Cons
<1>9. \A i \in 1..n + 1 : Cardinality(Frames(st, i)) = Cardinality(Frames(gs, i - 1))
  BY <1>2, <1>6, FramesOfCons
<1>10. Cardinality(Frames(st, 0)) = Cardinality(Frames(gs, 0)) + IF Suspended(g) THEN 1 ELSE 0
  BY <1>2, FramesOfCons
<1>11. n \in Nat \ {0}
  BY <1>2
<1> HIDE DEF st, qs, mades, n, q, made
<1>12. EndsInItems(st) /\ qs[n + 1] = Top /\ mades[n + 1] = <<>>
  <2>1. n \in 1..n /\ n = Len(gs)
    BY <1>11 DEF n
  <2> QED
    BY <1>2, <1>6, <1>7, <1>8, <2>1 DEF EndsInItems
<1>13. ASSUME NEW i \in 1..n
       PROVE  /\ Admits(st[i], qs[i + 1], mades[i + 1])
              /\ qs[i] = PlaceBefore(st[i], qs[i + 1])
              /\ mades[i] = ShapeBefore(st[i], mades[i + 1])
  <2>1. CASE i = 1
    <3>1. qs[i + 1] = p /\ mades[i + 1] = shape /\ st[i] = g /\ qs[i] = q /\ mades[i] = made
      BY <1>1, <1>6, <1>7, <1>8, <1>11, <2>1
    <3> QED
      BY <3>1 DEF q, made
  <2>2. CASE i # 1
    <3>1. i - 1 \in 1..Len(gs) - 1 /\ (i - 1) + 1 = i /\ i \in 2..n + 1 /\ i \in 1..n
      BY <1>11, <2>2 DEF n
    <3>2. st[i] = gs[i - 1] /\ qs[i] = ps[i - 1] /\ mades[i] = shapes[i - 1]
      BY <1>6, <1>7, <1>8, <3>1
    <3>3. qs[i + 1] = ps[i] /\ mades[i + 1] = shapes[i]
      BY <1>7, <1>8, <3>1
    <3>4. /\ Admits(gs[i - 1], ps[(i - 1) + 1], shapes[(i - 1) + 1])
          /\ ps[i - 1] = PlaceBefore(gs[i - 1], ps[(i - 1) + 1])
          /\ shapes[i - 1] = ShapeBefore(gs[i - 1], shapes[(i - 1) + 1])
      BY <1>3, <3>1
    <3> QED
      BY <3>1, <3>2, <3>3, <3>4
  <2> QED
    BY <2>1, <2>2
<1>14. \A j \in 2..n + 1 : ~qs[j].in =>
         /\ qs[j].home = Cardinality(Frames(st, j - 1)) /\ \A k \in j..n + 1 : ~qs[k].in
         /\ Settled(mades[j])
  <2> SUFFICES ASSUME NEW j \in 2..n + 1, ~qs[j].in
               PROVE  /\ qs[j].home = Cardinality(Frames(st, j - 1)) /\ \A k \in j..n + 1 : ~qs[k].in
                      /\ Settled(mades[j])
    OBVIOUS
  <2>1. j - 1 \in 1..Len(gs) /\ qs[j] = ps[j - 1] /\ j - 1 \in 1..n + 1 /\ mades[j] = shapes[j - 1]
    BY <1>7, <1>8, <1>11 DEF n
  <2>2. /\ ps[j - 1].home = Cardinality(Frames(gs, (j - 1) - 1)) /\ \A k \in j - 1..Len(gs) : ~ps[k].in
        /\ Settled(shapes[j - 1])
    BY <1>3, <2>1
  <2>3. \A k \in j..n + 1 : k - 1 \in j - 1..Len(gs) /\ k \in 2..n + 1
    BY <1>11 DEF n
  <2> QED
    BY <1>7, <1>9, <2>1, <2>2, <2>3
<1>15. ~q.in => q.home = Cardinality(Frames(st, 0)) /\ ~p.in
  <2> SUFFICES ASSUME ~q.in
               PROVE  q.home = Cardinality(Frames(st, 0)) /\ ~p.in
    OBVIOUS
  <2>1. ~p.in => p.home = Cardinality(Frames(gs, 0))
    <3>1. 1 \in 1..Len(gs) /\ 1 - 1 = 0
      BY <1>2
    <3> QED
      BY <1>1, <1>3, <3>1
  <2>2. g[1] # "leave"
    BY DEF q, PlaceBefore
  <2>3. CASE g[1] = "leave_block"
    <3>1. ~p.in
      BY <2>3 DEF Admits, Indifferent
    <3>2. q.home = p.home + 1
      BY <1>4, <2>3 DEF q, PlaceBefore, Place
    <3>3. Suspended(g)
      BY <2>3 DEF Suspended
    <3> QED
      BY <1>10, <2>1, <3>1, <3>2, <3>3
  <2>4. CASE g[1] = "negate"
    <3>1. p.in
      BY <2>4 DEF Admits, Indifferent, Gives, FitsNode
    <3>2. q.in
      BY <1>4, <2>4, <3>1 DEF q, PlaceBefore, Place
    <3> QED
      BY <3>2
  <2>5. CASE g[1] \notin {"leave", "leave_block", "negate"}
    <3>1. q = p /\ ~Suspended(g)
      BY <2>5 DEF q, PlaceBefore, Suspended
    <3>2. IsFiniteSet(Frames(gs, 0)) /\ Cardinality(Frames(gs, 0)) \in Nat
      BY <1>2, FramesFinite
    <3> QED
      BY <1>10, <2>1, <3>1, <3>2
  <2> QED
    BY <2>2, <2>3, <2>4, <2>5
<1>21. ~q.in => Settled(made)
  <2> SUFFICES ASSUME ~q.in PROVE Settled(made)
    OBVIOUS
  <2>1. ~p.in /\ g[1] # "leave"
    BY <1>15 DEF q, PlaceBefore
  <2>2. 1 \in 1..Len(gs)
    BY <1>2
  <2>3. Settled(shape)
    BY <1>1, <1>3, <2>1, <2>2
  <2> QED
    BY <1>4, <2>1, <2>3, SettledBefore DEF made
<1>16. ASSUME NEW i \in 1..n + 1, ~qs[i].in
       PROVE  /\ qs[i].home = Cardinality(Frames(st, i - 1)) /\ \A j \in i..n + 1 : ~qs[j].in
              /\ Settled(mades[i])
  <2>1. CASE i = 1
    <3>1. ~q.in
      BY <1>7, <1>16, <2>1
    <3>2. ~qs[2].in
      BY <1>1, <1>7, <1>11, <1>15, <3>1
    <3>3. 2 \in 2..n + 1 /\ \A j \in i..n + 1 : j = 1 \/ j \in 2..n + 1
      BY <1>11, <2>1
    <3>4. i - 1 = 0
      BY <2>1
    <3> QED
      BY <1>7, <1>8, <1>14, <1>15, <1>21, <2>1, <3>1, <3>2, <3>3, <3>4
  <2>2. CASE i # 1
    <3>1. i \in 2..n + 1
      BY <1>11, <2>2
    <3> QED
      BY <1>14, <1>16, <3>1
  <2> QED
    BY <2>1, <2>2
<1>17. Len(st) = n + 1 /\ Len(st) - 1 = n
  BY <1>6, <1>11
<1>18. Chained(st, qs, mades)
  BY <1>6, <1>7, <1>8, <1>12, <1>13, <1>16, <1>17 DEF Chained
<1>19. Stands(st, q, made)
  BY <1>7, <1>8, <1>18 DEF Stands
<1> QED
  BY <1>19 DEF st, q, made

\* One goal less.
LEMMA PopGoal ==
  ASSUME NEW gs, NEW q, NEW made, Stands(gs, q, made), gs[1] # Goal("items")
  PROVE  \E p \in Place, shape \in Seq(Demand) :
           /\ Stands(Tail(gs), p, shape) /\ Admits(gs[1], p, shape)
           /\ q = PlaceBefore(gs[1], p) /\ made = ShapeBefore(gs[1], shape)
<1>1. PICK ps, shapes : Chained(gs, ps, shapes) /\ ps[1] = q /\ shapes[1] = made
  BY DEF Stands
<1>2. /\ gs \in Seq(Goals) /\ gs # <<>> /\ EndsInItems(gs)
      /\ ps \in Seq(Place) /\ shapes \in Seq(Seq(Demand)) /\ Len(ps) = Len(gs) /\ Len(shapes) = Len(gs)
      /\ ps[Len(gs)] = Top /\ shapes[Len(gs)] = <<>>
      /\ Len(gs) \in Nat \ {0}
  BY <1>1 DEF Chained
<1>3. /\ \A i \in 1..Len(gs) - 1 :
           /\ Admits(gs[i], ps[i + 1], shapes[i + 1])
           /\ ps[i] = PlaceBefore(gs[i], ps[i + 1])
           /\ shapes[i] = ShapeBefore(gs[i], shapes[i + 1])
      /\ \A i \in 1..Len(gs) : ~ps[i].in =>
           /\ ps[i].home = Cardinality(Frames(gs, i - 1))
           /\ \A j \in i..Len(gs) : ~ps[j].in
           /\ Settled(shapes[i])
  BY <1>1 DEF Chained
<1> DEFINE n == Len(gs)
           g == gs[1]
           rest == Tail(gs)
           ps_ == Tail(ps)
           shapes_ == Tail(shapes)
<1>4. n \in Nat /\ n > 1
  BY <1>2 DEF EndsInItems
<1>5. /\ rest \in Seq(Goals) /\ Len(rest) = n - 1 /\ gs = <<g>> \o rest /\ g \in Goals
      /\ \A i \in 1..n - 1 : rest[i] = gs[i + 1]
  BY <1>2, Uncons
<1>6. ps # <<>> /\ shapes # <<>>
  BY <1>2
<1>7. ps_ \in Seq(Place) /\ Len(ps_) = n - 1 /\ \A i \in 1..n - 1 : ps_[i] = ps[i + 1]
  BY <1>2, <1>6, Uncons
<1>8. shapes_ \in Seq(Seq(Demand)) /\ Len(shapes_) = n - 1 /\ \A i \in 1..n - 1 : shapes_[i] = shapes[i + 1]
  BY <1>2, <1>6, Uncons
<1>9. \A i \in 1..n : Cardinality(Frames(gs, i)) = Cardinality(Frames(rest, i - 1))
  BY <1>5, FramesOfCons
<1>10. 1 \in 1..n - 1 /\ n - 1 \in 1..n - 1 /\ (n - 1) + 1 = n /\ 1 + 1 = 2 /\ n = Len(gs)
  BY <1>4
<1> HIDE DEF n, rest, ps_, shapes_
<1>11. rest # <<>> /\ EndsInItems(rest) /\ ps_[Len(rest)] = Top /\ shapes_[Len(rest)] = <<>>
  <2>1. rest[n - 1] = gs[n] /\ ps_[n - 1] = ps[n] /\ shapes_[n - 1] = shapes[n]
    BY <1>5, <1>7, <1>8, <1>10
  <2>2. rest # <<>>
    BY <1>5, <1>10
  <2> QED
    BY <1>2, <1>5, <1>10, <2>1, <2>2 DEF EndsInItems
<1>12. ASSUME NEW i \in 1..Len(rest) - 1
       PROVE  /\ Admits(rest[i], ps_[i + 1], shapes_[i + 1])
              /\ ps_[i] = PlaceBefore(rest[i], ps_[i + 1])
              /\ shapes_[i] = ShapeBefore(rest[i], shapes_[i + 1])
  <2>1. i + 1 \in 1..Len(gs) - 1 /\ i \in 1..n - 1 /\ i + 1 \in 1..n - 1
    BY <1>4, <1>5, <1>10
  <2> QED
    BY <1>3, <1>5, <1>7, <1>8, <2>1
<1>13. ASSUME NEW i \in 1..Len(rest), ~ps_[i].in
       PROVE  /\ ps_[i].home = Cardinality(Frames(rest, i - 1)) /\ \A j \in i..Len(rest) : ~ps_[j].in
              /\ Settled(shapes_[i])
  <2>1. i + 1 \in 1..Len(gs) /\ i \in 1..n - 1 /\ i \in 1..n /\ (i + 1) - 1 = i
    BY <1>4, <1>5, <1>10
  <2>2. \A j \in i..Len(rest) : j + 1 \in i + 1..Len(gs) /\ j \in 1..n - 1
    BY <1>4, <1>5, <1>10
  <2>3. ps_[i] = ps[i + 1] /\ shapes_[i] = shapes[i + 1]
    BY <1>7, <1>8, <2>1
  <2>4. /\ ps[i + 1].home = Cardinality(Frames(gs, i)) /\ \A j \in i + 1..Len(gs) : ~ps[j].in
        /\ Settled(shapes[i + 1])
    BY <1>3, <1>13, <2>1, <2>3
  <2> QED
    BY <1>7, <1>9, <2>1, <2>2, <2>3, <2>4
<1>14. Chained(rest, ps_, shapes_)
  BY <1>5, <1>7, <1>8, <1>11, <1>12, <1>13 DEF Chained
<1>15. Stands(rest, ps[2], shapes[2])
  BY <1>7, <1>8, <1>10, <1>14 DEF Stands
<1>16. ps[2] \in Place /\ shapes[2] \in Seq(Demand)
  <2>1. ps_[1] \in Place /\ shapes_[1] \in Seq(Demand)
    <3>1. 1 \in 1..Len(ps_) /\ 1 \in 1..Len(shapes_)
      BY <1>7, <1>8, <1>10
    <3> HIDE DEF Place
    <3> QED
      BY <1>7, <1>8, <3>1
  <2> QED
    BY <1>7, <1>8, <1>10, <2>1
<1>17. Admits(gs[1], ps[2], shapes[2]) /\ q = PlaceBefore(gs[1], ps[2]) /\ made = ShapeBefore(gs[1], shapes[2])
  BY <1>1, <1>3, <1>10
<1> QED
  BY <1>15, <1>16, <1>17 DEF rest

\* The items are the last goal, and only they are.
LEMMA AtItems ==
  ASSUME NEW gs, NEW q, NEW made, Stands(gs, q, made), gs[1][1] = "items"
  PROVE  gs = <<Goal("items")>> /\ q = Top /\ made = <<>>
<1>1. PICK ps, shapes : Chained(gs, ps, shapes) /\ ps[1] = q /\ shapes[1] = made
  BY DEF Stands
<1>2. gs \in Seq(Goals) /\ Len(gs) \in Nat \ {0}
  BY <1>1 DEF Chained
<1>3. Len(gs) = 1
  <2>1. SUFFICES ASSUME Len(gs) # 1 PROVE FALSE
    OBVIOUS
  <2>2. 1 \in 1..Len(gs) - 1
    <3>1. \A m \in Nat \ {0} : m # 1 => 1 \in 1..m - 1
      OBVIOUS
    <3> QED
      BY <1>2, <2>1, <3>1
  <2>3. Admits(gs[1], ps[1 + 1], shapes[1 + 1])
    BY <1>1, <2>2 DEF Chained
  <2> QED
    BY <2>3 DEF Admits
<1>4. gs[1] = Goal("items") /\ ps[1] = Top /\ shapes[1] = <<>>
  BY <1>1, <1>3 DEF Chained, EndsInItems
<1> QED
  BY <1>1, <1>2, <1>3, <1>4

\* Between statements only blocks are open, and the place knows how many.
LEMMA OutsideExpressions ==
  ASSUME NEW gs, NEW q, NEW made, Stands(gs, q, made), ~q.in
  PROVE  q.home = Cardinality({i \in DOMAIN gs : gs[i] = Goal("leave_block")})
<1>1. PICK ps, shapes : Chained(gs, ps, shapes) /\ ps[1] = q /\ shapes[1] = made
  BY DEF Stands
<1>2. gs \in Seq(Goals) /\ Len(gs) \in Nat \ {0} /\ EndsInItems(gs)
  BY <1>1 DEF Chained
<1>3. q.home = Cardinality(Frames(gs, 0)) /\ \A j \in 1..Len(gs) : ~ps[j].in
  <2>1. 1 \in 1..Len(gs) /\ 1 - 1 = 0
    BY <1>2
  <2> QED
    BY <1>1, <2>1 DEF Chained
<1>4. ASSUME NEW j \in 1..Len(gs), Suspended(gs[j])
      PROVE  gs[j] = Goal("leave_block")
  <2>1. gs[j] \in Goals
    BY <1>2
  <2>2. j # Len(gs)
    BY <1>2, <1>4 DEF EndsInItems, Suspended, Goal
  <2>3. j \in 1..Len(gs) - 1 /\ j + 1 \in 1..Len(gs)
    BY <1>2, <2>2
  <2>4. Admits(gs[j], ps[j + 1], shapes[j + 1]) /\ ps[j] = PlaceBefore(gs[j], ps[j + 1])
    BY <1>1, <2>3 DEF Chained
  <2>5. gs[j][1] # "leave"
    BY <1>3, <2>4 DEF PlaceBefore
  <2>6. gs[j][1] # "negate"
    BY <1>3, <2>3, <2>4 DEF Admits, Indifferent, Gives, FitsNode
  <2>7. gs[j][1] = "leave_block"
    BY <1>4, <2>5, <2>6 DEF Suspended
  <2> QED
    BY <2>1, <2>7, Kindly DEF Kinds, Goal
<1>5. Frames(gs, 0) = {i \in DOMAIN gs : gs[i] = Goal("leave_block")}
  <2>1. DOMAIN gs = 1..Len(gs)
    BY <1>2
  <2>2. Suspended(Goal("leave_block"))
    BY DEF Suspended, Goal
  <2> QED
    BY <1>2, <1>4, <2>1, <2>2 DEF Frames
<1> QED
  BY <1>3, <1>5

LEMMA OutsideSettled ==
  ASSUME NEW gs, NEW q, NEW made, Stands(gs, q, made), ~q.in
  PROVE  Settled(made)
<1>1. PICK ps, shapes : Chained(gs, ps, shapes) /\ ps[1] = q /\ shapes[1] = made
  BY DEF Stands
<1>2. 1 \in 1..Len(gs)
  BY <1>1 DEF Chained
<1> QED
  BY <1>1, <1>2 DEF Chained

-----------------------------------------------------------------------------
(* Trees and what is asked of them.                                        *)

LEMMA MeetsEasier ==
  ASSUME NEW t \in Tree, NEW x \in Demand, NEW y \in Demand, NEW c \in Int, Meets(t, x, c),
         y.level <= x.level, y.own = x.own, x.room <= y.room
  PROVE  Meets(t, y, c)
BY LevelsAre DEF Meets, Tree, Demand

LEMMA LieCons ==
  ASSUME NEW t \in Tree, NEW ts \in Seq(Tree), NEW x \in Demand, NEW R \in Seq(Demand), NEW c,
         Meets(t, x, c), Lie(ts, R, c)
  PROVE  <<t>> \o ts \in Seq(Tree) /\ Lie(<<t>> \o ts, <<x>> \o R, c)
<1> DEFINE us == <<t>> \o ts
           S == <<x>> \o R
<1>1. us \in Seq(Tree) /\ Len(us) = Len(ts) + 1 /\ us[1] = t /\ Len(ts) \in Nat
      /\ \A i \in 2..Len(us) : us[i] = ts[i - 1] /\ i - 1 \in 1..Len(ts)
  BY Cons
<1>2. Len(S) = Len(R) + 1 /\ S[1] = x /\ \A i \in 2..Len(S) : S[i] = R[i - 1] /\ i - 1 \in 1..Len(R)
  BY Cons
<1>3. Len(ts) = Len(R) /\ \A i \in 1..Len(R) : Meets(ts[i], R[i], c)
  BY DEF Lie
<1> HIDE DEF us, S
<1>4. ASSUME NEW i \in 1..Len(S)
      PROVE  Meets(us[i], S[i], c)
  <2>1. CASE i = 1
    BY <1>1, <1>2, <2>1
  <2>2. CASE i # 1
    <3>1. i \in 2..Len(S) /\ Len(us) = Len(S)
      BY <1>1, <1>2, <1>3, <2>2
    <3> QED
      BY <1>1, <1>2, <1>3, <3>1
  <2> QED
    BY <2>1, <2>2
<1>5. Lie(us, S, c)
  BY <1>1, <1>2, <1>3, <1>4 DEF Lie
<1> QED
  BY <1>1, <1>5 DEF us, S

LEMMA LieUncons ==
  ASSUME NEW ts \in Seq(Tree), NEW x \in Demand, NEW R \in Seq(Demand), NEW c,
         Lie(ts, <<x>> \o R, c)
  PROVE  /\ ts # <<>> /\ ts[1] \in Tree /\ Head(ts) = ts[1] /\ Meets(ts[1], x, c)
         /\ Tail(ts) \in Seq(Tree) /\ Lie(Tail(ts), R, c)
         /\ Len(ts) = Len(R) + 1
<1> DEFINE S == <<x>> \o R
<1>1. Len(S) = Len(R) + 1 /\ S[1] = x /\ \A i \in 1..Len(R) : S[i + 1] = R[i]
      /\ Len(R) \in Nat
  BY Cons
<1>2. Len(ts) = Len(S) /\ \A i \in 1..Len(S) : Meets(ts[i], S[i], c)
  BY DEF Lie
<1> HIDE DEF S
<1>3. ts # <<>>
  BY <1>1, <1>2
<1>4. ts[1] \in Tree /\ Head(ts) = ts[1] /\ Tail(ts) \in Seq(Tree) /\ Len(Tail(ts)) = Len(ts) - 1
      /\ \A i \in 1..Len(ts) - 1 : Tail(ts)[i] = ts[i + 1]
  BY <1>3, Uncons
<1>5. Meets(ts[1], x, c)
  BY <1>1, <1>2
<1>6. \A i \in 1..Len(R) : Meets(Tail(ts)[i], R[i], c)
  <2> TAKE i \in 1..Len(R)
  <2>1. i + 1 \in 1..Len(S) /\ i \in 1..Len(ts) - 1
    BY <1>1, <1>2
  <2> QED
    BY <1>1, <1>2, <1>4, <2>1
<1> QED
  BY <1>1, <1>2, <1>3, <1>4, <1>5, <1>6 DEF Lie

LEMMA LieUnconsTwo ==
  ASSUME NEW ts \in Seq(Tree), NEW x \in Demand, NEW y \in Demand, NEW R \in Seq(Demand), NEW c,
         Lie(ts, <<x, y>> \o R, c)
  PROVE  /\ ts[1] \in Tree /\ Meets(ts[1], x, c) /\ ts[2] \in Tree /\ Meets(ts[2], y, c)
         /\ SubSeq(ts, 3, Len(ts)) \in Seq(Tree) /\ Lie(SubSeq(ts, 3, Len(ts)), R, c)
<1>1. <<x, y>> \o R = <<x>> \o (<<y>> \o R) /\ <<y>> \o R \in Seq(Demand)
  BY RowOfTwo, Cons
<1>2. /\ ts # <<>> /\ ts[1] \in Tree /\ Meets(ts[1], x, c)
      /\ Tail(ts) \in Seq(Tree) /\ Lie(Tail(ts), <<y>> \o R, c)
  BY <1>1, LieUncons
<1>3. /\ Tail(ts) # <<>> /\ Tail(ts)[1] \in Tree /\ Meets(Tail(ts)[1], y, c)
      /\ Tail(Tail(ts)) \in Seq(Tree) /\ Lie(Tail(Tail(ts)), R, c)
  BY <1>2, LieUncons
<1>4. Tail(ts)[1] = ts[2] /\ Tail(Tail(ts)) = SubSeq(ts, 3, Len(ts))
  <2>1. Len(ts) >= 2 /\ Len(ts) \in Nat
    BY <1>2, <1>3
  <2>2. Tail(ts)[1] = ts[2]
    BY <1>2, <2>1
  <2>3. /\ Len(Tail(Tail(ts))) = Len(ts) - 2
        /\ \A i \in 1..Len(ts) - 2 : Tail(Tail(ts))[i] = ts[i + 2]
    BY <1>2, <1>3, <2>1
  <2>4. /\ SubSeq(ts, 3, Len(ts)) \in Seq(Tree) /\ Len(SubSeq(ts, 3, Len(ts))) = Len(ts) - 2
        /\ \A i \in 1..Len(ts) - 2 : SubSeq(ts, 3, Len(ts))[i] = ts[i + 2]
    BY <2>1
  <2> QED
    BY <1>3, <2>2, <2>3, <2>4
<1> QED
  BY <1>2, <1>3, <1>4

LEMMA SubSeqTwo ==
  ASSUME NEW S, NEW s \in Seq(S), s # <<>>
  PROVE  SubSeq(s, 2, Len(s)) = Tail(s)
OBVIOUS

LEMMA LieGrows ==
  ASSUME NEW ts \in Seq(Tree), NEW S \in Seq(Demand), NEW c \in Int, NEW e \in Int, c <= e,
         Lie(ts, S, c)
  PROVE  Lie(ts, S, e)
<1>1. ASSUME NEW i \in 1..Len(S)
      PROVE  Meets(ts[i], S[i], e)
  <2>1. Meets(ts[i], S[i], c) /\ Len(ts) = Len(S)
    BY DEF Lie
  <2>2. ts[i] \in Tree /\ S[i] \in Demand
    BY <2>1
  <2> QED
    <3>1. 2 * c <= 2 * e
      OBVIOUS
    <3>2. ts[i].deep \in Nat /\ S[i].room \in Int
      BY <2>2 DEF Tree, Demand
    <3> QED
      BY <2>1, <3>1, <3>2 DEF Meets
<1> QED
  BY <1>1 DEF Lie

LEMMA LieFrozen ==
  ASSUME NEW ts \in Seq(Tree), NEW S \in Seq(Demand), NEW c \in 0..MAX_NESTING, NEW e
  PROVE  Lie(ts, S, c) <=> Lie(ts, Frozen(S, c), e)
<1>1. Len(Frozen(S, c)) = Len(S) /\ \A i \in 1..Len(S) : Frozen(S, c)[i] = Freeze(S[i], c)
  BY FrozenIs
<1>2. ASSUME NEW i \in 1..Len(S), Len(ts) = Len(S)
      PROVE  Meets(ts[i], S[i], c) <=> Meets(ts[i], Freeze(S[i], c), e)
  <2>1. ts[i] \in Tree /\ S[i] \in Demand /\ c \in Int
    BY <1>2, ConstantsAssumption
  <2> QED
    BY <2>1 DEF Meets, Freeze, Tree, Demand
<1> QED
  BY <1>1, <1>2 DEF Lie

\* A leaf fits wherever an operand may stand, and an expression of an expression does.
LEMMA Fitting ==
  ASSUME NEW p \in Place, NEW x \in Demand, NEW c \in 0..MAX_NESTING, Charged(p, c)
  PROVE  /\ FitsNode(x, p) => Meets(Leaf, x, c)
         /\ FitsNode(x, p) => x.room - 2 + 2 * c >= 0
         /\ FitsExpr(x, p) => Meets(None, x, c)
         /\ FitsBody(x, p) => Meets(Leaf, x, c) /\ Meets(None, x, c)
<1>1. c \in Nat /\ MAX_NESTING \in Nat /\ p.home \in Nat /\ p.pending \in Nat /\ p.in \in BOOLEAN
      /\ x.room \in Int /\ x.own \in BOOLEAN /\ x.level \in 1..8
  BY ConstantsAssumption, LevelsAre DEF Place, Demand
<1>2. /\ Leaf.deep = 1 /\ Leaf.level = 8 /\ Leaf.sound = TRUE
      /\ None.deep = 0 /\ None.level = 8 /\ None.sound = TRUE
  BY LevelsAre DEF Leaf, None
<1>3. CASE p.in
  <2>1. p.home + 1 + p.pending <= c
    BY <1>3 DEF Charged
  <2>2. Twice(c) <= Twice(p.home) - 2 * p.pending - 2 - 2 * MAX_NESTING + 2 * c
    BY <1>1, <2>1, ExpressionFits
  <2>3. Twice(c) \in Nat /\ Twice(p.home) \in Int
    BY <1>1, TwiceSteps DEF Twice
  <2>4. NodeRoom(p) + 2 * c >= 2 /\ NodeRoom(p) \in Int
    BY <1>1, <2>2, <2>3 DEF NodeRoom
  <2> QED
    BY <1>1, <1>2, <1>3, <2>4 DEF FitsNode, FitsExpr, FitsBody, Meets
<1>4. CASE ~p.in
  <2>1. c = p.home
    BY <1>4 DEF Charged
  <2>2. Twice(p.home) \in Nat
    BY <2>1, TwiceSteps
  <2> QED
    BY <1>1, <1>2, <1>4, <2>2 DEF FitsNode, FitsExpr, FitsBody, Meets
<1> QED
  BY <1>1, <1>3, <1>4

LEMMA LieSettled ==
  ASSUME NEW ts \in Seq(Tree), NEW S \in Seq(Demand), NEW c, NEW e, Settled(S), Lie(ts, S, c)
  PROVE  Lie(ts, S, e)
BY DEF Lie, Meets, Settled

LEMMA LieEasier ==
  ASSUME NEW ts \in Seq(Tree), NEW x \in Demand, NEW y \in Demand, NEW R \in Seq(Demand), NEW c \in Int,
         Lie(ts, <<x>> \o R, c), y.level <= x.level, y.own = x.own, x.room <= y.room
  PROVE  Lie(ts, <<y>> \o R, c)
<1>1. /\ ts # <<>> /\ ts[1] \in Tree /\ Meets(ts[1], x, c)
      /\ Tail(ts) \in Seq(Tree) /\ Lie(Tail(ts), R, c)
  BY LieUncons
<1>2. Meets(ts[1], y, c)
  BY <1>1, MeetsEasier
<1>3. ts = <<ts[1]>> \o Tail(ts)
  BY <1>1, Uncons
<1>4. Lie(<<ts[1]>> \o Tail(ts), <<y>> \o R, c)
  BY <1>1, <1>2, LieCons
<1> QED
  BY <1>3, <1>4


-----------------------------------------------------------------------------
(* One goal in front of a stack, by its kind.                              *)

LEMMA Standing ==
  ASSUME NEW gs, NEW p, NEW S, Stands(gs, p, S)
  PROVE  gs \in Seq(Goals) /\ gs # <<>> /\ p \in Place /\ S \in Seq(Demand)
<1>1. PICK ps, shapes : Chained(gs, ps, shapes) /\ ps[1] = p /\ shapes[1] = S
  BY DEF Stands
<1>2. /\ gs \in Seq(Goals) /\ gs # <<>> /\ Len(gs) \in Nat \ {0}
      /\ ps \in Seq(Place) /\ shapes \in Seq(Seq(Demand)) /\ Len(ps) = Len(gs) /\ Len(shapes) = Len(gs)
  BY <1>1 DEF Chained
<1>3. 1 \in 1..Len(ps) /\ 1 \in 1..Len(shapes)
  BY <1>2
<1>4. ps[1] \in Place /\ shapes[1] \in Seq(Demand)
  <2> HIDE DEF Place
  <2> QED
    BY <1>2, <1>3
<1> QED
  BY <1>1, <1>2, <1>4

LEMMA PutIndifferent ==
  ASSUME NEW g \in Goals, g[1] \in Indifferent, NEW gs, NEW p, NEW S, Stands(gs, p, S)
  PROVE  Stands(<<g>> \o gs, p, S)
<1>1. Admits(g, p, S)
  BY DEF Admits, Indifferent
<1>2. PlaceBefore(g, p) = p /\ ShapeBefore(g, S) = S
  BY DEF PlaceBefore, ShapeBefore, Indifferent
<1> QED
  BY <1>1, <1>2, PushGoal

LEMMA PutLooping ==
  ASSUME NEW g \in Goals, g[1] \in Looping, NEW gs, NEW p, NEW x \in Demand, NEW R \in Seq(Demand),
         Stands(gs, p, <<x>> \o R), Gives(g, x, p)
  PROVE  Stands(<<g>> \o gs, p, <<x>> \o R)
<1>0. (<<x>> \o R)[1] = x /\ <<x>> \o R # <<>>
  BY Cons
<1>1. Admits(g, p, <<x>> \o R)
  BY <1>0 DEF Admits, Looping, Indifferent
<1>2. PlaceBefore(g, p) = p /\ ShapeBefore(g, <<x>> \o R) = <<x>> \o R
  BY DEF PlaceBefore, ShapeBefore, Looping, Indifferent
<1> QED
  BY <1>1, <1>2, PushGoal

Takers == {"casts", "operators", "wrap", "group", "join", "node"}

LEMMA PutTaker ==
  ASSUME NEW g \in Goals, g[1] \in Giving \cup Takers, NEW gs, NEW p, NEW x \in Demand, NEW R \in Seq(Demand),
         Stands(gs, p, <<x>> \o R), Gives(g, x, p)
  PROVE  Stands(<<g>> \o gs, p, Taken(g, x) \o R)
<1>0. (<<x>> \o R)[1] = x /\ <<x>> \o R # <<>> /\ Tail(<<x>> \o R) = R
  BY Cons
<1>1. Admits(g, p, <<x>> \o R)
  BY <1>0 DEF Admits, Giving, Takers, Indifferent
<1>2. PlaceBefore(g, p) = p
  BY DEF PlaceBefore, Giving, Takers
<1>3. ShapeBefore(g, <<x>> \o R) = Taken(g, x) \o R
  BY <1>0 DEF ShapeBefore, Giving, Takers, Looping, Indifferent
<1> QED
  BY <1>1, <1>2, <1>3, PushGoal

LEMMA PutGiving ==
  ASSUME NEW g \in Goals, g[1] \in Giving, NEW gs, NEW p, NEW x \in Demand, NEW R \in Seq(Demand),
         Stands(gs, p, <<x>> \o R), Gives(g, x, p)
  PROVE  Stands(<<g>> \o gs, p, R)
<1>1. Stands(<<g>> \o gs, p, Taken(g, x) \o R)
  BY PutTaker
<1>2. Taken(g, x) = <<>>
  BY DEF Taken, Giving
<1>3. <<>> \o R = R
  OBVIOUS
<1> QED
  BY <1>1, <1>2, <1>3

LEMMA PutNegate ==
  ASSUME NEW gs, NEW p \in Place, NEW x \in Demand, NEW R \in Seq(Demand),
         Stands(gs, p, <<x>> \o R), FitsNode(x, p), x.level <= UnaryLevel
  PROVE  Stands(<<Goal("negate")>> \o gs, [p EXCEPT !.pending = @ + 1], <<Negand(x)>> \o R)
<1> DEFINE g == <<"negate">>
<1>0. (<<x>> \o R)[1] = x /\ <<x>> \o R # <<>> /\ Tail(<<x>> \o R) = R
  BY Cons
<1>1. g \in Goals /\ g[1] = "negate" /\ g = Goal("negate")
  BY GoalShapes DEF Kinds, Goal
<1> HIDE DEF g
<1>2. Admits(g, p, <<x>> \o R)
  BY <1>0, <1>1 DEF Admits, Indifferent, Gives
<1>3. PlaceBefore(g, p) = [p EXCEPT !.pending = @ + 1]
  BY <1>1 DEF PlaceBefore
<1>4. ShapeBefore(g, <<x>> \o R) = <<Negand(x)>> \o R
  <2>1. Taken(g, x) = <<Negand(x)>>
    BY <1>1 DEF Taken, Giving
  <2> QED
    BY <1>0, <1>1, <2>1 DEF ShapeBefore, Indifferent, Looping
<1> DEFINE q == [p EXCEPT !.pending = @ + 1]
           made == <<Negand(x)>> \o R
           below == <<x>> \o R
<1>5. PlaceBefore(g, p) = q /\ ShapeBefore(g, below) = made /\ Admits(g, p, below) /\ Stands(gs, p, below)
  BY <1>2, <1>3, <1>4
<1> HIDE DEF q, made, below
<1>6. Stands(<<g>> \o gs, PlaceBefore(g, p), ShapeBefore(g, below))
  BY <1>1, <1>5, PushGoal
<1>7. Stands(<<g>> \o gs, q, made)
  BY <1>5, <1>6
<1> QED
  BY <1>1, <1>7 DEF q, made

LEMMA PutLeaveBlock ==
  ASSUME NEW gs, NEW p \in Place, NEW S, Stands(gs, p, S), ~p.in
  PROVE  Stands(<<Goal("leave_block")>> \o gs, [p EXCEPT !.home = @ + 1], S)
<1> DEFINE g == <<"leave_block">>
<1>1. g \in Goals /\ g[1] = "leave_block" /\ g = Goal("leave_block")
  BY GoalShapes DEF Kinds, Goal
<1> HIDE DEF g
<1>2. Admits(g, p, S)
  BY <1>1 DEF Admits, Indifferent
<1>3. PlaceBefore(g, p) = [p EXCEPT !.home = @ + 1] /\ ShapeBefore(g, S) = S
  BY <1>1 DEF PlaceBefore, ShapeBefore, Indifferent, Looping
<1>4. Stands(<<g>> \o gs, [p EXCEPT !.home = @ + 1], S)
  BY <1>1, <1>2, <1>3, PushGoal
<1> QED
  BY <1>1, <1>4

LEMMA PutLeave ==
  ASSUME NEW gs, NEW p \in Place, NEW x \in Demand, NEW R \in Seq(Demand), NEW d \in Nat,
         Stands(gs, p, <<x>> \o R), FitsExpr(x, p), x.level = 1, d < MAX_NESTING, Charged(p, d)
  PROVE  Stands(<< <<"leave", d>> >> \o gs, [in |-> TRUE, home |-> d, pending |-> 0],
                <<Whole(d)>> \o Frozen(R, d))
<1> DEFINE g == <<"leave", d>>
<1>0. (<<x>> \o R)[1] = x /\ <<x>> \o R # <<>> /\ Tail(<<x>> \o R) = R
  BY Cons
<1>1. g \in Goals /\ g[1] = "leave" /\ g[2] = d
  BY GoalShapes
<1> HIDE DEF g
<1>2. Admits(g, p, <<x>> \o R)
  BY <1>0, <1>1 DEF Admits, Indifferent, Gives
<1>3. PlaceBefore(g, p) = [in |-> TRUE, home |-> d, pending |-> 0]
  BY <1>1 DEF PlaceBefore
<1>4. ShapeBefore(g, <<x>> \o R) = <<Whole(d)>> \o Frozen(R, d)
  BY <1>0, <1>1 DEF ShapeBefore, Indifferent, Looping
<1> DEFINE q == [in |-> TRUE, home |-> d, pending |-> 0]
           made == <<Whole(d)>> \o Frozen(R, d)
           below == <<x>> \o R
<1>5. PlaceBefore(g, p) = q /\ ShapeBefore(g, below) = made /\ Admits(g, p, below) /\ Stands(gs, p, below)
  BY <1>2, <1>3, <1>4
<1> HIDE DEF q, made, below
<1>6. Stands(<<g>> \o gs, PlaceBefore(g, p), ShapeBefore(g, below))
  BY <1>1, <1>5, PushGoal
<1>7. Stands(<<g>> \o gs, q, made)
  BY <1>5, <1>6
<1> QED
  BY <1>7 DEF g, q, made

LEMMA PutCheck ==
  ASSUME NEW gs, NEW p, NEW S, Stands(gs, p, S), ~p.in, p.home = 0
  PROVE  Stands(<<Goal("check")>> \o gs, p, <<BodyTree>> \o S)
<1> DEFINE g == <<"check">>
<1>1. g \in Goals /\ g[1] = "check" /\ g = Goal("check")
  BY GoalShapes DEF Kinds, Goal
<1> HIDE DEF g
<1>2. Admits(g, p, S)
  BY <1>1 DEF Admits, Indifferent
<1>3. PlaceBefore(g, p) = p /\ ShapeBefore(g, S) = <<BodyTree>> \o S
  BY <1>1 DEF PlaceBefore, ShapeBefore, Indifferent, Looping
<1>4. Stands(<<g>> \o gs, p, <<BodyTree>> \o S)
  BY <1>1, <1>2, <1>3, PushGoal
<1> QED
  BY <1>1, <1>4

-----------------------------------------------------------------------------
(* What the head of the stack faces, by its kind.                          *)

\* The goals below the head.
Rest == Tail(goals)

LEMMA Facing ==
  ASSUME IInv, TreeInv, NEW k, Parsing(k), k # "items"
  PROVE  LET g == Head(goals)
         IN  /\ g \in Goals /\ g[1] = k /\ goals # <<>> /\ depth \in 0..MAX_NESTING
             /\ \E p \in Place, S \in Seq(Demand) :
                  /\ Stands(Rest, p, S) /\ Admits(g, p, S)
                  /\ Lie(trees, ShapeBefore(g, S), depth) /\ Charged(PlaceBefore(g, p), depth)
<1>1. goals # <<>> /\ goals \in Seq(Goals) /\ goals[1] = Head(goals) /\ goals[1][1] = k
  BY HeadIs
<1>2. PICK q, made : Stands(goals, q, made) /\ Lie(trees, made, depth) /\ Charged(q, depth)
  BY <1>1 DEF TreeInv
<1>3. goals[1] # Goal("items") /\ goals[1] \in Goals
  BY <1>1, Uncons DEF Goal
<1>4. depth \in 0..MAX_NESTING
  BY DEF IInv, Paid
<1>5. \E p \in Place, S \in Seq(Demand) :
        /\ Stands(Tail(goals), p, S) /\ Admits(goals[1], p, S)
        /\ q = PlaceBefore(goals[1], p) /\ made = ShapeBefore(goals[1], S)
  BY <1>2, <1>3, PopGoal
<1> QED
  BY <1>1, <1>2, <1>3, <1>4, <1>5 DEF Rest

LEMMA FacingIndifferent ==
  ASSUME IInv, TreeInv, NEW k, Parsing(k), k \in Indifferent
  PROVE  \E p \in Place, S \in Seq(Demand) :
           Stands(Rest, p, S) /\ Lie(trees, S, depth) /\ Charged(p, depth)
<1>1. k # "items"
  BY DEF Indifferent
<1>2. PICK p \in Place, S \in Seq(Demand) :
        /\ Stands(Rest, p, S) /\ Admits(Head(goals), p, S)
        /\ Lie(trees, ShapeBefore(Head(goals), S), depth) /\ Charged(PlaceBefore(Head(goals), p), depth)
  BY <1>1, Facing
<1>3. Head(goals)[1] = k
  BY <1>1, Facing
<1>4. ShapeBefore(Head(goals), S) = S /\ PlaceBefore(Head(goals), p) = p
  BY <1>3 DEF ShapeBefore, PlaceBefore, Indifferent
<1> QED
  BY <1>2, <1>4

LEMMA FacingTree ==
  ASSUME IInv, TreeInv, NEW k, Parsing(k), k \notin Indifferent \cup {"items", "check", "leave_block"}
  PROVE  \E p \in Place, x \in Demand, R \in Seq(Demand) :
           /\ Stands(Rest, p, <<x>> \o R) /\ Gives(Head(goals), x, p)
           /\ Lie(trees, ShapeBefore(Head(goals), <<x>> \o R), depth)
           /\ Charged(PlaceBefore(Head(goals), p), depth)
<1>1. k # "items"
  OBVIOUS
<1>2. PICK p \in Place, S \in Seq(Demand) :
        /\ Stands(Rest, p, S) /\ Admits(Head(goals), p, S)
        /\ Lie(trees, ShapeBefore(Head(goals), S), depth) /\ Charged(PlaceBefore(Head(goals), p), depth)
  BY <1>1, Facing
<1>3. Head(goals)[1] = k
  BY <1>1, Facing
<1>4. S # <<>> /\ Gives(Head(goals), S[1], p)
  BY <1>2, <1>3 DEF Admits
<1>5. S = <<S[1]>> \o Tail(S) /\ S[1] \in Demand /\ Tail(S) \in Seq(Demand)
  BY <1>4, Uncons
<1> QED
  BY <1>2, <1>4, <1>5

LEMMA FacingLooping ==
  ASSUME IInv, TreeInv, NEW k, Parsing(k), k \in Looping
  PROVE  \E p \in Place, x \in Demand, R \in Seq(Demand) :
           /\ Stands(Rest, p, <<x>> \o R) /\ Gives(Goal(k), x, p)
           /\ Lie(trees, <<x>> \o R, depth) /\ Charged(p, depth)
<1>1. k \notin Indifferent \cup {"items", "check", "leave_block"}
  BY DEF Looping, Indifferent
<1>2. PICK p \in Place, x \in Demand, R \in Seq(Demand) :
           /\ Stands(Rest, p, <<x>> \o R) /\ Gives(Head(goals), x, p)
           /\ Lie(trees, ShapeBefore(Head(goals), <<x>> \o R), depth)
           /\ Charged(PlaceBefore(Head(goals), p), depth)
  BY <1>1, FacingTree
<1>3. Head(goals)[1] = k /\ Head(goals) = Goal(k)
  BY <1>1, Facing, Kindly DEF Looping, Kinds, Goal
<1>4. ShapeBefore(Head(goals), <<x>> \o R) = <<x>> \o R /\ PlaceBefore(Head(goals), p) = p
  BY <1>3 DEF ShapeBefore, PlaceBefore, Looping
<1> QED
  BY <1>2, <1>3, <1>4

LEMMA FacingTaker ==
  ASSUME IInv, TreeInv, NEW k, Parsing(k), k \in Giving \cup Takers
  PROVE  /\ Head(goals) \in Goals /\ Head(goals)[1] = k
         /\ \E p \in Place, x \in Demand, R \in Seq(Demand) :
              /\ Stands(Rest, p, <<x>> \o R) /\ Gives(Head(goals), x, p)
              /\ Lie(trees, Taken(Head(goals), x) \o R, depth) /\ Charged(p, depth)
<1>1. k \notin Indifferent \cup Looping \cup {"items", "check", "leave", "leave_block", "negate"}
  BY DEF Looping, Indifferent, Giving, Takers
<1>2. PICK p \in Place, x \in Demand, R \in Seq(Demand) :
           /\ Stands(Rest, p, <<x>> \o R) /\ Gives(Head(goals), x, p)
           /\ Lie(trees, ShapeBefore(Head(goals), <<x>> \o R), depth)
           /\ Charged(PlaceBefore(Head(goals), p), depth)
  BY <1>1, FacingTree
<1>3. Head(goals)[1] = k /\ Head(goals) \in Goals
  BY <1>1, Facing
<1>4. (<<x>> \o R)[1] = x /\ Tail(<<x>> \o R) = R
  BY Cons
<1>5. ShapeBefore(Head(goals), <<x>> \o R) = Taken(Head(goals), x) \o R
  BY <1>1, <1>3, <1>4 DEF ShapeBefore
<1>6. PlaceBefore(Head(goals), p) = p
  BY <1>1, <1>3 DEF PlaceBefore
<1> QED
  BY <1>2, <1>3, <1>5, <1>6

LEMMA FacingGiving ==
  ASSUME IInv, TreeInv, NEW k, Parsing(k), k \in Giving
  PROVE  \E p \in Place, x \in Demand, R \in Seq(Demand) :
           /\ Stands(Rest, p, <<x>> \o R) /\ Gives(Goal(k), x, p)
           /\ Lie(trees, R, depth) /\ Charged(p, depth)
<1>1. Head(goals)[1] = k /\ Head(goals) = Goal(k)
  BY FacingTaker, Kindly DEF Giving, Kinds, Goal
<1>2. PICK p \in Place, x \in Demand, R \in Seq(Demand) :
           /\ Stands(Rest, p, <<x>> \o R) /\ Gives(Head(goals), x, p)
           /\ Lie(trees, Taken(Head(goals), x) \o R, depth) /\ Charged(p, depth)
  BY FacingTaker
<1>3. Taken(Head(goals), x) = <<>> /\ <<>> \o R = R
  BY <1>1 DEF Taken, Giving, Goal
<1> QED
  BY <1>1, <1>2, <1>3

\* The other end: what a step has to show.
LEMMA Seated ==
  ASSUME NEW new, Become(new), NEW p, NEW S, Stands(new \o Rest, p, S),
         Lie(trees', S, depth'), Charged(p, depth'), trees' \in Seq(Tree)
  PROVE  TreeInv'
<1>1. goals' = new \o Rest
  BY DEF Become, Rest
<1>2. goals' # <<>>
  BY <1>1, Standing
<1> QED
  BY <1>1, <1>2 DEF TreeInv

-----------------------------------------------------------------------------
(* Rows of goals, put up one at a time.                                    *)

LEMMA RowTwo ==
  ASSUME NEW T \in Seq(Goals), NEW a \in Goals, NEW b \in Goals,
         NEW p, NEW S, Stands(<<a>> \o (<<b>> \o T), p, S)
  PROVE  Stands(<<a, b>> \o T, p, S)
<1> DEFINE s == <<b>> \o T
           r == <<a, b>>
<1>1. r \o T \in Seq(Goals) /\ <<a>> \o s \in Seq(Goals)
  OBVIOUS
<1>2. Len(r \o T) = Len(<<a>> \o s)
  OBVIOUS
<1>3. \A i \in 1..Len(r \o T) : (r \o T)[i] = (<<a>> \o s)[i]
  OBVIOUS
<1>4. Stands(<<a>> \o s, p, S)
  OBVIOUS
<1> HIDE DEF r, s
<1>5. r \o T = <<a>> \o s
  BY <1>1, <1>2, <1>3, SeqEqual
<1>6. Stands(r \o T, p, S)
  BY <1>4, <1>5
<1> QED
  BY <1>6 DEF r

LEMMA RowThree ==
  ASSUME NEW T \in Seq(Goals), NEW a \in Goals, NEW b \in Goals, NEW c \in Goals,
         NEW p, NEW S, Stands(<<a>> \o (<<b>> \o (<<c>> \o T)), p, S)
  PROVE  Stands(<<a, b, c>> \o T, p, S)
<1> DEFINE s == <<b>> \o (<<c>> \o T)
           r == <<a, b, c>>
<1>1. r \o T \in Seq(Goals) /\ <<a>> \o s \in Seq(Goals)
  OBVIOUS
<1>2. Len(r \o T) = Len(<<a>> \o s)
  OBVIOUS
<1>3. \A i \in 1..Len(r \o T) : (r \o T)[i] = (<<a>> \o s)[i]
  OBVIOUS
<1>4. Stands(<<a>> \o s, p, S)
  OBVIOUS
<1> HIDE DEF r, s
<1>5. r \o T = <<a>> \o s
  BY <1>1, <1>2, <1>3, SeqEqual
<1>6. Stands(r \o T, p, S)
  BY <1>4, <1>5
<1> QED
  BY <1>6 DEF r

LEMMA RowFour ==
  ASSUME NEW T \in Seq(Goals), NEW a \in Goals, NEW b \in Goals, NEW c \in Goals, NEW d \in Goals,
         NEW p, NEW S, Stands(<<a>> \o (<<b>> \o (<<c>> \o (<<d>> \o T))), p, S)
  PROVE  Stands(<<a, b, c, d>> \o T, p, S)
<1> DEFINE s == <<b>> \o (<<c>> \o (<<d>> \o T))
           r == <<a, b, c, d>>
<1>1. r \o T \in Seq(Goals) /\ <<a>> \o s \in Seq(Goals)
  OBVIOUS
<1>2. Len(r \o T) = Len(<<a>> \o s)
  OBVIOUS
<1>3. \A i \in 1..Len(r \o T) : (r \o T)[i] = (<<a>> \o s)[i]
  OBVIOUS
<1>4. Stands(<<a>> \o s, p, S)
  OBVIOUS
<1> HIDE DEF r, s
<1>5. r \o T = <<a>> \o s
  BY <1>1, <1>2, <1>3, SeqEqual
<1>6. Stands(r \o T, p, S)
  BY <1>4, <1>5
<1> QED
  BY <1>6 DEF r

LEMMA RowFive ==
  ASSUME NEW T \in Seq(Goals), NEW a \in Goals, NEW b \in Goals, NEW c \in Goals, NEW d \in Goals, NEW e \in Goals,
         NEW p, NEW S, Stands(<<a>> \o (<<b>> \o (<<c>> \o (<<d>> \o (<<e>> \o T)))), p, S)
  PROVE  Stands(<<a, b, c, d, e>> \o T, p, S)
<1> DEFINE s == <<b>> \o (<<c>> \o (<<d>> \o (<<e>> \o T)))
           r == <<a, b, c, d, e>>
<1>1. r \o T \in Seq(Goals) /\ <<a>> \o s \in Seq(Goals)
  OBVIOUS
<1>2. Len(r \o T) = Len(<<a>> \o s)
  OBVIOUS
<1>3. \A i \in 1..Len(r \o T) : (r \o T)[i] = (<<a>> \o s)[i]
  OBVIOUS
<1>4. Stands(<<a>> \o s, p, S)
  OBVIOUS
<1> HIDE DEF r, s
<1>5. r \o T = <<a>> \o s
  BY <1>1, <1>2, <1>3, SeqEqual
<1>6. Stands(r \o T, p, S)
  BY <1>4, <1>5
<1> QED
  BY <1>6 DEF r

-----------------------------------------------------------------------------
(* The trees, action by action: tokens, items and declarations.            *)

IndifferentGoals == {g \in Goals : g[1] \in Indifferent}

LEMMA IndifferentAre ==
  /\ \A t \in {"(", ")", "[", "]", "{", "}", "=", ":", "->", "fn", "int", "scalar"} :
       eat(t) \in IndifferentGoals
  /\ \A t \in {"export", "out", "mut", "!"} : <<"optional", t>> \in IndifferentGoals
  /\ Goal("name") \in IndifferentGoals /\ Goal("type") \in IndifferentGoals
  /\ Goal("type_end") \in IndifferentGoals /\ Goal("constant") \in IndifferentGoals
  /\ Goal("negated") \in IndifferentGoals /\ Goal("end_of_constant") \in IndifferentGoals
  /\ Goal("parameters") \in IndifferentGoals /\ Goal("parameter") \in IndifferentGoals
  /\ Goal("parameter?") \in IndifferentGoals
<1>1. \A k \in Indifferent \ {"eat", "optional"} : k \in Kinds
  BY DEF Indifferent, Kinds
<1>2. \A k \in Indifferent \ {"eat", "optional"} : Goal(k) \in IndifferentGoals
  BY <1>1, GoalShapes DEF Goal, IndifferentGoals
<1>3. {"name", "type", "type_end", "constant", "negated", "end_of_constant", "parameters", "parameter",
       "parameter?"} \subseteq Indifferent \ {"eat", "optional"}
  BY DEF Indifferent
<1>4. {"(", ")", "[", "]", "{", "}", "=", ":", "->", "fn", "int", "scalar", "export", "out", "mut", "!"}
        \subseteq AllTokens
  BY DEF AllTokens, Literals, Names
<1>5. \A t \in AllTokens : <<"eat", t>> \in IndifferentGoals /\ <<"optional", t>> \in IndifferentGoals
  BY GoalShapes DEF IndifferentGoals, Indifferent
<1> QED
  BY <1>2, <1>3, <1>4, <1>5 DEF eat

\* Goals that may be put up whatever the ones below count on.
Harmless(new) ==
  \A gs, p, S : Stands(gs, p, S) => Stands(new \o gs, p, S)

LEMMA HarmlessNone == Harmless(<<>>)
<1> SUFFICES ASSUME NEW gs, NEW p, NEW S, Stands(gs, p, S)
             PROVE  Stands(<<>> \o gs, p, S)
  BY DEF Harmless
<1>1. gs \in Seq(Goals)
  BY Standing
<1>2. <<>> \o gs = gs
  BY <1>1
<1> QED
  BY <1>2

LEMMA HarmlessOne ==
  ASSUME NEW g \in IndifferentGoals
  PROVE  Harmless(<<g>>)
BY PutIndifferent DEF Harmless, IndifferentGoals

LEMMA HarmlessTwo ==
  ASSUME NEW a \in IndifferentGoals, NEW b \in IndifferentGoals
  PROVE  Harmless(<<a, b>>)
<1> SUFFICES ASSUME NEW gs, NEW p, NEW S, Stands(gs, p, S)
             PROVE  Stands(<<a, b>> \o gs, p, S)
  BY DEF Harmless
<1>1. gs \in Seq(Goals) /\ a \in Goals /\ b \in Goals
  BY Standing DEF IndifferentGoals
<1>2. Stands(<<b>> \o gs, p, S)
  BY HarmlessOne DEF Harmless
<1>3. Stands(<<a>> \o (<<b>> \o gs), p, S)
  BY <1>2, HarmlessOne DEF Harmless
<1> QED
  BY <1>1, <1>3, RowTwo, Zenon

LEMMA HarmlessThree ==
  ASSUME NEW a \in IndifferentGoals, NEW b \in IndifferentGoals, NEW c \in IndifferentGoals
  PROVE  Harmless(<<a, b, c>>)
<1> SUFFICES ASSUME NEW gs, NEW p, NEW S, Stands(gs, p, S)
             PROVE  Stands(<<a, b, c>> \o gs, p, S)
  BY DEF Harmless
<1>1. gs \in Seq(Goals) /\ a \in Goals /\ b \in Goals /\ c \in Goals
  BY Standing DEF IndifferentGoals
<1>2. Stands(<<c>> \o gs, p, S)
  BY HarmlessOne DEF Harmless
<1>3. Stands(<<b>> \o (<<c>> \o gs), p, S)
  BY <1>2, HarmlessOne DEF Harmless
<1>4. Stands(<<a>> \o (<<b>> \o (<<c>> \o gs)), p, S)
  BY <1>3, HarmlessOne DEF Harmless
<1> QED
  BY <1>1, <1>4, RowThree, Zenon

LEMMA HarmlessFive ==
  ASSUME NEW a \in IndifferentGoals, NEW b \in IndifferentGoals, NEW c \in IndifferentGoals,
         NEW d \in IndifferentGoals, NEW e \in IndifferentGoals
  PROVE  Harmless(<<a, b, c, d, e>>)
<1> SUFFICES ASSUME NEW gs, NEW p, NEW S, Stands(gs, p, S)
             PROVE  Stands(<<a, b, c, d, e>> \o gs, p, S)
  BY DEF Harmless
<1>1. gs \in Seq(Goals) /\ a \in Goals /\ b \in Goals /\ c \in Goals /\ d \in Goals /\ e \in Goals
  BY Standing DEF IndifferentGoals
<1>2. Stands(<<e>> \o gs, p, S)
  BY HarmlessOne DEF Harmless
<1>3. Stands(<<d>> \o (<<e>> \o gs), p, S)
  BY <1>2, HarmlessOne DEF Harmless
<1>4. Stands(<<c>> \o (<<d>> \o (<<e>> \o gs)), p, S)
  BY <1>3, HarmlessOne DEF Harmless
<1>5. Stands(<<b>> \o (<<c>> \o (<<d>> \o (<<e>> \o gs))), p, S)
  BY <1>4, HarmlessOne DEF Harmless
<1>6. Stands(<<a>> \o (<<b>> \o (<<c>> \o (<<d>> \o (<<e>> \o gs)))), p, S)
  BY <1>5, HarmlessOne DEF Harmless
<1> QED
  BY <1>1, <1>6, RowFive, Zenon

\* A refusal drops the trees with the goals.
LEMMA RefuseKeeps == Refuse => TreeInv'
<1>1. <<>> \in Seq(Tree)
  OBVIOUS
<1> QED
  BY <1>1 DEF Refuse, Stop, TreeInv

LEMMA TreesAre == ASSUME TreeInv PROVE trees \in Seq(Tree)
BY DEF TreeInv

\* A goal that counts on no tree of its own gives way to others like it.
LEMMA HarmlessKeeps ==
  ASSUME IInv, TreeInv, NEW k, Parsing(k), k \in Indifferent, NEW new, Become(new), Harmless(new),
         trees' = trees, depth' = depth
  PROVE  TreeInv'
<1>1. PICK p \in Place, S \in Seq(Demand) :
        Stands(Rest, p, S) /\ Lie(trees, S, depth) /\ Charged(p, depth)
  BY FacingIndifferent
<1>2. Stands(new \o Rest, p, S)
  BY <1>1 DEF Harmless
<1> QED
  BY <1>1, <1>2, Seated, TreesAre

LEMMA TokensKeep ==
  ASSUME IInv, TreeInv, Eat \/ Ident \/ Optional
  PROVE  TreeInv'
<1>1. \A k \in {"eat", "name", "optional"} : k \in Indifferent
  BY DEF Indifferent
<1>2. ASSUME NEW k \in {"eat", "name", "optional"}, Parsing(k), NEW n, Step(n, <<>>)
      PROVE  TreeInv'
  BY <1>1, <1>2, HarmlessKeeps, HarmlessNone DEF Step
<1>3. CASE Eat
  BY <1>2, <1>3, RefuseKeeps DEF Eat
<1>4. CASE Ident
  BY <1>2, <1>4, RefuseKeeps DEF Ident
<1>5. CASE Optional
  BY <1>2, <1>5 DEF Optional
<1> QED
  BY <1>3, <1>4, <1>5

LEMMA DeclarationsKeep ==
  ASSUME IInv, TreeInv,
         \/ ConstantValue \/ NegatedValue \/ EndOfConstant \/ Parameters \/ Parameter
         \/ NextParameter \/ parse_type \/ TypeEnd
  PROVE  TreeInv'
<1>1. \A k \in {"constant", "negated", "end_of_constant", "parameters", "parameter", "parameter?",
                "type", "type_end"} : k \in Indifferent
  BY DEF Indifferent
<1>2. ASSUME NEW k \in {"constant", "negated", "end_of_constant", "parameters", "parameter",
                        "parameter?", "type", "type_end"}, Parsing(k),
             NEW new, Harmless(new), Expand(new) \/ \E n \in Nat : Step(n, new)
      PROVE  TreeInv'
  BY <1>1, <1>2, HarmlessKeeps DEF Step, Expand
<1>3. CASE ConstantValue
  <2>1. Call(<<"negated", "end_of_constant">>) = <<Goal("negated"), Goal("end_of_constant")>>
    BY DEF Call
  <2>2. Harmless(<<Goal("negated"), Goal("end_of_constant")>>) /\ Harmless(<<Goal("end_of_constant")>>)
    BY HarmlessOne, HarmlessTwo, IndifferentAre
  <2> QED
    BY <1>2, <1>3, <2>1, <2>2, RefuseKeeps DEF ConstantValue
<1>4. CASE NegatedValue
  BY <1>2, <1>4, RefuseKeeps, HarmlessNone DEF NegatedValue
<1>5. CASE EndOfConstant
  BY <1>2, <1>5, RefuseKeeps, HarmlessNone DEF EndOfConstant
<1>6. CASE Parameters
  <2>1. Harmless(<<Goal("parameter")>>)
    BY HarmlessOne, IndifferentAre
  <2> QED
    BY <1>2, <1>6, <2>1, HarmlessNone DEF Parameters
<1>7. CASE Parameter
  <2>1. Harmless(<< <<"optional", "out">>, Goal("name"), eat(":"), Goal("type"), Goal("parameter?") >>)
    BY HarmlessFive, IndifferentAre
  <2> QED
    BY <1>2, <1>7, <2>1 DEF Parameter
<1>8. CASE NextParameter
  <2>1. Harmless(<<Goal("parameter")>>)
    BY HarmlessOne, IndifferentAre
  <2> QED
    BY <1>2, <1>8, <2>1, HarmlessNone DEF NextParameter
<1>9. CASE parse_type
  <2>1. Harmless(<<Goal("type_end")>>) /\ Harmless(<<eat("scalar"), eat("]"), Goal("type_end")>>)
    BY HarmlessOne, HarmlessThree, IndifferentAre
  <2> QED
    BY <1>2, <1>9, <2>1, RefuseKeeps DEF parse_type
<1>10. CASE TypeEnd
  BY <1>2, <1>10, RefuseKeeps, HarmlessNone DEF TypeEnd
<1> QED
  BY <1>3, <1>4, <1>5, <1>6, <1>7, <1>8, <1>9, <1>10

\* At the items there is no tree, and nothing is charged.
LEMMA ItemsKeep ==
  ASSUME IInv, TreeInv, parse_module
  PROVE  TreeInv'
<1> DEFINE items == Goal("items")
<1>1. Parsing("items") /\ goals # <<>> /\ goals \in Seq(Goals) /\ goals[1][1] = "items"
  BY HeadIs DEF parse_module
<1>2. PICK q, made : Stands(goals, q, made) /\ Lie(trees, made, depth) /\ Charged(q, depth)
  BY <1>1 DEF TreeInv
<1>3. goals = <<items>> /\ q = Top /\ made = <<>>
  BY <1>1, <1>2, AtItems
<1>4. Rest = <<>> /\ trees = <<>> /\ depth = 0 /\ items \in Goals /\ Top \in Place
  <2>1. Len(trees) = 0 /\ trees \in Seq(Tree)
    BY <1>2, <1>3, TreesAre DEF Lie
  <2>2. depth = 0
    BY <1>2, <1>3 DEF Charged, Top
  <2>3. items \in Goals
    BY GoalShapes DEF Goal, Kinds
  <2> QED
    BY <1>3, <2>1, <2>2, <2>3 DEF Rest, Top, Place
<1>5. Stands(<<items>>, Top, <<>>)
  BY ItemsStand
<1> HIDE DEF items
<1>6. ASSUME NEW new, Stands(new \o Rest, Top, <<>>), Become(new), trees' = trees, depth' = depth
      PROVE  TreeInv'
  <2>1. Lie(trees', <<>>, depth') /\ Charged(Top, depth') /\ trees' \in Seq(Tree)
    BY <1>2, <1>3, <1>6, TreesAre
  <2> QED
    BY <1>6, <2>1, Seated
<1>7. Rest \in Seq(Goals) /\ <<items>> \o Rest = <<items>>
  BY <1>4
<1>8. ASSUME NEW a \in IndifferentGoals, NEW b \in IndifferentGoals, NEW c \in IndifferentGoals
      PROVE  Stands(<<a, b, c, items>> \o Rest, Top, <<>>)
  <2>1. a \in Goals /\ b \in Goals /\ c \in Goals
    BY DEF IndifferentGoals
  <2>2. Stands(<<c>> \o (<<items>> \o Rest), Top, <<>>)
    BY <1>5, <1>7, HarmlessOne DEF Harmless
  <2>3. Stands(<<b>> \o (<<c>> \o (<<items>> \o Rest)), Top, <<>>)
    BY <2>2, HarmlessOne DEF Harmless
  <2>4. Stands(<<a>> \o (<<b>> \o (<<c>> \o (<<items>> \o Rest))), Top, <<>>)
    BY <2>3, HarmlessOne DEF Harmless
  <2>5. items \in Goals
    BY <1>4
  <2> QED
    BY <1>7, <2>1, <2>4, <2>5, RowFour, Zenon
<1>9. ASSUME look = "error", NEW n, Step(n, <<Goal("name"), eat("="), eat("int"), Goal("items")>>)
      PROVE  TreeInv'
  BY <1>6, <1>8, <1>9, IndifferentAre DEF Step, items
<1>10. ASSUME NEW n, Step(n, <<Goal("name"), eat("="), Goal("constant"), Goal("items")>>)
       PROVE  TreeInv'
  BY <1>6, <1>8, <1>10, IndifferentAre DEF Step, items
<1>11. ASSUME Expand(Call(<<"function", "check", "items">>))
       PROVE  TreeInv'
  <2> DEFINE function == Goal("function")
             check == Goal("check")
  <2>1. function \in Goals /\ check \in Goals /\ function[1] = "function" /\ function[1] \in Giving
    BY GoalShapes DEF Goal, Kinds, Giving
  <2>2. Call(<<"function", "check", "items">>) = <<function, check, items>>
    BY DEF Call, items
  <2>3. Stands(<<check>> \o <<items>>, Top, <<BodyTree>> \o <<>>)
    BY <1>4, <1>5, PutCheck DEF Top
  <2>4. BodyTree \in Demand /\ Gives(function, BodyTree, Top) /\ <<>> \in Seq(Demand)
    <3>1. Cap \in Int /\ Twice(0 + 1) + 2 = Cap
      BY ConstantsAssumption DEF Cap, Twice
    <3>2. BodyTree \in Demand
      BY <3>1, LevelsAre DEF BodyTree, Demand
    <3>3. FitsBlock(BodyTree, Top) /\ Top.home = 0
      BY <3>1 DEF FitsBlock, BodyTree, Top
    <3> HIDE DEF function
    <3>4. Gives(function, BodyTree, Top)
      BY <2>1, <3>3 DEF Gives
    <3> QED
      BY <3>2, <3>4
  <2> HIDE DEF function, check
  <2>5. Stands(<<function>> \o (<<check>> \o (<<items>> \o Rest)), Top, <<>>)
    BY <1>7, <2>1, <2>3, <2>4, PutGiving
  <2>6. items \in Goals
    BY <1>4
  <2>7. Stands(<<function, check, items>> \o Rest, Top, <<>>)
    BY <1>7, <2>1, <2>5, <2>6, RowThree, Zenon
  <2> QED
    BY <1>6, <1>11, <2>2, <2>7 DEF Expand
<1>12. ASSUME NEW answer, Stop(answer)
       PROVE  TreeInv'
  <2>1. <<>> \in Seq(Tree)
    OBVIOUS
  <2> QED
    BY <1>12, <2>1 DEF Stop, TreeInv
<1> QED
  BY <1>9, <1>10, <1>11, <1>12 DEF parse_module

LEMMA FunctionKeeps ==
  ASSUME IInv, TreeInv, parse_function
  PROVE  TreeInv'
<1> DEFINE before == << <<"optional", "export">>, eat("fn"), Goal("name"), eat("("), Goal("parameters") >>
           after == << eat(")"), eat("->"), Goal("type"), <<"optional", "!">>, Goal("block") >>
<1>1. PICK p \in Place, x \in Demand, R \in Seq(Demand) :
           /\ Stands(Rest, p, <<x>> \o R) /\ Gives(Goal("function"), x, p)
           /\ Lie(trees, R, depth) /\ Charged(p, depth)
  BY FacingGiving DEF parse_function, Giving
<1>2. Goal("block") \in Goals /\ Goal("block")[1] = "block" /\ Goal("block")[1] \in Giving
  BY GoalShapes DEF Goal, Kinds, Giving
<1>3. Gives(Goal("block"), x, p)
  BY <1>1 DEF Gives, Goal
<1>4. Stands(<<Goal("block")>> \o Rest, p, R)
  BY <1>1, <1>2, <1>3, PutGiving
<1>5. Rest \in Seq(Goals) /\ eat(")") \in Goals /\ eat("->") \in Goals /\ Goal("type") \in Goals
      /\ <<"optional", "!">> \in Goals
  BY <1>1, Standing, IndifferentAre DEF IndifferentGoals
<1>6. Stands(after \o Rest, p, R)
  <2>1. Stands(<< <<"optional", "!">> >> \o (<<Goal("block")>> \o Rest), p, R)
    BY <1>4, HarmlessOne, IndifferentAre DEF Harmless
  <2>2. Stands(<<Goal("type")>> \o (<< <<"optional", "!">> >> \o (<<Goal("block")>> \o Rest)), p, R)
    BY <2>1, HarmlessOne, IndifferentAre DEF Harmless
  <2>3. Stands(<<eat("->")>> \o (<<Goal("type")>> \o (<< <<"optional", "!">> >> \o
                  (<<Goal("block")>> \o Rest))), p, R)
    BY <2>2, HarmlessOne, IndifferentAre DEF Harmless
  <2>4. Stands(<<eat(")")>> \o (<<eat("->")>> \o (<<Goal("type")>> \o (<< <<"optional", "!">> >> \o
                  (<<Goal("block")>> \o Rest)))), p, R)
    BY <2>3, HarmlessOne, IndifferentAre DEF Harmless
  <2> QED
    BY <1>2, <1>5, <2>4, RowFive, Zenon
<1>7. Stands(before \o (after \o Rest), p, R)
  <2>1. Harmless(before)
    BY HarmlessFive, IndifferentAre
  <2> QED
    BY <1>6, <2>1 DEF Harmless
<1>8. before \o (after \o Rest) = (before \o after) \o Rest
  <2>1. Rest \in Seq(Goals)
    BY <1>1, Standing
  <2>2. before \in Seq(Goals) /\ after \in Seq(Goals)
    <3>1. /\ <<"optional", "export">> \in Goals /\ eat("fn") \in Goals /\ Goal("name") \in Goals
          /\ eat("(") \in Goals /\ Goal("parameters") \in Goals /\ eat(")") \in Goals /\ eat("->") \in Goals
          /\ Goal("type") \in Goals /\ <<"optional", "!">> \in Goals /\ Goal("block") \in Goals
      BY <1>2, IndifferentAre DEF IndifferentGoals
    <3> QED
      BY <3>1
  <2> HIDE DEF before, after
  <2> QED
    BY <2>1, <2>2, ConcatAssociative
<1>9. Become(before \o after) /\ trees' = trees /\ depth' = depth
  <2>1. before \o after = << <<"optional", "export">>, eat("fn"), Goal("name"), eat("("), Goal("parameters"),
                             eat(")"), eat("->"), Goal("type"), <<"optional", "!">>, Goal("block") >>
    <3> DEFINE all == << <<"optional", "export">>, eat("fn"), Goal("name"), eat("("), Goal("parameters"),
                         eat(")"), eat("->"), Goal("type"), <<"optional", "!">>, Goal("block") >>
    <3>1. before \in Seq(Goals) /\ after \in Seq(Goals) /\ all \in Seq(Goals)
      <4>1. /\ <<"optional", "export">> \in Goals /\ eat("fn") \in Goals /\ Goal("name") \in Goals
            /\ eat("(") \in Goals /\ Goal("parameters") \in Goals
        BY IndifferentAre DEF IndifferentGoals
      <4> QED
        BY <1>2, <1>5, <4>1
    <3>2. /\ Len(before) = 5 /\ Len(after) = 5 /\ Len(all) = 10
          /\ \A i \in 1..5 : all[i] = before[i]
          /\ \A i \in 1..5 : all[i + 5] = after[i]
      OBVIOUS
    <3> HIDE DEF before, after, all
    <3>3. /\ before \o after \in Seq(Goals) /\ Len(before \o after) = 10
          /\ \A i \in 1..10 : (before \o after)[i] = IF i <= 5 THEN before[i] ELSE after[i - 5]
      <4>1. /\ before \o after \in Seq(Goals) /\ Len(before \o after) = Len(before) + Len(after)
            /\ \A i \in 1..(Len(before) + Len(after)) :
                 (before \o after)[i] = IF i <= Len(before) THEN before[i] ELSE after[i - Len(before)]
        BY <3>1, ConcatProperties
      <4> QED
        BY <3>2, <4>1
    <3>5. ASSUME NEW i \in 1..10
          PROVE  (before \o after)[i] = all[i]
      <4>1. i <= 5 => i \in 1..5
        OBVIOUS
      <4>2. ~(i <= 5) => i - 5 \in 1..5 /\ (i - 5) + 5 = i
        OBVIOUS
      <4> QED
        BY <3>2, <3>3, <4>1, <4>2
    <3>4. before \o after = all
      BY <3>1, <3>2, <3>3, <3>5, SeqEqual
    <3> QED
      BY <3>4 DEF all
  <2> QED
    BY <2>1 DEF parse_function, Expand
<1> HIDE DEF before, after
<1> QED
  BY <1>1, <1>7, <1>8, <1>9, Seated, TreesAre

-----------------------------------------------------------------------------
(* The trees, action by action: blocks and statements.                     *)

LEMMA NamedGoals ==
  /\ \A k \in Giving \cup Looping \cup {"casts", "group", "join"} : Goal(k) \in Goals /\ Goal(k)[1] = k
  /\ \A n \in 1..2 : Root(n) \in Goals /\ Root(n)[1] = "node" /\ Root(n)[2] = n /\ Root(n)[3] = PrimaryLevel
<1>1. Giving \cup Looping \cup {"casts", "group", "join"} \subseteq Kinds
  BY DEF Giving, Looping, Kinds
<1>2. \A n \in 1..2 : n \in Nat
  OBVIOUS
<1> QED
  BY <1>1, <1>2, GoalShapes, LevelsAre DEF Goal, Root, Node

LEMMA PutName ==
  ASSUME NEW k \in Giving, NEW gs, NEW p, NEW x \in Demand, NEW R \in Seq(Demand),
         Stands(gs, p, <<x>> \o R), Gives(Goal(k), x, p)
  PROVE  Stands(<<Goal(k)>> \o gs, p, R)
BY NamedGoals, PutGiving

LEMMA PutLoop ==
  ASSUME NEW k \in Looping, NEW gs, NEW p, NEW x \in Demand, NEW R \in Seq(Demand),
         Stands(gs, p, <<x>> \o R), Gives(Goal(k), x, p)
  PROVE  Stands(<<Goal(k)>> \o gs, p, <<x>> \o R)
BY NamedGoals, PutLooping

LEMMA PutToken ==
  ASSUME NEW g \in IndifferentGoals, NEW gs, NEW p, NEW S, Stands(gs, p, S)
  PROVE  Stands(<<g>> \o gs, p, S)
BY HarmlessOne DEF Harmless

LEMMA PutRootOne ==
  ASSUME NEW gs, NEW p, NEW x \in Demand, NEW R \in Seq(Demand), Stands(gs, p, <<x>> \o R)
  PROVE  Stands(<<Root(1)>> \o gs, p, <<Child(x)>> \o R)
<1> DEFINE g == Root(1)
<1>1. g \in Goals /\ g[1] = "node" /\ g[2] = 1 /\ g[3] = PrimaryLevel
  BY NamedGoals
<1> HIDE DEF g
<1>2. Gives(g, x, p) /\ Taken(g, x) = <<Child(x)>>
  BY <1>1 DEF Gives, Taken, Giving
<1>3. g[1] \in Giving \cup Takers
  BY <1>1 DEF Takers
<1>4. Stands(<<g>> \o gs, p, Taken(g, x) \o R)
  BY <1>1, <1>2, <1>3, PutTaker
<1> QED
  BY <1>2, <1>4 DEF g

LEMMA PutRootTwo ==
  ASSUME NEW gs, NEW p, NEW x \in Demand, NEW R \in Seq(Demand), Stands(gs, p, <<x>> \o R)
  PROVE  Stands(<<Root(2)>> \o gs, p, <<Child(x)>> \o (<<Child(x)>> \o R))
<1> DEFINE g == Root(2)
<1>1. g \in Goals /\ g[1] = "node" /\ g[2] = 2 /\ g[3] = PrimaryLevel
  BY NamedGoals
<1> HIDE DEF g
<1>2. Gives(g, x, p) /\ Taken(g, x) = <<Child(x), Child(x)>>
  BY <1>1 DEF Gives, Taken, Giving
<1>3. g[1] \in Giving \cup Takers
  BY <1>1 DEF Takers
<1>4. Stands(<<g>> \o gs, p, Taken(g, x) \o R)
  BY <1>1, <1>2, <1>3, PutTaker
<1>5. <<Child(x), Child(x)>> \o R = <<Child(x)>> \o (<<Child(x)>> \o R)
  BY DemandsMade, RowOfTwo
<1> QED
  BY <1>2, <1>4, <1>5 DEF g

LEMMA PutJoin ==
  ASSUME NEW gs, NEW p, NEW x \in Demand, NEW R \in Seq(Demand), Stands(gs, p, <<x>> \o R)
  PROVE  Stands(<<Goal("join")>> \o gs, p, <<AtLevel(x, 1)>> \o (<<AtLevel(x, 1)>> \o R))
<1> DEFINE g == Goal("join")
           y == AtLevel(x, 1)
<1>1. g \in Goals /\ g[1] = "join"
  BY NamedGoals
<1>2. y \in Demand
  BY DemandsMade, LevelsAre
<1> HIDE DEF g
<1>3. Gives(g, x, p) /\ Taken(g, x) = <<y, y>>
  BY <1>1 DEF Gives, Taken, Giving
<1>4. g[1] \in Giving \cup Takers
  BY <1>1 DEF Takers
<1>5. Stands(<<g>> \o gs, p, Taken(g, x) \o R)
  BY <1>1, <1>3, <1>4, PutTaker
<1>6. <<y, y>> \o R = <<y>> \o (<<y>> \o R)
  BY <1>2, RowOfTwo
<1> QED
  BY <1>3, <1>5, <1>6 DEF g

\* The parts of a statement, and of a node of an expression, fit where it fits.
LEMMA BodyFits ==
  ASSUME NEW p \in Place, NEW x \in Demand, FitsBody(x, p), p.home <= MAX_NESTING
  PROVE  /\ Child(x) \in Demand /\ Child(x).level = 1 /\ ~p.in
         /\ FitsExpr(Child(x), p) /\ FitsBlock(Child(x), p)
<1>1. p.home \in 0..MAX_NESTING /\ x.room \in Int /\ MAX_NESTING \in Nat
  BY ConstantsAssumption DEF Place, Demand
<1>2. p.home < MAX_NESTING => Twice(p.home) >= Twice(p.home + 1) + 2
  BY <1>1, TwiceSteps DEF Twice
<1>3. Twice(p.home) \in Int /\ Twice(p.home + 1) \in Int
  BY <1>1 DEF Twice
<1>4. Child(x).room = x.room - 2 /\ Child(x).own = x.own /\ Child(x).level = 1
  BY DEF Child
<1> QED
  BY <1>1, <1>2, <1>3, <1>4, DemandsMade DEF FitsBody, FitsExpr, FitsBlock

LEMMA NodeFits ==
  ASSUME NEW p \in Place, NEW x \in Demand, FitsNode(x, p)
  PROVE  /\ Child(x) \in Demand /\ Child(x).level = 1 /\ FitsExpr(Child(x), p)
         /\ FitsExpr(AtLevel(x, 1), p) /\ AtLevel(x, 1).level = 1
         /\ \A l \in 1..PrimaryLevel :
              AtLevel(x, l) \in Demand /\ AtLevel(x, l).level = l /\ FitsNode(AtLevel(x, l), p)
<1>1. x.room \in Int /\ NodeRoom(p) \in Int
  BY ConstantsAssumption DEF Demand, NodeRoom, Twice, Place
<1>2. Child(x).room = x.room - 2 /\ Child(x).own = x.own /\ Child(x).level = 1
  BY DEF Child
<1>3. \A l : AtLevel(x, l).room = x.room /\ AtLevel(x, l).own = x.own /\ AtLevel(x, l).level = l
  BY DEF AtLevel
<1>4. Child(x) \in Demand /\ \A l \in 1..PrimaryLevel : AtLevel(x, l) \in Demand
  BY DemandsMade
<1>5. p.in /\ x.own /\ x.room >= NodeRoom(p)
  BY DEF FitsNode
<1>6. FitsExpr(Child(x), p) /\ FitsExpr(AtLevel(x, 1), p)
  <2>1. \A y : y.own = x.own /\ y.room >= NodeRoom(p) - 2 => FitsExpr(y, p)
    BY <1>5 DEF FitsExpr
  <2>2. x.room - 2 >= NodeRoom(p) - 2 /\ x.room >= NodeRoom(p) - 2
    BY <1>1, <1>5
  <2>3. FitsExpr(Child(x), p)
    BY <1>2, <2>1, <2>2
  <2>4. FitsExpr(AtLevel(x, 1), p)
    BY <1>3, <2>1, <2>2
  <2> QED
    BY <2>3, <2>4
<1>7. \A l : FitsNode(AtLevel(x, l), p)
  BY <1>3, <1>5 DEF FitsNode
<1> QED
  BY <1>2, <1>3, <1>4, <1>6, <1>7

\* Between statements the charge is the number of the blocks around, which is within the limit.
LEMMA HomeBounded ==
  ASSUME IInv, NEW p \in Place, ~p.in, Charged(p, depth)
  PROVE  p.home = depth /\ p.home <= MAX_NESTING
BY ConstantsAssumption DEF IInv, Paid, Charged

\* A goal gives the tree itself.
LEMMA Given ==
  ASSUME NEW p, NEW x \in Demand, NEW R \in Seq(Demand), NEW t \in Tree, NEW n,
         Stands(Rest, p, <<x>> \o R), Meets(t, x, depth'), trees \in Seq(Tree), Lie(trees, R, depth'),
         Charged(p, depth'), trees' = <<t>> \o trees, Become(<<>>)
  PROVE  TreeInv'
<1>1. <<t>> \o trees \in Seq(Tree) /\ Lie(<<t>> \o trees, <<x>> \o R, depth')
  BY LieCons
<1>2. Stands(<<>> \o Rest, p, <<x>> \o R)
  BY HarmlessNone DEF Harmless
<1> QED
  BY <1>1, <1>2, Seated

LEMMA LeavesAre == Leaf \in Tree /\ None \in Tree
BY LevelsAre DEF Leaf, None, Tree

LEMMA ChargeRange == IInv => depth \in 0..MAX_NESTING /\ depth \in Int /\ MAX_NESTING \in Nat
BY ConstantsAssumption DEF IInv, Paid

LEMMA BlockKeeps ==
  ASSUME IInv, TreeInv, parse_block
  PROVE  TreeInv'
<1> DEFINE new == <<eat("{"), Goal("statements"), eat("}"), Goal("leave_block")>>
<1>1. PICK p \in Place, x \in Demand, R \in Seq(Demand) :
           /\ Stands(Rest, p, <<x>> \o R) /\ Gives(Goal("block"), x, p)
           /\ Lie(trees, R, depth) /\ Charged(p, depth)
  BY FacingGiving DEF parse_block, Giving
<1>2. FitsBlock(x, p)
  BY <1>1 DEF Gives, Goal
<1>3. ~p.in /\ p.home = depth /\ p.home \in Nat
  BY <1>1, <1>2, HomeBounded DEF FitsBlock, Place
<1>4. CASE depth >= MAX_NESTING
  BY <1>4, RefuseKeeps DEF parse_block, enter
<1>5. CASE depth < MAX_NESTING
  <2>1. Become(new) /\ depth' = depth + 1 /\ trees' = <<None>> \o trees
    BY <1>5, ChargeIs DEF parse_block, enter, Push
  <2> DEFINE q == [p EXCEPT !.home = @ + 1]
  <2>2. q \in Place /\ q.home = depth + 1 /\ ~q.in /\ Charged(q, depth')
    <3>1. q = [in |-> p.in, home |-> p.home + 1, pending |-> p.pending]
      BY DEF Place
    <3>2. p.home + 1 = depth + 1 /\ p.home + 1 \in Nat /\ p.pending \in Nat /\ p.in \in BOOLEAN
      BY <1>3 DEF Place
    <3> HIDE DEF q
    <3>3. q \in Place /\ q.home = depth + 1 /\ q.in = p.in
      BY <3>1, <3>2 DEF Place
    <3> QED
      BY <1>3, <2>1, <3>3 DEF Charged
  <2>3. Stands(<<Goal("leave_block")>> \o Rest, q, <<x>> \o R)
    BY <1>1, <1>3, PutLeaveBlock
  <2> HIDE DEF q, new
  <2>4. FitsBody(x, q)
    BY <1>2, <1>3, <1>5, <2>2, ChargeRange DEF FitsBlock, FitsBody
  <2>5. Stands(<<eat("}")>> \o (<<Goal("leave_block")>> \o Rest), q, <<x>> \o R)
    BY <2>3, PutToken, IndifferentAre
  <2>6. Stands(<<Goal("statements")>> \o (<<eat("}")>> \o (<<Goal("leave_block")>> \o Rest)), q, <<x>> \o R)
    <3>1. Gives(Goal("statements"), x, q)
      BY <2>4 DEF Gives, Goal
    <3>2. "statements" \in Looping
      BY DEF Looping
    <3> QED
      BY <2>5, <3>1, <3>2, PutLoop
  <2>7. Stands(<<eat("{")>> \o (<<Goal("statements")>> \o (<<eat("}")>> \o (<<Goal("leave_block")>> \o Rest))),
               q, <<x>> \o R)
    BY <2>6, PutToken, IndifferentAre
  <2>8. Stands(new \o Rest, q, <<x>> \o R)
    <3>1. /\ eat("{") \in Goals /\ eat("}") \in Goals /\ Goal("statements") \in Goals
          /\ Goal("leave_block") \in Goals /\ Rest \in Seq(Goals)
      BY <1>1, Standing, IndifferentAre, GoalShapes, NamedGoals DEF IndifferentGoals, Looping, Kinds, Goal
    <3> QED
      BY <2>7, <3>1, RowFour, Zenon DEF new
  <2>9. Meets(None, x, depth') /\ Lie(trees, R, depth')
    <3>1. depth' \in 0..MAX_NESTING /\ depth \in Int /\ depth' \in Int /\ depth <= depth'
      BY <1>5, <2>1, ChargeRange
    <3>2. Meets(None, x, depth')
      BY <2>2, <2>4, <3>1, Fitting
    <3>3. Lie(trees, R, depth')
      BY <1>1, <3>1, LieGrows, TreesAre
    <3> QED
      BY <3>2, <3>3
  <2>10. <<None>> \o trees \in Seq(Tree) /\ Lie(<<None>> \o trees, <<x>> \o R, depth')
    BY <2>9, LieCons, LeavesAre, TreesAre
  <2> QED
    BY <2>1, <2>2, <2>8, <2>10, Seated
<1> QED
  BY <1>4, <1>5, ChargeIs

\* The charge of a block is given back: the trees that are counted on then are whole statements.
LEMMA LeaveBlockKeeps ==
  ASSUME IInv, TreeInv, LeaveBlock
  PROVE  TreeInv'
<1> DEFINE g == Head(goals)
<1>1. /\ g \in Goals /\ g[1] = "leave_block" /\ depth \in 0..MAX_NESTING
      /\ \E p \in Place, S \in Seq(Demand) :
           /\ Stands(Rest, p, S) /\ Admits(g, p, S)
           /\ Lie(trees, ShapeBefore(g, S), depth) /\ Charged(PlaceBefore(g, p), depth)
  BY Facing DEF LeaveBlock
<1>2. PICK p \in Place, S \in Seq(Demand) :
           /\ Stands(Rest, p, S) /\ Admits(g, p, S)
           /\ Lie(trees, ShapeBefore(g, S), depth) /\ Charged(PlaceBefore(g, p), depth)
  BY <1>1
<1> HIDE DEF g
<1>3. ~p.in /\ PlaceBefore(g, p) = [p EXCEPT !.home = @ + 1] /\ ShapeBefore(g, S) = S
  BY <1>1, <1>2 DEF Admits, Indifferent, PlaceBefore, ShapeBefore, Looping
<1>4. depth = p.home + 1 /\ p.home \in Nat
  BY <1>2, <1>3 DEF Charged, Place
<1>5. depth' = depth - 1 /\ Become(<<>>) /\ trees' = trees
  BY DEF LeaveBlock
<1>6. Charged(p, depth')
  BY <1>3, <1>4, <1>5 DEF Charged
<1>7. Lie(trees, S, depth')
  BY <1>2, <1>3, OutsideSettled, LieSettled, TreesAre
<1>8. Stands(<<>> \o Rest, p, S)
  BY <1>2, HarmlessNone DEF Harmless
<1> QED
  BY <1>5, <1>6, <1>7, <1>8, Seated, TreesAre

LEMMA StatementsKeep ==
  ASSUME IInv, TreeInv, Statements
  PROVE  TreeInv'
<1>1. PICK p \in Place, x \in Demand, R \in Seq(Demand) :
           /\ Stands(Rest, p, <<x>> \o R) /\ Gives(Goal("statements"), x, p)
           /\ Lie(trees, <<x>> \o R, depth) /\ Charged(p, depth)
  BY FacingLooping DEF Statements, Looping
<1>2. CASE Expand(<<>>)
  <2>1. Stands(<<>> \o Rest, p, <<x>> \o R)
    BY <1>1, HarmlessNone DEF Harmless
  <2> QED
    BY <1>1, <1>2, <2>1, Seated, TreesAre DEF Expand
<1>3. CASE Expand(Call(<<"statement", "join", "statements">>))
  <2> DEFINE y == AtLevel(x, 1)
             s == Goal("statement")
             j == Goal("join")
             l == Goal("statements")
  <2>1. FitsBody(x, p)
    BY <1>1 DEF Gives, Goal
  <2>2. y \in Demand /\ y.level = 1 /\ y.own = x.own /\ y.room = x.room
    <3>1. y \in Demand
      BY DemandsMade, LevelsAre
    <3>2. y.level = 1 /\ y.own = x.own /\ y.room = x.room
      BY DEF AtLevel
    <3> QED
      BY <3>1, <3>2
  <2>3. Stands(<<l>> \o Rest, p, <<x>> \o R)
    BY <1>1, PutLoop DEF Looping
  <2>4. Stands(<<j>> \o (<<l>> \o Rest), p, <<y>> \o (<<y>> \o R))
    BY <2>3, PutJoin
  <2>5. Gives(s, y, p)
    <3>1. FitsBody(y, p) /\ y.level = 1
      BY <2>1, <2>2 DEF FitsBody
    <3> HIDE DEF y
    <3> QED
      BY <3>1 DEF Gives, Goal
  <2>6. Stands(<<s>> \o (<<j>> \o (<<l>> \o Rest)), p, <<y>> \o R)
    <3>1. <<y>> \o R \in Seq(Demand) /\ "statement" \in Giving
      BY <2>2, Cons DEF Giving
    <3> HIDE DEF y, j, l
    <3> QED
      BY <2>2, <2>4, <2>5, <3>1, PutName
  <2>7. Stands(<<s, j, l>> \o Rest, p, <<y>> \o R)
    <3>1. s \in Goals /\ j \in Goals /\ l \in Goals /\ Rest \in Seq(Goals)
      BY <1>1, Standing, NamedGoals DEF Giving, Looping
    <3> HIDE DEF y, s, j, l
    <3> QED
      BY <2>6, <3>1, RowThree, Zenon
  <2>8. Lie(trees, <<y>> \o R, depth)
    <3>1. y.level <= x.level /\ y.room <= x.room
      BY <2>2, LevelsAre DEF Demand
    <3> HIDE DEF y
    <3> QED
      BY <1>1, <2>2, <3>1, LieEasier, TreesAre, ChargeRange
  <2>9. Call(<<"statement", "join", "statements">>) = <<s, j, l>>
    BY DEF Call
  <2> HIDE DEF s, j, l, y
  <2> QED
    BY <1>1, <1>3, <2>7, <2>8, <2>9, Seated, TreesAre DEF Expand
<1> QED
  BY <1>2, <1>3, RefuseKeeps DEF Statements

LEMMA StatementKeeps ==
  ASSUME IInv, TreeInv, parse_stmt
  PROVE  TreeInv'
<1> DEFINE expr == Goal("expr")
           value == Goal("value")
           block == Goal("block")
           name == Goal("name")
           leaf == Goal("leaf")
<1>1. PICK p \in Place, x \in Demand, R \in Seq(Demand) :
           /\ Stands(Rest, p, <<x>> \o R) /\ Gives(Goal("statement"), x, p)
           /\ Lie(trees, R, depth) /\ Charged(p, depth)
  BY FacingGiving DEF parse_stmt, Giving
<1>2. FitsBody(x, p) /\ x.level = 1 /\ ~p.in
  BY <1>1 DEF Gives, Goal, FitsBody
<1> DEFINE y == Child(x)
<1>3. y \in Demand /\ y.level = 1 /\ FitsExpr(y, p) /\ FitsBlock(y, p)
  BY <1>1, <1>2, HomeBounded, BodyFits
<1> HIDE DEF y
<1>4. /\ Gives(expr, y, p) /\ Gives(value, y, p) /\ Gives(block, y, p) /\ Gives(leaf, x, p)
  BY <1>2, <1>3 DEF Gives, Goal
<1>5. /\ expr \in Goals /\ value \in Goals /\ block \in Goals /\ leaf \in Goals /\ name \in Goals
      /\ Root(1) \in Goals /\ Root(2) \in Goals /\ Rest \in Seq(Goals)
      /\ eat("]") \in Goals /\ eat("=") \in Goals /\ <<"optional", "mut">> \in Goals
  <2>1. expr \in Goals /\ value \in Goals /\ block \in Goals /\ leaf \in Goals
    BY NamedGoals DEF Giving
  <2>2. Root(1) \in Goals /\ Root(2) \in Goals
    BY NamedGoals
  <2>3. name \in Goals /\ eat("]") \in Goals /\ eat("=") \in Goals /\ <<"optional", "mut">> \in Goals
    BY IndifferentAre DEF IndifferentGoals
  <2> QED
    BY <1>1, <2>1, <2>2, <2>3, Standing
<1>6. /\ name \in IndifferentGoals /\ eat("]") \in IndifferentGoals /\ eat("=") \in IndifferentGoals
      /\ <<"optional", "mut">> \in IndifferentGoals
  BY IndifferentAre
<1>7. ASSUME NEW new, Stands(new \o Rest, p, R), NEW n, Step(n, new)
      PROVE  TreeInv'
  BY <1>1, <1>7, Seated, TreesAre DEF Step
<1>8. /\ Stands(<<Root(1)>> \o Rest, p, <<y>> \o R)
      /\ Stands(<<Root(2)>> \o Rest, p, <<y>> \o (<<y>> \o R))
      /\ <<y>> \o R \in Seq(Demand)
  BY <1>1, <1>3, PutRootOne, PutRootTwo, Cons DEF y
<1>9. \A gs : Stands(gs, p, <<y>> \o R) => /\ Stands(<<expr>> \o gs, p, R) /\ Stands(<<value>> \o gs, p, R)
                                           /\ Stands(<<block>> \o gs, p, R)
  <2>1. "expr" \in Giving /\ "value" \in Giving /\ "block" \in Giving
    BY DEF Giving
  <2> QED
    BY <1>3, <1>4, <2>1, PutName
<1>10. \A gs : Stands(gs, p, <<y>> \o (<<y>> \o R)) => /\ Stands(<<expr>> \o gs, p, <<y>> \o R)
                                                       /\ Stands(<<block>> \o gs, p, <<y>> \o R)
  <2>1. "expr" \in Giving /\ "block" \in Giving
    BY DEF Giving
  <2> QED
    BY <1>3, <1>4, <1>8, <2>1, PutName
<1>11. \A g \in IndifferentGoals : \A gs, S : Stands(gs, p, S) => Stands(<<g>> \o gs, p, S)
  BY PutToken
<1>12. Stands(<<leaf>> \o Rest, p, R)
  <2>1. "leaf" \in Giving
    BY DEF Giving
  <2> QED
    BY <1>1, <1>4, <2>1, PutName
<1> HIDE DEF expr, value, block, name, leaf
<1>13. Stands(<<expr, block, Root(2)>> \o Rest, p, R)
  <2>1. Stands(<<expr>> \o (<<block>> \o (<<Root(2)>> \o Rest)), p, R)
    BY <1>8, <1>9, <1>10
  <2> QED
    BY <1>5, <2>1, RowThree, Zenon
<1>14. Stands(<<value, Root(1)>> \o Rest, p, R)
  <2>1. Stands(<<value>> \o (<<Root(1)>> \o Rest), p, R)
    BY <1>8, <1>9
  <2> QED
    BY <1>5, <2>1, RowTwo, Zenon
<1>15. Stands(<<name, leaf>> \o Rest, p, R)
  <2>1. Stands(<<name>> \o (<<leaf>> \o Rest), p, R)
    BY <1>6, <1>11, <1>12
  <2> QED
    BY <1>5, <2>1, RowTwo, Zenon
<1>16. Stands(<< <<"optional", "mut">>, name, eat("="), value, Root(1) >> \o Rest, p, R)
  <2>1. Stands(<<value>> \o (<<Root(1)>> \o Rest), p, R)
    BY <1>8, <1>9
  <2>2. Stands(<< <<"optional", "mut">> >> \o (<<name>> \o (<<eat("=")>> \o (<<value>> \o (<<Root(1)>> \o Rest)))), p, R)
    BY <1>6, <1>11, <2>1
  <2> QED
    BY <1>5, <2>2, RowFive, Zenon
<1>17. Stands(<<expr, eat("]"), eat("="), expr, Root(2)>> \o Rest, p, R)
  <2>1. Stands(<<expr>> \o (<<Root(2)>> \o Rest), p, <<y>> \o R)
    BY <1>8, <1>10
  <2>2. Stands(<<eat("]")>> \o (<<eat("=")>> \o (<<expr>> \o (<<Root(2)>> \o Rest))), p, <<y>> \o R)
    BY <1>6, <1>11, <2>1
  <2>3. Stands(<<expr>> \o (<<eat("]")>> \o (<<eat("=")>> \o (<<expr>> \o (<<Root(2)>> \o Rest)))), p, R)
    BY <1>9, <2>2
  <2> QED
    BY <1>5, <2>3, RowFive, Zenon
<1>18. Stands(<<expr, Root(1)>> \o Rest, p, R)
  <2>1. Stands(<<expr>> \o (<<Root(1)>> \o Rest), p, R)
    BY <1>8, <1>9
  <2> QED
    BY <1>5, <2>1, RowTwo, Zenon
<1> QED
  BY <1>7, <1>13, <1>14, <1>15, <1>16, <1>17, <1>18, RefuseKeeps
  DEF parse_stmt, expr, value, block, name, leaf

LEMMA ValuesKeep ==
  ASSUME IInv, TreeInv, FailCode \/ Value \/ parse_try_call
  PROVE  TreeInv'
<1>1. CASE FailCode
  <2>1. PICK p \in Place, x \in Demand, R \in Seq(Demand) :
             /\ Stands(Rest, p, <<x>> \o R) /\ Gives(Goal("leaf"), x, p)
             /\ Lie(trees, R, depth) /\ Charged(p, depth)
    BY <1>1, FacingGiving DEF FailCode, Giving
  <2>2. FitsBody(x, p)
    BY <2>1 DEF Gives, Goal
  <2>3. Meets(Leaf, x, depth)
    BY <2>1, <2>2, Fitting, ChargeRange
  <2>4. trees' = <<Leaf>> \o trees /\ Become(<<>>) /\ depth' = depth
    BY <1>1 DEF FailCode, Push
  <2> QED
    BY <2>1, <2>3, <2>4, Given, LeavesAre, TreesAre
<1>2. CASE Value
  <2>1. PICK p \in Place, x \in Demand, R \in Seq(Demand) :
             /\ Stands(Rest, p, <<x>> \o R) /\ Gives(Goal("value"), x, p)
             /\ Lie(trees, R, depth) /\ Charged(p, depth)
    BY <1>2, FacingGiving DEF Value, Giving
  <2>2. FitsExpr(x, p) /\ x.level = 1 /\ ~p.in
    BY <2>1 DEF Gives, Goal
  <2>3. Gives(Goal("try"), x, p) /\ Gives(Goal("expr"), x, p)
    BY <2>2 DEF Gives, Goal
  <2>4. "try" \in Giving /\ "expr" \in Giving
    BY DEF Giving
  <2>5. Stands(<<Goal("try")>> \o Rest, p, R) /\ Stands(<<Goal("expr")>> \o Rest, p, R)
    BY <2>1, <2>3, <2>4, PutName
  <2>6. ASSUME NEW new, Stands(new \o Rest, p, R), Expand(new)
        PROVE  TreeInv'
    BY <2>1, <2>6, Seated, TreesAre DEF Expand
  <2> QED
    BY <1>2, <2>5, <2>6 DEF Value
<1>3. CASE parse_try_call
  <2> DEFINE new == <<Goal("name"), eat("("), Goal("arguments"), eat(")")>>
  <2>1. PICK p \in Place, x \in Demand, R \in Seq(Demand) :
             /\ Stands(Rest, p, <<x>> \o R) /\ Gives(Goal("try"), x, p)
             /\ Lie(trees, R, depth) /\ Charged(p, depth)
    BY <1>3, FacingGiving DEF parse_try_call, Giving
  <2>2. FitsExpr(x, p)
    BY <2>1 DEF Gives, Goal
  <2>3. Gives(Goal("arguments"), x, p) /\ "arguments" \in Looping
    BY <2>2 DEF Gives, Goal, Looping
  <2>4. Stands(<<eat(")")>> \o Rest, p, <<x>> \o R)
    BY <2>1, PutToken, IndifferentAre
  <2>5. Stands(<<Goal("arguments")>> \o (<<eat(")")>> \o Rest), p, <<x>> \o R)
    BY <2>3, <2>4, PutLoop
  <2>6. Stands(<<eat("(")>> \o (<<Goal("arguments")>> \o (<<eat(")")>> \o Rest)), p, <<x>> \o R)
    BY <2>5, PutToken, IndifferentAre
  <2>7. Stands(<<Goal("name")>> \o (<<eat("(")>> \o (<<Goal("arguments")>> \o (<<eat(")")>> \o Rest))), p, <<x>> \o R)
    BY <2>6, PutToken, IndifferentAre
  <2>8. Stands(new \o Rest, p, <<x>> \o R)
    <3>1. /\ Goal("name") \in Goals /\ eat("(") \in Goals /\ Goal("arguments") \in Goals /\ eat(")") \in Goals
          /\ Rest \in Seq(Goals)
      BY <2>1, Standing, IndifferentAre, NamedGoals DEF IndifferentGoals, Looping
    <3> QED
      BY <2>7, <3>1, RowFour, Zenon
  <2>9. Meets(None, x, depth)
    BY <2>1, <2>2, Fitting, ChargeRange
  <2>10. trees' = <<None>> \o trees /\ Become(new) /\ depth' = depth
    BY <1>3 DEF parse_try_call, Push
  <2> HIDE DEF new
  <2>11. <<None>> \o trees \in Seq(Tree) /\ Lie(<<None>> \o trees, <<x>> \o R, depth)
    BY <2>1, <2>9, LieCons, LeavesAre, TreesAre
  <2> QED
    BY <2>1, <2>8, <2>10, <2>11, Seated
<1> QED
  BY <1>1, <1>2, <1>3

LEMMA ArgumentsKeep ==
  ASSUME IInv, TreeInv, Arguments \/ NextArgument
  PROVE  TreeInv'
<1>1. ASSUME NEW k \in {"arguments", "argument?"}, Parsing(k), Expand(<<>>)
      PROVE  TreeInv'
  <2>1. PICK p \in Place, x \in Demand, R \in Seq(Demand) :
             /\ Stands(Rest, p, <<x>> \o R) /\ Lie(trees, <<x>> \o R, depth) /\ Charged(p, depth)
    BY <1>1, FacingLooping DEF Looping
  <2>2. Stands(<<>> \o Rest, p, <<x>> \o R)
    BY <2>1, HarmlessNone DEF Harmless
  <2> QED
    BY <1>1, <2>1, <2>2, Seated, TreesAre DEF Expand
<1>2. ASSUME NEW k \in {"arguments", "argument?"}, Parsing(k),
             Become(Call(<<"expr", "join", "argument?">>)), trees' = trees, depth' = depth
      PROVE  TreeInv'
  <2> DEFINE e == Goal("expr")
             j == Goal("join")
             l == Goal("argument?")
  <2>1. PICK p \in Place, x \in Demand, R \in Seq(Demand) :
             /\ Stands(Rest, p, <<x>> \o R) /\ Gives(Goal(k), x, p)
             /\ Lie(trees, <<x>> \o R, depth) /\ Charged(p, depth)
    BY <1>2, FacingLooping DEF Looping
  <2> DEFINE y == AtLevel(x, 1)
  <2>2. FitsExpr(x, p)
    BY <2>1 DEF Gives, Goal
  <2>3. y \in Demand /\ y.level = 1 /\ y.own = x.own /\ y.room = x.room
    <3>1. y \in Demand
      BY DemandsMade, LevelsAre
    <3>2. y.level = 1 /\ y.own = x.own /\ y.room = x.room
      BY DEF AtLevel
    <3> QED
      BY <3>1, <3>2
  <2>4. Stands(<<l>> \o Rest, p, <<x>> \o R)
    <3>1. Gives(l, x, p) /\ "argument?" \in Looping
      BY <2>2 DEF Gives, Goal, Looping
    <3> QED
      BY <2>1, <3>1, PutLoop
  <2>5. Stands(<<j>> \o (<<l>> \o Rest), p, <<y>> \o (<<y>> \o R))
    BY <2>4, PutJoin
  <2>6. Gives(e, y, p)
    <3>1. FitsExpr(y, p) /\ y.level = 1
      BY <2>2, <2>3 DEF FitsExpr
    <3> HIDE DEF y
    <3> QED
      BY <3>1 DEF Gives, Goal
  <2>7. Stands(<<e>> \o (<<j>> \o (<<l>> \o Rest)), p, <<y>> \o R)
    <3>1. <<y>> \o R \in Seq(Demand) /\ "expr" \in Giving
      BY <2>3, Cons DEF Giving
    <3> HIDE DEF y, j, l
    <3> QED
      BY <2>3, <2>5, <2>6, <3>1, PutName
  <2>8. Stands(<<e, j, l>> \o Rest, p, <<y>> \o R)
    <3>1. e \in Goals /\ j \in Goals /\ l \in Goals /\ Rest \in Seq(Goals)
      BY <2>1, Standing, NamedGoals DEF Giving, Looping
    <3> HIDE DEF y, e, j, l
    <3> QED
      BY <2>7, <3>1, RowThree, Zenon
  <2>9. Lie(trees, <<y>> \o R, depth)
    <3>1. y.level <= x.level /\ y.room <= x.room
      BY <2>3, LevelsAre DEF Demand
    <3> HIDE DEF y
    <3> QED
      BY <2>1, <2>3, <3>1, LieEasier, TreesAre, ChargeRange
  <2>10. Call(<<"expr", "join", "argument?">>) = <<e, j, l>>
    BY DEF Call
  <2> HIDE DEF e, j, l, y
  <2> QED
    BY <1>2, <2>1, <2>8, <2>9, <2>10, Seated, TreesAre
<1> QED
  BY <1>1, <1>2 DEF Arguments, NextArgument, Step, Expand

-----------------------------------------------------------------------------
(* The trees, action by action: nodes.                                     *)

LEMMA DeepestOne == Deepest(1) = trees[1].deep
<1>1. {trees[i].deep : i \in 1..1} = {trees[1].deep}
  OBVIOUS
<1> QED
  BY <1>1 DEF Deepest

LEMMA DeepestTwo ==
  ASSUME trees[1].deep \in Nat, trees[2].deep \in Nat
  PROVE  Deepest(2) \in {trees[1].deep, trees[2].deep}
<1> DEFINE D == {trees[1].deep, trees[2].deep}
<1>1. {trees[i].deep : i \in 1..2} = D
  <2>1. \A i \in 1..2 : i = 1 \/ i = 2
    OBVIOUS
  <2> QED
    BY <2>1
<1>2. \E d \in D : \A e \in D : e <= d
  <2>1. CASE trees[1].deep <= trees[2].deep
    BY <2>1
  <2>2. CASE trees[2].deep <= trees[1].deep
    BY <2>2
  <2> QED
    BY <2>1, <2>2
<1>3. Deepest(2) = CHOOSE d \in D : \A e \in D : e <= d
  BY <1>1 DEF Deepest
<1> HIDE DEF D
<1>4. Deepest(2) \in D
  BY <1>2, <1>3
<1> QED
  BY <1>4 DEF D

LEMMA BuiltOne ==
  ASSUME trees \in Seq(Tree), trees # <<>>, NEW level \in 1..PrimaryLevel, NEW extra \in Nat,
         Built(1, level, extra)
  PROVE  \E t \in Tree :
           /\ trees' = <<t>> \o Tail(trees)
           /\ t.deep = trees[1].deep + extra /\ t.level = level
           /\ trees[1].sound /\ Binds(level, 1) => t.sound
<1> DEFINE t == [deep |-> Deepest(1) + extra, level |-> level,
                 sound |-> Binds(level, 1) /\ \A i \in 1..1 : trees[i].sound]
<1>1. trees' = <<t>> \o SubSeq(trees, 1 + 1, Len(trees))
  BY DEF Built
<1>2. SubSeq(trees, 2, Len(trees)) = Tail(trees) /\ 1 + 1 = 2
  BY SubSeqTwo
<1>3. trees[1] \in Tree
  OBVIOUS
<1>4. t.deep = trees[1].deep + extra /\ t.level = level
  BY DeepestOne
<1>5. trees[1].sound /\ Binds(level, 1) => t.sound
  <2>1. \A i \in 1..1 : i = 1
    OBVIOUS
  <2> QED
    BY <2>1
<1>6. t \in Tree
  BY <1>3, DeepestOne DEF Tree
<1> HIDE DEF t
<1> QED
  BY <1>1, <1>2, <1>4, <1>5, <1>6

LEMMA BuiltTwo ==
  ASSUME trees \in Seq(Tree), trees[1] \in Tree, trees[2] \in Tree,
         NEW level \in 1..PrimaryLevel, NEW extra \in Nat, Built(2, level, extra)
  PROVE  \E t \in Tree :
           /\ trees' = <<t>> \o SubSeq(trees, 3, Len(trees))
           /\ t.deep \in {trees[1].deep + extra, trees[2].deep + extra} /\ t.level = level
           /\ trees[1].sound /\ trees[2].sound /\ Binds(level, 2) => t.sound
<1> DEFINE t == [deep |-> Deepest(2) + extra, level |-> level,
                 sound |-> Binds(level, 2) /\ \A i \in 1..2 : trees[i].sound]
<1>1. trees' = <<t>> \o SubSeq(trees, 2 + 1, Len(trees)) /\ 2 + 1 = 3
  BY DEF Built
<1>2. trees[1].deep \in Nat /\ trees[2].deep \in Nat
  BY DEF Tree
<1>3. Deepest(2) \in {trees[1].deep, trees[2].deep}
  BY <1>2, DeepestTwo
<1>4. t.deep \in {trees[1].deep + extra, trees[2].deep + extra} /\ t.level = level
  BY <1>3
<1>5. trees[1].sound /\ trees[2].sound /\ Binds(level, 2) => t.sound
  <2>1. \A i \in 1..2 : i = 1 \/ i = 2
    OBVIOUS
  <2> QED
    BY <2>1
<1>6. t \in Tree
  BY <1>2, <1>3 DEF Tree
<1> HIDE DEF t
<1> QED
  BY <1>1, <1>4, <1>5, <1>6

\* The node of one child takes its place.
LEMMA OneKeeps ==
  ASSUME trees \in Seq(Tree), NEW p, NEW x \in Demand, NEW y \in Demand, NEW R \in Seq(Demand),
         NEW c \in Int, Stands(Rest, p, <<x>> \o R), Lie(trees, <<y>> \o R, c), Charged(p, depth'),
         Become(<<>>), depth' \in Int, c <= depth',
         NEW level \in 1..PrimaryLevel, NEW extra \in Nat, Built(1, level, extra),
         x.own = y.own, x.level <= level,
         y.room + (IF y.own THEN 2 * c ELSE 0) + 2 * extra <= x.room + (IF x.own THEN 2 * depth' ELSE 0),
         Meets(trees[1], y, c) => Binds(level, 1)
  PROVE  TreeInv'
<1>1. /\ trees # <<>> /\ trees[1] \in Tree /\ Meets(trees[1], y, c)
      /\ Tail(trees) \in Seq(Tree) /\ Lie(Tail(trees), R, c)
  BY LieUncons
<1>2. PICK t \in Tree :
           /\ trees' = <<t>> \o Tail(trees)
           /\ t.deep = trees[1].deep + extra /\ t.level = level
           /\ trees[1].sound /\ Binds(level, 1) => t.sound
  BY <1>1, BuiltOne
<1>3. Meets(t, x, depth')
  <2>1. trees[1].sound /\ Binds(level, 1)
    BY <1>1 DEF Meets
  <2>2. 2 * trees[1].deep <= y.room + (IF y.own THEN 2 * c ELSE 0)
    BY <1>1 DEF Meets
  <2>3. trees[1].deep \in Nat /\ y.room \in Int /\ x.room \in Int /\ t.deep \in Nat
    BY <1>1 DEF Tree, Demand
  <2>4. 2 * t.deep <= x.room + (IF x.own THEN 2 * depth' ELSE 0)
    <3> DEFINE cy == IF y.own THEN 2 * c ELSE 0
               cx == IF x.own THEN 2 * depth' ELSE 0
    <3>1. cy \in Int /\ cx \in Int
      OBVIOUS
    <3>2. y.room + cy + 2 * extra <= x.room + cx
      OBVIOUS
    <3>3. 2 * trees[1].deep <= y.room + cy
      BY <2>2
    <3> HIDE DEF cy, cx
    <3>4. 2 * t.deep <= x.room + cx
      <4>1. \A a, e \in Nat : \A i, j, k, m \in Int :
              2 * a <= i + j /\ i + j + 2 * e <= k + m => 2 * (a + e) <= k + m
        OBVIOUS
      <4>2. 2 * (trees[1].deep + extra) <= x.room + cx
        BY <2>3, <3>1, <3>2, <3>3, <4>1
      <4> QED
        BY <1>2, <4>2
    <3> QED
      BY <3>4 DEF cx
  <2> QED
    BY <1>2, <2>1, <2>4 DEF Meets
<1>4. Lie(Tail(trees), R, depth')
  BY <1>1, LieGrows
<1>5. <<t>> \o Tail(trees) \in Seq(Tree) /\ Lie(<<t>> \o Tail(trees), <<x>> \o R, depth')
  BY <1>1, <1>3, <1>4, LieCons
<1>6. Stands(<<>> \o Rest, p, <<x>> \o R)
  BY HarmlessNone DEF Harmless
<1> QED
  BY <1>2, <1>5, <1>6, Seated

\* The node of two children takes their place.
LEMMA TwoKeep ==
  ASSUME trees \in Seq(Tree), NEW p, NEW x \in Demand, NEW y \in Demand, NEW z \in Demand,
         NEW R \in Seq(Demand), NEW c \in Int,
         Stands(Rest, p, <<x>> \o R), Lie(trees, <<y, z>> \o R, c), Charged(p, depth'),
         Become(<<>>), depth' \in Int, c <= depth',
         NEW level \in 1..PrimaryLevel, NEW extra \in Nat, Built(2, level, extra),
         x.own = y.own, x.own = z.own, z.room = y.room, x.level <= level,
         y.room + (IF y.own THEN 2 * c ELSE 0) + 2 * extra <= x.room + (IF x.own THEN 2 * depth' ELSE 0),
         Meets(trees[1], y, c) /\ Meets(trees[2], z, c) => Binds(level, 2)
  PROVE  TreeInv'
<1> DEFINE after == SubSeq(trees, 3, Len(trees))
<1>1. /\ trees[1] \in Tree /\ Meets(trees[1], y, c) /\ trees[2] \in Tree /\ Meets(trees[2], z, c)
      /\ after \in Seq(Tree) /\ Lie(after, R, c)
  BY LieUnconsTwo
<1>2. PICK t \in Tree :
           /\ trees' = <<t>> \o after
           /\ t.deep \in {trees[1].deep + extra, trees[2].deep + extra} /\ t.level = level
           /\ trees[1].sound /\ trees[2].sound /\ Binds(level, 2) => t.sound
  BY <1>1, BuiltTwo
<1> HIDE DEF after
<1>3. Meets(t, x, depth')
  <2>1. trees[1].sound /\ trees[2].sound /\ Binds(level, 2)
    BY <1>1 DEF Meets
  <2>2. /\ 2 * trees[1].deep <= y.room + (IF y.own THEN 2 * c ELSE 0)
        /\ 2 * trees[2].deep <= y.room + (IF y.own THEN 2 * c ELSE 0)
    BY <1>1 DEF Meets
  <2>3. trees[1].deep \in Nat /\ trees[2].deep \in Nat /\ y.room \in Int /\ x.room \in Int /\ t.deep \in Nat
    BY <1>1 DEF Tree, Demand
  <2>4. 2 * t.deep <= x.room + (IF x.own THEN 2 * depth' ELSE 0)
    <3> DEFINE cy == IF y.own THEN 2 * c ELSE 0
               cx == IF x.own THEN 2 * depth' ELSE 0
    <3>1. cy \in Int /\ cx \in Int
      OBVIOUS
    <3>2. y.room + cy + 2 * extra <= x.room + cx
      OBVIOUS
    <3>3. 2 * trees[1].deep <= y.room + cy /\ 2 * trees[2].deep <= y.room + cy
      BY <2>2
    <3> HIDE DEF cy, cx
    <3>4. 2 * t.deep <= x.room + cx
      <4>1. \A a, e \in Nat : \A i, j, k, m \in Int :
              2 * a <= i + j /\ i + j + 2 * e <= k + m => 2 * (a + e) <= k + m
        OBVIOUS
      <4>2. 2 * (trees[1].deep + extra) <= x.room + cx
        BY <2>3, <3>1, <3>2, <3>3, <4>1
      <4>3. 2 * (trees[2].deep + extra) <= x.room + cx
        BY <2>3, <3>1, <3>2, <3>3, <4>1
      <4> QED
        BY <1>2, <4>2, <4>3
    <3> QED
      BY <3>4 DEF cx
  <2> QED
    BY <1>2, <2>1, <2>4 DEF Meets
<1>4. Lie(after, R, depth')
  BY <1>1, LieGrows
<1>5. <<t>> \o after \in Seq(Tree) /\ Lie(<<t>> \o after, <<x>> \o R, depth')
  BY <1>1, <1>3, <1>4, LieCons
<1>6. Stands(<<>> \o Rest, p, <<x>> \o R)
  BY HarmlessNone DEF Harmless
<1> QED
  BY <1>2, <1>5, <1>6, Seated

\* The numbers of a demand.
LEMMA DemandIs ==
  ASSUME NEW x \in Demand
  PROVE  /\ x.level \in 1..8 /\ x.room \in Int /\ x.own \in BOOLEAN
         /\ \A l : AtLevel(x, l).level = l /\ AtLevel(x, l).room = x.room /\ AtLevel(x, l).own = x.own
         /\ Child(x).level = 1 /\ Child(x).room = x.room - 2 /\ Child(x).own = x.own
         /\ Negand(x).level = 7 /\ Negand(x).room = x.room - 2 /\ Negand(x).own = x.own
BY LevelsAre DEF Demand, AtLevel, Child, Negand

LEMMA BuildKeeps ==
  ASSUME IInv, TreeInv, Build
  PROVE  TreeInv'
<1> DEFINE g == Head(goals)
<1>1. PICK p \in Place, x \in Demand, R \in Seq(Demand) :
              /\ Stands(Rest, p, <<x>> \o R) /\ Gives(g, x, p)
              /\ Lie(trees, Taken(g, x) \o R, depth) /\ Charged(p, depth)
  BY FacingTaker DEF Build, Takers
<1>2. g[1] = "node" /\ g \in Goals
  BY FacingTaker DEF Build, Takers
<1>3. Built(g[2], g[3], 1) /\ Become(<<>>) /\ depth' = depth
  BY DEF Build
<1> HIDE DEF g
<1>4. g[2] \in 1..2 /\ g[3] = PrimaryLevel
  BY <1>1, <1>2 DEF Gives
<1>5. \A n : Binds(PrimaryLevel, n)
  BY LevelsAre DEF Binds
<1> DEFINE y == Child(x)
<1>6. y \in Demand /\ PrimaryLevel \in 1..PrimaryLevel /\ depth \in Int /\ depth' \in Int
      /\ depth <= depth' /\ 1 \in Nat
  BY <1>3, DemandsMade, LevelsAre, ChargeRange
<1>9. /\ x.own = y.own /\ y.room = y.room /\ x.level <= PrimaryLevel
      /\ y.room + (IF y.own THEN 2 * depth ELSE 0) + 2 * 1 <= x.room + (IF x.own THEN 2 * depth' ELSE 0)
  BY <1>3, <1>6, DemandIs, LevelsAre
<1>7. CASE g[2] = 1
  <2>1. Taken(g, x) = <<Child(x)>>
    BY <1>2, <1>7 DEF Taken, Giving
  <2>2. Built(1, PrimaryLevel, 1) /\ Lie(trees, <<y>> \o R, depth)
    BY <1>1, <1>3, <1>4, <1>7, <2>1
  <2> HIDE DEF y
  <2> QED
    BY <1>1, <1>3, <1>5, <1>6, <1>9, <2>2, OneKeeps, TreesAre
<1>8. CASE g[2] = 2
  <2>1. Taken(g, x) = <<Child(x), Child(x)>>
    BY <1>2, <1>8 DEF Taken, Giving
  <2>2. Built(2, PrimaryLevel, 1) /\ Lie(trees, <<y, y>> \o R, depth)
    BY <1>1, <1>3, <1>4, <1>8, <2>1
  <2> HIDE DEF y
  <2> QED
    BY <1>1, <1>3, <1>5, <1>6, <1>9, <2>2, TwoKeep, TreesAre
<1> QED
  BY <1>4, <1>7, <1>8

LEMMA JoinKeeps ==
  ASSUME IInv, TreeInv, Join
  PROVE  TreeInv'
<1> DEFINE g == Head(goals)
<1>1. PICK p \in Place, x \in Demand, R \in Seq(Demand) :
              /\ Stands(Rest, p, <<x>> \o R) /\ Gives(g, x, p)
              /\ Lie(trees, Taken(g, x) \o R, depth) /\ Charged(p, depth)
  BY FacingTaker DEF Join, Takers
<1>2. g[1] = "join"
  BY FacingTaker DEF Join, Takers
<1>3. Built(2, PrimaryLevel, 0) /\ Become(<<>>) /\ depth' = depth
  BY DEF Join
<1> HIDE DEF g
<1>4. Taken(g, x) = <<AtLevel(x, 1), AtLevel(x, 1)>>
  BY <1>2 DEF Taken, Giving
<1>5. Binds(PrimaryLevel, 2)
  BY LevelsAre DEF Binds
<1> DEFINE y == AtLevel(x, 1)
<1>6. y \in Demand /\ PrimaryLevel \in 1..PrimaryLevel /\ depth \in Int /\ depth' \in Int
      /\ depth <= depth' /\ 0 \in Nat
  BY <1>3, DemandsMade, LevelsAre, ChargeRange
<1>7. /\ x.own = y.own /\ y.room = y.room /\ x.level <= PrimaryLevel
      /\ y.room + (IF y.own THEN 2 * depth ELSE 0) + 2 * 0 <= x.room + (IF x.own THEN 2 * depth' ELSE 0)
  BY <1>3, <1>6, DemandIs, LevelsAre
<1>8. Lie(trees, <<y, y>> \o R, depth)
  BY <1>1, <1>4
<1> HIDE DEF y
<1> QED
  BY <1>1, <1>3, <1>5, <1>6, <1>7, <1>8, TwoKeep, TreesAre

LEMMA GroupKeeps ==
  ASSUME IInv, TreeInv, Group
  PROVE  TreeInv'
<1> DEFINE g == Head(goals)
<1>1. PICK p \in Place, x \in Demand, R \in Seq(Demand) :
              /\ Stands(Rest, p, <<x>> \o R) /\ Gives(g, x, p)
              /\ Lie(trees, Taken(g, x) \o R, depth) /\ Charged(p, depth)
  BY FacingTaker DEF Group, Takers
<1>2. g[1] = "group"
  BY FacingTaker DEF Group, Takers
<1>3. Built(1, PrimaryLevel, 0) /\ Become(<<>>) /\ depth' = depth
  BY DEF Group
<1> HIDE DEF g
<1>4. Taken(g, x) = <<AtLevel(x, 1)>>
  BY <1>2 DEF Taken, Giving
<1>5. Binds(PrimaryLevel, 1)
  BY LevelsAre DEF Binds
<1> DEFINE y == AtLevel(x, 1)
<1>6. y \in Demand /\ PrimaryLevel \in 1..PrimaryLevel /\ depth \in Int /\ depth' \in Int
      /\ depth <= depth' /\ 0 \in Nat
  BY <1>3, DemandsMade, LevelsAre, ChargeRange
<1>7. /\ x.own = y.own /\ x.level <= PrimaryLevel
      /\ y.room + (IF y.own THEN 2 * depth ELSE 0) + 2 * 0 <= x.room + (IF x.own THEN 2 * depth' ELSE 0)
  BY <1>3, <1>6, DemandIs, LevelsAre
<1>8. Lie(trees, <<y>> \o R, depth)
  BY <1>1, <1>4
<1> HIDE DEF y
<1> QED
  BY <1>1, <1>3, <1>5, <1>6, <1>7, <1>8, OneKeeps, TreesAre

LEMMA CheckKeeps ==
  ASSUME IInv, TreeInv, CheckTree
  PROVE  TreeInv'
<1> DEFINE g == Head(goals)
<1>1. CASE Refuse
  BY <1>1, RefuseKeeps
<1>2. CASE ~Refuse
  <2>1. Parsing("check") /\ trees' = Tail(trees) /\ Become(<<>>) /\ depth' = depth
    BY <1>2 DEF CheckTree
  <2>2. /\ g \in Goals /\ g[1] = "check"
        /\ \E p \in Place, S \in Seq(Demand) :
             /\ Stands(Rest, p, S) /\ Admits(g, p, S)
             /\ Lie(trees, ShapeBefore(g, S), depth) /\ Charged(PlaceBefore(g, p), depth)
    BY <2>1, Facing
  <2>3. PICK p \in Place, S \in Seq(Demand) :
             /\ Stands(Rest, p, S) /\ Admits(g, p, S)
             /\ Lie(trees, ShapeBefore(g, S), depth) /\ Charged(PlaceBefore(g, p), depth)
    BY <2>2
  <2> HIDE DEF g
  <2>4. PlaceBefore(g, p) = p /\ ShapeBefore(g, S) = <<BodyTree>> \o S
    BY <2>2 DEF PlaceBefore, ShapeBefore, Indifferent, Looping
  <2>5. BodyTree \in Demand
    <3>1. Cap \in Int
      BY ConstantsAssumption DEF Cap, Twice
    <3> QED
      BY <3>1, LevelsAre DEF BodyTree, Demand
  <2>6. Tail(trees) \in Seq(Tree) /\ Lie(Tail(trees), S, depth)
    BY <2>3, <2>4, <2>5, LieUncons, TreesAre
  <2>7. Stands(<<>> \o Rest, p, S)
    BY <2>3, HarmlessNone DEF Harmless
  <2> QED
    BY <2>1, <2>3, <2>4, <2>6, <2>7, Seated
<1> QED
  BY <1>1, <1>2

-----------------------------------------------------------------------------
(* The trees, action by action: expressions.                               *)

LEMMA LevelGoals ==
  /\ \A l \in 1..5 : <<"operators", l>> \in Goals /\ <<"wrap", 2, l>> \in Goals
  /\ <<"wrap", 1, CastLevel>> \in Goals
<1>1. \A l \in 1..5 : l \in Nat
  OBVIOUS
<1>2. CastLevel \in Nat /\ 1 \in Nat /\ 2 \in Nat
  BY LevelsAre
<1> QED
  BY <1>1, <1>2, GoalShapes

LEMMA PutCasts ==
  ASSUME NEW gs, NEW p, NEW x \in Demand, NEW R \in Seq(Demand),
         Stands(gs, p, <<x>> \o R), FitsNode(x, p), x.level <= CastLevel
  PROVE  Stands(<<Goal("casts")>> \o gs, p, <<AtLevel(x, CastLevel)>> \o R)
<1> DEFINE g == Goal("casts")
<1>1. g \in Goals /\ g[1] = "casts"
  BY NamedGoals
<1> HIDE DEF g
<1>2. Gives(g, x, p) /\ Taken(g, x) = <<AtLevel(x, CastLevel)>>
  BY <1>1 DEF Gives, Taken, Giving
<1>3. g[1] \in Giving \cup Takers
  BY <1>1 DEF Takers
<1>4. Stands(<<g>> \o gs, p, Taken(g, x) \o R)
  BY <1>1, <1>2, <1>3, PutTaker
<1> QED
  BY <1>2, <1>4 DEF g

LEMMA PutOperators ==
  ASSUME NEW gs, NEW p, NEW x \in Demand, NEW R \in Seq(Demand), NEW l \in 1..5,
         Stands(gs, p, <<x>> \o R), FitsNode(x, p), x.level <= l
  PROVE  Stands(<< <<"operators", l>> >> \o gs, p, <<AtLevel(x, l)>> \o R)
<1> DEFINE g == <<"operators", l>>
<1>1. g \in Goals /\ g[1] = "operators" /\ g[2] = l
  BY LevelGoals
<1> HIDE DEF g
<1>2. Gives(g, x, p) /\ Taken(g, x) = <<AtLevel(x, l)>>
  BY <1>1 DEF Gives, Taken, Giving
<1>3. g[1] \in Giving \cup Takers
  BY <1>1 DEF Takers
<1>4. Stands(<<g>> \o gs, p, Taken(g, x) \o R)
  BY <1>1, <1>2, <1>3, PutTaker
<1> QED
  BY <1>2, <1>4 DEF g

LEMMA PutWrapTwo ==
  ASSUME NEW gs, NEW p, NEW x \in Demand, NEW R \in Seq(Demand), NEW l \in 1..5,
         Stands(gs, p, <<x>> \o R), FitsNode(x, p), x.level <= l
  PROVE  Stands(<< <<"wrap", 2, l>> >> \o gs, p, <<AtLevel(x, l + 1)>> \o (<<AtLevel(x, l)>> \o R))
<1> DEFINE g == <<"wrap", 2, l>>
<1>1. g \in Goals /\ g[1] = "wrap" /\ g[2] = 2 /\ g[3] = l
  BY LevelGoals
<1> HIDE DEF g
<1>2. Gives(g, x, p) /\ Taken(g, x) = <<AtLevel(x, l + 1), AtLevel(x, l)>>
  BY <1>1, LevelsAre DEF Gives, Taken, Giving
<1>3. g[1] \in Giving \cup Takers
  BY <1>1 DEF Takers
<1>4. Stands(<<g>> \o gs, p, Taken(g, x) \o R)
  BY <1>1, <1>2, <1>3, PutTaker
<1>5. <<AtLevel(x, l + 1), AtLevel(x, l)>> \o R = <<AtLevel(x, l + 1)>> \o (<<AtLevel(x, l)>> \o R)
  <2>1. l + 1 \in 1..PrimaryLevel /\ l \in 1..PrimaryLevel
    BY LevelsAre
  <2> QED
    BY <2>1, DemandsMade, RowOfTwo
<1> QED
  BY <1>2, <1>4, <1>5 DEF g

LEMMA PutWrapOne ==
  ASSUME NEW gs, NEW p, NEW x \in Demand, NEW R \in Seq(Demand),
         Stands(gs, p, <<x>> \o R), FitsNode(x, p), x.level <= CastLevel
  PROVE  Stands(<< <<"wrap", 1, CastLevel>> >> \o gs, p, <<AtLevel(x, CastLevel)>> \o R)
<1> DEFINE g == <<"wrap", 1, CastLevel>>
<1>1. g \in Goals /\ g[1] = "wrap" /\ g[2] = 1 /\ g[3] = CastLevel
  BY LevelGoals
<1> HIDE DEF g
<1>2. Gives(g, x, p) /\ Taken(g, x) = <<AtLevel(x, CastLevel)>>
  BY <1>1 DEF Gives, Taken, Giving
<1>3. g[1] \in Giving \cup Takers
  BY <1>1 DEF Takers
<1>4. Stands(<<g>> \o gs, p, Taken(g, x) \o R)
  BY <1>1, <1>2, <1>3, PutTaker
<1> QED
  BY <1>2, <1>4 DEF g

LEMMA PutGroup ==
  ASSUME NEW gs, NEW p, NEW x \in Demand, NEW R \in Seq(Demand), Stands(gs, p, <<x>> \o R)
  PROVE  Stands(<<Goal("group")>> \o gs, p, <<AtLevel(x, 1)>> \o R)
<1> DEFINE g == Goal("group")
<1>1. g \in Goals /\ g[1] = "group"
  BY NamedGoals
<1> HIDE DEF g
<1>2. Gives(g, x, p) /\ Taken(g, x) = <<AtLevel(x, 1)>>
  BY <1>1 DEF Gives, Taken, Giving
<1>3. g[1] \in Giving \cup Takers
  BY <1>1 DEF Takers
<1>4. Stands(<<g>> \o gs, p, Taken(g, x) \o R)
  BY <1>1, <1>2, <1>3, PutTaker
<1> QED
  BY <1>2, <1>4 DEF g

\* The levels, one by one.
LEMMA LevelsOneByOne ==
  ASSUME NEW l \in 1..6
  PROVE  /\ Levels(l) \in Seq(Goals) /\ Len(Levels(l)) = 8 - l
         /\ Levels(l)[1] = Goal("unary") /\ Levels(l)[2] = Goal("casts")
         /\ \A j \in 3..(8 - l) : Levels(l)[j] = <<"operators", 8 - j>>
<1> DEFINE names == <<"unary", "casts">>
           top == Call(names)
           ops == [i \in 1..(CastLevel - l) |-> <<"operators", CastLevel - i>>]
<1>1. top \in Seq(Goals) /\ Len(top) = 2 /\ top[1] = Goal("unary") /\ top[2] = Goal("casts")
  <2>1. names \in Seq(Kinds) /\ Len(names) = 2 /\ names[1] = "unary" /\ names[2] = "casts"
    BY DEF Kinds
  <2> HIDE DEF names
  <2>2. top \in Seq(Goals) /\ Len(top) = 2 /\ \A i \in 1..2 : top[i] = <<names[i]>>
    BY <2>1, Called
  <2>3. top[1] = <<names[1]>> /\ top[2] = <<names[2]>>
    BY <2>2
  <2> QED
    BY <2>1, <2>2, <2>3 DEF Goal
<1>2. ops \in Seq(Goals) /\ Len(ops) = 6 - l /\ \A i \in 1..(6 - l) : ops[i] = <<"operators", 6 - i>>
  <2>1. \A i \in 1..(6 - l) : <<"operators", 6 - i>> \in Goals
    <3> TAKE i \in 1..(6 - l)
    <3>1. 6 - i \in 1..5
      OBVIOUS
    <3> QED
      BY <3>1, GoalShapes
  <2>2. 6 - l \in Nat
    OBVIOUS
  <2>3. ops = [i \in 1..(6 - l) |-> <<"operators", 6 - i>>]
    BY LevelsAre
  <2> HIDE DEF ops
  <2>4. ops \in [1..(6 - l) -> Goals]
    BY <2>1, <2>3
  <2>5. \A i \in 1..(6 - l) : ops[i] = <<"operators", 6 - i>>
    BY <2>3
  <2> QED
    BY <2>2, <2>4, <2>5, SequenceOf
<1>3. Levels(l) = top \o ops
  BY DEF Levels
<1> HIDE DEF top, ops
<1>4. /\ Levels(l) \in Seq(Goals) /\ Len(Levels(l)) = 8 - l
      /\ \A j \in 1..(8 - l) : Levels(l)[j] = IF j <= 2 THEN top[j] ELSE ops[j - 2]
  <2>1. Len(top) + Len(ops) = 8 - l /\ Len(top) = 2
    BY <1>1, <1>2
  <2>2. /\ Levels(l) \in Seq(Goals) /\ Len(Levels(l)) = Len(top) + Len(ops)
        /\ \A j \in 1..Len(top) + Len(ops) :
             Levels(l)[j] = IF j <= Len(top) THEN top[j] ELSE ops[j - Len(top)]
    <3>1. top \in Seq(Goals) /\ ops \in Seq(Goals)
      BY <1>1, <1>2
    <3> QED
      BY <3>1, <1>3, ConcatProperties
  <2> QED
    BY <2>1, <2>2
<1>5. 1 \in 1..(8 - l) /\ 2 \in 1..(8 - l)
  OBVIOUS
<1>6. ASSUME NEW j \in 3..(8 - l)
      PROVE  Levels(l)[j] = <<"operators", 8 - j>>
  <2>1. j - 2 \in 1..(6 - l) /\ 6 - (j - 2) = 8 - j /\ j \in 1..(8 - l) /\ ~(j <= 2)
    OBVIOUS
  <2>2. ops[j - 2] = <<"operators", 6 - (j - 2)>>
    BY <1>2, <2>1
  <2> QED
    BY <1>4, <2>1, <2>2
<1>7. Levels(l)[1] = top[1] /\ Levels(l)[2] = top[2]
  BY <1>4, <1>5
<1> QED
  BY <1>1, <1>4, <1>6, <1>7

LEMMA LevelsBegin == Levels(6) = <<Goal("unary"), Goal("casts")>>
<1>1. Levels(6) \in Seq(Goals) /\ Len(Levels(6)) = 2
      /\ Levels(6)[1] = Goal("unary") /\ Levels(6)[2] = Goal("casts")
  <2>1. 6 \in 1..6 /\ 8 - 6 = 2
    OBVIOUS
  <2> QED
    BY <2>1, LevelsOneByOne
<1> DEFINE r == <<Goal("unary"), Goal("casts")>>
<1>2. Len(r) = 2 /\ r[1] = Goal("unary") /\ r[2] = Goal("casts")
  OBVIOUS
<1>3. r \in Seq(Goals)
  BY NamedGoals DEF Giving
<1> HIDE DEF r
<1>4. \A i \in 1..2 : Levels(6)[i] = r[i]
  <2>1. \A i \in 1..2 : i = 1 \/ i = 2
    OBVIOUS
  <2> QED
    BY <1>1, <1>2, <2>1
<1>5. Levels(6) = r
  BY <1>1, <1>2, <1>3, <1>4, SeqEqual
<1> QED
  BY <1>5 DEF r

LEMMA LevelsGrow ==
  ASSUME NEW l \in 1..5
  PROVE  Levels(l) = Levels(l + 1) \o << <<"operators", l>> >>
<1> DEFINE last == << <<"operators", l>> >>
           a == Levels(l + 1)
           b == Levels(l)
<1>1. l + 1 \in 1..6 /\ l \in 1..6 /\ 8 - (l + 1) = 7 - l
  OBVIOUS
<1>2. /\ a \in Seq(Goals) /\ Len(a) = 7 - l
      /\ a[1] = Goal("unary") /\ a[2] = Goal("casts")
      /\ \A j \in 3..(7 - l) : a[j] = <<"operators", 8 - j>>
  BY <1>1, LevelsOneByOne
<1>3. /\ b \in Seq(Goals) /\ Len(b) = 8 - l
      /\ b[1] = Goal("unary") /\ b[2] = Goal("casts")
      /\ \A j \in 3..(8 - l) : b[j] = <<"operators", 8 - j>>
  BY <1>1, LevelsOneByOne
<1>4. last \in Seq(Goals) /\ Len(last) = 1 /\ last[1] = <<"operators", l>>
  <2>1. <<"operators", l>> \in Goals
    BY LevelGoals
  <2> QED
    BY <2>1
<1> HIDE DEF last, a, b
<1>5. /\ a \o last \in Seq(Goals) /\ Len(a \o last) = 8 - l
      /\ \A j \in 1..(8 - l) : (a \o last)[j] = IF j <= 7 - l THEN a[j] ELSE last[j - (7 - l)]
  <2>1. /\ a \o last \in Seq(Goals) /\ Len(a \o last) = Len(a) + Len(last)
        /\ \A j \in 1..Len(a) + Len(last) : (a \o last)[j] = IF j <= Len(a) THEN a[j] ELSE last[j - Len(a)]
    BY <1>2, <1>4, ConcatProperties
  <2>2. Len(a) + Len(last) = 8 - l
    BY <1>2, <1>4
  <2> QED
    BY <1>2, <2>1, <2>2
<1>6. ASSUME NEW j \in 1..(8 - l)
      PROVE  (a \o last)[j] = b[j]
  <2>1. CASE j = 8 - l
    <3>1. j - (7 - l) = 1 /\ ~(j <= 7 - l) /\ j \in 3..(8 - l) /\ 8 - j = l
      BY <2>1
    <3>2. (a \o last)[j] = last[1]
      BY <1>5, <3>1
    <3>3. b[j] = <<"operators", 8 - j>>
      BY <1>3, <3>1
    <3> QED
      BY <1>4, <3>1, <3>2, <3>3
  <2>2. CASE j # 8 - l
    <3>1. j <= 7 - l /\ (j = 1 \/ j = 2 \/ (j \in 3..(7 - l) /\ j \in 3..(8 - l)))
      BY <2>2
    <3>2. (a \o last)[j] = a[j]
      BY <1>5, <3>1
    <3> QED
      BY <1>2, <1>3, <3>1, <3>2
  <2> QED
    BY <2>1, <2>2
<1>7. b = a \o last
  BY <1>3, <1>5, <1>6, SeqEqual
<1> QED
  BY <1>7 DEF a, b, last

\* The levels from l on give one tree that is no looser than l.
Settles(l) ==
  \A gs : \A p \in Place : \A x \in Demand : \A R \in Seq(Demand) :
    Stands(gs, p, <<x>> \o R) /\ FitsNode(x, p) /\ x.level <= l => Stands(Levels(l) \o gs, p, R)

LEMMA SettlesFirst == Settles(6)
<1> SUFFICES ASSUME NEW gs, NEW p \in Place, NEW x \in Demand, NEW R \in Seq(Demand),
                    Stands(gs, p, <<x>> \o R), FitsNode(x, p), x.level <= 6
             PROVE  Stands(Levels(6) \o gs, p, R)
  BY DEF Settles
<1> DEFINE y == AtLevel(x, CastLevel)
<1>1. y \in Demand /\ FitsNode(y, p) /\ y.level = 6
  BY NodeFits, LevelsAre
<1>2. Stands(<<Goal("casts")>> \o gs, p, <<y>> \o R)
  BY PutCasts, LevelsAre
<1> HIDE DEF y
<1>3. Gives(Goal("unary"), y, p) /\ "unary" \in Giving
  BY <1>1, LevelsAre DEF Gives, Goal, Giving
<1>4. Stands(<<Goal("unary")>> \o (<<Goal("casts")>> \o gs), p, R)
  BY <1>1, <1>2, <1>3, PutName
<1>5. Goal("unary") \in Goals /\ Goal("casts") \in Goals /\ gs \in Seq(Goals)
  BY Standing, NamedGoals DEF Giving
<1>6. Stands(<<Goal("unary"), Goal("casts")>> \o gs, p, R)
  BY <1>4, <1>5, RowTwo, Zenon
<1> QED
  BY <1>6, LevelsBegin

LEMMA SettlesNext ==
  ASSUME NEW l \in 1..5, Settles(l + 1)
  PROVE  Settles(l)
<1> SUFFICES ASSUME NEW gs, NEW p \in Place, NEW x \in Demand, NEW R \in Seq(Demand),
                    Stands(gs, p, <<x>> \o R), FitsNode(x, p), x.level <= l
             PROVE  Stands(Levels(l) \o gs, p, R)
  BY DEF Settles
<1> DEFINE y == AtLevel(x, l)
           last == << <<"operators", l>> >>
<1>1. y \in Demand /\ FitsNode(y, p) /\ y.level = l /\ l <= l + 1
  <2>1. l \in 1..PrimaryLevel /\ l <= l + 1
    BY LevelsAre
  <2> QED
    BY <2>1, NodeFits
<1>2. Stands(last \o gs, p, <<y>> \o R)
  BY PutOperators
<1> HIDE DEF y
<1>3. Stands(Levels(l + 1) \o (last \o gs), p, R)
  BY <1>1, <1>2 DEF Settles
<1>4. Levels(l + 1) \in Seq(Goals) /\ last \in Seq(Goals) /\ gs \in Seq(Goals)
  <2>1. l + 1 \in 1..6
    OBVIOUS
  <2>2. Levels(l + 1) \in Seq(Goals)
    BY <2>1, LevelsOneByOne
  <2>3. last \in Seq(Goals)
    <3>1. <<"operators", l>> \in Goals
      BY LevelGoals
    <3> QED
      BY <3>1
  <2> QED
    BY <2>2, <2>3, Standing
<1>5. Levels(l) = Levels(l + 1) \o last
  BY LevelsGrow
<1> HIDE DEF last
<1>6. (Levels(l + 1) \o last) \o gs = Levels(l + 1) \o (last \o gs)
  BY <1>4, ConcatAssociative
<1> QED
  BY <1>3, <1>5, <1>6

LEMMA LevelsSettle == \A l \in 1..6 : Settles(l)
<1>1. Settles(6)
  BY SettlesFirst
<1>2. Settles(5)
  <2>1. 5 \in 1..5 /\ 5 + 1 = 6
    OBVIOUS
  <2> QED
    BY <1>1, <2>1, SettlesNext
<1>3. Settles(4)
  <2>1. 4 \in 1..5 /\ 4 + 1 = 5
    OBVIOUS
  <2> QED
    BY <1>2, <2>1, SettlesNext
<1>4. Settles(3)
  <2>1. 3 \in 1..5 /\ 3 + 1 = 4
    OBVIOUS
  <2> QED
    BY <1>3, <2>1, SettlesNext
<1>5. Settles(2)
  <2>1. 2 \in 1..5 /\ 2 + 1 = 3
    OBVIOUS
  <2> QED
    BY <1>4, <2>1, SettlesNext
<1>6. Settles(1)
  <2>1. 1 \in 1..5 /\ 1 + 1 = 2
    OBVIOUS
  <2> QED
    BY <1>5, <2>1, SettlesNext
<1>7. \A l \in 1..6 : l = 1 \/ l = 2 \/ l = 3 \/ l = 4 \/ l = 5 \/ l = 6
  OBVIOUS
<1> QED
  BY <1>1, <1>2, <1>3, <1>4, <1>5, <1>6, <1>7


LEMMA ExprKeeps ==
  ASSUME IInv, TreeInv, parse_expr
  PROVE  TreeInv'
<1>1. CASE depth >= MAX_NESTING
  BY <1>1, RefuseKeeps DEF parse_expr, enter
<1>2. CASE ~(depth >= MAX_NESTING)
  <2> DEFINE leave == <<"leave", depth>>
             q == [in |-> TRUE, home |-> depth, pending |-> 0]
             w == Whole(depth)
  <2>1. PICK p \in Place, x \in Demand, R \in Seq(Demand) :
             /\ Stands(Rest, p, <<x>> \o R) /\ Gives(Goal("expr"), x, p)
             /\ Lie(trees, R, depth) /\ Charged(p, depth)
    BY FacingGiving DEF parse_expr, Giving
  <2>2. FitsExpr(x, p) /\ x.level = 1
    BY <2>1 DEF Gives, Goal
  <2>3. depth \in Nat /\ depth < MAX_NESTING /\ depth \in 0..MAX_NESTING /\ depth + 1 \in Int
    BY <1>2, ChargeRange
  <2>4. Stands(<<leave>> \o Rest, q, <<w>> \o Frozen(R, depth))
    BY <2>1, <2>2, <2>3, PutLeave
  <2>5. w \in Demand
    <3>1. leave \in Goals /\ leave[1] = "leave" /\ leave[2] = depth
      BY <2>3, GoalShapes
    <3>2. Gives(leave, x, p)
      BY <2>1, <2>2, <2>3, <3>1 DEF Gives
    <3> HIDE DEF leave
    <3> QED
      BY <3>1, <3>2, WholeFits
  <2>6. FitsNode(w, q) /\ w.level <= 1 /\ q \in Place
    <3>1. w.own /\ w.level = 1 /\ w.room = Twice(depth) - 2 * MAX_NESTING
      BY DEF Whole
    <3>2. q.in /\ q.home = depth /\ q.pending = 0 /\ q \in Place
      BY <2>3 DEF Place
    <3>3. Twice(depth) \in Int /\ MAX_NESTING \in Int
      BY <2>3, TwiceSteps, ConstantsAssumption
    <3>4. NodeRoom(q) = Twice(depth) - 2 * MAX_NESTING
      BY <3>2, <3>3 DEF NodeRoom
    <3> HIDE DEF q, w
    <3> QED
      BY <3>1, <3>2, <3>3, <3>4 DEF FitsNode
  <2>7. Frozen(R, depth) \in Seq(Demand)
    BY <2>1, <2>3, FrozenIs
  <2>8. Settles(1)
    BY LevelsSettle
  <2>9. Charged(q, depth + 1)
    BY <2>3 DEF Charged
  <2>10. Lie(trees, Frozen(R, depth), depth + 1)
    BY <2>1, <2>3, LieFrozen, TreesAre
  <2>11. << leave >> \in Seq(Goals)
    <3>1. leave \in Goals
      BY <2>3, GoalShapes
    <3> HIDE DEF leave
    <3> QED
      BY <3>1
  <2>12. Become(Levels(1) \o <<leave>>) /\ trees' = trees /\ depth' = depth + 1
    BY <1>2 DEF parse_expr, enter
  <2> HIDE DEF q, w
  <2>13. Stands(Levels(1) \o (<<leave>> \o Rest), q, Frozen(R, depth))
    <3> HIDE DEF leave
    <3> QED
      BY <2>4, <2>5, <2>6, <2>7, <2>8 DEF Settles
  <2> DEFINE last == << leave >>
  <2>14. (Levels(1) \o last) \o Rest = Levels(1) \o (last \o Rest)
    <3>1. Levels(1) \in Seq(Goals) /\ last \in Seq(Goals) /\ Rest \in Seq(Goals)
      BY <2>1, <2>11, Standing, LevelsOneByOne
    <3> HIDE DEF last
    <3> QED
      BY <3>1, ConcatAssociative
  <2>15. Stands((Levels(1) \o last) \o Rest, q, Frozen(R, depth))
    BY <2>13, <2>14
  <2> HIDE DEF last
  <2> QED
    BY <2>9, <2>10, <2>12, <2>15, Seated, TreesAre DEF last
<1> QED
  BY <1>1, <1>2

\* What is left of the expression's charge is worth its depth.
LEMMA WholeIsExpression ==
  ASSUME NEW p \in Place, NEW x \in Demand, NEW d \in 0..MAX_NESTING, NEW c \in 0..MAX_NESTING,
         FitsExpr(x, p), x.level = 1, Charged(p, d), NEW t \in Tree, Meets(t, Whole(d), c)
  PROVE  Meets(t, x, d)
<1>1. t.sound /\ t.level \in 1..8 /\ t.deep \in Nat /\ x.room \in Int
  BY LevelsAre DEF Meets, Tree, Demand
<1>2. 2 * t.deep <= Twice(d) - 2 * MAX_NESTING + 2 * c
  BY DEF Meets, Whole
<1>3. Twice(d) \in Int /\ MAX_NESTING \in Nat /\ d \in Nat /\ c \in Nat /\ c <= MAX_NESTING
  BY TwiceSteps, ConstantsAssumption
<1>4. 2 * t.deep <= Twice(d)
  BY <1>1, <1>2, <1>3
<1>5. p.home \in Nat /\ p.pending \in Nat
  BY DEF Place
<1>6. CASE p.in
  <2>1. x.own /\ x.room >= NodeRoom(p) - 2 /\ p.home + 1 + p.pending <= d
    BY <1>6 DEF FitsExpr, Charged
  <2>2. Twice(d) <= Twice(p.home) - 2 * p.pending - 2 - 2 * MAX_NESTING + 2 * d
    BY <1>5, <2>1, ExpressionFits
  <2>3. Twice(p.home) \in Int /\ NodeRoom(p) = Twice(p.home) - 2 * p.pending - 2 * MAX_NESTING
    BY <1>3, <1>5 DEF Twice, NodeRoom
  <2>4. NodeRoom(p) \in Int /\ Twice(d) <= NodeRoom(p) - 2 + 2 * d
    BY <1>3, <1>5, <2>2, <2>3
  <2>5. 2 * t.deep <= x.room + 2 * d
    BY <1>1, <1>3, <1>4, <2>1, <2>4
  <2> QED
    BY <1>1, <2>1, <2>5 DEF Meets
<1>7. CASE ~p.in
  <2>1. ~x.own /\ x.room >= Twice(p.home) /\ d = p.home
    BY <1>7 DEF FitsExpr, Charged
  <2>2. 2 * t.deep <= x.room
    BY <1>1, <1>3, <1>4, <2>1
  <2> QED
    BY <1>1, <2>1, <2>2 DEF Meets
<1> QED
  BY <1>6, <1>7

LEMMA LeaveKeeps ==
  ASSUME IInv, TreeInv, Leave
  PROVE  TreeInv'
<1> DEFINE g == Head(goals)
           d == g[2]
<1>1. Parsing("leave") /\ depth' = d /\ Become(<<>>) /\ trees' = trees
  BY DEF Leave
<1>2. g \in Goals /\ g[1] = "leave" /\ depth \in 0..MAX_NESTING
  BY <1>1, Facing
<1>3. PICK p \in Place, x \in Demand, R \in Seq(Demand) :
           /\ Stands(Rest, p, <<x>> \o R) /\ Gives(g, x, p)
           /\ Lie(trees, ShapeBefore(g, <<x>> \o R), depth)
           /\ Charged(PlaceBefore(g, p), depth)
  <2>1. "leave" \notin Indifferent \cup {"items", "check", "leave_block"}
    BY DEF Indifferent
  <2> QED
    BY <1>1, <2>1, FacingTree
<1> HIDE DEF g
<1>4. FitsExpr(x, p) /\ x.level = 1 /\ Charged(p, d)
  BY <1>2, <1>3 DEF Gives
<1>5. d \in 0..MAX_NESTING /\ Whole(d) \in Demand
  BY <1>2, <1>3, WholeFits
<1>6. ShapeBefore(g, <<x>> \o R) = <<Whole(d)>> \o Frozen(R, d)
  <2>1. Tail(<<x>> \o R) = R
    BY <1>3, Cons
  <2> QED
    BY <1>2, <2>1 DEF ShapeBefore, Indifferent, Looping
<1> HIDE DEF d
<1>7. Frozen(R, d) \in Seq(Demand)
  BY <1>5, FrozenIs
<1>8. /\ trees # <<>> /\ trees[1] \in Tree /\ Meets(trees[1], Whole(d), depth)
      /\ Tail(trees) \in Seq(Tree) /\ Lie(Tail(trees), Frozen(R, d), depth)
  BY <1>3, <1>5, <1>6, <1>7, LieUncons, TreesAre
<1>9. Meets(trees[1], x, d)
  BY <1>2, <1>4, <1>5, <1>8, WholeIsExpression
<1>10. Lie(Tail(trees), R, d)
  BY <1>5, <1>8, LieFrozen
<1>11. trees = <<trees[1]>> \o Tail(trees)
  BY <1>8, TreesAre, Uncons
<1>12. Lie(trees, <<x>> \o R, d)
  <2>1. Lie(<<trees[1]>> \o Tail(trees), <<x>> \o R, d)
    BY <1>8, <1>9, <1>10, LieCons
  <2> QED
    BY <1>11, <2>1
<1>13. Stands(<<>> \o Rest, p, <<x>> \o R)
  BY <1>3, HarmlessNone DEF Harmless
<1> QED
  BY <1>1, <1>4, <1>12, <1>13, Seated, TreesAre

LEMMA OperatorsKeep ==
  ASSUME IInv, TreeInv, Operators
  PROVE  TreeInv'
<1> DEFINE g == Head(goals)
           l == g[2]
<1>1. Parsing("operators")
  BY DEF Operators
<1>2. g \in Goals /\ g[1] = "operators"
  BY <1>1, FacingTaker DEF Takers
<1>3. PICK p \in Place, x \in Demand, R \in Seq(Demand) :
           /\ Stands(Rest, p, <<x>> \o R) /\ Gives(g, x, p)
           /\ Lie(trees, Taken(g, x) \o R, depth) /\ Charged(p, depth)
  BY <1>1, FacingTaker DEF Takers
<1>4. \/ Expand(<<>>)
      \/ Step(1, Levels(l + 1) \o << <<"wrap", 2, l>>, g >>)
  BY DEF Operators
<1> HIDE DEF g
<1>5. l \in 1..5 /\ g = <<"operators", l>> /\ l \in 1..PrimaryLevel /\ l + 1 \in 1..PrimaryLevel /\ l + 1 \in 1..6
  BY <1>2, Kindly, LevelsAre
<1>6. FitsNode(x, p) /\ x.level <= l
  BY <1>2, <1>3 DEF Gives
<1> DEFINE y == AtLevel(x, l)
           z == AtLevel(x, l + 1)
           w == <<"wrap", 2, l>>
<1>7. Taken(g, x) = <<y>>
  BY <1>2 DEF Taken, Giving
<1>8. /\ y \in Demand /\ y.level = l /\ FitsNode(y, p) /\ y.own = x.own /\ y.room = x.room
      /\ z \in Demand /\ z.level = l + 1 /\ FitsNode(z, p)
      /\ AtLevel(y, l) = y /\ AtLevel(y, l + 1) = z
  <2>1. y.own = x.own /\ y.room = x.room /\ AtLevel(y, l) = y /\ AtLevel(y, l + 1) = z
    BY DEF AtLevel
  <2> QED
    BY <1>5, <1>6, <2>1, NodeFits
<1>9. x.own = y.own /\ y.room <= x.room /\ x.level <= y.level
  BY <1>6, <1>8 DEF Demand
<1>10. Lie(trees, <<y>> \o R, depth)
  BY <1>3, <1>7
<1> HIDE DEF y, z
<1>11. CASE Expand(<<>>)
  <2>1. Lie(trees, <<x>> \o R, depth)
    BY <1>8, <1>9, <1>10, LieEasier, TreesAre, ChargeRange
  <2>2. Stands(<<>> \o Rest, p, <<x>> \o R)
    BY <1>3, HarmlessNone DEF Harmless
  <2> QED
    BY <1>3, <1>11, <2>1, <2>2, Seated, TreesAre DEF Expand
<1>12. CASE Step(1, Levels(l + 1) \o <<w, g>>)
  <2>1. Stands(<<g>> \o Rest, p, <<y>> \o R)
    BY <1>3, <1>5, <1>6, PutOperators DEF y
  <2>2. Stands(<<w>> \o (<<g>> \o Rest), p, <<z>> \o (<<y>> \o R))
    <3>1. y.level <= l
      BY <1>5, <1>8
    <3>2. Stands(<<w>> \o (<<g>> \o Rest), p, <<AtLevel(y, l + 1)>> \o (<<AtLevel(y, l)>> \o R))
      <4> HIDE DEF l
      <4> QED
        BY <1>5, <1>8, <2>1, <3>1, PutWrapTwo
    <3> QED
      BY <1>8, <3>2
  <2>3. Settles(l + 1) /\ z.level <= l + 1 /\ <<y>> \o R \in Seq(Demand)
    BY <1>5, <1>8, LevelsSettle, Cons
  <2> HIDE DEF w, l
  <2>4. Stands(Levels(l + 1) \o (<<w>> \o (<<g>> \o Rest)), p, <<y>> \o R)
    BY <1>8, <2>2, <2>3 DEF Settles
  <2>5. w \in Goals /\ Rest \in Seq(Goals) /\ Levels(l + 1) \in Seq(Goals)
    <3>1. w \in Goals
      BY <1>5, LevelGoals DEF w
    <3> QED
      BY <1>3, <1>5, <3>1, Standing, LevelsOneByOne
  <2> DEFINE row == <<w, g>>
  <2>6. row \in Seq(Goals) /\ row \o Rest = <<w>> \o (<<g>> \o Rest)
    BY <1>2, <2>5, RowOfTwo
  <2> HIDE DEF row
  <2>7. (Levels(l + 1) \o row) \o Rest = Levels(l + 1) \o (row \o Rest)
    <3>1. Levels(l + 1) \in Seq(Goals) /\ row \in Seq(Goals) /\ Rest \in Seq(Goals)
      BY <2>5, <2>6
    <3> QED
      BY <3>1, ConcatAssociative
  <2>8. Stands((Levels(l + 1) \o row) \o Rest, p, <<y>> \o R)
    BY <2>4, <2>6, <2>7
  <2>9. Become(Levels(l + 1) \o row) /\ trees' = trees /\ depth' = depth
    BY <1>12 DEF Step, row
  <2> QED
    BY <1>3, <1>10, <2>8, <2>9, Seated, TreesAre
<1> QED
  BY <1>4, <1>11, <1>12

LEMMA WrapKeeps ==
  ASSUME IInv, TreeInv, Wrap
  PROVE  TreeInv'
<1> DEFINE g == Head(goals)
           l == g[3]
<1>1. Parsing("wrap")
  BY DEF Wrap
<1>2. g \in Goals /\ g[1] = "wrap"
  BY <1>1, FacingTaker DEF Takers
<1>3. PICK p \in Place, x \in Demand, R \in Seq(Demand) :
           /\ Stands(Rest, p, <<x>> \o R) /\ Gives(g, x, p)
           /\ Lie(trees, Taken(g, x) \o R, depth) /\ Charged(p, depth)
  BY <1>1, FacingTaker DEF Takers
<1>4. CASE depth >= MAX_NESTING
  BY <1>4, RefuseKeeps DEF Wrap, enter
<1>5. CASE ~(depth >= MAX_NESTING)
  <2>1. Built(g[2], g[3], 1) /\ Become(<<>>) /\ depth' = depth + 1
    BY <1>5 DEF Wrap, enter
  <2> HIDE DEF g
  <2>2. FitsNode(x, p) /\ x.level <= l /\ ((g[2] = 2 /\ l \in 1..5) \/ (g[2] = 1 /\ l = CastLevel))
    BY <1>2, <1>3, LevelsAre DEF Gives
  <2>3. x.own /\ p.in /\ l \in 1..PrimaryLevel
    BY <2>2, LevelsAre DEF FitsNode
  <2>4. depth \in Int /\ depth' \in Int /\ depth <= depth' /\ 1 \in Nat
    BY <2>1, ChargeRange
  <2>5. Charged(p, depth')
    <3>1. p.home \in Nat /\ p.pending \in Nat
      BY DEF Place
    <3> QED
      BY <1>3, <2>1, <2>3, <2>4, <3>1 DEF Charged
  <2>6. CASE g[2] = 2
    <3> DEFINE y == AtLevel(x, l + 1)
               z == AtLevel(x, l)
    <3>1. Taken(g, x) = <<y, z>> /\ l \in 1..5 /\ l + 1 \in 1..PrimaryLevel
      BY <1>2, <2>2, <2>6, LevelsAre DEF Taken, Giving
    <3>2. /\ y \in Demand /\ z \in Demand /\ y.level = l + 1 /\ z.level = l
          /\ y.own = x.own /\ z.own = x.own /\ y.room = x.room /\ z.room = x.room
      <4>1. l \in 1..PrimaryLevel /\ l + 1 \in 1..PrimaryLevel
        BY <2>3, <3>1
      <4> HIDE DEF l
      <4>2. y \in Demand /\ z \in Demand
        BY <4>1, DemandsMade
      <4>3. /\ y.level = l + 1 /\ y.own = x.own /\ y.room = x.room
            /\ z.level = l /\ z.own = x.own /\ z.room = x.room
        BY DEF AtLevel
      <4> HIDE DEF y, z
      <4> QED
        BY <4>2, <4>3
    <3>3. Lie(trees, <<y, z>> \o R, depth)
      BY <1>3, <3>1
    <3> HIDE DEF y, z
    <3>4. y.room + (IF y.own THEN 2 * depth ELSE 0) + 2 * 1 <= x.room + (IF x.own THEN 2 * depth' ELSE 0)
      BY <2>1, <2>3, <2>4, <3>2, DemandIs
    <3>5. Meets(trees[1], y, depth) /\ Meets(trees[2], z, depth) => Binds(l, 2)
      <4>1. trees[1] \in Tree /\ trees[2] \in Tree
        BY <3>2, <3>3, LieUnconsTwo, TreesAre
      <4>2. l < CastLevel
        BY <3>1, LevelsAre
      <4>3. Binds(l, 2) <=> trees[2].level >= l /\ trees[1].level > l
        <5>1. l \in 1..5
          BY <3>1
        <5> HIDE DEF l
        <5> QED
          BY <4>2, <5>1, LevelsAre DEF Binds
      <4>4. trees[1].level \in 1..8 /\ trees[2].level \in 1..8
        BY <4>1, LevelsAre DEF Tree
      <4> HIDE DEF l
      <4> QED
        BY <3>1, <3>2, <4>3, <4>4 DEF Meets
    <3>6. Built(2, l, 1)
      BY <2>1, <2>6
    <3> HIDE DEF l
    <3> QED
      BY <1>3, <2>1, <2>2, <2>3, <2>4, <2>5, <3>2, <3>3, <3>4, <3>5, <3>6, TwoKeep, TreesAre
  <2>7. CASE g[2] # 2
    <3> DEFINE y == AtLevel(x, CastLevel)
    <3>1. Taken(g, x) = <<y>> /\ g[2] = 1 /\ l = CastLevel /\ CastLevel \in 1..PrimaryLevel
      BY <1>2, <2>2, <2>7, LevelsAre DEF Taken, Giving
    <3>2. y \in Demand /\ y.level = CastLevel /\ y.own = x.own /\ y.room = x.room
      <4>1. y \in Demand
        BY <3>1, DemandsMade
      <4>2. y.level = CastLevel /\ y.own = x.own /\ y.room = x.room
        BY DEF AtLevel
      <4> HIDE DEF y
      <4> QED
        BY <4>1, <4>2
    <3>3. Lie(trees, <<y>> \o R, depth)
      BY <1>3, <3>1
    <3> HIDE DEF y
    <3>4. y.room + (IF y.own THEN 2 * depth ELSE 0) + 2 * 1 <= x.room + (IF x.own THEN 2 * depth' ELSE 0)
      BY <2>1, <2>3, <2>4, <3>2, DemandIs
    <3>5. Meets(trees[1], y, depth) => Binds(l, 1)
      <4>1. trees[1] \in Tree
        BY <3>2, <3>3, LieUncons, TreesAre
      <4>2. Binds(l, 1) <=> trees[1].level >= CastLevel
        BY <3>1, LevelsAre DEF Binds
      <4>3. trees[1].level \in 1..8 /\ CastLevel = 6
        BY <4>1, LevelsAre DEF Tree
      <4> QED
        BY <3>2, <4>2, <4>3 DEF Meets
    <3>6. Built(1, l, 1)
      BY <2>1, <3>1
    <3> HIDE DEF l
    <3> QED
      BY <1>3, <2>1, <2>2, <2>3, <2>4, <2>5, <3>2, <3>3, <3>4, <3>5, <3>6, OneKeeps, TreesAre
  <2> QED
    BY <2>6, <2>7
<1> QED
  BY <1>4, <1>5


LEMMA CastsKeep ==
  ASSUME IInv, TreeInv, parse_cast
  PROVE  TreeInv'
<1> DEFINE g == Head(goals)
           w == <<"wrap", 1, CastLevel>>
           c == Goal("casts")
           t == Goal("type")
<1>1. Parsing("casts")
  BY DEF parse_cast
<1>2. g \in Goals /\ g[1] = "casts"
  BY <1>1, FacingTaker DEF Takers
<1>3. PICK p \in Place, x \in Demand, R \in Seq(Demand) :
           /\ Stands(Rest, p, <<x>> \o R) /\ Gives(g, x, p)
           /\ Lie(trees, Taken(g, x) \o R, depth) /\ Charged(p, depth)
  BY <1>1, FacingTaker DEF Takers
<1> HIDE DEF g
<1>4. FitsNode(x, p) /\ x.level <= CastLevel
  BY <1>2, <1>3 DEF Gives
<1> DEFINE y == AtLevel(x, CastLevel)
<1>5. Taken(g, x) = <<y>>
  BY <1>2 DEF Taken, Giving
<1>6. /\ y \in Demand /\ y.level = CastLevel /\ FitsNode(y, p) /\ y.own = x.own /\ y.room = x.room
      /\ AtLevel(y, CastLevel) = y
  <2>1. y.own = x.own /\ y.room = x.room /\ AtLevel(y, CastLevel) = y
    BY DEF AtLevel
  <2> QED
    BY <1>4, <2>1, NodeFits, LevelsAre
<1>7. Lie(trees, <<y>> \o R, depth)
  BY <1>3, <1>5
<1>8. CASE look = "as"
  <2>1. Stands(<<c>> \o Rest, p, <<y>> \o R)
    BY <1>3, <1>4, PutCasts
  <2> HIDE DEF y
  <2>2. Stands(<<w>> \o (<<c>> \o Rest), p, <<y>> \o R)
    <3>1. y.level <= CastLevel
      BY <1>6, LevelsAre
    <3> QED
      BY <1>6, <2>1, <3>1, PutWrapOne
  <2>3. Stands(<<t>> \o (<<w>> \o (<<c>> \o Rest)), p, <<y>> \o R)
    BY <2>2, PutToken, IndifferentAre
  <2>4. t \in Goals /\ w \in Goals /\ c \in Goals /\ Rest \in Seq(Goals)
    BY <1>3, Standing, IndifferentAre, NamedGoals, LevelGoals DEF IndifferentGoals
  <2>5. Become(<<t, w, c>>) /\ trees' = trees /\ depth' = depth
    BY <1>8 DEF parse_cast, Step
  <2> HIDE DEF t, w, c
  <2>6. Stands(<<t, w, c>> \o Rest, p, <<y>> \o R)
    BY <2>3, <2>4, RowThree, Zenon
  <2> QED
    BY <1>3, <1>7, <2>5, <2>6, Seated, TreesAre
<1>9. CASE look # "as"
  <2>1. Expand(<<>>)
    BY <1>9 DEF parse_cast
  <2> HIDE DEF y
  <2>2. Lie(trees, <<x>> \o R, depth)
    <3>1. x.level <= y.level /\ x.own = y.own /\ y.room <= x.room
      BY <1>4, <1>6 DEF Demand
    <3> QED
      BY <1>6, <1>7, <3>1, LieEasier, TreesAre, ChargeRange
  <2>3. Stands(<<>> \o Rest, p, <<x>> \o R)
    BY <1>3, HarmlessNone DEF Harmless
  <2> QED
    BY <1>3, <2>1, <2>2, <2>3, Seated, TreesAre DEF Expand
<1> QED
  BY <1>8, <1>9

LEMMA UnaryKeeps ==
  ASSUME IInv, TreeInv, parse_unary
  PROVE  TreeInv'
<1>1. PICK p \in Place, x \in Demand, R \in Seq(Demand) :
           /\ Stands(Rest, p, <<x>> \o R) /\ Gives(Goal("unary"), x, p)
           /\ Lie(trees, R, depth) /\ Charged(p, depth)
  BY FacingGiving DEF parse_unary, Giving
<1>2. FitsNode(x, p) /\ x.level <= UnaryLevel
  BY <1>1 DEF Gives, Goal
<1>3. Gives(Goal("operand"), x, p) /\ Gives(Goal("primary"), x, p)
  BY <1>2 DEF Gives, Goal
<1>4. "operand" \in Giving /\ "primary" \in Giving
  BY DEF Giving
<1>5. Stands(<<Goal("operand")>> \o Rest, p, R) /\ Stands(<<Goal("primary")>> \o Rest, p, R)
  BY <1>1, <1>3, <1>4, PutName
<1>6. ASSUME NEW new, Stands(new \o Rest, p, R), Become(new), trees' = trees, depth' = depth
      PROVE  TreeInv'
  BY <1>1, <1>6, Seated, TreesAre
<1> QED
  BY <1>5, <1>6 DEF parse_unary, Step, Expand

LEMMA OperandKeeps ==
  ASSUME IInv, TreeInv, Operand
  PROVE  TreeInv'
<1>1. CASE depth >= MAX_NESTING
  BY <1>1, RefuseKeeps DEF Operand, enter
<1>2. CASE ~(depth >= MAX_NESTING)
  <2> DEFINE u == Goal("unary")
             m == Goal("negate")
  <2>1. PICK p \in Place, x \in Demand, R \in Seq(Demand) :
             /\ Stands(Rest, p, <<x>> \o R) /\ Gives(Goal("operand"), x, p)
             /\ Lie(trees, R, depth) /\ Charged(p, depth)
    BY FacingGiving DEF Operand, Giving
  <2> DEFINE q == [in |-> p.in, home |-> p.home, pending |-> p.pending + 1]
             n == Negand(x)
  <2>2. FitsNode(x, p) /\ x.level <= UnaryLevel
    BY <2>1 DEF Gives, Goal
  <2>3. p.in \in BOOLEAN /\ p.home \in Nat /\ p.pending \in Nat /\ q = [p EXCEPT !.pending = @ + 1] /\ q \in Place
    BY DEF Place
  <2>4. q.in = p.in /\ q.home = p.home /\ q.pending = p.pending + 1
    OBVIOUS
  <2>5. Stands(<<m>> \o Rest, q, <<n>> \o R)
    BY <2>1, <2>2, <2>3, PutNegate
  <2>6. n \in Demand /\ n.level = UnaryLevel /\ n.own = x.own /\ n.room = x.room - 2
    BY DemandsMade, DemandIs, LevelsAre
  <2> HIDE DEF q, n
  <2>7. FitsNode(n, q)
    <3>1. Twice(p.home) \in Int /\ MAX_NESTING \in Int
      BY <2>3, ConstantsAssumption DEF Twice
    <3>2. NodeRoom(q) = NodeRoom(p) - 2 /\ NodeRoom(p) \in Int
      BY <2>3, <2>4, <3>1 DEF NodeRoom
    <3>3. x.room \in Int
      BY DEF Demand
    <3> QED
      BY <2>2, <2>4, <2>6, <3>2, <3>3 DEF FitsNode
  <2>8. Gives(u, n, q) /\ "unary" \in Giving
    BY <2>6, <2>7, LevelsAre DEF Gives, Goal, Giving
  <2>9. Stands(<<u>> \o (<<m>> \o Rest), q, R)
    BY <2>5, <2>6, <2>8, PutName
  <2>10. Call(<<"unary", "negate">>) = <<u, m>>
    BY DEF Call
  <2>11. u \in Goals /\ m \in Goals /\ Rest \in Seq(Goals)
    <3>1. "negate" \in Kinds
      BY DEF Kinds
    <3> QED
      BY <2>1, <3>1, Standing, NamedGoals, GoalShapes DEF Giving, Goal
  <2> HIDE DEF u, m
  <2>12. Stands(<<u, m>> \o Rest, q, R)
    BY <2>9, <2>11, RowTwo, Zenon
  <2>13. Become(<<u, m>>) /\ trees' = trees /\ depth' = depth + 1
    BY <1>2, <2>10 DEF Operand, enter, Negated
  <2>14. Charged(q, depth')
    <3>1. p.in
      BY <2>2 DEF FitsNode
    <3> QED
      BY <2>1, <2>3, <2>4, <2>13, <3>1, ChargeRange DEF Charged
  <2>15. Lie(trees, R, depth')
    <3>1. depth \in Int /\ depth' \in Int /\ depth <= depth'
      BY <2>13, ChargeRange
    <3> QED
      BY <2>1, <3>1, LieGrows, TreesAre
  <2> QED
    BY <2>12, <2>13, <2>14, <2>15, Seated, TreesAre
<1> QED
  BY <1>1, <1>2

LEMMA NegateKeeps ==
  ASSUME IInv, TreeInv, Negate
  PROVE  TreeInv'
<1> DEFINE g == Head(goals)
<1>1. Parsing("negate") /\ Built(1, UnaryLevel, 1) /\ Become(<<>>) /\ depth' = depth
  BY DEF Negate
<1>2. g \in Goals /\ g[1] = "negate"
  BY <1>1, Facing
<1>3. PICK p \in Place, x \in Demand, R \in Seq(Demand) :
           /\ Stands(Rest, p, <<x>> \o R) /\ Gives(g, x, p)
           /\ Lie(trees, ShapeBefore(g, <<x>> \o R), depth)
           /\ Charged(PlaceBefore(g, p), depth)
  <2>1. "negate" \notin Indifferent \cup {"items", "check", "leave_block"}
    BY DEF Indifferent
  <2> QED
    BY <1>1, <2>1, FacingTree
<1> HIDE DEF g
<1>4. FitsNode(x, p) /\ x.level <= UnaryLevel
  BY <1>2, <1>3 DEF Gives
<1> DEFINE y == Negand(x)
<1>5. ShapeBefore(g, <<x>> \o R) = <<y>> \o R
  <2>1. Tail(<<x>> \o R) = R /\ (<<x>> \o R)[1] = x
    BY <1>3, Cons
  <2>2. ShapeBefore(g, <<x>> \o R) = Taken(g, x) \o R
    BY <1>2, <2>1 DEF ShapeBefore, Indifferent, Looping
  <2>3. Taken(g, x) = <<y>>
    BY <1>2 DEF Taken, Giving
  <2> QED
    BY <2>2, <2>3
<1>6. Charged(p, depth')
  <2>1. PlaceBefore(g, p) = [p EXCEPT !.pending = @ + 1]
    BY <1>2 DEF PlaceBefore
  <2>2. p.in /\ p.home \in Nat /\ p.pending \in Nat
    BY <1>4 DEF FitsNode, Place
  <2>3. [p EXCEPT !.pending = @ + 1] = [in |-> p.in, home |-> p.home, pending |-> p.pending + 1]
    BY DEF Place
  <2>4. p.home + 1 + (p.pending + 1) <= depth
    BY <1>3, <2>1, <2>2, <2>3 DEF Charged
  <2> QED
    BY <1>1, <2>2, <2>4, ChargeRange DEF Charged
<1>7. y \in Demand /\ y.level = UnaryLevel /\ y.own = x.own /\ y.room = x.room - 2 /\ x.room \in Int
  BY DemandsMade, DemandIs, LevelsAre
<1>8. Lie(trees, <<y>> \o R, depth)
  BY <1>3, <1>5
<1> HIDE DEF y
<1>9. /\ depth \in Int /\ depth' \in Int /\ depth <= depth' /\ 1 \in Nat /\ UnaryLevel \in 1..PrimaryLevel
      /\ x.own = y.own
  BY <1>1, <1>7, ChargeRange, LevelsAre
<1>10. y.room + (IF y.own THEN 2 * depth ELSE 0) + 2 * 1 <= x.room + (IF x.own THEN 2 * depth' ELSE 0)
  BY <1>1, <1>7, <1>9
<1>11. Meets(trees[1], y, depth) => Binds(UnaryLevel, 1)
  <2>1. trees[1] \in Tree
    BY <1>7, <1>8, LieUncons, TreesAre
  <2>2. trees[1].level \in 1..8 /\ UnaryLevel = 7
    BY <2>1, LevelsAre DEF Tree
  <2>3. Binds(UnaryLevel, 1) <=> trees[1].level >= UnaryLevel
    BY LevelsAre DEF Binds
  <2> QED
    BY <1>7, <2>2, <2>3 DEF Meets
<1> QED
  BY <1>1, <1>3, <1>4, <1>6, <1>7, <1>8, <1>9, <1>10, <1>11, OneKeeps, TreesAre

LEMMA PrimaryKeeps ==
  ASSUME IInv, TreeInv, parse_primary
  PROVE  TreeInv'
<1>1. PICK p \in Place, x \in Demand, R \in Seq(Demand) :
           /\ Stands(Rest, p, <<x>> \o R) /\ Gives(Goal("primary"), x, p)
           /\ Lie(trees, R, depth) /\ Charged(p, depth)
  BY FacingGiving DEF parse_primary, Giving
<1>2. FitsNode(x, p)
  BY <1>1 DEF Gives, Goal
<1>3. CASE /\ trees' = <<Leaf>> \o trees /\ Become(<<>>) /\ depth' = depth
  <2>1. Meets(Leaf, x, depth)
    BY <1>1, <1>2, Fitting, ChargeRange
  <2> QED
    BY <1>1, <1>3, <2>1, Given, LeavesAre, TreesAre
<1>4. ASSUME NEW new, Stands(new \o Rest, p, R), NEW n, Step(n, new)
      PROVE  TreeInv'
  BY <1>1, <1>4, Seated, TreesAre DEF Step
<1>5. Stands(<<Goal("after_name")>> \o Rest, p, R)
  <2>1. Gives(Goal("after_name"), x, p) /\ "after_name" \in Giving
    BY <1>2 DEF Gives, Goal, Giving
  <2> QED
    BY <1>1, <2>1, PutName
<1>6. Stands(<<Goal("expr"), eat(")"), Goal("group")>> \o Rest, p, R)
  <2> DEFINE e == Goal("expr")
             b == eat(")")
             m == Goal("group")
             y == AtLevel(x, 1)
  <2>1. y \in Demand /\ FitsExpr(y, p) /\ y.level = 1
    BY <1>2, NodeFits, LevelsAre
  <2>2. Stands(<<m>> \o Rest, p, <<y>> \o R)
    BY <1>1, PutGroup
  <2>3. Stands(<<b>> \o (<<m>> \o Rest), p, <<y>> \o R)
    BY <2>2, PutToken, IndifferentAre
  <2> HIDE DEF y
  <2>4. Gives(e, y, p) /\ "expr" \in Giving
    BY <2>1 DEF Gives, Goal, Giving
  <2>5. Stands(<<e>> \o (<<b>> \o (<<m>> \o Rest)), p, R)
    BY <2>1, <2>3, <2>4, PutName
  <2>6. e \in Goals /\ b \in Goals /\ m \in Goals /\ Rest \in Seq(Goals)
    BY <1>1, Standing, NamedGoals, IndifferentAre DEF Giving, IndifferentGoals
  <2> HIDE DEF e, b, m
  <2>7. Stands(<<e, b, m>> \o Rest, p, R)
    BY <2>5, <2>6, RowThree, Zenon
  <2> QED
    BY <2>7 DEF e, b, m
<1> QED
  BY <1>3, <1>4, <1>5, <1>6, RefuseKeeps DEF parse_primary, Push

LEMMA AfterNameKeeps ==
  ASSUME IInv, TreeInv, AfterName
  PROVE  TreeInv'
<1>1. PICK p \in Place, x \in Demand, R \in Seq(Demand) :
           /\ Stands(Rest, p, <<x>> \o R) /\ Gives(Goal("after_name"), x, p)
           /\ Lie(trees, R, depth) /\ Charged(p, depth)
  BY FacingGiving DEF AfterName, Giving
<1>2. FitsNode(x, p)
  BY <1>1 DEF Gives, Goal
<1> DEFINE y == Child(x)
           root == Root(1)
           args == Goal("arguments")
           expr == Goal("expr")
<1>3. y \in Demand /\ FitsExpr(y, p) /\ y.level = 1
  BY <1>2, NodeFits
<1>4. Stands(<<root>> \o Rest, p, <<y>> \o R)
  BY <1>1, PutRootOne
<1> HIDE DEF y
<1>5. /\ root \in Goals /\ args \in Goals /\ expr \in Goals /\ eat(")") \in Goals /\ eat("]") \in Goals
      /\ Rest \in Seq(Goals)
  <2>1. root \in Goals /\ args \in Goals /\ expr \in Goals
    BY NamedGoals DEF Giving, Looping
  <2> QED
    BY <1>1, <2>1, Standing, IndifferentAre DEF IndifferentGoals
<1>6. /\ Gives(args, y, p) /\ "arguments" \in Looping
      /\ Gives(expr, y, p) /\ "expr" \in Giving
  BY <1>3 DEF Gives, Goal, Giving, Looping
<1>7. Stands(<<eat(")")>> \o (<<root>> \o Rest), p, <<y>> \o R)
  BY <1>4, PutToken, IndifferentAre
<1>8. Stands(<<args>> \o (<<eat(")")>> \o (<<root>> \o Rest)), p, <<y>> \o R)
  BY <1>3, <1>6, <1>7, PutLoop
<1>9. Stands(<<eat("]")>> \o (<<root>> \o Rest), p, <<y>> \o R)
  BY <1>4, PutToken, IndifferentAre
<1>10. Stands(<<expr>> \o (<<eat("]")>> \o (<<root>> \o Rest)), p, R)
  BY <1>3, <1>6, <1>9, PutName
<1> HIDE DEF root, args, expr
<1>11. Stands(<<args, eat(")"), root>> \o Rest, p, <<y>> \o R)
  BY <1>5, <1>8, RowThree, Zenon
<1>12. Stands(<<expr, eat("]"), root>> \o Rest, p, R)
  BY <1>5, <1>10, RowThree, Zenon
<1>13. CASE trees' = <<None>> \o trees /\ depth' = depth /\ Become(<<args, eat(")"), root>>)
  <2>1. Meets(None, y, depth)
    BY <1>1, <1>3, Fitting, ChargeRange
  <2>2. <<None>> \o trees \in Seq(Tree) /\ Lie(<<None>> \o trees, <<y>> \o R, depth)
    BY <1>1, <1>3, <2>1, LieCons, LeavesAre, TreesAre
  <2> QED
    BY <1>1, <1>11, <1>13, <2>2, Seated
<1>14. CASE Step(1, <<expr, eat("]"), root>>)
  BY <1>1, <1>12, <1>14, Seated, TreesAre DEF Step
<1>15. CASE trees' = <<Leaf>> \o trees /\ Become(<<>>) /\ depth' = depth
  <2>1. Meets(Leaf, x, depth)
    BY <1>1, <1>2, Fitting, ChargeRange
  <2> QED
    BY <1>1, <1>15, <2>1, Given, LeavesAre, TreesAre
<1> QED
  BY <1>13, <1>14, <1>15 DEF AfterName, Push, root, args, expr

-----------------------------------------------------------------------------
(* The trees: the invariant and what follows from it.                      *)

LEMMA InitTreeInv == Init => TreeInv
<1> SUFFICES ASSUME Init
             PROVE  TreeInv
  OBVIOUS
<1>1. trees = <<>> /\ goals = <<Goal("items")>> /\ depth = 0
  BY DEF Init
<1>2. Stands(goals, Top, <<>>)
  BY <1>1, ItemsStand
<1>3. Lie(trees, <<>>, depth)
  BY <1>1 DEF Lie
<1>4. Charged(Top, depth)
  BY <1>1 DEF Charged, Top
<1>5. goals # <<>> /\ trees \in Seq(Tree)
  BY <1>1
<1> QED
  BY <1>2, <1>3, <1>4, <1>5 DEF TreeInv

LEMMA NothingMovesTrees ==
  ASSUME TreeInv, UNCHANGED <<goals, trees, depth>>
  PROVE  TreeInv'
BY DEF TreeInv

LEMMA NextTreeInv == IInv /\ TreeInv /\ [Next]_vars => TreeInv'
<1> SUFFICES ASSUME IInv, TreeInv, [Next]_vars
             PROVE  TreeInv'
  OBVIOUS
<1>1. CASE LookAtItem \/ LookAtStatement \/ UNCHANGED vars
  BY <1>1, NothingMovesTrees DEF LookAtItem, LookAtStatement, LookAhead, vars
<1>2. CASE Eat \/ Ident \/ Optional
  BY <1>2, TokensKeep
<1>3. CASE Build \/ Join
  BY <1>3, BuildKeeps, JoinKeeps
<1>4. CASE Items /\ ~LookAtItem
  BY <1>4, DeclarationsKeep, ItemsKeep, FunctionKeeps, CheckKeeps DEF Items
<1>5. CASE Bodies /\ ~LookAtStatement
  BY <1>5, BlockKeeps, LeaveBlockKeeps, StatementsKeep, StatementKeeps, ValuesKeep, ArgumentsKeep
  DEF Bodies
<1>6. CASE Expressions
  BY <1>6, ExprKeeps, LeaveKeeps, OperatorsKeep, WrapKeeps, CastsKeep, UnaryKeeps, OperandKeeps,
     NegateKeeps, PrimaryKeeps, AfterNameKeeps, GroupKeeps
  DEF Expressions
<1> QED
  BY <1>1, <1>2, <1>3, <1>4, <1>5, <1>6 DEF Next


LEMMA HeadIsFirst ==
  ASSUME IInv, NEW k, Parsing(k)
  PROVE  goals # <<>> /\ Head(goals) = goals[1] /\ goals[1][1] = k
BY DEF IInv, Parsing, Paid

LEMMA TreesBalance == ASSUME IInv, TreeInv PROVE BudgetBalances
<1>1. ASSUME Parsing("statement")
      PROVE  depth = OpenBlocks
  <2>1. goals # <<>> /\ goals[1][1] = "statement"
    BY <1>1, HeadIsFirst
  <2>2. PICK q, made : Stands(goals, q, made) /\ Charged(q, depth)
    BY <2>1 DEF TreeInv
  <2>3. goals[1] # Goal("items")
    BY <2>1 DEF Goal
  <2>4. PICK p \in Place, shape \in Seq(Demand) :
          Admits(goals[1], p, shape) /\ q = PlaceBefore(goals[1], p)
    BY <2>2, <2>3, PopGoal
  <2> DEFINE g == goals[1]
             x == shape[1]
  <2>5. g[1] = "statement"
    BY <2>1
  <2>6. Admits(g, p, shape) /\ q = PlaceBefore(g, p)
    BY <2>4
  <2> HIDE DEF g
  <2>7. q = p
    BY <2>5, <2>6 DEF PlaceBefore
  <2>8. Gives(g, x, p)
    BY <2>5, <2>6 DEF Admits, Indifferent
  <2> HIDE DEF x
  <2>9. ~p.in
    BY <2>5, <2>8 DEF Gives, FitsBody
  <2>10. q.home = OpenBlocks
    BY <2>2, <2>7, <2>9, OutsideExpressions DEF OpenBlocks
  <2> QED
    BY <2>2, <2>7, <2>9, <2>10 DEF Charged
<1>2. ASSUME Parsing("items")
      PROVE  depth = 0
  <2>1. goals # <<>> /\ goals[1][1] = "items"
    BY <1>2, HeadIsFirst
  <2>2. PICK q, made : Stands(goals, q, made) /\ Charged(q, depth)
    BY <2>1 DEF TreeInv
  <2>3. q = Top
    BY <2>1, <2>2, AtItems
  <2> QED
    BY <2>2, <2>3 DEF Charged, Top
<1> QED
  BY <1>1, <1>2 DEF BudgetBalances

\* Every tree meets some demand.
LEMMA TreesMeet ==
  ASSUME TreeInv, NEW i \in DOMAIN trees
  PROVE  trees[i] \in Tree /\ \E x \in Demand : Meets(trees[i], x, depth)
<1>1. trees \in Seq(Tree) /\ trees # <<>> /\ i \in 1..Len(trees)
  BY DEF TreeInv
<1>2. PICK p, shape : Stands(goals, p, shape) /\ Lie(trees, shape, depth)
  BY <1>1 DEF TreeInv
<1>3. shape \in Seq(Demand)
  BY <1>2, Standing
<1>4. i \in 1..Len(shape) /\ Meets(trees[i], shape[i], depth)
  BY <1>1, <1>2 DEF Lie
<1> QED
  BY <1>1, <1>3, <1>4

LEMMA TreesSound == ASSUME TreeInv PROVE Precedence
BY TreesMeet DEF Precedence, Meets

\* The cap is even, so that halving it loses nothing.
LEMMA HalfTheCap ==
  ASSUME MAX_NESTING > 0, NEW n \in Nat, 2 * n <= Cap
  PROVE  n <= 1 + (MAX_NESTING * (MAX_NESTING - 1)) \div 2
<1> DEFINE m == MAX_NESTING * (MAX_NESTING - 1)
<1>1. m \in Nat
  <2>1. MAX_NESTING \in Nat /\ MAX_NESTING - 1 \in Nat
    BY ConstantsAssumption
  <2> QED
    BY <2>1
<1>2. Cap = m + 2
  <2>1. Twice(1) = (MAX_NESTING - 1) * (MAX_NESTING - 1 + 1) /\ MAX_NESTING - 1 + 1 = MAX_NESTING
    BY ConstantsAssumption DEF Twice
  <2>2. (MAX_NESTING - 1) * MAX_NESTING = m
    BY ConstantsAssumption
  <2> QED
    BY <2>1, <2>2 DEF Cap
<1> HIDE DEF m
<1>3. n - 1 <= m \div 2
  BY <1>1, <1>2
<1>4. n <= 1 + m \div 2
  BY <1>1, <1>3
<1> QED
  BY <1>4 DEF m

LEMMA TreesStayShallow == ASSUME IInv, TreeInv PROVE TreeBounded
<1> SUFFICES ASSUME NEW i \in DOMAIN trees
             PROVE  trees[i].deep <= 1 + (MAX_NESTING * (MAX_NESTING - 1)) \div 2
  BY DEF TreeBounded
<1>1. PICK x \in Demand : Meets(trees[i], x, depth)
  BY TreesMeet
<1>2. trees[i].deep \in Nat
  BY TreesMeet DEF Tree
<1>3. depth \in Int /\ depth <= MAX_NESTING /\ MAX_NESTING \in Nat
  BY ChargeRange
<1>4. Cap \in Int
  BY <1>3 DEF Cap, Twice
<1>5. 2 * trees[i].deep <= Cap
  <2>1. x.room \in Int
    BY DEF Demand
  <2>2. CASE x.own
    <3>1. x.room + 2 * MAX_NESTING <= Cap /\ 2 * trees[i].deep <= x.room + 2 * depth
      BY <1>1, <2>2 DEF Demand, Meets
    <3> QED
      BY <1>2, <1>3, <1>4, <2>1, <3>1
  <2>3. CASE ~x.own
    <3>1. x.room <= Cap /\ 2 * trees[i].deep <= x.room + 0
      BY <1>1, <2>3 DEF Demand, Meets
    <3> QED
      BY <1>2, <1>4, <2>1, <3>1
  <2> QED
    BY <2>2, <2>3
<1>6. CASE MAX_NESTING > 0
  BY <1>2, <1>5, <1>6, HalfTheCap
<1>7. CASE MAX_NESTING = 0
  <2>1. Cap = 2
    BY <1>7 DEF Cap, Twice
  <2>2. (MAX_NESTING * (MAX_NESTING - 1)) \div 2 = 0
    BY <1>7
  <2> QED
    BY <1>2, <1>5, <2>1, <2>2
<1> QED
  BY <1>3, <1>6, <1>7

LEMMA TreesStand == Spec => [](IInv /\ TreeInv)
<1>1. Init => IInv /\ TreeInv
  BY InitIInv, InitTreeInv
<1>2. IInv /\ TreeInv /\ [Next]_vars => (IInv /\ TreeInv)'
  BY NextIInv, NextTreeInv
<1> QED
  BY <1>1, <1>2, PTL DEF Spec

\* What an expression charged is given back, all of it and no more, on every way through
\* parse_expr, its operator loops and parse_unary: a statement starts with the charge of the blocks
\* around it, and an item with none, for every limit and whatever came before.
THEOREM BudgetBalancesAlways == Spec => []BudgetBalances
<1>1. IInv /\ TreeInv => BudgetBalances
  BY TreesBalance
<1> QED
  BY <1>1, TreesStand, PTL

\* Every node parse_binary's levels, parse_cast and parse_unary build has the operands their
\* precedence gives it: tighter ones below looser ones, one level leaning left, for input of any
\* length and any limit.
THEOREM PrecedenceAlways == Spec => []Precedence
<1>1. IInv /\ TreeInv => Precedence
  BY TreesSound
<1> QED
  BY <1>1, TreesStand, PTL

\* MAX_NESTING alone bounds every tree there ever is while parsing, before tree_depth sees one: a
\* chain as long as the charge that is left may stand on top of each level of nesting.
THEOREM TreeBoundedAlways == Spec => []TreeBounded
<1>1. IInv /\ TreeInv => TreeBounded
  BY TreesStayShallow
<1> QED
  BY <1>1, TreesStand, PTL
=============================================================================
