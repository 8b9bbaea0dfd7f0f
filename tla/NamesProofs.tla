---------------------------- MODULE NamesProofs ----------------------------
(***************************************************************************)
(* Theorems about Names, for every set of identifiers and reserved words.    *)
(*                                                                          *)
(* The invariant ties the checker's scopes, one for each open block, to what *)
(* was live when the block was opened (ScopesMatch), and keeps of each live  *)
(* declaration what the checker asked when it was made (Checked).           *)
(***************************************************************************)
EXTENDS Names, SequenceTheorems, TLAPS

Scopes == UNION {[S -> Nat] : S \in SUBSET Identifiers}

\* How many declarations the b-th scope stands for.
UpTo(b) == IF b = Len(scopes) THEN Len(live) ELSE blocks[b]

ScopesMatch ==
  /\ scopes \in Seq(Scopes) /\ Len(scopes) = Len(blocks) + 1
  /\ \A a, b \in DOMAIN blocks : a <= b => blocks[a] <= blocks[b]
  /\ \A b \in DOMAIN scopes :
       /\ \A i \in 1..UpTo(b) : live[i].name \in DOMAIN scopes[b]
       /\ \A n \in DOMAIN scopes[b] :
            scopes[b][n] \in 1..UpTo(b) /\ live[scopes[b][n]].name = n

Once == \A i, j \in DOMAIN live : live[i].name = live[j].name => i = j

\* Parameters come before the body.
Staged ==
  /\ stage = "module" => Len(live) = 0
  /\ stage # "body" => Len(blocks) = 0 /\ \A i \in DOMAIN live : live[i].role # "local"
  /\ \A i \in DOMAIN live, j \in DOMAIN live :
       live[i].role = "local" /\ live[j].role # "local" => j < i

\* What was asked of each declaration, of two of them, and of the head.
CheckedName(i) ==
  /\ live[i].name \notin RustWords \union constants
  /\ live[i].name \notin Prefixed
  /\ live[i].role # "local" /\ signature.exported =>
       Lower[live[i].name] \notin Prefixed \union PascalWords
CheckedPair(i, j) ==
  /\ live[i].role # "local" /\ live[j].role # "local" =>
       (SameName(live[i].name, live[j].name) => i = j)
  /\ live[i].role # "local" /\ live[j].role = "array" =>
       ~SameName(live[i].name, Companion[live[j].name])
CheckedHead ==
  stage = "body" =>
    /\ signature.returns # "scalar" => signature.exported
    /\ signature.fallible =>
         \A i \in DOMAIN live :
           live[i].role # "local" => ~SameName(live[i].name, "out_value")
Checked ==
  /\ \A i \in DOMAIN live : CheckedName(i)
  /\ \A i, j \in DOMAIN live : CheckedPair(i, j)
  /\ CheckedHead

ModuleNames ==
  /\ DistinctNames(errors) /\ DistinctNames(constants) /\ DistinctNames(functions)
  /\ \A c \in constants : c # "result" /\ ~Clashes(c, errors)

IInv == TypeOK /\ ScopesMatch /\ Once /\ Staged /\ Checked /\ ModuleNames

----------------------------------------------------------------------------

LEMMA PrefixOf ==
  ASSUME NEW S, NEW s \in Seq(S), NEW k \in 0..Len(s)
  PROVE  /\ SubSeq(s, 1, k) \in Seq(S) /\ Len(SubSeq(s, 1, k)) = k
         /\ \A i \in 1..k : SubSeq(s, 1, k)[i] = s[i]
<1>1. k \in Int /\ \A i \in 1..k : s[i] \in S
  OBVIOUS
<1> QED BY <1>1, SubSeqProperties, SMT

LEMMA InitIInv == Init => IInv
<1> SUFFICES ASSUME Init PROVE IInv
  OBVIOUS
<1>1. /\ Len(live) = 0 /\ live \in Seq([name : Identifiers, role : Roles])
      /\ Len(blocks) = 0 /\ blocks \in Seq(0..Len(live))
      /\ scopes \in Seq(Scopes) /\ Len(scopes) = 1 /\ DOMAIN scopes[1] = {}
  <2>1. [n \in {} |-> 0] \in [{} -> Nat]
    OBVIOUS
  <2>2. [n \in {} |-> 0] \in Scopes
    BY <2>1 DEF Scopes
  <2> QED BY <2>2 DEF Init
<1>2. stage = "module" /\ signature \in Signatures
      /\ errors = {} /\ constants = {} /\ functions = {}
  BY DEF Init
<1>3. TypeOK
  BY <1>1, <1>2 DEF TypeOK
<1>4. ScopesMatch /\ Once /\ Staged
  BY <1>1, <1>2 DEF ScopesMatch, Once, Staged, UpTo
<1>5. Checked /\ ModuleNames
  BY <1>1, <1>2 DEF Checked, CheckedHead, ModuleNames, DistinctNames, Clashes
<1> QED BY <1>3, <1>4, <1>5 DEF IInv

\* A declaration of a new name keeps the scopes in step with what is live.
LEMMA DeclareKeeps ==
  ASSUME TypeOK, ScopesMatch, Once,
         NEW n \in Identifiers, NEW role \in Roles, Declare(n, role), blocks' = blocks,
         \A i \in DOMAIN live : live[i].name # n
  PROVE  /\ live' \in Seq([name : Identifiers, role : Roles])
         /\ blocks' \in Seq(0..Len(live')) /\ Len(live') = Len(live) + 1
         /\ live'[Len(live) + 1] = Declaration(n, role)
         /\ \A i \in 1..Len(live) : live'[i] = live[i]
         /\ ScopesMatch' /\ Once'
         /\ \A b \in DOMAIN scopes' : \A m \in DOMAIN scopes'[b] :
              m \in Identifiers /\ scopes'[b][m] \in DOMAIN live'
<1> DEFINE L == Len(live)
           D == Len(scopes)
<1>1. /\ live \in Seq([name : Identifiers, role : Roles]) /\ L \in Nat
      /\ Declaration(n, role) \in [name : Identifiers, role : Roles]
      /\ blocks \in Seq(0..L) /\ scopes \in Seq(Scopes) /\ D \in DOMAIN scopes
  BY DEF TypeOK, ScopesMatch, Declaration
<1>2. /\ live' \in Seq([name : Identifiers, role : Roles]) /\ Len(live') = L + 1
      /\ live'[L + 1] = Declaration(n, role)
      /\ \A i \in 1..L : live'[i] = live[i]
  BY <1>1 DEF Declare
<1>3. blocks' \in Seq(0..Len(live'))
  BY <1>1, <1>2
<1>4. With(scopes[D], n, L + 1) \in Scopes
  <2>1. PICK S \in SUBSET Identifiers : scopes[D] \in [S -> Nat]
    BY <1>1 DEF Scopes
  <2>2. With(scopes[D], n, L + 1) \in [S \union {n} -> Nat]
    BY <2>1, <1>1 DEF With
  <2> QED BY <2>2 DEF Scopes
<1>5. /\ scopes' \in Seq(Scopes) /\ Len(scopes') = D
      /\ scopes'[D] = With(scopes[D], n, L + 1)
      /\ \A b \in 1..D : b # D => scopes'[b] = scopes[b]
  BY <1>1, <1>4 DEF Declare
<1>6. /\ DOMAIN scopes'[D] = DOMAIN scopes[D] \union {n}
      /\ scopes'[D][n] = L + 1
      /\ \A m \in DOMAIN scopes[D] : m # n => scopes'[D][m] = scopes[D][m]
  BY <1>5 DEF With
<1>8. ASSUME NEW b \in DOMAIN scopes, b # D
      PROVE  UpTo(b)' = UpTo(b) /\ UpTo(b) \in 0..L /\ scopes'[b] = scopes[b]
  <2>1. b \in 1..Len(blocks) /\ blocks[b] \in 0..L
    BY <1>1, <1>8 DEF ScopesMatch
  <2>2. UpTo(b) = blocks[b]
    BY <1>8 DEF UpTo
  <2>3. UpTo(b)' = blocks[b]
    BY <1>5, <1>8 DEF UpTo
  <2>4. b \in 1..D
    BY <1>1, <1>8
  <2> QED BY <2>1, <2>2, <2>3, <2>4, <1>5, <1>8
<1>9. ASSUME NEW b \in DOMAIN scopes'
      PROVE  /\ \A i \in 1..UpTo(b)' : live'[i].name \in DOMAIN scopes'[b]
             /\ \A m \in DOMAIN scopes'[b] :
                  scopes'[b][m] \in 1..UpTo(b)' /\ live'[scopes'[b][m]].name = m
  <2>1. b \in DOMAIN scopes
    BY <1>1, <1>5, <1>9
  <2>2. /\ \A i \in 1..UpTo(b) : live[i].name \in DOMAIN scopes[b]
        /\ \A m \in DOMAIN scopes[b] :
             scopes[b][m] \in 1..UpTo(b) /\ live[scopes[b][m]].name = m
    BY <2>1 DEF ScopesMatch
  <2>3. CASE b # D
    <3>1. /\ UpTo(b)' = UpTo(b) /\ scopes'[b] = scopes[b]
          /\ \A i \in 1..UpTo(b) : live'[i] = live[i]
      BY <2>1, <2>3, <1>1, <1>2, <1>8
    <3> QED BY <2>2, <3>1
  <2>4. CASE b = D
    <3>0. UpTo(b)' = L + 1 /\ UpTo(b) = L
      BY <2>4, <1>1, <1>2, <1>5 DEF UpTo
    <3>1. ASSUME NEW i \in 1..(L + 1) PROVE live'[i].name \in DOMAIN scopes'[b]
      <4>1. CASE i = L + 1
        BY <4>1, <2>4, <1>2, <1>6 DEF Declaration
      <4>2. CASE i \in 1..L
        BY <4>2, <3>0, <2>2, <2>4, <1>2, <1>6
      <4> QED BY <4>1, <4>2, <1>1
    <3>2. ASSUME NEW m \in DOMAIN scopes'[b]
          PROVE  scopes'[b][m] \in 1..(L + 1) /\ live'[scopes'[b][m]].name = m
      <4>1. CASE m = n
        BY <4>1, <2>4, <1>1, <1>2, <1>6 DEF Declaration
      <4>2. CASE m # n
        <5>1. m \in DOMAIN scopes[b] /\ scopes'[b][m] = scopes[b][m]
          BY <4>2, <2>4, <1>6, <3>2
        <5> QED BY <5>1, <3>0, <2>2, <1>1, <1>2
      <4> QED BY <4>1, <4>2
    <3> QED BY <3>0, <3>1, <3>2
  <2> QED BY <2>3, <2>4
<1>10. ScopesMatch'
  BY <1>1, <1>5, <1>9 DEF ScopesMatch
<1>11. Once'
  <2> SUFFICES ASSUME NEW i \in 1..(L + 1), NEW j \in 1..(L + 1), live'[i].name = live'[j].name
               PROVE  i = j
    BY <1>2 DEF Once
  <2>1. \A k \in 1..L : live'[k].name = live[k].name /\ live[k].name # n
    BY <1>1, <1>2
  <2>2. live'[L + 1].name = n
    BY <1>2 DEF Declaration
  <2>0. \A x, y \in 1..L : live[x].name = live[y].name => x = y
    BY <1>1 DEF Once
  <2>3. CASE i \in 1..L /\ j \in 1..L
    BY <2>0, <2>1, <2>3
  <2>4. CASE i = L + 1
    BY <2>1, <2>2, <2>4, <1>1
  <2>5. CASE j = L + 1 /\ i \in 1..L
    BY <2>1, <2>2, <2>5, <1>1
  <2> QED BY <2>3, <2>4, <2>5, <1>1
<1>12. ASSUME NEW b \in DOMAIN scopes', NEW m \in DOMAIN scopes'[b]
       PROVE  m \in Identifiers /\ scopes'[b][m] \in DOMAIN live'
  <2>1. scopes'[b] \in Scopes
    BY <1>5, <1>12
  <2>2. m \in Identifiers
    BY <2>1, <1>12 DEF Scopes
  <2>3. UpTo(b)' \in 0..(L + 1)
    <3>1. b \in DOMAIN scopes /\ L \in 0..(L + 1) /\ L + 1 \in 0..(L + 1)
      BY <1>1, <1>5, <1>12
    <3>2. CASE b = D
      BY <3>1, <3>2, <1>1, <1>2, <1>5 DEF UpTo
    <3>3. CASE b # D
      BY <3>1, <3>3, <1>1, <1>8
    <3> QED BY <3>2, <3>3
  <2> QED BY <2>2, <2>3, <1>2, <1>9, <1>12
<1> QED BY <1>2, <1>3, <1>10, <1>11, <1>12

\* Opening a block copies the scope of the enclosing one.
LEMMA OpenKeeps ==
  ASSUME TypeOK, ScopesMatch, OpenBlock
  PROVE  /\ blocks' \in Seq(0..Len(live')) /\ ScopesMatch' /\ live' = live
         /\ \A b \in DOMAIN scopes' : \A m \in DOMAIN scopes'[b] :
              m \in Identifiers /\ scopes'[b][m] \in DOMAIN live'
<1> DEFINE L == Len(live)
           D == Len(scopes)
<1>1. /\ live \in Seq([name : Identifiers, role : Roles]) /\ L \in Nat
      /\ blocks \in Seq(0..L) /\ scopes \in Seq(Scopes)
      /\ D = Len(blocks) + 1 /\ D \in Nat /\ D > 0 /\ scopes[D] \in Scopes
      /\ DOMAIN blocks = 1..(D - 1) /\ DOMAIN scopes = 1..D
  BY DEF TypeOK, ScopesMatch
<1>2. /\ live' = live /\ blocks' \in Seq(0..L) /\ Len(blocks') = D
      /\ blocks'[D] = L /\ \A a \in 1..(D - 1) : blocks'[a] = blocks[a]
  BY <1>1 DEF OpenBlock
<1>3. /\ scopes' \in Seq(Scopes) /\ Len(scopes') = D + 1 /\ scopes'[D + 1] = scopes[D]
      /\ \A b \in 1..D : scopes'[b] = scopes[b]
  BY <1>1 DEF OpenBlock, Innermost
<1>4. ASSUME NEW b \in 1..D PROVE UpTo(b)' = UpTo(b)
  <2>1. UpTo(b)' = blocks'[b]
    BY <1>1, <1>3 DEF UpTo
  <2>2. CASE b = D
    BY <2>1, <2>2, <1>2 DEF UpTo
  <2>3. CASE b # D
    BY <2>1, <2>3, <1>1, <1>2 DEF UpTo
  <2> QED BY <2>2, <2>3
<1>5. UpTo(D) = L
  BY DEF UpTo
<1>6. ASSUME NEW b \in 1..D
      PROVE  /\ \A i \in 1..UpTo(b) : live[i].name \in DOMAIN scopes[b]
             /\ \A m \in DOMAIN scopes[b] :
                  scopes[b][m] \in 1..UpTo(b) /\ live[scopes[b][m]].name = m
  BY <1>1 DEF ScopesMatch
<1>7. ASSUME NEW b \in 1..(D + 1)
      PROVE  /\ \A i \in 1..UpTo(b)' : live[i].name \in DOMAIN scopes'[b]
             /\ \A m \in DOMAIN scopes'[b] :
                  scopes'[b][m] \in 1..UpTo(b)' /\ live[scopes'[b][m]].name = m
  <2>1. CASE b \in 1..D
    BY <2>1, <1>3, <1>4, <1>6
  <2>2. CASE b = D + 1
    <3>1. UpTo(b)' = L
      BY <2>2, <1>2, <1>3 DEF UpTo
    <3>2. scopes'[b] = scopes[D] /\ D \in 1..D
      BY <2>2, <1>1, <1>3
    <3> QED BY <3>1, <3>2, <1>5, <1>6
  <2> QED BY <2>1, <2>2, <1>1
<1>8. \A a, b \in DOMAIN blocks' : a <= b => blocks'[a] <= blocks'[b]
  <2> SUFFICES ASSUME NEW a \in 1..D, NEW b \in 1..D, a <= b PROVE blocks'[a] <= blocks'[b]
    BY <1>1, <1>2
  <2>1. CASE b = D
    BY <2>1, <1>1, <1>2
  <2>2. CASE b # D
    <3>1. a \in 1..(D - 1) /\ b \in 1..(D - 1)
      BY <2>2, <1>1
    <3> QED BY <3>1, <1>1, <1>2 DEF ScopesMatch
  <2> QED BY <2>1, <2>2
<1>9. ScopesMatch'
  BY <1>1, <1>2, <1>3, <1>7, <1>8 DEF ScopesMatch
<1>10. \A b \in DOMAIN scopes' : \A m \in DOMAIN scopes'[b] :
         m \in Identifiers /\ scopes'[b][m] \in DOMAIN live'
  <2>1. \A b \in 1..(D + 1) : \E c \in 1..D : scopes'[b] = scopes[c]
    BY <1>1, <1>3
  <2>2. \A c \in 1..D : \A m \in DOMAIN scopes[c] :
           m \in Identifiers /\ scopes[c][m] \in DOMAIN live
    BY <1>1 DEF TypeOK
  <2> QED BY <2>1, <2>2, <1>2, <1>3
<1> QED BY <1>2, <1>9, <1>10

\* Closing a block forgets what was declared in it, and the scope kept for it.
LEMMA CloseKeeps ==
  ASSUME TypeOK, ScopesMatch, Close
  PROVE  /\ live' \in Seq([name : Identifiers, role : Roles])
         /\ Len(live') <= Len(live)
         /\ \A i \in 1..Len(live') : live'[i] = live[i]
         /\ blocks' \in Seq(0..Len(live')) /\ ScopesMatch'
         /\ \A b \in DOMAIN scopes' : \A m \in DOMAIN scopes'[b] :
              m \in Identifiers /\ scopes'[b][m] \in DOMAIN live'
<1> DEFINE B == Len(blocks)
           K == blocks[B]
<1>1. /\ live \in Seq([name : Identifiers, role : Roles]) /\ Len(live) \in Nat
      /\ blocks \in Seq(0..Len(live)) /\ scopes \in Seq(Scopes)
      /\ Len(scopes) = B + 1 /\ B \in Nat /\ B > 1 /\ K \in 0..Len(live)
      /\ DOMAIN blocks = 1..B /\ DOMAIN scopes = 1..(B + 1)
      /\ \A a \in 1..B : blocks[a] \in 0..K
  BY DEF TypeOK, ScopesMatch, Close
<1>2. /\ live' \in Seq([name : Identifiers, role : Roles]) /\ Len(live') = K
      /\ \A i \in 1..K : live'[i] = live[i]
  <2>1. K \in 0..Len(live) /\ live' = SubSeq(live, 1, K)
    BY <1>1 DEF Close
  <2>2. live \in Seq([name : Identifiers, role : Roles])
    BY <1>1
  <2> HIDE DEF K
  <2> QED BY <2>1, <2>2, PrefixOf
<1>3. /\ blocks' = SubSeq(blocks, 1, B - 1) /\ Len(blocks') = B - 1
      /\ blocks' \in Seq(0..Len(live)) /\ DOMAIN blocks' = 1..(B - 1)
      /\ \A a \in 1..(B - 1) : blocks'[a] = blocks[a]
  <2>1. 1 \in 1..B /\ B - 1 \in 1..B /\ blocks' = SubSeq(blocks, 1, B - 1)
    BY <1>1 DEF Close
  <2> QED BY <2>1, <1>1
<1>4. blocks' \in Seq(0..K)
  BY <1>1, <1>3
<1>5. /\ scopes' \in Seq(Scopes) /\ Len(scopes') = B
      /\ \A b \in 1..B : scopes'[b] = scopes[b]
  BY <1>1 DEF Close, Outer
<1>6. ASSUME NEW b \in 1..B
      PROVE  UpTo(b)' = blocks[b] /\ UpTo(b) = blocks[b] /\ blocks[b] \in 0..K
  <2>1. UpTo(b) = blocks[b] /\ blocks[b] \in 0..K
    BY <1>1 DEF UpTo
  <2>2. CASE b = B
    BY <2>1, <2>2, <1>2, <1>5 DEF UpTo
  <2>3. CASE b # B
    <3>1. B \in Nat
      BY <1>1
    <3>2. b \in 1..(B - 1)
      BY <2>3, <3>1
    <3> QED BY <2>1, <2>3, <3>2, <1>3, <1>5 DEF UpTo
  <2> QED BY <2>1, <2>2, <2>3
<1>7. ASSUME NEW b \in 1..B
      PROVE  /\ \A i \in 1..UpTo(b)' : live'[i].name \in DOMAIN scopes'[b]
             /\ \A m \in DOMAIN scopes'[b] :
                  scopes'[b][m] \in 1..UpTo(b)' /\ live'[scopes'[b][m]].name = m
  <2>1. /\ \A i \in 1..UpTo(b) : live[i].name \in DOMAIN scopes[b]
        /\ \A m \in DOMAIN scopes[b] :
             scopes[b][m] \in 1..UpTo(b) /\ live[scopes[b][m]].name = m
    <3>1. b \in DOMAIN scopes
      BY <1>1
    <3> QED BY <3>1 DEF ScopesMatch
  <2>2. /\ scopes'[b] = scopes[b]
        /\ \A i \in 1..blocks[b] : live'[i] = live[i]
    BY <1>1, <1>2, <1>5, <1>6
  <2>3. UpTo(b)' = blocks[b] /\ UpTo(b) = blocks[b]
    BY <1>6
  <2> QED BY <2>1, <2>2, <2>3
<1>8. \A a, b \in DOMAIN blocks' : a <= b => blocks'[a] <= blocks'[b]
  <2>1. \A a, b \in 1..B : a <= b => blocks[a] <= blocks[b]
    BY <1>1 DEF ScopesMatch
  <2> SUFFICES ASSUME NEW a \in 1..(B - 1), NEW b \in 1..(B - 1), a <= b
               PROVE  blocks'[a] <= blocks'[b]
    BY <1>3
  <2> QED BY <2>1, <1>1, <1>3
<1>9. ScopesMatch'
  <2>1. Len(scopes') = Len(blocks') + 1 /\ DOMAIN scopes' = 1..B
    BY <1>1, <1>3, <1>5
  <2> QED BY <2>1, <1>5, <1>7, <1>8 DEF ScopesMatch
<1>10. ASSUME NEW b \in DOMAIN scopes', NEW m \in DOMAIN scopes'[b]
       PROVE  m \in Identifiers /\ scopes'[b][m] \in DOMAIN live'
  <2>1. b \in 1..B /\ b \in DOMAIN scopes /\ scopes'[b] = scopes[b]
    BY <1>1, <1>5
  <2>2. scopes'[b][m] \in 1..blocks[b]
    BY <2>1, <1>6, <1>7
  <2> QED BY <2>1, <2>2, <1>1, <1>2, <1>6 DEF TypeOK
<1> QED BY <1>1, <1>2, <1>4, <1>9, <1>10

----------------------------------------------------------------------------

\* The module level: nothing is live yet.
LEMMA ModuleStep ==
  ASSUME IInv, NEW n \in Identifiers,
         DeclareError(n) \/ DeclareConstant(n) \/ DeclareFunction(n)
  PROVE  IInv'
<1>1. /\ stage = "module" /\ Len(live) = 0 /\ live \in Seq([name : Identifiers, role : Roles])
      /\ UNCHANGED <<signature, stage, live, blocks, scopes>>
  BY DEF IInv, Staged, TypeOK, DeclareError, DeclareConstant, DeclareFunction
<1>2. errors' \subseteq Identifiers /\ constants' \subseteq Identifiers
        /\ functions' \subseteq Identifiers
  BY DEF IInv, TypeOK, DeclareError, DeclareConstant, DeclareFunction
<1>3. TypeOK'
  BY <1>1, <1>2 DEF IInv, TypeOK
<1>4. ScopesMatch' /\ Once' /\ Staged'
  BY <1>1 DEF IInv, ScopesMatch, UpTo, Once, Staged
<1>5. Checked'
  BY <1>1 DEF Checked, CheckedHead
<1>6. ModuleNames'
  <2> USE DEF IInv, ModuleNames, DistinctNames, Clashes, SameName
  <2>1. CASE DeclareError(n)
    BY <2>1 DEF DeclareError
  <2>2. CASE DeclareConstant(n)
    BY <2>2 DEF DeclareConstant
  <2>3. CASE DeclareFunction(n)
    BY <2>3 DEF DeclareFunction
  <2> QED BY <2>1, <2>2, <2>3
<1> QED BY <1>3, <1>4, <1>5, <1>6 DEF IInv

LEMMA ParameterStep ==
  ASSUME IInv, NEW n \in Identifiers, NEW role \in Roles \ {"local"}, DeclareParameter(n, role)
  PROVE  IInv'
<1> DEFINE L == Len(live)
<1>1. /\ TypeOK /\ ScopesMatch /\ Once /\ Staged /\ Checked /\ ModuleNames
      /\ live \in Seq([name : Identifiers, role : Roles]) /\ L \in Nat
      /\ stage # "body" /\ Len(blocks) = 0 /\ \A i \in 1..L : live[i].role # "local"
  BY DEF IInv, TypeOK, Staged, DeclareParameter
<1>2. /\ stage' = "parameters" /\ Declare(n, role) /\ check_parameter(n, role)
      /\ UNCHANGED <<signature, module, blocks>>
  BY DEF DeclareParameter
<1>3. /\ ~Clashes(n, Named(Parameters)) /\ ~Clashes(n, Lengths(Arrays))
      /\ role = "array" => ~Clashes(Companion[n], Named(Parameters) \union {n})
      /\ ~Reserved(n, signature.exported) /\ ~HasPrefix(n, signature.exported)
      /\ n \notin constants
  BY <1>2 DEF check_parameter
<1>4. \A i \in 1..L :
        /\ ~SameName(live[i].name, n)
        /\ live[i].role = "array" => ~SameName(Companion[live[i].name], n)
        /\ role = "array" => ~SameName(live[i].name, Companion[n])
  BY <1>1, <1>3 DEF Clashes, Named, Lengths, Parameters, Arrays
<1>5. role = "array" => ~SameName(n, Companion[n])
  BY <1>3 DEF Clashes
<1>6. \A i \in DOMAIN live : live[i].name # n
  BY <1>1, <1>4 DEF SameName
<1>7. /\ live' \in Seq([name : Identifiers, role : Roles])
      /\ blocks' \in Seq(0..Len(live')) /\ Len(live') = L + 1
      /\ live'[L + 1] = Declaration(n, role)
      /\ \A i \in 1..L : live'[i] = live[i]
      /\ ScopesMatch' /\ Once'
      /\ \A b \in DOMAIN scopes' : \A m \in DOMAIN scopes'[b] :
           m \in Identifiers /\ scopes'[b][m] \in DOMAIN live'
  BY <1>1, <1>2, <1>6, DeclareKeeps
<1>8. TypeOK'
  BY <1>1, <1>2, <1>7 DEF TypeOK, module, ScopesMatch
<1>9. Staged'
  <2>1. \A i \in 1..(L + 1) : live'[i].role # "local"
    <3>1. live'[L + 1].role # "local" /\ \A i \in 1..L : live'[i].role # "local"
      BY <1>1, <1>7 DEF Declaration
    <3> QED BY <3>1, <1>1
  <2> QED BY <2>1, <1>1, <1>2, <1>7 DEF Staged
<1>10. \A i \in DOMAIN live' : CheckedName(i)'
  <2>1. n \notin RustWords \union constants \union Prefixed
        /\ (signature.exported => Lower[n] \notin Prefixed \union PascalWords)
    BY <1>3, LexicalAssumption DEF Reserved, HasPrefix
  <2> SUFFICES ASSUME NEW i \in 1..(L + 1) PROVE CheckedName(i)'
    BY <1>7
  <2>2. CASE i = L + 1
    <3>1. live'[i].name = n
      BY <2>2, <1>7 DEF Declaration
    <3> QED BY <3>1, <2>1, <1>2 DEF CheckedName, module
  <2>3. CASE i \in 1..L
    BY <2>3, <1>1, <1>2, <1>7 DEF Checked, CheckedName, module
  <2> QED BY <2>2, <2>3, <1>1
<1>11. \A i, j \in DOMAIN live' : CheckedPair(i, j)'
  <2> SUFFICES ASSUME NEW i \in 1..(L + 1), NEW j \in 1..(L + 1) PROVE CheckedPair(i, j)'
    BY <1>7
  <2>0. live'[L + 1].name = n /\ live'[L + 1].role = role
    BY <1>7 DEF Declaration
  <2>1. CASE i \in 1..L /\ j \in 1..L
    <3>1. CheckedPair(i, j) /\ live'[i] = live[i] /\ live'[j] = live[j]
      BY <2>1, <1>1, <1>7 DEF Checked
    <3> QED BY <3>1 DEF CheckedPair
  <2>2. CASE i = L + 1 /\ j \in 1..L
    BY <2>0, <2>2, <1>4, <1>7 DEF CheckedPair, SameName
  <2>3. CASE i \in 1..L /\ j = L + 1
    BY <2>0, <2>3, <1>4, <1>7 DEF CheckedPair, SameName
  <2>4. CASE i = L + 1 /\ j = L + 1
    BY <2>0, <2>4, <1>5 DEF CheckedPair
  <2> QED BY <2>1, <2>2, <2>3, <2>4, <1>1
<1>12. Checked'
  BY <1>2, <1>10, <1>11 DEF Checked, CheckedHead
<1>13. ModuleNames'
  BY <1>1, <1>2 DEF ModuleNames, module
<1> QED BY <1>7, <1>8, <1>9, <1>12, <1>13 DEF IInv

LEMMA LocalStep ==
  ASSUME IInv, NEW n \in Identifiers, Let(n) \/ TryLet(n)
  PROVE  IInv'
<1> DEFINE L == Len(live)
<1>1. /\ TypeOK /\ ScopesMatch /\ Once /\ Staged /\ Checked /\ ModuleNames
      /\ live \in Seq([name : Identifiers, role : Roles]) /\ L \in Nat
  BY DEF IInv, TypeOK
<1>2. /\ stage = "body" /\ LocalName(n) /\ n \notin DOMAIN Innermost /\ Declare(n, "local")
      /\ UNCHANGED <<signature, module, stage, blocks>>
  BY DEF Let, TryLet, TryLetAllowed
<1>3. /\ Len(scopes) \in DOMAIN scopes /\ UpTo(Len(scopes)) = L
  BY <1>1 DEF ScopesMatch, TypeOK, UpTo
<1>4. \A i \in DOMAIN live : live[i].name # n
  <2>1. \A i \in 1..L : live[i].name \in DOMAIN scopes[Len(scopes)]
    BY <1>1, <1>3 DEF ScopesMatch
  <2> QED BY <2>1, <1>1, <1>2 DEF Innermost
<1>5. "local" \in Roles
  BY DEF Roles
<1>6. /\ live' \in Seq([name : Identifiers, role : Roles])
      /\ blocks' \in Seq(0..Len(live')) /\ Len(live') = L + 1
      /\ live'[L + 1] = Declaration(n, "local")
      /\ \A i \in 1..L : live'[i] = live[i]
      /\ ScopesMatch' /\ Once'
      /\ \A b \in DOMAIN scopes' : \A m \in DOMAIN scopes'[b] :
           m \in Identifiers /\ scopes'[b][m] \in DOMAIN live'
  BY <1>1, <1>2, <1>4, <1>5, DeclareKeeps
<1>7. live'[L + 1].name = n /\ live'[L + 1].role = "local"
  BY <1>6 DEF Declaration
<1>8. TypeOK'
  BY <1>1, <1>2, <1>6 DEF TypeOK, module, ScopesMatch
<1>9. Staged'
  <2> SUFFICES ASSUME NEW i \in 1..(L + 1), NEW j \in 1..(L + 1),
                      live'[i].role = "local", live'[j].role # "local"
               PROVE  j < i
    BY <1>2, <1>6 DEF Staged
  <2>1. j \in 1..L
    BY <1>1, <1>7
  <2>2. CASE i \in 1..L
    <3>1. live'[i] = live[i] /\ live'[j] = live[j] /\ i \in DOMAIN live /\ j \in DOMAIN live
      BY <2>1, <2>2, <1>1, <1>6
    <3> QED BY <3>1, <1>1 DEF Staged
  <2>3. CASE i = L + 1
    BY <2>1, <2>3, <1>1
  <2> QED BY <2>2, <2>3, <1>1
<1>10. \A i \in DOMAIN live' : CheckedName(i)'
  <2>1. n \notin RustWords \union constants \union Prefixed
    BY <1>2 DEF LocalName, Reserved, HasPrefix
  <2> SUFFICES ASSUME NEW i \in 1..(L + 1) PROVE CheckedName(i)'
    BY <1>6
  <2>2. CASE i = L + 1
    BY <2>1, <2>2, <1>2, <1>7 DEF CheckedName, module
  <2>3. CASE i \in 1..L
    BY <2>3, <1>1, <1>2, <1>6 DEF Checked, CheckedName, module
  <2> QED BY <2>2, <2>3, <1>1
<1>11. \A i, j \in DOMAIN live' : CheckedPair(i, j)'
  <2> SUFFICES ASSUME NEW i \in 1..(L + 1), NEW j \in 1..(L + 1) PROVE CheckedPair(i, j)'
    BY <1>6
  <2>1. CASE i \in 1..L /\ j \in 1..L
    <3>1. CheckedPair(i, j) /\ live'[i] = live[i] /\ live'[j] = live[j]
      BY <2>1, <1>1, <1>6 DEF Checked
    <3> QED BY <3>1 DEF CheckedPair
  <2>2. CASE i = L + 1
    BY <2>2, <1>7 DEF CheckedPair
  <2>3. CASE j = L + 1
    BY <2>3, <1>7 DEF CheckedPair
  <2> QED BY <2>1, <2>2, <2>3, <1>1
<1>12. CheckedHead'
  <2>1. ASSUME NEW i \in 1..(L + 1), signature.fallible, live'[i].role # "local"
        PROVE  ~SameName(live'[i].name, "out_value")
    <3>1. i \in 1..L
      BY <2>1, <1>1, <1>7
    <3> QED BY <3>1, <2>1, <1>1, <1>2, <1>6 DEF Checked, CheckedHead
  <2> QED BY <2>1, <1>1, <1>2, <1>6 DEF Checked, CheckedHead
<1>13. ModuleNames'
  BY <1>1, <1>2 DEF ModuleNames, module
<1> QED BY <1>6, <1>8, <1>9, <1>10, <1>11, <1>12, <1>13 DEF IInv, Checked

LEMMA BlockStep ==
  ASSUME IInv, BeginBody \/ Open \/ Close
  PROVE  IInv'
<1>1. /\ TypeOK /\ ScopesMatch /\ Once /\ Staged /\ Checked /\ ModuleNames
      /\ live \in Seq([name : Identifiers, role : Roles]) /\ Len(live) \in Nat
      /\ UNCHANGED <<signature, module>>
  BY DEF IInv, TypeOK, BeginBody, Open, Close
<1>2. /\ live' \in Seq([name : Identifiers, role : Roles]) /\ Len(live') \in 0..Len(live)
      /\ \A i \in 1..Len(live') : live'[i] = live[i]
      /\ blocks' \in Seq(0..Len(live')) /\ ScopesMatch'
      /\ \A b \in DOMAIN scopes' : \A m \in DOMAIN scopes'[b] :
           m \in Identifiers /\ scopes'[b][m] \in DOMAIN live'
  <2>1. CASE OpenBlock
    BY <2>1, <1>1, OpenKeeps
  <2>2. CASE Close
    BY <2>2, <1>1, CloseKeeps
  <2> QED BY <2>1, <2>2 DEF BeginBody, Open
<1>3. stage' = "body"
  BY DEF BeginBody, Open, Close
<1>4. TypeOK'
  BY <1>1, <1>2, <1>3 DEF TypeOK, module, ScopesMatch
<1>5. Once' /\ Staged'
  <2>1. DOMAIN live' \subseteq DOMAIN live /\ \A i \in DOMAIN live' : live'[i] = live[i]
    BY <1>1, <1>2
  <2>2. Once'
    BY <2>1, <1>1 DEF Once
  <2>3. Staged'
    BY <2>1, <1>1, <1>3 DEF Staged
  <2> QED BY <2>2, <2>3
<1>6. \A i \in DOMAIN live' : CheckedName(i)'
  BY <1>1, <1>2 DEF Checked, CheckedName, module
<1>7. \A i, j \in DOMAIN live' : CheckedPair(i, j)'
  BY <1>1, <1>2 DEF Checked, CheckedPair
<1>8. CheckedHead'
  <2>1. /\ signature.returns # "scalar" => signature.exported
        /\ signature.fallible =>
             \A i \in DOMAIN live :
               live[i].role # "local" => ~SameName(live[i].name, "out_value")
    <3>1. CASE BeginBody
      BY <3>1 DEF BeginBody, Clashes, Named, Parameters
    <3>2. CASE Open \/ Close
      BY <3>2, <1>1 DEF Open, Close, Checked, CheckedHead
    <3> QED BY <3>1, <3>2
  <2>2. signature' = signature
    BY <1>1
  <2>3. DOMAIN live' \subseteq DOMAIN live /\ \A i \in DOMAIN live' : live'[i] = live[i]
    BY <1>1, <1>2
  <2> QED BY <2>1, <2>2, <2>3 DEF CheckedHead
<1>9. ModuleNames'
  BY <1>1 DEF ModuleNames, module
<1> QED BY <1>2, <1>4, <1>5, <1>6, <1>7, <1>8, <1>9 DEF IInv, Checked

LEMMA NextIInv == IInv /\ [Next]_vars => IInv'
<1> SUFFICES ASSUME IInv, [Next]_vars PROVE IInv'
  OBVIOUS
<1>1. ASSUME NEW n \in Identifiers,
             DeclareError(n) \/ DeclareConstant(n) \/ DeclareFunction(n)
      PROVE  IInv'
  BY <1>1, ModuleStep
<1>2. ASSUME NEW n \in Identifiers, NEW role \in Roles \ {"local"}, DeclareParameter(n, role)
      PROVE  IInv'
  BY <1>2, ParameterStep
<1>3. ASSUME NEW n \in Identifiers, Let(n) \/ TryLet(n)
      PROVE  IInv'
  BY <1>3, LocalStep
<1>4. CASE BeginBody \/ Open \/ Close
  BY <1>4, BlockStep
<1>5. CASE UNCHANGED vars
  BY <1>5 DEF vars, module, IInv, TypeOK, ScopesMatch, UpTo, Once, Staged, Checked, CheckedName,
    CheckedPair, CheckedHead, ModuleNames
<1> QED BY <1>1, <1>2, <1>3, <1>4, <1>5 DEF Next

----------------------------------------------------------------------------
(* What the invariant says of the emitted text.                             *)

LEMMA OneMeaningHolds ==
  ASSUME IInv
  PROVE  OneMeaning
<1>1. /\ TypeOK /\ ScopesMatch /\ Once /\ Checked /\ ModuleNames
      /\ live \in Seq([name : Identifiers, role : Roles])
  BY DEF IInv, TypeOK
<1>2. /\ \A i \in 1..Len(live) : live[i].name \in DOMAIN Innermost
      /\ \A n \in DOMAIN Innermost :
           Innermost[n] \in 1..Len(live) /\ live[Innermost[n]].name = n
  <2>1. Len(scopes) \in DOMAIN scopes /\ UpTo(Len(scopes)) = Len(live)
    BY <1>1 DEF ScopesMatch, TypeOK, UpTo
  <2> QED BY <2>1, <1>1 DEF ScopesMatch, Innermost
<1>3. DOMAIN Innermost = Named(DOMAIN live)
  <2>1. DOMAIN live = 1..Len(live)
    BY <1>1
  <2> QED BY <2>1, <1>2 DEF Named
<1>4. Named(DOMAIN live) \intersect constants = {}
  BY <1>1 DEF Checked, CheckedName, Named
<1> QED BY <1>1, <1>2, <1>3, <1>4 DEF OneMeaning, Once, ModuleNames

\* Where a binding of the text comes from.
LEMMA ParameterBinding ==
  ASSUME NEW b \in rust_params
  PROVE  \/ \E i \in DOMAIN live : live[i].role # "local" /\ b = Binding(4 * i, live[i].name, i)
         \/ \E i \in DOMAIN live :
              live[i].role = "array" /\ b = Binding(4 * i + 1, Companion[live[i].name], 0)
BY DEF rust_params, Parameters, Arrays

LEMMA BufferBinding ==
  ASSUME NEW b \in buffer
  PROVE  signature.returns # "scalar" /\ b.name \in Triple /\ b.of = 0 /\ b.at = EndOfParameters
BY DEF buffer, Binding

LEMMA NoCaptureHolds ==
  ASSUME IInv
  PROVE  NoCapture
<1>1. /\ Once /\ Staged /\ Checked /\ live \in Seq([name : Identifiers, role : Roles])
      /\ \A i \in DOMAIN live : live[i].name \notin Prefixed
  BY DEF IInv, TypeOK, Checked, CheckedName
<1>2. Named(DOMAIN live) \intersect (Temporaries \union {b.name : b \in buffer}) = {}
  BY <1>1, BufferBinding, LexicalAssumption DEF Named
<1>3. ASSUME NEW i \in DOMAIN live PROVE Resolved(live[i].name).of = i
  <2> DEFINE n == live[i].name
             Latest(b) == b.name = n /\ \A c \in RustBindings : c.name = n => c.at <= b.at
             own == Binding(4 * i, n, i)
  <2>1. own \in RustBindings /\ own.name = n /\ own.at = 4 * i /\ own.of = i /\ i \in Nat
    BY <1>1 DEF RustBindings, Binding
  <2>2. ASSUME NEW b \in RustBindings, b.name = n
        PROVE  (b.at = 4 * i /\ b.of = i) \/ (b.at \in Nat /\ b.at < 4 * i)
    <3>1. CASE \E j \in DOMAIN live : b = Binding(4 * j, live[j].name, j)
      BY <3>1, <2>2, <1>1 DEF Once, Binding
    <3>2. CASE \E j \in DOMAIN live :
                 live[j].role = "array" /\ b = Binding(4 * j + 1, Companion[live[j].name], 0)
      <4>1. PICK j \in DOMAIN live :
              live[j].role = "array" /\ b = Binding(4 * j + 1, Companion[live[j].name], 0)
        BY <3>2
      <4>2. b.at = 4 * j + 1 /\ SameName(n, Companion[live[j].name])
        BY <4>1, <2>2 DEF Binding, SameName
      <4>3. live[i].role = "local"
        BY <4>1, <4>2, <1>1 DEF Checked, CheckedPair
      <4>4. j < i /\ i \in Nat /\ j \in Nat
        BY <4>1, <4>3, <1>1 DEF Staged
      <4> QED BY <4>2, <4>4, <2>2
    <3>3. CASE b \in buffer
      BY <3>3, <2>2, <1>1, BufferBinding, LexicalAssumption
    <3> QED BY <2>2, <3>1, <3>2, <3>3, ParameterBinding DEF RustBindings
  <2>3. \A c \in RustBindings : c.name = n => c.at <= 4 * i
    BY <2>1, <2>2
  <2>4. Latest(own)
    BY <2>1, <2>3
  <2>5. Resolved(n) \in RustBindings /\ Latest(Resolved(n))
    BY <2>1, <2>4 DEF Resolved
  <2>6. Resolved(n).name = n /\ 4 * i <= Resolved(n).at
    BY <2>1, <2>5
  <2>7. \/ Resolved(n).at = 4 * i /\ Resolved(n).of = i
        \/ Resolved(n).at \in Nat /\ Resolved(n).at < 4 * i
    <3> HIDE DEF n, own, Latest
    <3> QED BY <2>2, <2>5, <2>6
  <2>8. ASSUME NEW k \in Nat, Resolved(n).at \in Nat, Resolved(n).at < k, k <= Resolved(n).at
        PROVE  FALSE
    BY <2>8
  <2>9. 4 * i \in Nat
    BY <2>1
  <2> HIDE DEF n, own, Latest
  <2>10. Resolved(n).of = i
    BY <2>6, <2>7, <2>8, <2>9
  <2> QED BY <2>10 DEF n
<1> QED BY <1>2, <1>3 DEF NoCapture

\* A binding of the declarations, however its name is read, is one of three.
LEMMA DelphiBinding ==
  ASSUME NEW b \in delphi_signature
  PROVE  \/ \E i \in DOMAIN live : live[i].role # "local" /\ b = Binding(4 * i, live[i].name, i)
         \/ \E i \in DOMAIN live :
              live[i].role = "array" /\ b = Binding(4 * i + 1, Companion[live[i].name], 0)
         \/ /\ b = Binding(EndOfParameters, b.name, 0)
            /\ \/ signature.returns # "scalar" /\ b.name \in Triple
               \/ signature.fallible /\ b.name = "out_value"
BY ParameterBinding DEF delphi_signature, buffer, Binding

LEMMA TextIsAcceptedHolds ==
  ASSUME IInv
  PROVE  TextIsAccepted
<1>1. /\ Checked /\ ModuleNames /\ live \in Seq([name : Identifiers, role : Roles])
  BY DEF IInv, TypeOK
<1>2. Named(DOMAIN live) \intersect RustWords = {}
  BY <1>1 DEF Checked, CheckedName, Named
<1>0. \A i \in DOMAIN live : live[i].name \in Identifiers
  <2>1. live \in Seq([name : Identifiers, role : Roles])
    BY <1>1
  <2>2. DOMAIN live = 1..Len(live)
    BY <2>1
  <2> SUFFICES ASSUME NEW i \in 1..Len(live) PROVE live[i].name \in Identifiers
    BY <2>2
  <2>3. live[i] \in [name : Identifiers, role : Roles]
    BY <2>1, ElementOfSeq
  <2> QED BY <2>3
<1> DEFINE IsParameter(b) ==
             \E i \in DOMAIN live : live[i].role # "local" /\ b = Binding(4 * i, live[i].name, i)
           IsLength(b) ==
             \E i \in DOMAIN live :
               live[i].role = "array" /\ b = Binding(4 * i + 1, Companion[live[i].name], 0)
           IsGenerated(b) ==
             /\ b = Binding(EndOfParameters, b.name, 0)
             /\ \/ signature.returns # "scalar" /\ b.name \in Triple
                \/ signature.fallible /\ b.name = "out_value"
<1>3. \A b \in delphi_signature : IsParameter(b) \/ IsLength(b) \/ IsGenerated(b)
  BY DelphiBinding
<1>4. ASSUME NEW a, NEW b, IsParameter(a), IsParameter(b), SameName(a.name, b.name)
      PROVE  a = b
  BY <1>4, <1>1 DEF Checked, CheckedPair, Binding
<1>5. ASSUME NEW a, NEW b, IsLength(a), IsLength(b), SameName(a.name, b.name)
      PROVE  a = b
  <2>1. PICK i \in DOMAIN live :
          live[i].role = "array" /\ a = Binding(4 * i + 1, Companion[live[i].name], 0)
    BY <1>5
  <2>2. PICK j \in DOMAIN live :
          live[j].role = "array" /\ b = Binding(4 * j + 1, Companion[live[j].name], 0)
    BY <1>5
  <2>3. live[i].name \in Identifiers /\ live[j].name \in Identifiers
    BY <1>0, <2>1, <2>2
  <2>4. SameName(live[i].name, live[j].name)
    BY <1>5, <2>1, <2>2, <2>3, LexicalAssumption DEF SameName, Binding
  <2>5. i = j
    BY <2>1, <2>2, <2>4, <1>1 DEF Checked, CheckedPair
  <2> QED BY <2>1, <2>2, <2>5
<1>6. ASSUME NEW a, NEW b, IsParameter(a), IsLength(b) PROVE ~SameName(a.name, b.name)
  BY <1>6, <1>1 DEF Checked, CheckedPair, Binding
<1>7. ASSUME NEW a, IsGenerated(a)
      PROVE  a.name \in Triple \union {"out_value"} /\ Lower[a.name] = a.name
  BY <1>7, LexicalAssumption
<1>8. ASSUME NEW a, NEW b, IsGenerated(a), IsGenerated(b), SameName(a.name, b.name)
      PROVE  a = b
  <2>1. a.name = b.name
    BY <1>7, <1>8 DEF SameName
  <2> QED BY <2>1, <1>8
<1>9. ASSUME NEW a, NEW b, IsLength(a), IsGenerated(b) PROVE ~SameName(a.name, b.name)
  <2>1. PICK i \in DOMAIN live :
          live[i].role = "array" /\ a = Binding(4 * i + 1, Companion[live[i].name], 0)
    BY <1>9
  <2>2. live[i].name \in Identifiers
    BY <1>0, <2>1
  <2>3. Lower[b.name] \in Triple \union {"out_value"}
    BY <1>7, <1>9
  <2> QED BY <2>1, <2>2, <2>3, LexicalAssumption DEF SameName, Binding
<1>10. ASSUME stage = "body", NEW a, NEW b, IsParameter(a), IsGenerated(b)
       PROVE  ~SameName(a.name, b.name)
  <2>1. PICK i \in DOMAIN live :
          live[i].role # "local" /\ a = Binding(4 * i, live[i].name, i)
    BY <1>10
  <2>2. CASE signature.fallible /\ b.name = "out_value"
    BY <2>1, <2>2, <1>1, <1>10 DEF Checked, CheckedHead, Binding
  <2>3. CASE signature.returns # "scalar" /\ b.name \in Triple
    <3>1. Lower[live[i].name] \notin Prefixed
      BY <2>1, <2>3, <1>1, <1>10 DEF Checked, CheckedHead, CheckedName
    <3>2. Lower[b.name] \in Prefixed
      BY <2>3, LexicalAssumption
    <3> QED BY <3>1, <3>2, <2>1 DEF SameName, Binding
  <2> QED BY <2>2, <2>3, <1>10
<1>11. ASSUME stage = "body" PROVE DistinctPascal(delphi_signature)
  <2> SUFFICES ASSUME NEW a \in delphi_signature, NEW b \in delphi_signature,
                      SameName(a.name, b.name)
               PROVE  a = b
    BY DEF DistinctPascal
  <2>1. SameName(b.name, a.name)
    BY DEF SameName
  <2> HIDE DEF IsParameter, IsLength, IsGenerated
  <2> QED BY <2>1, <1>3, <1>4, <1>5, <1>6, <1>8, <1>9, <1>10, <1>11
<1>12. ASSUME stage = "body" PROVE Distinct(rust_params \union buffer) /\ Distinct(delphi_signature)
  <2>1. rust_params \union buffer \subseteq delphi_signature
    BY DEF delphi_signature
  <2> QED BY <2>1, <1>11, <1>12 DEF Distinct, DistinctPascal, SameName
<1>13. ASSUME signature.exported, NEW b \in delphi_signature PROVE Lower[b.name] \notin PascalWords
  <2>1. CASE IsParameter(b)
    BY <2>1, <1>1, <1>13 DEF Checked, CheckedName, Binding
  <2>2. CASE IsLength(b)
    <3>1. PICK i \in DOMAIN live :
            live[i].role = "array" /\ b = Binding(4 * i + 1, Companion[live[i].name], 0)
      BY <2>2
    <3>2. live[i].name \in Identifiers
      BY <1>0, <3>1
    <3> QED BY <3>1, <3>2, LexicalAssumption DEF Binding
  <2>3. CASE IsGenerated(b)
    BY <2>3, <1>7, LexicalAssumption
  <2> QED BY <2>1, <2>2, <2>3, <1>3
<1>14. DistinctNames(errors) /\ DistinctNames(constants) /\ DistinctNames(functions)
  BY <1>1 DEF ModuleNames
<1> QED BY <1>2, <1>11, <1>12, <1>13, <1>14 DEF TextIsAccepted

----------------------------------------------------------------------------

THEOREM Invariant == Spec => []IInv
<1>1. Init => IInv
  BY InitIInv
<1>2. IInv /\ [Next]_vars => IInv'
  BY NextIInv
<1> QED BY <1>1, <1>2, PTL DEF Spec

\* Types of the declarations and scopes; every scope the checker holds maps
\* names to declarations that are live.
THEOREM NamesTypeCorrect == Spec => []TypeOK
<1>1. IInv => TypeOK
  BY DEF IInv
<1> QED BY <1>1, Invariant, PTL

\* However the declarations are nested, a name means one thing wherever it is
\* seen, and the checker's scope is what the author sees (check_block, Let, try).
THEOREM OneMeaningAlways == Spec => []OneMeaning
<1>1. IInv => OneMeaning
  BY OneMeaningHolds
<1> QED BY <1>1, Invariant, PTL

\* Whatever names the author uses, Rust resolves each to what the author meant,
\* and none is one the emitter binds (reserved.rs).
THEOREM NoCaptureAlways == Spec => []NoCapture
<1>1. IInv => NoCapture
  BY NoCaptureHolds
<1> QED BY <1>1, Invariant, PTL

\* The Rust and the Delphi declarations of an accepted function have no name
\* twice and no reserved word, in each language's reading of case.
THEOREM TextIsAcceptedAlways == Spec => []TextIsAccepted
<1>1. IInv => TextIsAccepted
  BY TextIsAcceptedHolds
<1> QED BY <1>1, Invariant, PTL
=============================================================================
