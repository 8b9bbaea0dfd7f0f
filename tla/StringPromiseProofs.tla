-------------------------- MODULE StringPromiseProofs --------------------------
(***************************************************************************)
(* Proofs about StringOut for every piece list, capacity, buffer address,   *)
(* overlap and memory content, over a flat memory: Addr = Int, so that no   *)
(* write can leave what is modelled.                                        *)
(*                                                                          *)
(* First what one call of StringOut leaves alone.  Then: its passes          *)
(* implement the atomic promise of CallerBuffer, and the host's loop on -1   *)
(* converges.  The promise speaks of one text, the passes of pieces one       *)
(* after another: Lead is the text of the first pieces, and the lemmas about  *)
(* it say where in the whole each piece lies.                                *)
(***************************************************************************)
EXTENDS StringPromise, WellFoundedInduction, TLAPS

-----------------------------------------------------------------------------
(* Natural numbers, with a set in place of a predicate.                       *)

LEMMA LeastNumber ==
  ASSUME NEW T \in SUBSET Nat, T # {}
  PROVE  \E x \in T : \A y \in T : x <= y
<1> DEFINE R == OpToRel(<, Nat)
<1>1. IsWellFoundedOn(R, Nat)
  BY NatLessThanWellFounded
<1>2. \A x, y \in Nat : <<x, y>> \in R <=> x < y
  BY DEF OpToRel
<1> HIDE DEF R
<1>3. PICK x \in T : \A y \in T : ~(<<y, x>> \in R)
  BY <1>1, WFMin
<1>4. ASSUME NEW y \in T
      PROVE  x <= y
  <2>1. x \in Nat /\ y \in Nat
    OBVIOUS
  <2>2. ~(y < x)
    BY <1>2, <1>3, <2>1
  <2> QED
    BY <2>1, <2>2
<1> QED
  BY <1>4

LEMMA Induction ==
  ASSUME NEW P \in SUBSET Nat, 0 \in P, \A j \in P : j + 1 \in P
  PROVE  \A j \in Nat : j \in P
<1> SUFFICES ASSUME NEW j \in Nat, j \notin P
             PROVE  FALSE
  OBVIOUS
<1> DEFINE T == Nat \ P
<1>1. T \in SUBSET Nat /\ T # {}
  OBVIOUS
<1>2. PICK x \in T : \A y \in T : x <= y
  BY <1>1, LeastNumber
<1>3. x \in Nat /\ x # 0 /\ x \notin P
  OBVIOUS
<1>4. x - 1 \in Nat /\ x - 1 + 1 = x
  BY <1>3
<1>5. x - 1 \notin T
  BY <1>2, <1>4
<1> QED
  BY <1>3, <1>4, <1>5

-----------------------------------------------------------------------------
(* The passes of one call.                                                    *)

BuiltPasses == {"values", "spans", "decimals", "count", "append"}
PlainPasses == {"strcount", "strdecide", "strcopy"}

\* Which passes a body runs; a borrowed string is its only piece.
Shape ==
  /\ pc = "prelude" => i = 1
  /\ pc \notin {"append", "returned"} => off = 0
  /\ pc \in BuiltPasses => prog.built
  /\ pc \in PlainPasses => ~prog.built /\ i = 1

\* Spans already bound have a length.
SpansBound ==
  \A j \in 1..Len(Pieces) :
    (pc = "spans" /\ j < i) \/ pc \in {"decimals", "count", "append"} =>
      (Pieces[j].kind = "span" => Pieces[j].to >= Pieces[j].from)

\* The counts and offsets the writers rely on.
Sizes ==
  /\ pc \in {"count", "strdecide"} => n >= 1
  /\ pc = "append" => off + k <= cap - 1
  /\ pc = "strcopy" => n <= cap

\* What is still as the host left it.
Frozen ==
  /\ pc \notin {"append", "strcopy", "returned"} => mem = entry.mem
  /\ pc = "returned" /\ status # 0 => mem = entry.mem
  /\ pc \in {"prelude", "values", "spans", "decimals", "count", "strcount", "strdecide"}
       => needed = entry.needed
  /\ pc = "returned" /\ status \notin {0, -1} => needed = entry.needed

IInv == TypeOK /\ Shape /\ SpansBound /\ Sizes /\ Frozen /\ OnlyBufferWritten /\ BuiltIsTerminated

----------------------------------------------------------------------------

\* What the assumption on the constants says of a function body.
LEMMA ProgramFacts ==
  ASSUME NEW p \in Programs
  PROVE  /\ p.built \in BOOLEAN /\ p.prelude \in Outcomes /\ p.pieces \in Seq(Piece)
         /\ ~p.built => Len(p.pieces) = 1 /\ p.pieces[1].kind = "bytes"
<1>1. p \in Program
  BY ConstantsAssumption
<1>2. ~p.built => Len(p.pieces) = 1 /\ p.pieces[1].kind = "bytes"
  BY ConstantsAssumption
<1> QED
  BY <1>1, <1>2 DEF Program

\* The piece a pass is at.
LEMMA HereFacts ==
  ASSUME TypeOK, ~Past
  PROVE  /\ i \in 1..Len(Pieces)
         /\ Here.kind \in {"bytes", "span", "digits", "decimal"}
         /\ Here.eval \in Outcomes
         /\ Here.at \in Int /\ Here.from \in Int /\ Here.to \in Int
         /\ Here.text \in Seq(Byte)
<1>1. prog.pieces \in Seq(Piece)
  BY ProgramFacts DEF TypeOK
<1>2. i \in 1..Len(prog.pieces)
  BY <1>1 DEF TypeOK, Past, Pieces
<1>3. Here \in Piece
  BY <1>1, <1>2 DEF Here, Pieces
<1> QED
  BY <1>2, <1>3 DEF Piece, Pieces

\* Binding a piece leaves with an error of its own or goes on.
LEMMA BindingFacts ==
  ASSUME TypeOK, ~Past
  PROVE  /\ Binding(mem, Here) \in Outcomes
         /\ Binding(mem, Here) = 0 /\ Here.kind = "span" => Here.to >= Here.from
  BY HereFacts DEF Binding, IsSpan, Outcomes, Errors

\* One byte written keeps the memory typed and disturbs no other address.
LEMMA WriteFacts ==
  ASSUME Addr = Int, TypeOK, NEW x \in Int, NEW b \in Byte, Write(x, b)
  PROVE  /\ mem' \in [Addr -> Byte] /\ mem'[x] = b
         /\ \A y \in Addr : y # x => mem'[y] = mem[y]
  BY DEF TypeOK, Write


LEMMA InitInv == ASSUME Addr = Int, Init PROVE IInv
<1>1. TypeOK
  BY ConstantsAssumption DEF Init, TypeOK, Passes
<1>2. Shape /\ SpansBound /\ Sizes /\ Frozen
  BY DEF Init, Shape, BuiltPasses, PlainPasses, SpansBound, Sizes, Frozen
<1>3. OnlyBufferWritten /\ BuiltIsTerminated
  BY DEF Init, OnlyBufferWritten, BuiltIsTerminated
<1> QED
  BY <1>1, <1>2, <1>3 DEF IInv

\* The host's call: nothing is written.
LEMMA CallInv == ASSUME Addr = Int, IInv, Call PROVE IInv'
<1> USE DEF IInv
<1>1. TypeOK'
  BY DEF Call, TypeOK, Passes
<1>2. (Shape /\ SpansBound /\ Sizes /\ Frozen)'
  BY DEF Call, Shape, BuiltPasses, PlainPasses, SpansBound, Sizes, Frozen, Pieces
<1>3. (OnlyBufferWritten /\ BuiltIsTerminated)'
  BY DEF Call, OnlyBufferWritten, BuiltIsTerminated, TypeOK
<1> QED
  BY <1>1, <1>2, <1>3

LEMMA PreludeInv == ASSUME Addr = Int, IInv, Prelude PROVE IInv'
<1> USE DEF IInv
<1>0. prog.prelude \in Outcomes /\ prog.built \in BOOLEAN
  BY ProgramFacts DEF TypeOK
<1>1. TypeOK'
  BY <1>0 DEF Prelude, LeaveEarly, Returned, TypeOK, Passes, passes, host, Outcomes, Errors
<1>2. (Shape /\ Sizes)'
  BY <1>0 DEF Prelude, LeaveEarly, Returned, Shape, BuiltPasses, PlainPasses, Sizes, passes, host, TypeOK
<1>3. (SpansBound /\ Frozen)'
  BY <1>0 DEF Prelude, LeaveEarly, Returned, SpansBound, Frozen, Pieces, passes, host, TypeOK
<1>4. (OnlyBufferWritten /\ BuiltIsTerminated)'
  BY <1>0 DEF Prelude, LeaveEarly, Returned, OnlyBufferWritten, BuiltIsTerminated, passes, host
<1> QED
  BY <1>1, <1>2, <1>3, <1>4

\* The three binding loops: a bad piece leaves before anything is written.
LEMMA BindInv ==
  ASSUME Addr = Int, IInv, NEW phase \in {"values", "spans", "decimals"}, Bind(phase)
  PROVE  IInv'
<1> USE DEF IInv
<1>1. CASE Past /\ pc' = After(phase) /\ i' = 1 /\ n' = (IF phase = "decimals" THEN 1 ELSE n)
           /\ UNCHANGED <<mem, needed, status>>
  <2>0. pc = phase /\ UNCHANGED <<k, off, host>>
    BY DEF Bind
  <2>1. pc' \in {"spans", "decimals", "count"}
    BY <1>1 DEF After
  <2>2. TypeOK'
    BY <1>1, <2>0, <2>1 DEF TypeOK, Passes, host
  <2>3. Shape'
    BY <1>1, <2>0, <2>1 DEF Shape, BuiltPasses, PlainPasses, host
  <2>4. Sizes'
    BY <1>1, <2>0, <2>1 DEF Sizes, After
  <2>5. SpansBound'
    BY <1>1, <2>0, <2>1 DEF SpansBound, After, Past, Pieces, host, TypeOK
  <2>6. Frozen'
    BY <1>1, <2>0, <2>1 DEF Frozen, host
  <2>7. (OnlyBufferWritten /\ BuiltIsTerminated)'
    BY <1>1, <2>0, <2>1 DEF OnlyBufferWritten, BuiltIsTerminated, host
  <2> QED
    BY <2>2, <2>3, <2>4, <2>5, <2>6, <2>7
<1>2. CASE /\ ~Past
           /\ Here.kind \in Bound(phase) /\ Binding(mem, Here) # 0
           /\ LeaveEarly(Binding(mem, Here)) /\ UNCHANGED <<i, n>>
  <2>0. pc = phase /\ UNCHANGED <<k, off, host>>
    BY DEF Bind
  <2>1. Binding(mem, Here) \in Errors
    BY <1>2, BindingFacts DEF Outcomes
  <2>2. /\ pc' = "returned" /\ status' \in Int \ {-1, 0}
        /\ UNCHANGED <<mem, needed, i, n, k, off, host>>
    BY <1>2, <2>0, <2>1 DEF LeaveEarly, Returned, Errors
  <2>3. TypeOK'
    BY <2>2 DEF TypeOK, Passes, host
  <2>4. (Shape /\ Sizes /\ SpansBound /\ Frozen)'
    BY <2>0, <2>2 DEF Shape, BuiltPasses, PlainPasses, Sizes, SpansBound, Frozen, host
  <2>5. (OnlyBufferWritten /\ BuiltIsTerminated)'
    BY <2>2 DEF OnlyBufferWritten, BuiltIsTerminated, host
  <2> QED
    BY <2>3, <2>4, <2>5
<1>3. CASE /\ ~Past
           /\ ~(Here.kind \in Bound(phase) /\ Binding(mem, Here) # 0)
           /\ i' = i + 1 /\ UNCHANGED <<pc, mem, needed, status, n>>
  <2>0. pc = phase /\ UNCHANGED <<k, off, host>>
    BY DEF Bind
  <2>1. phase = "spans" /\ Here.kind = "span" => Here.to >= Here.from
    BY <1>3, BindingFacts DEF Bound
  <2>2. TypeOK'
    BY <1>3, <2>0 DEF TypeOK, host
  <2>3. (Shape /\ Sizes /\ Frozen)'
    BY <1>3, <2>0 DEF Shape, BuiltPasses, PlainPasses, Sizes, Frozen, host
  <2>4. SpansBound'
    <3>1. Pieces' = Pieces /\ pc' = pc /\ i' = i + 1 /\ i \in Nat
      BY <1>3, <2>0 DEF Pieces, host, TypeOK
    <3> SUFFICES ASSUME NEW j \in 1..Len(Pieces), pc \in {"spans", "decimals"},
                        pc = "spans" => j < i + 1, Pieces[j].kind = "span"
                 PROVE  Pieces[j].to >= Pieces[j].from
      BY <2>0, <3>1 DEF SpansBound
    <3>2. CASE pc = "spans" /\ j = i
      BY <2>0, <2>1, <3>2 DEF Here
    <3>3. CASE pc = "spans" /\ j < i
      BY <3>3 DEF SpansBound
    <3>4. CASE pc = "decimals"
      BY <3>4 DEF SpansBound
    <3> QED
      BY <3>1, <3>2, <3>3, <3>4
  <2>5. (OnlyBufferWritten /\ BuiltIsTerminated)'
    BY <1>3, <2>0 DEF OnlyBufferWritten, BuiltIsTerminated, host
  <2> QED
    BY <2>2, <2>3, <2>4, <2>5
<1> QED
  BY <1>1, <1>2, <1>3 DEF Bind

\* Pass 1: a count never shrinks.
LEMMA CountInv == ASSUME Addr = Int, IInv, Count PROVE IInv'
<1> USE DEF IInv
<1>1. /\ pc = "count" /\ ~Past /\ i' \in {i, i + 1} /\ k' \in Nat
      /\ UNCHANGED <<mem, needed, status, pc, off, host>>
  BY DEF Count, NextPiece, NextByte, TypeOK
<1>2. Here.text \in Seq(Byte) /\ Here.to \in Int /\ Here.from \in Int
  BY <1>1, HereFacts
<1>3. Here.kind = "span" => Here.to >= Here.from
  BY <1>1, HereFacts DEF SpansBound, Here
<1>4. n' \in Nat /\ n' >= n
  <2>1. n \in Nat /\ Len(Here.text) \in Nat
    BY <1>2 DEF TypeOK
  <2> QED
    BY <1>2, <1>3, <2>1 DEF Count
<1>5. TypeOK'
  BY <1>1, <1>4 DEF TypeOK, host
<1>6. Sizes'
  BY <1>1, <1>4 DEF Sizes, TypeOK
<1>7. (Shape /\ SpansBound /\ Frozen)'
  BY <1>1 DEF Shape, BuiltPasses, PlainPasses, SpansBound, Frozen, Pieces, host
<1>8. (OnlyBufferWritten /\ BuiltIsTerminated)'
  BY <1>1 DEF OnlyBufferWritten, BuiltIsTerminated, host
<1> QED
  BY <1>5, <1>6, <1>7, <1>8

\* Publishing the size, and the capacity test before the first write.
LEMMA DecideInv ==
  ASSUME Addr = Int, IInv,
         \/ pc = "count" /\ Past /\ Decide("append")
         \/ pc = "strdecide" /\ Decide("strcopy")
  PROVE  IInv'
<1> USE DEF IInv
<1>1. n \in Nat /\ n >= 1 /\ cap \in Int /\ off = 0
  BY DEF Sizes, TypeOK, Shape
<1>2. needed' = n /\ i' = 1 /\ k' = 0 /\ UNCHANGED <<mem, n, off, host>>
  BY DEF Decide, Size
<1>3. CASE pc' = "returned" /\ status' = -1
  <2>1. TypeOK'
    BY <1>1, <1>2, <1>3 DEF TypeOK, Passes, host
  <2>2. (Shape /\ SpansBound /\ Sizes /\ Frozen)'
    BY <1>2, <1>3 DEF Shape, BuiltPasses, PlainPasses, SpansBound, Sizes, Frozen, host
  <2>3. (OnlyBufferWritten /\ BuiltIsTerminated)'
    BY <1>2, <1>3 DEF OnlyBufferWritten, BuiltIsTerminated, host
  <2> QED
    BY <2>1, <2>2, <2>3
<1>4. CASE /\ cap >= n /\ UNCHANGED status
           /\ \/ pc = "count" /\ pc' = "append"
              \/ pc = "strdecide" /\ pc' = "strcopy"
  <2>1. TypeOK'
    BY <1>1, <1>2, <1>4 DEF TypeOK, Passes, host
  <2>2. (Shape /\ Frozen)'
    BY <1>2, <1>4 DEF Shape, BuiltPasses, PlainPasses, Frozen, host
  <2>3. Sizes'
    BY <1>1, <1>2, <1>4 DEF Sizes, host
  <2>4. SpansBound'
    BY <1>2, <1>4 DEF SpansBound, Pieces, host
  <2>5. (OnlyBufferWritten /\ BuiltIsTerminated)'
    BY <1>2, <1>4 DEF OnlyBufferWritten, BuiltIsTerminated, host
  <2> QED
    BY <2>1, <2>2, <2>3, <2>4, <2>5
<1> QED
  BY <1>1, <1>3, <1>4 DEF Decide, TooSmall, Returned

\* One byte appended, with the hard stop checked first.
LEMMA AppendByte ==
  ASSUME Addr = Int, IInv, pc = "append", ~Full, NEW b \in Byte,
         Write(Buf + off + k, b), k' = NextByte(k),
         UNCHANGED <<i, off, needed, status, pc, n, host>>
  PROVE  IInv'
<1> USE DEF IInv
<1>1. Buf \in Int /\ off \in Nat /\ k \in Nat /\ cap \in Int /\ off + k < cap - 1
  BY ConstantsAssumption DEF TypeOK, Full
<1>2. Buf + off + k \in Buf..(Buf + cap - 1)
  BY <1>1
<1>3. mem' \in [Addr -> Byte] /\ \A y \in Addr : y # Buf + off + k => mem'[y] = mem[y]
  BY <1>1, WriteFacts
<1>4. TypeOK'
  BY <1>1, <1>3 DEF TypeOK, NextByte, host
<1>5. Sizes'
  BY <1>1 DEF Sizes, NextByte, host
<1>6. (Shape /\ SpansBound /\ Frozen)'
  BY DEF Shape, BuiltPasses, PlainPasses, SpansBound, Frozen, Pieces, host
<1>7. OnlyBufferWritten'
  BY <1>2, <1>3 DEF OnlyBufferWritten, host
<1>8. BuiltIsTerminated'
  BY DEF BuiltIsTerminated
<1> QED
  BY <1>4, <1>5, <1>6, <1>7, <1>8

\* A writer done with its piece: the offset it hands on still leaves a byte.
LEMMA AppendNext ==
  ASSUME Addr = Int, IInv, pc = "append", NextPiece, NEW o \in Nat, o <= cap - 1, off' = o,
         UNCHANGED <<mem, needed, status, pc, n, host>>
  PROVE  IInv'
<1> USE DEF IInv
<1>1. TypeOK'
  BY DEF TypeOK, NextPiece, host
<1>2. Sizes'
  <2>1. k' = 0 /\ pc' = "append" /\ cap' = cap
    BY DEF NextPiece, host
  <2>2. off' + k' = o
    BY <2>1
  <2> QED
    BY <2>1, <2>2 DEF Sizes
<1>3. (Shape /\ SpansBound /\ Frozen)'
  BY DEF Shape, BuiltPasses, PlainPasses, SpansBound, Frozen, Pieces, host
<1>4. (OnlyBufferWritten /\ BuiltIsTerminated)'
  BY DEF OnlyBufferWritten, BuiltIsTerminated, host
<1> QED
  BY <1>1, <1>2, <1>3, <1>4

LEMMA AppendStringInv == ASSUME Addr = Int, IInv, AppendString PROVE IInv'
<1>1. Here.at + k \in Int /\ mem[Here.at + k] \in Byte
  <2>1. Here.at \in Int
    BY HereFacts DEF IInv, AppendString
  <2> QED
    BY <2>1 DEF IInv, TypeOK
<1>2. off + k \in Nat /\ off + k <= cap - 1
  BY DEF IInv, TypeOK, Sizes, AppendString
<1>3. CASE Full \/ mem[Here.at + k] = NUL
  BY <1>2, <1>3, AppendNext DEF AppendString
<1>4. CASE ~(Full \/ mem[Here.at + k] = NUL)
  BY <1>1, <1>4, AppendByte DEF AppendString
<1> QED
  BY <1>3, <1>4

LEMMA AppendSpanInv == ASSUME Addr = Int, IInv, AppendSpan PROVE IInv'
<1>1. Here.at + Here.from + k \in Int /\ mem[Here.at + Here.from + k] \in Byte
  <2>1. Here.at \in Int /\ Here.from \in Int
    BY HereFacts DEF IInv, AppendSpan
  <2> QED
    BY <2>1 DEF IInv, TypeOK
<1>2. off + k \in Nat /\ off + k <= cap - 1
  BY DEF IInv, TypeOK, Sizes, AppendSpan
<1>3. CASE k >= Here.to - Here.from \/ Full
  BY <1>2, <1>3, AppendNext DEF AppendSpan
<1>4. CASE ~(k >= Here.to - Here.from \/ Full)
  BY <1>1, <1>4, AppendByte DEF AppendSpan
<1> QED
  BY <1>3, <1>4

\* Digits are written as a whole and only when they fit.
LEMMA AppendDigitsInv == ASSUME Addr = Int, IInv, AppendDigits PROVE IInv'
<1> DEFINE w == Len(Here.text)
<1>1. /\ pc = "append" /\ ~Past /\ Here.kind \in {"digits", "decimal"} /\ NextPiece
      /\ UNCHANGED <<needed, status, pc, n, host>>
  BY DEF AppendDigits
<1>2. Here.text \in Seq(Byte) /\ w \in Nat
  BY <1>1, HereFacts DEF IInv
<1> HIDE DEF w
<1>3. off \in Nat /\ k \in Nat /\ off + k <= cap - 1 /\ Buf \in Int /\ cap \in Int
  BY <1>1, ConstantsAssumption DEF IInv, TypeOK, Sizes
<1>4. CASE ~Fits(w)
  <2>1. off' = off /\ UNCHANGED mem
    BY <1>4 DEF AppendDigits, w
  <2> QED
    BY <1>1, <1>3, <2>1, AppendNext
<1>5. CASE Fits(w)
  <2>1. /\ mem' = [x \in Addr |-> IF x \in (Buf + off)..(Buf + off + w - 1)
                                  THEN Here.text[x - Buf - off + 1] ELSE mem[x]]
        /\ off' = off + w
    BY <1>5 DEF AppendDigits, w
  <2>2. off + w <= cap - 1
    BY <1>5 DEF Fits
  <2>3. ASSUME NEW x \in (Buf + off)..(Buf + off + w - 1)
        PROVE  Here.text[x - Buf - off + 1] \in Byte
    <3>1. x - Buf - off + 1 \in 1..w
      BY <1>2, <1>3
    <3> QED
      BY <1>2, <3>1 DEF w
  <2>4. mem' \in [Addr -> Byte]
    BY <2>1, <2>3 DEF IInv, TypeOK
  <2>5. ASSUME NEW y \in Addr, y \notin Buf..(Buf + cap - 1)
        PROVE  mem'[y] = mem[y]
    <3>1. y \notin (Buf + off)..(Buf + off + w - 1)
      BY <1>2, <1>3, <2>2, <2>5
    <3> QED
      BY <2>1, <3>1
  <2>6. TypeOK'
    <3>1. i' \in Nat \ {0} /\ k' \in Nat /\ off' \in Nat
      BY <1>1, <1>2, <1>3, <2>1 DEF IInv, TypeOK, NextPiece
    <3> QED
      BY <1>1, <2>4, <3>1 DEF IInv, TypeOK, host
  <2>7. Sizes'
    BY <1>1, <1>2, <1>3, <2>1, <2>2 DEF IInv, Sizes, NextPiece, host
  <2>8. (Shape /\ SpansBound /\ Frozen)'
    BY <1>1 DEF IInv, Shape, BuiltPasses, PlainPasses, SpansBound, Frozen, Pieces, host
  <2>9. OnlyBufferWritten'
    BY <1>1, <2>5 DEF IInv, OnlyBufferWritten, host
  <2>10. BuiltIsTerminated'
    BY <1>1 DEF BuiltIsTerminated
  <2> QED
    BY <2>6, <2>7, <2>8, <2>9, <2>10 DEF IInv
<1> QED
  BY <1>4, <1>5

LEMMA TerminateInv == ASSUME Addr = Int, IInv, Terminate PROVE IInv'
<1> USE DEF IInv
<1>1. /\ pc = "append" /\ Write(Buf + off, NUL) /\ pc' = "returned" /\ status' = 0
      /\ UNCHANGED <<needed, passes, host>>
  BY DEF Terminate, Returned
<1>2. Buf \in Int /\ off \in Nat /\ cap \in Int /\ off <= cap - 1 /\ NUL \in Byte
  BY <1>1, ConstantsAssumption DEF TypeOK, Sizes
<1>3. Buf + off \in Buf..(Buf + cap - 1)
  BY <1>2
<1>4. /\ mem' \in [Addr -> Byte] /\ mem'[Buf + off] = NUL
      /\ \A y \in Addr : y # Buf + off => mem'[y] = mem[y]
  BY <1>1, <1>2, WriteFacts
<1>5. TypeOK'
  BY <1>1, <1>4 DEF TypeOK, Passes, passes, host
<1>6. (Shape /\ SpansBound /\ Sizes /\ Frozen)'
  BY <1>1 DEF Shape, BuiltPasses, PlainPasses, SpansBound, Sizes, Frozen, passes, host
<1>7. OnlyBufferWritten'
  BY <1>1, <1>3, <1>4 DEF OnlyBufferWritten, host
<1>8. BuiltIsTerminated'
  BY <1>1, <1>3, <1>4 DEF BuiltIsTerminated, host
<1> QED
  BY <1>5, <1>6, <1>7, <1>8

LEMMA StrCountInv == ASSUME Addr = Int, IInv, StrCount PROVE IInv'
<1> USE DEF IInv
<1>1. /\ pc = "strcount" /\ n' = n + 1 /\ pc' \in {"strcount", "strdecide"}
      /\ UNCHANGED <<mem, needed, status, i, k, off, host>>
  BY DEF StrCount
<1>2. TypeOK'
  BY <1>1 DEF TypeOK, Passes, host
<1>3. (Shape /\ SpansBound /\ Sizes /\ Frozen)'
  BY <1>1 DEF Shape, BuiltPasses, PlainPasses, SpansBound, Sizes, Frozen, host, TypeOK
<1>4. (OnlyBufferWritten /\ BuiltIsTerminated)'
  BY <1>1 DEF OnlyBufferWritten, BuiltIsTerminated, host
<1> QED
  BY <1>2, <1>3, <1>4

LEMMA StrCopyInv == ASSUME Addr = Int, IInv, StrCopy PROVE IInv'
<1> USE DEF IInv
<1>1. pc = "strcopy" /\ UNCHANGED <<needed, i, n, off, host>>
  BY DEF StrCopy
<1>2. Buf \in Int /\ k \in Nat /\ n \in Nat /\ cap \in Int /\ n <= cap /\ ~prog.built
  BY <1>1, ConstantsAssumption DEF TypeOK, Sizes, Shape, PlainPasses
<1>3. CASE k >= n
  <2>1. pc' = "returned" /\ status' = 0 /\ UNCHANGED <<mem, k>>
    BY <1>2, <1>3 DEF StrCopy, Returned
  <2>2. TypeOK'
    BY <1>1, <2>1 DEF TypeOK, Passes, host
  <2>3. (Shape /\ SpansBound /\ Sizes /\ Frozen)'
    BY <1>1, <2>1 DEF Shape, BuiltPasses, PlainPasses, SpansBound, Sizes, Frozen, host
  <2>4. (OnlyBufferWritten /\ BuiltIsTerminated)'
    BY <1>1, <1>2, <2>1 DEF OnlyBufferWritten, BuiltIsTerminated, host
  <2> QED
    BY <2>2, <2>3, <2>4
<1>4. CASE k < n
  <2>1. Write(Buf + k, mem[Here.at + k]) /\ k' = k + 1 /\ UNCHANGED <<pc, status>>
    BY <1>4 DEF StrCopy, NextByte
  <2>2. mem[Here.at + k] \in Byte
    <3>1. Here.at \in Int
      <4>1. i = 1 /\ Len(Pieces) = 1
        BY <1>1, ProgramFacts DEF Shape, PlainPasses, TypeOK, Pieces
      <4> QED
        BY <4>1, HereFacts DEF Past
    <3> QED
      BY <1>2, <3>1 DEF TypeOK
  <2>3. mem' \in [Addr -> Byte] /\ \A y \in Addr : y # Buf + k => mem'[y] = mem[y]
    BY <1>2, <2>1, <2>2, WriteFacts
  <2>4. Buf + k \in Buf..(Buf + cap - 1)
    BY <1>2, <1>4
  <2>5. TypeOK'
    BY <1>1, <2>1, <2>3 DEF TypeOK, host
  <2>6. (Shape /\ SpansBound /\ Sizes /\ Frozen)'
    BY <1>1, <2>1 DEF Shape, BuiltPasses, PlainPasses, SpansBound, Sizes, Frozen, Pieces, host
  <2>7. OnlyBufferWritten'
    BY <1>1, <2>3, <2>4 DEF OnlyBufferWritten, host
  <2>8. BuiltIsTerminated'
    BY <1>1, <2>1 DEF BuiltIsTerminated
  <2> QED
    BY <2>5, <2>6, <2>7, <2>8
<1> QED
  BY <1>2, <1>3, <1>4

LEMMA StutterInv == ASSUME IInv, UNCHANGED vars PROVE IInv'
  BY DEF IInv, vars, passes, host, TypeOK, Shape, BuiltPasses, PlainPasses, SpansBound, Sizes,
         Frozen, OnlyBufferWritten, BuiltIsTerminated, Pieces

LEMMA NextInv == ASSUME Addr = Int, IInv, [Next]_vars PROVE IInv'
<1>1. CASE Call BY <1>1, CallInv
<1>2. CASE Prelude BY <1>2, PreludeInv
<1>3. CASE \E phase \in {"values", "spans", "decimals"} : Bind(phase) BY <1>3, BindInv
<1>4. CASE Count BY <1>4, CountInv
<1>5. CASE Publish \/ StrDecide BY <1>5, DecideInv DEF Publish, StrDecide
<1>6. CASE AppendString BY <1>6, AppendStringInv
<1>7. CASE AppendSpan BY <1>7, AppendSpanInv
<1>8. CASE AppendDigits BY <1>8, AppendDigitsInv
<1>9. CASE Terminate BY <1>9, TerminateInv
<1>10. CASE StrCount BY <1>10, StrCountInv
<1>11. CASE StrCopy BY <1>11, StrCopyInv
<1>12. CASE UNCHANGED vars BY <1>12, StutterInv
<1> QED
  BY <1>1, <1>2, <1>3, <1>4, <1>5, <1>6, <1>7, <1>8, <1>9, <1>10, <1>11, <1>12 DEF Next, Body

\* The invariant of a flat memory.
LEMMA Invariance == ASSUME Addr = Int PROVE Spec => []IInv
<1>1. Init => IInv
  BY InitInv
<1>2. IInv /\ [Next]_vars => IInv'
  BY NextInv
<1> QED
  BY <1>1, <1>2, PTL DEF Spec

----------------------------------------------------------------------------

\* Types of the call's state, for every body and memory.
THEOREM TypeCorrect == ASSUME Addr = Int PROVE Spec => []TypeOK
<1>1. IInv => TypeOK
  BY DEF IInv
<1> QED
  BY <1>1, Invariance, PTL

\* No emitted string body writes outside the ml_cap bytes it was given, whatever
\* overlaps what (codegen.rs, the hard stops of ml_wstr, ml_wsub, ml_wint, ml_wfix).
THEOREM OnlyBufferWrittenAlways == ASSUME Addr = Int PROVE Spec => []OnlyBufferWritten
<1>1. IInv => OnlyBufferWritten
  BY DEF IInv
<1> QED
  BY <1>1, Invariance, PTL

\* A call that does not answer 0 has written nothing.
THEOREM FailureWritesNothingAlways == ASSUME Addr = Int PROVE Spec => []FailureWritesNothing
<1>1. IInv => FailureWritesNothing
  BY DEF IInv, Frozen, FailureWritesNothing
<1> QED
  BY <1>1, Invariance, PTL

\* A built string answered with 0 has its NUL inside the capacity.
THEOREM BuiltIsTerminatedAlways == ASSUME Addr = Int PROVE Spec => []BuiltIsTerminated
<1>1. IInv => BuiltIsTerminated
  BY DEF IInv
<1> QED
  BY <1>1, Invariance, PTL

-----------------------------------------------------------------------------
(* The text of a body, piece by piece.                                     *)

\* The text of the first j pieces.
Lead(m, p) ==
  CHOOSE lead : lead = [j \in 0..Len(p.pieces) |->
    IF j = 0 THEN <<>> ELSE lead[j - 1] \o PieceText(m, p.pieces[j])]

\* f joins the sequences of s one after another.
Joins(f, low, top, first, s) ==
  /\ f = [j \in DOMAIN f |-> f[j]] /\ DOMAIN f = low..top
  /\ \A j \in low..top : f[j] = IF j = low THEN first ELSE f[j - 1] \o s[j]

\* A function defined from its own previous value exists.
LEMMA JoinsExist ==
  ASSUME NEW s, NEW low \in {0, 1}, NEW first, NEW top \in Nat
  PROVE  \E f : Joins(f, low, top, first, s)
<1> DEFINE R(f, t) == f = [j \in low..t |-> IF j = low THEN first ELSE f[j - 1] \o s[j]]
           P == {t \in Nat : \E f : R(f, t)}
<1>1. 0 \in P
  <2> DEFINE g == [j \in low..0 |-> first]
  <2>1. \A j \in low..0 : j = low
    OBVIOUS
  <2>2. R(g, 0)
    BY <2>1
  <2> QED
    BY <2>2
<1>2. ASSUME NEW t \in P
      PROVE  t + 1 \in P
  <2>0. t \in Nat /\ t + 1 \in Nat
    OBVIOUS
  <2>1. PICK f : R(f, t)
    OBVIOUS
  <2> DEFINE g == [j \in low..(t + 1) |->
                     IF j = low THEN first ELSE IF j <= t THEN f[j] ELSE f[t] \o s[j]]
  <2>2. ASSUME NEW j \in low..(t + 1), j # low
        PROVE  g[j] = g[j - 1] \o s[j]
    <3>1. j - 1 \in low..t /\ j - 1 \in low..(t + 1) /\ j \in Int
      BY <2>0, <2>2
    <3>2. g[j - 1] = f[j - 1]
      BY <2>0, <2>1, <3>1
    <3>3. CASE j <= t
      <4>1. j \in low..t
        BY <2>0, <3>3
      <4> QED
        BY <2>1, <2>2, <3>2, <3>3, <4>1
    <3>4. CASE j = t + 1
      <4>1. j - 1 = t /\ ~(j <= t)
        BY <2>0, <3>4
      <4> QED
        BY <2>2, <3>2, <4>1
    <3>5. j <= t \/ j = t + 1
      BY <2>0, <3>1
    <3> QED
      BY <3>3, <3>4, <3>5
  <2>3. ASSUME NEW j \in low..(t + 1), j = low
        PROVE  g[j] = first
    BY <2>3
  <2> HIDE DEF g
  <2>4. g = [j \in low..(t + 1) |-> g[j]]
    BY DEF g
  <2>5. R(g, t + 1)
    BY <2>2, <2>3, <2>4
  <2> QED
    BY <2>0, <2>5
<1> HIDE DEF R
<1>3. P \in SUBSET Nat
  OBVIOUS
<1>4. top \in P
  <2> HIDE DEF P
  <2> QED
    BY <1>1, <1>2, <1>3, Induction
<1>5. PICK f : R(f, top)
  BY <1>4 DEF P
<1>6. f = [j \in DOMAIN f |-> f[j]] /\ DOMAIN f = low..top
  BY <1>5 DEF R
<1>7. \A j \in low..top : f[j] = IF j = low THEN first ELSE f[j - 1] \o s[j]
  BY <1>5 DEF R
<1>8. Joins(f, low, top, first, s)
  BY <1>6, <1>7 DEF Joins
<1> QED
  BY <1>8

LEMMA LeadUnfolds ==
  ASSUME NEW m, NEW p \in Programs
  PROVE  /\ Lead(m, p)[0] = <<>>
         /\ \A j \in 1..Len(p.pieces) :
              Lead(m, p)[j] = Lead(m, p)[j - 1] \o PieceText(m, p.pieces[j])
<1> DEFINE top == Len(p.pieces)
           s == [j \in 1..top |-> PieceText(m, p.pieces[j])]
           L == Lead(m, p)
<1>0. top \in Nat
  BY ProgramFacts
<1>2. \A j \in 0..top : j # 0 => s[j] = PieceText(m, p.pieces[j])
  BY <1>0
<1> HIDE DEF s, top
<1>1. PICK f : Joins(f, 0, top, <<>>, s)
  <2>1. 0 \in {0, 1}
    OBVIOUS
  <2> QED
    BY <1>0, <2>1, JoinsExist, Zenon
<1>3. f = [j \in 0..top |-> IF j = 0 THEN <<>> ELSE f[j - 1] \o PieceText(m, p.pieces[j])]
  BY <1>1, <1>2 DEF Joins
<1>4. L = [j \in 0..top |-> IF j = 0 THEN <<>> ELSE L[j - 1] \o PieceText(m, p.pieces[j])]
  BY <1>3 DEF Lead, top
<1> HIDE DEF L
<1>5. 0 \in 0..top /\ \A j \in 1..top : j \in 0..top /\ j # 0
  BY <1>0
<1>6. L[0] = <<>>
  BY <1>4, <1>5
<1>7. ASSUME NEW j \in 1..top
      PROVE  L[j] = L[j - 1] \o PieceText(m, p.pieces[j])
  BY <1>4, <1>5
<1> QED
  BY <1>6, <1>7 DEF top, L

-----------------------------------------------------------------------------
(* A piece that can be read: its string ends, or its span lies in a string. *)

\* s bytes from a on.
Stretch(m, a, s) == [j \in 1..s |-> m[a + j - 1]]

\* The string at a is s bytes long.
StringEnds(m, a, s) == m[a + s] = NUL /\ \A x \in 0..(s - 1) : m[a + x] # NUL

Ends(m, a) == \E s \in Nat : m[a + s] = NUL

Readable(m, p) ==
  /\ p.kind = "bytes" => Ends(m, p.at)
  /\ p.kind = "span" => IsSpan(m, p)

AllReadable(m, p) == \A j \in 1..Len(p.pieces) : Readable(m, p.pieces[j])

\* The string up to its first NUL is what is borrowed.
LEMMA BorrowedIs ==
  ASSUME Addr = Int, NEW m, NEW a \in Int, NEW s \in Nat, StringEnds(m, a, s)
  PROVE  Borrowed(m, a) = Stretch(m, a, s)
<1> DEFINE S == {x \in Addr : x >= a /\ m[x] = NUL}
           nul == Min(S)
<1>0. m[a + s] = NUL /\ \A x \in 0..(s - 1) : m[a + x] # NUL
  BY DEF StringEnds
<1>1. a + s \in S
  BY <1>0
<1>2. ASSUME NEW y \in S
      PROVE  a + s <= y
  <2>1. y \in Int /\ y >= a /\ m[y] = NUL
    OBVIOUS
  <2>2. CASE y < a + s
    <3>1. y - a \in 0..(s - 1) /\ a + (y - a) = y
      BY <2>1, <2>2
    <3>2. m[a + (y - a)] # NUL
      BY <1>0, <3>1
    <3> QED
      BY <2>1, <3>1, <3>2
  <2> QED
    BY <2>1, <2>2
<1>3. \A x \in S : x \in Int
  OBVIOUS
<1> HIDE DEF S
<1>4. nul \in S /\ \A y \in S : nul <= y
  BY <1>1, <1>2 DEF Min
<1>5. nul = a + s
  BY <1>1, <1>2, <1>3, <1>4
<1> HIDE DEF nul
<1>6. Borrowed(m, a) = [j \in 1..(nul - a) |-> m[a + j - 1]]
  BY DEF Borrowed, nul, S
<1>7. nul - a = s
  BY <1>5
<1> QED
  BY <1>6, <1>7 DEF Stretch

LEMMA FirstNul ==
  ASSUME NEW m, NEW a \in Int, Ends(m, a)
  PROVE  \E s \in Nat : StringEnds(m, a, s)
<1> DEFINE S == {s \in Nat : m[a + s] = NUL}
<1>1. S \in SUBSET Nat /\ S # {}
  BY DEF Ends
<1>2. PICK s \in S : \A y \in S : s <= y
  <2> HIDE DEF S
  <2> QED
    BY <1>1, LeastNumber
<1>3. ASSUME NEW x \in 0..(s - 1)
      PROVE  m[a + x] # NUL
  <2>1. x \in Nat /\ s \in Nat /\ x < s
    OBVIOUS
  <2> QED
    BY <1>2, <2>1
<1> QED
  BY <1>3 DEF StringEnds

LEMMA PieceTyped ==
  ASSUME Addr = Int, NEW m \in [Addr -> Byte], NEW p \in Piece, Readable(m, p)
  PROVE  /\ PieceText(m, p) \in Seq(Byte)
         /\ p.kind = "span" => Len(PieceText(m, p)) = p.to - p.from
<1>0. /\ p.kind \in {"bytes", "span", "digits", "decimal"} /\ p.text \in Seq(Byte)
      /\ p.at \in Int /\ p.from \in Int /\ p.to \in Int
  BY DEF Piece
<1>1. CASE p.kind = "bytes"
  <2>1. PICK s \in Nat : StringEnds(m, p.at, s)
    BY <1>0, <1>1, FirstNul DEF Readable
  <2>2. Borrowed(m, p.at) = Stretch(m, p.at, s)
    BY <1>0, <2>1, BorrowedIs
  <2>3. [j \in 1..s |-> m[p.at + j - 1]] \in Seq(Byte)
    BY <1>0
  <2> QED
    BY <1>1, <2>2, <2>3 DEF PieceText, Stretch
<1>2. CASE p.kind = "span"
  <2> DEFINE w == p.to - p.from
  <2>1. w \in Nat
    BY <1>0, <1>2 DEF Readable, IsSpan
  <2>2. [j \in 1..w |-> m[p.at + p.from + j - 1]] \in Seq(Byte)
    BY <1>0, <2>1
  <2>3. PieceText(m, p) = [j \in 1..w |-> m[p.at + p.from + j - 1]]
    BY <1>2 DEF PieceText
  <2> HIDE DEF w
  <2>4. Len(PieceText(m, p)) = w
    BY <2>1, <2>3
  <2> QED
    BY <2>2, <2>3, <2>4 DEF w
<1>3. CASE p.kind \in {"digits", "decimal"}
  BY <1>0, <1>3 DEF PieceText
<1> QED
  BY <1>0, <1>1, <1>2, <1>3

LEMMA LeadTyped ==
  ASSUME Addr = Int, NEW m \in [Addr -> Byte], NEW p \in Programs,
         NEW top \in 0..Len(p.pieces), \A j \in 1..top : Readable(m, p.pieces[j])
  PROVE  \A j \in 0..top : Lead(m, p)[j] \in Seq(Byte)
<1> DEFINE P == {j \in Nat : j <= top => Lead(m, p)[j] \in Seq(Byte)}
<1>0. Len(p.pieces) \in Nat /\ top \in Nat /\ \A j \in 1..top : p.pieces[j] \in Piece
  BY ProgramFacts
<1>1. 0 \in P
  <2>1. Lead(m, p)[0] \in Seq(Byte)
    <3>1. <<>> \in Seq(Byte)
      OBVIOUS
    <3> QED
      BY <3>1, LeadUnfolds
  <2> QED
    BY <2>1
<1>2. ASSUME NEW j \in P
      PROVE  j + 1 \in P
  <2>1. CASE j + 1 <= top
    <3>1. j \in Nat /\ j + 1 \in 1..top /\ j + 1 \in 1..Len(p.pieces) /\ j <= top
      BY <1>0, <2>1
    <3>2. Lead(m, p)[j] \in Seq(Byte)
      BY <3>1
    <3>3. PieceText(m, p.pieces[j + 1]) \in Seq(Byte)
      BY <1>0, <3>1, PieceTyped
    <3>4. Lead(m, p)[j + 1] = Lead(m, p)[j] \o PieceText(m, p.pieces[j + 1])
      <4>1. (j + 1) - 1 = j
        BY <3>1
      <4> QED
        BY <3>1, <4>1, LeadUnfolds
    <3>5. Lead(m, p)[j] \o PieceText(m, p.pieces[j + 1]) \in Seq(Byte)
      BY <3>2, <3>3
    <3>6. Lead(m, p)[j + 1] \in Seq(Byte)
      BY <3>4, <3>5
    <3> QED
      BY <3>1, <3>6
  <2> QED
    BY <2>1
<1>3. P \in SUBSET Nat
  OBVIOUS
<1> HIDE DEF P
<1>4. \A j \in Nat : j \in P
  BY <1>1, <1>2, <1>3, Induction
<1> QED
  BY <1>0, <1>4 DEF P

\* The text is the pieces joined.
LEMMA TextIsLead ==
  ASSUME Addr = Int, NEW m \in [Addr -> Byte], NEW p \in Programs, AllReadable(m, p)
  PROVE  Text(m, p) = Lead(m, p)[Len(p.pieces)] /\ Text(m, p) \in Seq(Byte)
<1> DEFINE top == Len(p.pieces)
           seqs == [j \in DOMAIN p.pieces |-> PieceText(m, p.pieces[j])]
           L == Lead(m, p)
<1>0. /\ top \in Nat /\ DOMAIN p.pieces = 1..top
      /\ \A j \in 1..top : p.pieces[j] \in Piece
  BY ProgramFacts
<1>1. \A j \in 1..top : seqs[j] = PieceText(m, p.pieces[j]) /\ seqs[j] \in Seq(Byte)
  BY <1>0, PieceTyped DEF AllReadable
<1>2. Len(seqs) = top /\ (top = 0 => seqs = <<>>)
  BY <1>0
<1>3. \A j \in 0..top : L[j] \in Seq(Byte)
  BY <1>0, LeadTyped DEF AllReadable
<1>4. L[0] = <<>> /\ \A j \in 1..top : L[j] = L[j - 1] \o seqs[j]
  <2>1. L[0] = <<>> /\ \A j \in 1..top : L[j] = L[j - 1] \o PieceText(m, p.pieces[j])
    BY LeadUnfolds
  <2> HIDE DEF seqs, L
  <2> QED
    BY <1>1, <2>1
<1>5. Text(m, p) = FlattenSeq(seqs)
  BY DEF Text
<1> HIDE DEF top, seqs, L
<1>6. CASE top = 0
  <2>1. FlattenSeq(seqs) = <<>>
    BY <1>2, <1>6 DEF FlattenSeq
  <2> QED
    BY <1>3, <1>4, <1>5, <1>6, <2>1 DEF top, L
<1>7. CASE top # 0
  <2> DEFINE flatten[j \in 1..Len(seqs)] == IF j = 1 THEN seqs[j] ELSE flatten[j - 1] \o seqs[j]
  <2>1. FlattenSeq(seqs) = flatten[Len(seqs)]
    BY <1>2, <1>7 DEF FlattenSeq
  <2>2. PICK f : Joins(f, 1, top, seqs[1], seqs)
    <3>1. 1 \in {0, 1} /\ top \in Nat
      BY <1>0
    <3> QED
      BY <3>1, JoinsExist, Zenon
  <2>3. f = [j \in 1..Len(seqs) |-> IF j = 1 THEN seqs[j] ELSE f[j - 1] \o seqs[j]]
    BY <1>2, <2>2 DEF Joins
  <2>4. flatten = [j \in 1..Len(seqs) |-> IF j = 1 THEN seqs[j] ELSE flatten[j - 1] \o seqs[j]]
    BY <2>3
  <2> HIDE DEF flatten
  <2> DEFINE P == {j \in Nat : j + 1 <= top => flatten[j + 1] = L[j + 1]}
  <2>5. 0 \in P
    <3>1. 1 \in 1..top
      BY <1>0, <1>7
    <3>2. flatten[1] = seqs[1]
      BY <1>2, <2>4, <3>1
    <3>3. L[1] = <<>> \o seqs[1] /\ seqs[1] \in Seq(Byte)
      <4>1. 1 - 1 = 0
        OBVIOUS
      <4> QED
        BY <1>1, <1>4, <3>1, <4>1
    <3>4. <<>> \o seqs[1] = seqs[1]
      BY <3>3
    <3>5. 0 + 1 = 1
      OBVIOUS
    <3> QED
      BY <3>2, <3>3, <3>4, <3>5
  <2>6. ASSUME NEW j \in P
        PROVE  j + 1 \in P
    <3>0. j \in Nat
      OBVIOUS
    <3>1. CASE j + 2 <= top
      <4>1. /\ j + 1 \in 1..top /\ j + 2 \in 1..top /\ j + 2 # 1
            /\ (j + 2) - 1 = j + 1 /\ (j + 1) + 1 = j + 2
        BY <1>0, <3>0, <3>1
      <4>2. flatten[j + 1] = L[j + 1]
        BY <1>0, <4>1
      <4>3. flatten[j + 2] = flatten[j + 1] \o seqs[j + 2]
        BY <1>2, <2>4, <4>1
      <4>4. L[j + 2] = L[j + 1] \o seqs[j + 2]
        BY <1>4, <4>1
      <4>5. flatten[(j + 1) + 1] = L[(j + 1) + 1]
        BY <4>1, <4>2, <4>3, <4>4
      <4> QED
        BY <3>0, <4>5
    <3> QED
      BY <1>0, <3>0, <3>1
  <2>7. P \in SUBSET Nat
    OBVIOUS
  <2> HIDE DEF P
  <2>8. \A j \in Nat : j \in P
    BY <2>5, <2>6, <2>7, Induction
  <2>9. top - 1 \in Nat /\ (top - 1) + 1 = top
    BY <1>0, <1>7
  <2>10. flatten[top] = L[top]
    <3>1. top - 1 \in P
      BY <2>8, <2>9
    <3> QED
      BY <1>0, <2>9, <3>1 DEF P
  <2>11. L[top] \in Seq(Byte)
    BY <1>0, <1>3
  <2> QED
    BY <1>2, <1>5, <2>1, <2>10, <2>11 DEF top, L
<1> QED
  BY <1>6, <1>7

\* What is joined first stays where it is.
LEMMA LeadPlace ==
  ASSUME Addr = Int, NEW m \in [Addr -> Byte], NEW p \in Programs, AllReadable(m, p),
         NEW j \in 0..Len(p.pieces)
  PROVE  /\ Len(Lead(m, p)[j]) \in Nat /\ Len(Lead(m, p)[j]) <= Len(Text(m, p))
         /\ \A x \in 1..Len(Lead(m, p)[j]) : Lead(m, p)[j][x] = Text(m, p)[x]
<1> DEFINE top == Len(p.pieces)
           L == Lead(m, p)
           Fits1(t) == /\ Len(L[j]) <= Len(L[t])
                       /\ \A x \in 1..Len(L[j]) : L[j][x] = L[t][x]
           P == {d \in Nat : j + d <= top => Fits1(j + d)}
<1>0. top \in Nat /\ j \in Nat /\ j <= top /\ \A t \in 1..top : p.pieces[t] \in Piece
  BY ProgramFacts
<1>1. \A t \in 0..top : L[t] \in Seq(Byte)
  BY <1>0, LeadTyped DEF AllReadable
<1>2. ASSUME NEW t \in 0..(top - 1)
      PROVE  \E q \in Seq(Byte) : L[t + 1] = L[t] \o q
  <2>1. t + 1 \in 1..top /\ (t + 1) - 1 = t
    BY <1>0
  <2>2. PieceText(m, p.pieces[t + 1]) \in Seq(Byte)
    BY <1>0, <2>1, PieceTyped DEF AllReadable
  <2>3. L[t + 1] = L[t] \o PieceText(m, p.pieces[t + 1])
    BY <2>1, LeadUnfolds
  <2> QED
    BY <2>2, <2>3
<1>3. Text(m, p) = L[top]
  BY TextIsLead
<1> HIDE DEF L, top
<1>4. Len(L[j]) \in Nat
  BY <1>0, <1>1
<1>5. 0 \in P
  <2>1. j + 0 = j
    BY <1>0
  <2> QED
    BY <1>4, <2>1
<1>6. ASSUME NEW d \in P
      PROVE  d + 1 \in P
  <2>0. d \in Nat
    OBVIOUS
  <2> DEFINE t == j + d
  <2>1. CASE t + 1 <= top
    <3>1. t \in 0..(top - 1) /\ t \in 0..top /\ j + (d + 1) = t + 1 /\ t <= top
      BY <1>0, <2>0, <2>1
    <3>2. Fits1(t)
      BY <3>1
    <3> HIDE DEF t
    <3>3. PICK q \in Seq(Byte) : L[t + 1] = L[t] \o q
      BY <1>2, <3>1
    <3>4. L[t] \in Seq(Byte)
      BY <1>1, <3>1
    <3>5. Len(L[t + 1]) >= Len(L[t]) /\ \A x \in 1..Len(L[t]) : L[t + 1][x] = L[t][x]
      BY <3>3, <3>4
    <3>6. Fits1(t + 1)
      <4>1. Len(L[t]) \in Nat /\ Len(L[t + 1]) \in Nat
        BY <3>3, <3>4
      <4>2. \A x \in 1..Len(L[j]) : x \in 1..Len(L[t])
        BY <1>4, <3>2, <4>1
      <4> QED
        BY <1>4, <3>2, <3>5, <4>1, <4>2
    <3> HIDE DEF Fits1
    <3> QED
      BY <2>0, <3>1, <3>6
  <2> HIDE DEF Fits1
  <2> QED
    BY <1>0, <2>0, <2>1
<1>7. P \in SUBSET Nat
  OBVIOUS
<1> HIDE DEF P
<1>8. \A d \in Nat : d \in P
  BY <1>5, <1>6, <1>7, Induction
<1>9. top - j \in Nat /\ j + (top - j) = top
  BY <1>0
<1>10. Fits1(top)
  <2>1. top - j \in P
    BY <1>8, <1>9
  <2> HIDE DEF Fits1
  <2> QED
    BY <1>0, <1>9, <2>1 DEF P
<1> QED
  BY <1>3, <1>4, <1>10 DEF L

-----------------------------------------------------------------------------
(* The invariant: how far each pass has come in the text asked for.         *)

M      == entry.mem
Asked  == Text(M, prog)
Before == Lead(M, prog)[i - 1]
Sent   == Append(Asked, NUL)

\* The memory once the first c bytes to send are in the buffer.
Poured(c) == [x \in Addr |-> IF x \in Buf..(Buf + c - 1) THEN Sent[x - Buf + 1] ELSE M[x]]

\* The pieces a binding loop has passed did not fail.
HasBound(j) ==
  \/ pc = "values" /\ j < i /\ Pieces[j].kind \in {"bytes", "digits"}
  \/ pc = "spans" /\ (Pieces[j].kind \in {"bytes", "digits"} \/ (Pieces[j].kind = "span" /\ j < i))
  \/ pc = "decimals" /\ (Pieces[j].kind # "decimal" \/ j < i)
  \/ pc \in {"count", "append"}

BindsFirst ==
  /\ pc \notin {"idle", "prelude", "returned"} => prog.prelude = 0
  /\ \A j \in 1..Len(Pieces) : HasBound(j) => Binding(M, Pieces[j]) = 0

Fresh ==
  /\ pc \in {"prelude", "values", "spans", "decimals"} => k = 0
  /\ pc = "prelude" => n = 0

\* The count has the pieces before i, and k bytes of a string at i.
Counted ==
  pc = "count" =>
    /\ i <= Len(Pieces) + 1
    /\ \A j \in 1..(i - 1) : Readable(M, Pieces[j])
    /\ n = 1 + Len(Before) + k
    /\ k # 0 => i <= Len(Pieces) /\ Here.kind = "bytes"
    /\ \A x \in 0..(k - 1) : M[Here.at + x] # NUL

CountedPlain ==
  pc = "strcount" => k = 0 /\ \A x \in 0..(n - 1) : M[Here.at + x] # NUL

\* The count is over: the size is that of the text.
Sized ==
  pc \in {"append", "strdecide", "strcopy"} =>
    /\ AllReadable(M, prog) /\ n = Len(Asked) + 1
    /\ pc # "strdecide" => needed = n /\ n <= cap

\* If nothing overlaps, the memory is the text up to where the pass is.
Appended ==
  pc = "append" /\ Apart(M, prog, cap) =>
    /\ i <= Len(Pieces) + 1
    /\ off = Len(Before)
    /\ k # 0 => i <= Len(Pieces) /\ k <= Len(PieceText(M, Here))
    /\ mem = Poured(off + k)

Copied ==
  pc = "strcopy" /\ Apart(M, prog, cap) => k <= n /\ mem = Poured(k)

\* The host retries with the exact size, over the memory it had.
Retried ==
  /\ calls = 0 => pc = "idle"
  /\ pc = "idle" => calls = 0
  /\ pc = "returned" /\ status = -1 => needed = Len(Asked) + 1
  /\ pc \notin {"idle", "returned"} /\ calls > 1 => cap = Len(Asked) + 1
  /\ RetryConverges

PInv ==
  /\ IInv /\ Fresh /\ BindsFirst /\ Counted /\ CountedPlain /\ Sized /\ Appended /\ Copied /\ Retried

LEMMA Frame ==
  ASSUME TypeOK
  PROVE  /\ M \in [Addr -> Byte] /\ prog \in Programs /\ Pieces = prog.pieces
         /\ Len(Pieces) \in Nat /\ \A j \in 1..Len(Pieces) : Pieces[j] \in Piece
         /\ UNCHANGED host => M' = M /\ Pieces' = Pieces /\ Asked' = Asked /\ Sent' = Sent
<1>1. M \in [Addr -> Byte]
  BY DEF TypeOK, M
<1>2. prog \in Programs /\ Pieces = prog.pieces /\ prog.pieces \in Seq(Piece)
  BY ProgramFacts DEF TypeOK, Pieces
<1>3. Len(Pieces) \in Nat /\ \A j \in 1..Len(Pieces) : Pieces[j] \in Piece
  BY <1>2
<1>4. UNCHANGED host => M' = M /\ Pieces' = Pieces
  BY DEF host, M, Pieces
<1>5. UNCHANGED host => Asked' = Asked
  BY DEF host, M, Asked
<1>6. UNCHANGED host => Sent' = Sent
  BY <1>5 DEF Sent
<1> QED
  BY <1>1, <1>2, <1>3, <1>4, <1>5, <1>6

LEMMA InitPromise == ASSUME Addr = Int, Init PROVE PInv
<1>1. IInv
  BY InitInv
<1>2. Fresh /\ BindsFirst
  BY DEF Init, Fresh, BindsFirst, HasBound
<1>3. Counted /\ CountedPlain /\ Sized /\ Appended /\ Copied /\ Retried
  BY DEF Init, Counted, CountedPlain, Sized, Appended, Copied, Retried, RetryConverges
<1> QED
  BY <1>1, <1>2, <1>3 DEF PInv

LEMMA CallPromise == ASSUME Addr = Int, PInv, Call PROVE PInv'
<1>1. IInv'
  BY CallInv DEF PInv
<1>2. pc' = "prelude" /\ calls' = calls + 1 /\ calls \in Nat
  BY DEF Call, PInv, IInv, TypeOK
<1>3. (Fresh /\ BindsFirst /\ Counted /\ CountedPlain /\ Sized /\ Appended /\ Copied)'
  BY <1>2 DEF Call, Fresh, BindsFirst, HasBound, Counted, CountedPlain, Sized, Appended, Copied
<1>4. calls' > 1 => cap' = Len(Asked') + 1
  <2> SUFFICES ASSUME calls' > 1
               PROVE  cap' = Len(Asked') + 1
    OBVIOUS
  <2>1. pc = "returned" /\ status = -1 /\ cap' = needed
    BY <1>2 DEF Call, PInv, Retried
  <2>2. needed = Len(Asked) + 1 /\ mem = M
    BY <2>1 DEF PInv, Retried, IInv, Frozen, M
  <2>3. M' = mem /\ prog' = prog
    BY DEF Call, M
  <2>4. Asked' = Asked
    BY <2>2, <2>3 DEF Asked
  <2> QED
    BY <2>1, <2>2, <2>4
<1>5. Retried'
  BY <1>2, <1>4 DEF Retried, RetryConverges
<1> QED
  BY <1>1, <1>3, <1>5 DEF PInv

\* Leaving with an error before the sizes are known.
LEMMA LeavePromise ==
  ASSUME PInv, IInv', pc \notin {"idle", "returned"}, pc' = "returned", status' # -1,
         UNCHANGED host
  PROVE  PInv'
<1>1. (Fresh /\ BindsFirst /\ Counted /\ CountedPlain /\ Sized /\ Appended /\ Copied)'
  BY DEF Fresh, BindsFirst, HasBound, Counted, CountedPlain, Sized, Appended, Copied
<1>2. Retried'
  BY DEF PInv, Retried, RetryConverges, host
<1> QED
  BY <1>1, <1>2 DEF PInv

\* A pass goes on within the call.
LEMMA RunsOn ==
  ASSUME PInv, pc \notin {"idle", "returned"}, pc' \notin {"idle", "returned"}, UNCHANGED host
  PROVE  Retried'
<1>1. Asked' = Asked
  BY Frame DEF PInv, IInv
<1> QED
  BY <1>1 DEF PInv, Retried, RetryConverges, host

LEMMA PreludePromise == ASSUME Addr = Int, PInv, Prelude PROVE PInv'
<1>1. IInv' /\ UNCHANGED <<passes, host>> /\ pc = "prelude"
  BY PreludeInv DEF PInv, Prelude
<1>2. prog.prelude \in Outcomes /\ i = 1 /\ prog.built \in BOOLEAN
  BY <1>1, ProgramFacts DEF PInv, IInv, TypeOK, Shape
<1>3. CASE prog.prelude # 0 /\ LeaveEarly(prog.prelude)
  BY <1>1, <1>2, <1>3, LeavePromise DEF LeaveEarly, Returned, Outcomes, Errors
<1>4. CASE /\ prog.prelude = 0 /\ UNCHANGED <<mem, needed, status>>
           /\ pc' = IF prog.built THEN "values" ELSE "strcount"
  <2>1. k = 0 /\ n = 0
    BY <1>1 DEF PInv, Fresh
  <2>2. pc' \in {"values", "strcount"} /\ i' = 1 /\ k' = 0 /\ n' = 0 /\ prog'.prelude = 0
    BY <1>1, <1>2, <1>4, <2>1 DEF passes, host
  <2>3. (Fresh /\ Counted /\ CountedPlain /\ Sized /\ Appended /\ Copied)'
    BY <2>2 DEF Fresh, Counted, CountedPlain, Sized, Appended, Copied
  <2>4. BindsFirst'
    BY <2>2 DEF BindsFirst, HasBound
  <2>5. Retried'
    BY <1>1, <2>2, RunsOn DEF passes, host
  <2> QED
    BY <1>1, <2>3, <2>4, <2>5 DEF PInv
<1> QED
  BY <1>3, <1>4 DEF Prelude

\* A piece bound without an error can be read, if its string ends.
LEMMA BoundReadable ==
  ASSUME NEW m, NEW p, Binding(m, p) = 0
  PROVE  p.kind # "bytes" => Readable(m, p)
  BY DEF Binding, Readable

LEMMA BindPromise ==
  ASSUME Addr = Int, PInv, NEW phase \in {"values", "spans", "decimals"}, Bind(phase)
  PROVE  PInv'
<1>1. IInv' /\ pc = phase /\ UNCHANGED <<k, off, host>> /\ k = 0
  BY BindInv DEF PInv, Fresh, Bind
<1>2. /\ M' = M /\ Pieces' = Pieces /\ Asked' = Asked /\ mem = M
      /\ Len(Pieces) \in Nat /\ i \in Nat \ {0} /\ prog.prelude = 0 /\ prog' = prog
  BY <1>1, Frame DEF PInv, IInv, TypeOK, Frozen, BindsFirst, M, host
<1>3. \A j \in 1..Len(Pieces) : Pieces[j].kind \in {"bytes", "span", "digits", "decimal"}
  BY Frame DEF PInv, IInv, Piece
<1>5. CASE Past /\ pc' = After(phase) /\ i' = 1 /\ n' = (IF phase = "decimals" THEN 1 ELSE n)
           /\ UNCHANGED <<mem, needed, status>>
  <2>1. /\ pc' \in {"spans", "decimals", "count"} /\ (pc' = "count" => n' = 1) /\ i' = 1
        /\ k' = 0
    BY <1>1, <1>5 DEF After
  <2>2. BindsFirst'
    <3> SUFFICES ASSUME NEW j \in 1..Len(Pieces), HasBound(j)'
                 PROVE  Binding(M, Pieces[j]) = 0
      BY <1>2 DEF BindsFirst
    <3>1. j < i
      BY <1>2, <1>5 DEF Past
    <3>2. HasBound(j)
      BY <1>1, <1>2, <1>3, <1>5, <2>1, <3>1 DEF HasBound, After
    <3> QED
      BY <3>2 DEF PInv, BindsFirst
  <2>3. Counted'
    <3> SUFFICES ASSUME pc' = "count"
                 PROVE  Counted'
      BY DEF Counted
    <3>1. Before' = <<>>
      <4>1. Before' = Lead(M, prog)[0]
        BY <1>2, <2>1 DEF Before
      <4> QED
        BY <4>1, Frame, LeadUnfolds DEF PInv, IInv
    <3>2. Len(Before') = 0
      BY <3>1
    <3> QED
      BY <1>2, <2>1, <3>2 DEF Counted
  <2>4. (Fresh /\ CountedPlain /\ Sized /\ Appended /\ Copied)'
    BY <2>1 DEF Fresh, CountedPlain, Sized, Appended, Copied
  <2> QED
    BY <1>1, <2>1, <2>2, <2>3, <2>4, RunsOn DEF PInv
<1>6. CASE /\ ~Past
           /\ Here.kind \in Bound(phase) /\ Binding(mem, Here) # 0
           /\ LeaveEarly(Binding(mem, Here)) /\ UNCHANGED <<i, n>>
  <2>1. status' # -1 /\ pc' = "returned"
    BY <1>6, BindingFacts DEF PInv, IInv, Outcomes, Errors, LeaveEarly, Returned
  <2> QED
    BY <1>1, <2>1, LeavePromise
<1>7. CASE /\ ~Past
           /\ ~(Here.kind \in Bound(phase) /\ Binding(mem, Here) # 0)
           /\ i' = i + 1 /\ UNCHANGED <<pc, mem, needed, status, n>>
  <2>1. BindsFirst'
    <3> SUFFICES ASSUME NEW j \in 1..Len(Pieces), HasBound(j)'
                 PROVE  Binding(M, Pieces[j]) = 0
      BY <1>2 DEF BindsFirst
    <3>1. CASE j = i /\ Pieces[j].kind \in Bound(phase)
      BY <1>2, <1>7, <3>1 DEF Here
    <3>2. CASE j # i \/ Pieces[j].kind \notin Bound(phase)
      <4>1. HasBound(j)
        BY <1>1, <1>2, <1>3, <1>7, <3>2 DEF HasBound, Bound
      <4> QED
        BY <4>1 DEF PInv, BindsFirst
    <3> QED
      BY <3>1, <3>2
  <2>2. (Fresh /\ Counted /\ CountedPlain /\ Sized /\ Appended /\ Copied)'
    BY <1>1, <1>7 DEF Fresh, Counted, CountedPlain, Sized, Appended, Copied
  <2> QED
    BY <1>1, <1>7, <2>1, <2>2, RunsOn DEF PInv
<1> QED
  BY <1>5, <1>6, <1>7 DEF Bind

\* Where the next piece of the text lies.
LEMMA LeadNext ==
  ASSUME Addr = Int, NEW m \in [Addr -> Byte], NEW p \in Programs,
         NEW j \in 1..Len(p.pieces), \A x \in 1..j : Readable(m, p.pieces[x])
  PROVE  /\ Lead(m, p)[j - 1] \in Seq(Byte) /\ Lead(m, p)[j] \in Seq(Byte)
         /\ PieceText(m, p.pieces[j]) \in Seq(Byte)
         /\ Len(Lead(m, p)[j]) = Len(Lead(m, p)[j - 1]) + Len(PieceText(m, p.pieces[j]))
         /\ \A x \in 1..Len(PieceText(m, p.pieces[j])) :
              Lead(m, p)[j][Len(Lead(m, p)[j - 1]) + x] = PieceText(m, p.pieces[j])[x]
<1>0. Len(p.pieces) \in Nat /\ p.pieces[j] \in Piece
  BY ProgramFacts
<1>1. j \in 0..Len(p.pieces) /\ j - 1 \in 0..j /\ j \in 0..j /\ j \in 1..j
  BY <1>0
<1>2. Lead(m, p)[j - 1] \in Seq(Byte) /\ Lead(m, p)[j] \in Seq(Byte)
  BY <1>1, LeadTyped
<1>3. PieceText(m, p.pieces[j]) \in Seq(Byte)
  BY <1>0, <1>1, PieceTyped
<1>4. Lead(m, p)[j] = Lead(m, p)[j - 1] \o PieceText(m, p.pieces[j])
  BY LeadUnfolds
<1> DEFINE a == Lead(m, p)[j - 1]
           b == PieceText(m, p.pieces[j])
<1> HIDE DEF a, b
<1>5. a \in Seq(Byte) /\ b \in Seq(Byte) /\ Lead(m, p)[j] = a \o b
  BY <1>2, <1>3, <1>4 DEF a, b
<1>6. Len(a \o b) = Len(a) + Len(b) /\ \A x \in 1..Len(b) : (a \o b)[Len(a) + x] = b[x]
  BY <1>5
<1> QED
  BY <1>2, <1>3, <1>5, <1>6 DEF a, b

LEMMA CountPiece ==
  ASSUME Addr = Int, PInv, pc = "count", pc' = "count", ~Past, UNCHANGED host,
         Readable(M, Here), NextPiece, n' = n + Len(PieceText(M, Here)) - k
  PROVE  Counted'
<1>1. /\ M' = M /\ Pieces' = Pieces /\ M \in [Addr -> Byte] /\ prog \in Programs /\ prog' = prog
      /\ Pieces = prog.pieces /\ Len(Pieces) \in Nat
  BY Frame DEF PInv, IInv, host
<1>2. i \in 1..Len(Pieces) /\ i' = i + 1 /\ k' = 0 /\ i' - 1 = i /\ k \in Nat
  BY <1>1 DEF PInv, IInv, TypeOK, Past, NextPiece
<1>3. n = 1 + Len(Before) + k /\ \A j \in 1..(i - 1) : Readable(M, Pieces[j])
  BY DEF PInv, Counted
<1>4. \A j \in 1..i : Readable(M, Pieces[j])
  BY <1>2, <1>3 DEF Here
<1>5. /\ Len(Lead(M, prog)[i]) = Len(Before) + Len(PieceText(M, Here))
      /\ Len(Before) \in Nat /\ Len(PieceText(M, Here)) \in Nat
  <2>1. i \in 1..Len(prog.pieces) /\ \A j \in 1..i : Readable(M, prog.pieces[j])
    BY <1>1, <1>2, <1>4
  <2>2. Before = Lead(M, prog)[i - 1] /\ Here = prog.pieces[i]
    BY <1>1 DEF Before, Here
  <2>3. /\ Len(Lead(M, prog)[i]) = Len(Lead(M, prog)[i - 1]) + Len(PieceText(M, prog.pieces[i]))
        /\ Lead(M, prog)[i - 1] \in Seq(Byte) /\ PieceText(M, prog.pieces[i]) \in Seq(Byte)
    BY <1>1, <2>1, LeadNext
  <2> QED
    BY <2>2, <2>3
<1>6. Before' = Lead(M, prog)[i]
  BY <1>1, <1>2 DEF Before
<1>7. n' = 1 + Len(Before') + k'
  BY <1>2, <1>3, <1>5, <1>6
<1> QED
  BY <1>1, <1>2, <1>4, <1>7 DEF Counted

LEMMA CountPromise == ASSUME Addr = Int, PInv, Count PROVE PInv'
<1>1. IInv' /\ pc = "count" /\ pc' = "count" /\ ~Past /\ UNCHANGED <<mem, needed, status, pc, off, host>>
  BY CountInv DEF PInv, Count
<1>2. /\ M' = M /\ Pieces' = Pieces /\ mem = M /\ Len(Pieces) \in Nat /\ i \in Nat \ {0}
      /\ Here \in Piece /\ i \in 1..Len(Pieces) /\ prog' = prog /\ k \in Nat /\ n \in Nat
  BY <1>1, Frame DEF PInv, IInv, TypeOK, Frozen, M, host, Past, Here
<1>3. Binding(M, Here) = 0
  BY <1>1, <1>2 DEF PInv, BindsFirst, HasBound, Here
<1>4. (Fresh /\ CountedPlain /\ Sized /\ Appended /\ Copied)'
  BY <1>1 DEF Fresh, CountedPlain, Sized, Appended, Copied
<1>5. BindsFirst'
  BY <1>1, <1>2 DEF PInv, BindsFirst, HasBound
<1>6. Counted'
  <2>0. /\ n = 1 + Len(Before) + k /\ (k # 0 => Here.kind = "bytes")
        /\ \A x \in 0..(k - 1) : M[Here.at + x] # NUL
        /\ \A j \in 1..(i - 1) : Readable(M, Pieces[j])
    BY <1>1 DEF PInv, Counted
  <2>1. CASE Here.kind = "bytes" /\ M[Here.at + k] = NUL
    <3>1. NextPiece /\ n' = n
      BY <1>1, <1>2, <2>1 DEF Count
    <3>2. Borrowed(M, Here.at) = Stretch(M, Here.at, k)
      <4>1. Here.at \in Int
        BY <1>2 DEF Piece
      <4>2. StringEnds(M, Here.at, k)
        BY <2>0, <2>1 DEF StringEnds
      <4> QED
        BY <1>2, <4>1, <4>2, BorrowedIs
    <3>3. Len(PieceText(M, Here)) = k
      BY <1>2, <2>1, <3>2 DEF PieceText, Stretch
    <3>4. Readable(M, Here)
      BY <1>2, <2>1 DEF Readable, Ends
    <3>5. n' = n + Len(PieceText(M, Here)) - k
      BY <1>2, <3>1, <3>3
    <3> QED
      BY <1>1, <3>1, <3>4, <3>5, CountPiece
  <2>2. CASE Here.kind = "bytes" /\ M[Here.at + k] # NUL
    <3>1. n' = n + 1 /\ k' = k + 1 /\ i' = i
      BY <1>1, <1>2, <2>2 DEF Count, NextByte
    <3>2. Before' = Before /\ Here' = Here
      BY <1>2, <3>1 DEF Before, Here
    <3>3. Len(Before) \in Nat
      <4>1. i - 1 \in 0..Len(Pieces) /\ i - 1 \in 0..(i - 1)
        BY <1>2
      <4> QED
        BY <2>0, <4>1, LeadTyped, Frame DEF Before, PInv, IInv
    <3>4. n' = 1 + Len(Before') + k'
      BY <1>2, <2>0, <3>1, <3>2, <3>3
    <3>5. \A x \in 0..(k' - 1) : M[Here.at + x] # NUL
      BY <1>2, <2>0, <2>2, <3>1
    <3> QED
      BY <1>2, <2>0, <2>2, <3>1, <3>2, <3>4, <3>5 DEF Counted
  <2>3. CASE Here.kind = "span"
    <3>1. NextPiece /\ n' = n + (Here.to - Here.from) /\ k = 0
      BY <1>1, <2>0, <2>3 DEF Count
    <3>2. Readable(M, Here)
      BY <1>3, <2>3, BoundReadable
    <3>3. Len(PieceText(M, Here)) = Here.to - Here.from
      BY <1>2, <2>3, <3>2, PieceTyped, Frame DEF PInv, IInv
    <3>4. Here.to - Here.from \in Int
      BY <1>2 DEF Piece
    <3>5. n' = n + Len(PieceText(M, Here)) - k
      BY <1>2, <3>1, <3>3, <3>4
    <3> QED
      BY <1>1, <3>1, <3>2, <3>5, CountPiece
  <2>4. CASE Here.kind \in {"digits", "decimal"}
    <3>1. NextPiece /\ n' = n + Len(Here.text) /\ k = 0
      BY <1>1, <2>0, <2>4 DEF Count
    <3>2. Readable(M, Here)
      BY <1>3, <2>4, BoundReadable
    <3>3. PieceText(M, Here) = Here.text /\ Len(Here.text) \in Nat
      BY <1>2, <2>4 DEF PieceText, Piece
    <3>4. n' = n + Len(PieceText(M, Here)) - k
      BY <1>2, <3>1, <3>3
    <3> QED
      BY <1>1, <3>1, <3>2, <3>4, CountPiece
  <2> QED
    BY <1>2, <2>1, <2>2, <2>3, <2>4 DEF Piece
<1> QED
  BY <1>1, <1>4, <1>5, <1>6, RunsOn DEF PInv

\* The count at its end is the size of the text.
LEMMA CountIsSize ==
  ASSUME Addr = Int, PInv, pc = "count", Past
  PROVE  AllReadable(M, prog) /\ n = Len(Asked) + 1
<1>1. /\ M \in [Addr -> Byte] /\ prog \in Programs /\ Pieces = prog.pieces
      /\ Len(Pieces) \in Nat /\ i \in Nat /\ k \in Nat
  BY Frame DEF PInv, IInv, TypeOK
<1>2. /\ i <= Len(Pieces) + 1 /\ n = 1 + Len(Before) + k /\ k = 0
      /\ \A j \in 1..(i - 1) : Readable(M, Pieces[j])
  BY <1>1 DEF PInv, Counted, Past
<1>3. i - 1 = Len(Pieces)
  BY <1>1, <1>2 DEF Past
<1>4. AllReadable(M, prog)
  BY <1>1, <1>2, <1>3 DEF AllReadable
<1>5. Asked = Before /\ Asked \in Seq(Byte)
  BY <1>1, <1>3, <1>4, TextIsLead DEF Asked, Before
<1>6. Len(Asked) \in Nat
  BY <1>5
<1> QED
  BY <1>2, <1>4, <1>5, <1>6

LEMMA NothingPoured ==
  ASSUME Addr = Int, PInv
  PROVE  Poured(0) = M
<1>1. M \in [Addr -> Byte]
  BY Frame DEF PInv, IInv
<1>2. \A x \in Addr : x \notin Buf..(Buf + 0 - 1)
  BY ConstantsAssumption
<1> QED
  BY <1>1, <1>2 DEF Poured

LEMMA PouredFrame ==
  ASSUME PInv, UNCHANGED host
  PROVE  \A c : Poured(c)' = Poured(c)
<1>1. M' = M /\ Sent' = Sent
  BY Frame DEF PInv, IInv
<1> QED
  BY <1>1 DEF Poured

LEMMA DecidePromise ==
  ASSUME Addr = Int, PInv,
         \/ pc = "count" /\ Past /\ Decide("append")
         \/ pc = "strdecide" /\ Decide("strcopy")
  PROVE  PInv'
<1>1. /\ IInv' /\ needed' = n /\ i' = 1 /\ k' = 0 /\ UNCHANGED <<mem, n, off, host>>
      /\ pc \in {"count", "strdecide"}
  BY DecideInv DEF PInv, Decide, Size
<1>2. /\ M' = M /\ Pieces' = Pieces /\ Asked' = Asked /\ mem = M /\ prog' = prog /\ cap' = cap
      /\ off = 0
  BY <1>1, Frame DEF PInv, IInv, Frozen, Shape, M, host
<1>3. AllReadable(M, prog) /\ n = Len(Asked) + 1
  BY CountIsSize DEF PInv, Sized
<1>4. n \in Nat /\ cap \in Int /\ prog \in Programs
  BY DEF PInv, IInv, TypeOK
<1>5. CASE cap < n /\ pc' = "returned" /\ status' = -1
  <2>1. (Fresh /\ BindsFirst /\ Counted /\ CountedPlain /\ Sized /\ Appended /\ Copied)'
    BY <1>5 DEF Fresh, BindsFirst, HasBound, Counted, CountedPlain, Sized, Appended, Copied
  <2>2. calls' <= 1 /\ calls' = calls /\ calls # 0 /\ calls' \in Nat
    BY <1>1, <1>3, <1>4, <1>5 DEF PInv, Retried, host, IInv, TypeOK
  <2>3. Retried'
    BY <1>1, <1>2, <1>3, <1>5, <2>2 DEF Retried, RetryConverges
  <2> QED
    BY <1>1, <2>1, <2>3 DEF PInv
<1>6. CASE /\ cap >= n
           /\ \/ pc = "count" /\ pc' = "append"
              \/ pc = "strdecide" /\ pc' = "strcopy"
  <2>1. (Fresh /\ Counted /\ CountedPlain)'
    BY <1>6 DEF Fresh, Counted, CountedPlain
  <2>2. BindsFirst'
    BY <1>1, <1>2, <1>6 DEF PInv, BindsFirst, HasBound
  <2>3. Sized'
    BY <1>1, <1>2, <1>3, <1>6 DEF Sized
  <2>4. mem' = Poured(0)'
    BY <1>1, <1>2, NothingPoured, PouredFrame
  <2>5. Before' = <<>>
    <3>1. Before' = Lead(M, prog)[0]
      BY <1>1, <1>2 DEF Before
    <3> QED
      BY <1>4, <3>1, LeadUnfolds
  <2>6. Appended'
    <3>1. off' = 0 /\ Len(Before') = 0 /\ off' + k' = 0 /\ Len(Pieces) \in Nat
      BY <1>1, <1>2, <2>5, Frame DEF PInv, IInv
    <3> QED
      BY <1>1, <1>2, <2>4, <3>1 DEF Appended
  <2>7. Copied'
    BY <1>1, <1>4, <2>4 DEF Copied
  <2>8. Retried'
    BY <1>1, <1>6, RunsOn
  <2> QED
    BY <1>1, <2>1, <2>2, <2>3, <2>6, <2>7, <2>8 DEF PInv
<1> QED
  BY <1>4, <1>5, <1>6 DEF Decide, TooSmall, Returned

\* A borrowed string: its only piece is its text.
LEMMA PlainText ==
  ASSUME Addr = Int, PInv, pc \in PlainPasses, NEW s \in Nat, StringEnds(M, Here.at, s)
  PROVE  AllReadable(M, prog) /\ Asked = Stretch(M, Here.at, s) /\ Len(Asked) = s
<1>1. /\ M \in [Addr -> Byte] /\ prog \in Programs /\ Pieces = prog.pieces /\ ~prog.built
      /\ Here = Pieces[1]
  BY Frame DEF PInv, IInv, Shape, Here
<1>2. Len(Pieces) = 1 /\ Here.kind = "bytes" /\ Here \in Piece
  BY <1>1, ProgramFacts, Frame DEF PInv, IInv
<1>3. Here.at \in Int
  BY <1>2 DEF Piece
<1>4. Readable(M, Here)
  BY <1>2 DEF Readable, Ends, StringEnds
<1>5. AllReadable(M, prog)
  BY <1>1, <1>2, <1>4 DEF AllReadable
<1>6. PieceText(M, Here) = Stretch(M, Here.at, s)
  BY <1>1, <1>2, <1>3, BorrowedIs DEF PieceText
<1>7. Stretch(M, Here.at, s) \in Seq(Byte) /\ Len(Stretch(M, Here.at, s)) = s
  BY <1>1, <1>3 DEF Stretch
<1>8. Lead(M, prog)[1] = <<>> \o PieceText(M, Here)
  <2>1. 1 \in 1..Len(prog.pieces) /\ 1 - 1 = 0
    BY <1>1, <1>2
  <2>2. Lead(M, prog)[1] = Lead(M, prog)[1 - 1] \o PieceText(M, prog.pieces[1])
    BY <1>1, <2>1, LeadUnfolds
  <2>3. Lead(M, prog)[0] = <<>>
    BY <1>1, LeadUnfolds
  <2> QED
    BY <1>1, <2>1, <2>2, <2>3
<1>9. Asked = Lead(M, prog)[1]
  BY <1>1, <1>2, <1>5, TextIsLead DEF Asked
<1>10. Asked = Stretch(M, Here.at, s)
  BY <1>6, <1>7, <1>8, <1>9
<1> QED
  BY <1>5, <1>7, <1>10

LEMMA StrCountPromise == ASSUME Addr = Int, PInv, StrCount PROVE PInv'
<1>1. /\ IInv' /\ pc = "strcount" /\ n' = n + 1 /\ pc' \in {"strcount", "strdecide"}
      /\ UNCHANGED <<mem, needed, status, i, k, off, host>>
      /\ pc' = "strdecide" <=> mem[Here.at + n] = NUL
  BY StrCountInv DEF PInv, StrCount
<1>2. /\ M' = M /\ Pieces' = Pieces /\ Asked' = Asked /\ mem = M /\ prog' = prog /\ Here' = Here
      /\ n \in Nat
  BY <1>1, Frame DEF PInv, IInv, TypeOK, Frozen, M, host, Here
<1>3. k = 0 /\ \A x \in 0..(n - 1) : M[Here.at + x] # NUL
  BY <1>1 DEF PInv, CountedPlain
<1>4. (Fresh /\ Counted /\ Appended /\ Copied)'
  BY <1>1 DEF Fresh, Counted, Appended, Copied
<1>5. BindsFirst'
  BY <1>1, <1>2 DEF PInv, BindsFirst, HasBound
<1>6. CountedPlain'
  <2> SUFFICES ASSUME pc' = "strcount"
               PROVE  CountedPlain'
    BY DEF CountedPlain
  <2>1. M[Here.at + n] # NUL
    BY <1>1, <1>2
  <2>2. \A x \in 0..(n' - 1) : M[Here.at + x] # NUL
    BY <1>1, <1>2, <1>3, <2>1
  <2> QED
    BY <1>1, <1>2, <1>3, <2>2 DEF CountedPlain
<1>7. Sized'
  <2> SUFFICES ASSUME pc' = "strdecide"
               PROVE  Sized'
    BY <1>1 DEF Sized
  <2>1. StringEnds(M, Here.at, n)
    BY <1>1, <1>2, <1>3 DEF StringEnds
  <2>2. AllReadable(M, prog) /\ Len(Asked) = n
    BY <1>1, <1>2, <2>1, PlainText DEF PlainPasses
  <2> QED
    BY <1>1, <1>2, <2>2 DEF Sized
<1>8. Retried'
  BY <1>1, RunsOn
<1> QED
  BY <1>1, <1>4, <1>5, <1>6, <1>7, <1>8 DEF PInv

\* What an append step leaves as it is.
LEMMA AppendKeeps ==
  ASSUME PInv, IInv', pc = "append", pc' = "append", UNCHANGED <<needed, n, host>>, Appended'
  PROVE  PInv'
<1>1. M' = M /\ Pieces' = Pieces /\ Asked' = Asked /\ prog' = prog /\ cap' = cap
  BY Frame DEF PInv, IInv, host
<1>2. (Fresh /\ Counted /\ CountedPlain /\ Copied)'
  BY DEF Fresh, Counted, CountedPlain, Copied
<1>3. BindsFirst'
  BY <1>1 DEF PInv, BindsFirst, HasBound
<1>4. Sized'
  BY <1>1 DEF PInv, Sized
<1> QED
  BY <1>2, <1>3, <1>4, RunsOn DEF PInv

\* Where the piece at hand belongs in the buffer.
LEMMA AppendAt ==
  ASSUME Addr = Int, PInv, pc = "append", ~Past, Apart(M, prog, cap),
         NEW t, t = PieceText(M, Here)
  PROVE  /\ t \in Seq(Byte) /\ Here \in Piece /\ Readable(M, Here) /\ i \in 1..Len(Pieces)
         /\ off = Len(Before) /\ off \in Nat /\ k \in 0..Len(t) /\ mem = Poured(off + k)
         /\ off + Len(t) <= cap - 1
         /\ \A x \in 1..Len(t) : Sent[off + x] = t[x]
         /\ Len(Lead(M, prog)[i]) = off + Len(t)
         /\ \A x \in Addr : x \in Read(M, Here) => mem[x] = M[x]
<1>1. /\ M \in [Addr -> Byte] /\ prog \in Programs /\ Pieces = prog.pieces
      /\ Len(Pieces) \in Nat /\ i \in 1..Len(Pieces) /\ Here \in Piece /\ Here = Pieces[i]
      /\ k \in Nat /\ cap \in Int
  BY Frame DEF PInv, IInv, TypeOK, Past, Here
<1>2. /\ AllReadable(M, prog) /\ n = Len(Asked) + 1 /\ n <= cap
  BY DEF PInv, Sized
<1>3. /\ off = Len(Before) /\ (k # 0 => k <= Len(t)) /\ mem = Poured(off + k)
  BY DEF PInv, Appended
<1>4. Readable(M, Here)
  BY <1>1, <1>2 DEF AllReadable
<1>5. i \in 1..Len(prog.pieces) /\ i \in 0..Len(prog.pieces)
      /\ \A j \in 1..i : Readable(M, prog.pieces[j])
  BY <1>1, <1>2 DEF AllReadable
<1> DEFINE B == Lead(M, prog)[i - 1]
           L == Lead(M, prog)[i]
<1>6. /\ B \in Seq(Byte) /\ L \in Seq(Byte) /\ t \in Seq(Byte)
      /\ Len(L) = Len(B) + Len(t) /\ \A x \in 1..Len(t) : L[Len(B) + x] = t[x]
  <2>1. t = PieceText(M, prog.pieces[i])
    BY <1>1
  <2>2. /\ Lead(M, prog)[i - 1] \in Seq(Byte) /\ Lead(M, prog)[i] \in Seq(Byte)
        /\ PieceText(M, prog.pieces[i]) \in Seq(Byte)
        /\ Len(Lead(M, prog)[i]) = Len(Lead(M, prog)[i - 1]) + Len(PieceText(M, prog.pieces[i]))
        /\ \A x \in 1..Len(PieceText(M, prog.pieces[i])) :
             Lead(M, prog)[i][Len(Lead(M, prog)[i - 1]) + x] = PieceText(M, prog.pieces[i])[x]
    BY <1>1, <1>5, LeadNext
  <2> QED
    BY <2>1, <2>2
<1>7. /\ Len(L) <= Len(Asked) /\ \A x \in 1..Len(L) : L[x] = Asked[x]
  BY <1>1, <1>2, <1>5, LeadPlace DEF Asked
<1>8. Asked \in Seq(Byte) /\ Len(Asked) \in Nat
  BY <1>1, <1>2, TextIsLead DEF Asked
<1>9. off = Len(B)
  BY <1>3 DEF Before
<1> HIDE DEF B, L
<1>10. off \in Nat /\ Len(t) \in Nat /\ off + Len(t) <= cap - 1 /\ Len(L) = off + Len(t)
  <2>1. Len(t) \in Nat /\ Len(B) \in Nat /\ Len(L) \in Nat
    BY <1>6
  <2>2. off \in Nat /\ Len(L) = off + Len(t)
    BY <1>6, <1>9, <2>1
  <2>3. Len(L) <= Len(Asked) /\ Len(Asked) + 1 <= cap
    BY <1>2, <1>7
  <2>4. off + Len(t) <= cap - 1
    <3> DEFINE a == Len(Asked)
               b == Len(t)
    <3>1. a \in Nat /\ b \in Nat /\ cap \in Int /\ off + b <= a /\ a + 1 <= cap
      BY <1>1, <1>8, <2>1, <2>2, <2>3
    <3> HIDE DEF a, b
    <3>2. off + b <= cap - 1
      BY <2>2, <3>1
    <3> QED
      BY <3>2 DEF b
  <2> QED
    BY <2>1, <2>2, <2>4
<1>11. k \in 0..Len(t)
  BY <1>1, <1>3, <1>10
<1>12. ASSUME NEW x \in 1..Len(t)
       PROVE  Sent[off + x] = t[x]
  <2>1. off + x \in 1..Len(L) /\ off + x \in 1..Len(Asked)
    BY <1>6, <1>7, <1>8, <1>10
  <2>2. Sent[off + x] = Asked[off + x]
    BY <1>8, <2>1 DEF Sent
  <2> QED
    BY <1>6, <1>7, <1>9, <2>1, <2>2
<1>13. ASSUME NEW x \in Addr, x \in Read(M, Here)
       PROVE  mem[x] = M[x]
  <2>1. x \notin Buf..(Buf + cap - 1)
    <3>1. Here = prog.pieces[i] /\ i \in DOMAIN prog.pieces
      BY <1>1, ProgramFacts
    <3> QED
      BY <1>13, <3>1 DEF Apart
  <2> QED
    BY <2>1 DEF PInv, IInv, OnlyBufferWritten, M
<1> QED
  BY <1>1, <1>3, <1>4, <1>6, <1>9, <1>10, <1>11, <1>12, <1>13 DEF L

LEMMA AppendedByte ==
  ASSUME Addr = Int, PInv, pc = "append", ~Past, Apart(M, prog, cap), UNCHANGED <<i, off, host>>,
         NEW t, t = PieceText(M, Here), k < Len(t), Write(Buf + off + k, t[k + 1]), k' = k + 1
  PROVE  Appended'
<1>1. /\ t \in Seq(Byte) /\ i \in 1..Len(Pieces)
      /\ off = Len(Before) /\ off \in Nat /\ k \in 0..Len(t) /\ mem = Poured(off + k)
      /\ \A x \in 1..Len(t) : Sent[off + x] = t[x]
  BY AppendAt
<1>2. /\ M' = M /\ Pieces' = Pieces /\ Here' = Here /\ Before' = Before /\ prog' = prog
      /\ Len(Pieces) \in Nat
  BY Frame DEF PInv, IInv, Here, Before, host
<1>3. Buf \in Int /\ k \in Nat /\ Len(t) \in Nat /\ k + 1 \in 1..Len(t)
  BY <1>1, ConstantsAssumption
<1>4. mem' = Poured(off + k + 1)
  <2>1. DOMAIN mem = Addr
    BY DEF PInv, IInv, TypeOK
  <2>2. mem' = [x \in Addr |-> IF x = Buf + off + k THEN t[k + 1] ELSE mem[x]]
    BY <2>1 DEF Write
  <2>3. ASSUME NEW x \in Addr
        PROVE  mem'[x] = Poured(off + k + 1)[x]
    <3>0. x \in Int
      OBVIOUS
    <3>1. CASE x = Buf + off + k
      <4>1. x \in Buf..(Buf + (off + k + 1) - 1) /\ x - Buf + 1 = off + (k + 1)
        BY <1>1, <1>3, <3>1
      <4>2. Poured(off + k + 1)[x] = Sent[off + (k + 1)]
        BY <4>1 DEF Poured
      <4> QED
        BY <1>1, <1>3, <2>2, <3>1, <4>2
    <3>2. CASE x # Buf + off + k
      <4>1. x \in Buf..(Buf + (off + k + 1) - 1) <=> x \in Buf..(Buf + (off + k) - 1)
        BY <1>1, <1>3, <3>0, <3>2
      <4>2. Poured(off + k + 1)[x] = Poured(off + k)[x]
        BY <4>1 DEF Poured
      <4> QED
        BY <1>1, <2>2, <3>2, <4>2
    <3> QED
      BY <3>1, <3>2
  <2>4. mem' = [x \in Addr |-> mem'[x]]
    BY <2>2
  <2>5. Poured(off + k + 1) = [x \in Addr |-> Poured(off + k + 1)[x]]
    BY DEF Poured
  <2> QED
    BY <2>3, <2>4, <2>5
<1>5. (mem = Poured(off + k))'
  <2>1. off' + k' = off + k + 1
    BY <1>1, <1>3
  <2>2. Sent' = Sent
    BY Frame DEF PInv, IInv
  <2>3. mem' = [x \in Addr |-> IF x \in Buf..(Buf + (off' + k') - 1) THEN Sent[x - Buf + 1] ELSE M[x]]
    BY <1>4, <2>1 DEF Poured
  <2> QED
    BY <1>2, <2>2, <2>3 DEF Poured
<1>6. k' <= Len(t) /\ i' <= Len(Pieces) + 1 /\ i' <= Len(Pieces)
  BY <1>1, <1>2, <1>3
<1> QED
  BY <1>1, <1>2, <1>5, <1>6 DEF Appended

LEMMA AppendedPiece ==
  ASSUME Addr = Int, PInv, pc = "append", ~Past, Apart(M, prog, cap), UNCHANGED host, NextPiece,
         NEW t, t = PieceText(M, Here), off' = off + Len(t), mem' = Poured(off + Len(t))
  PROVE  Appended'
<1>1. /\ t \in Seq(Byte) /\ i \in 1..Len(Pieces) /\ off \in Nat
      /\ Len(Lead(M, prog)[i]) = off + Len(t)
  BY AppendAt
<1>2. M' = M /\ Pieces' = Pieces /\ prog' = prog /\ Len(Pieces) \in Nat
  BY Frame DEF PInv, IInv, host
<1>3. i' = i + 1 /\ i' - 1 = i /\ k' = 0 /\ i' <= Len(Pieces) + 1 /\ Len(t) \in Nat
  BY <1>1, <1>2 DEF NextPiece
<1>4. off' = Len(Before')
  BY <1>1, <1>2, <1>3 DEF Before
<1>5. (mem = Poured(off + k))'
  <2>1. off' + k' = off + Len(t)
    BY <1>1, <1>3
  <2>2. Sent' = Sent
    BY Frame DEF PInv, IInv
  <2>3. mem' = [x \in Addr |-> IF x \in Buf..(Buf + (off' + k') - 1) THEN Sent[x - Buf + 1] ELSE M[x]]
    BY <2>1 DEF Poured
  <2> QED
    BY <1>2, <2>2, <2>3 DEF Poured
<1> QED
  BY <1>2, <1>3, <1>4, <1>5 DEF Appended

LEMMA AppendStringPromise == ASSUME Addr = Int, PInv, AppendString PROVE PInv'
<1>1. /\ IInv' /\ pc = "append" /\ pc' = "append" /\ ~Past /\ Here.kind = "bytes"
      /\ UNCHANGED <<needed, status, n, host>>
  BY AppendStringInv DEF PInv, AppendString
<1> SUFFICES ASSUME Apart(M, prog, cap)
             PROVE  Appended'
  <2>1. M' = M /\ prog' = prog /\ cap' = cap
    BY <1>1 DEF M, host
  <2> QED
    BY <1>1, <2>1, AppendKeeps DEF Appended
<1> DEFINE t == PieceText(M, Here)
<1>2. /\ t \in Seq(Byte) /\ Here \in Piece /\ Readable(M, Here)
      /\ off \in Nat /\ k \in 0..Len(t) /\ mem = Poured(off + k) /\ off + Len(t) <= cap - 1
      /\ \A x \in Addr : x \in Read(M, Here) => mem[x] = M[x]
  BY <1>1, AppendAt
<1>3. Here.at \in Int /\ cap \in Int
  BY <1>2 DEF Piece, PInv, IInv, TypeOK
<1>4. PICK s \in Nat : StringEnds(M, Here.at, s)
  BY <1>1, <1>2, <1>3, FirstNul DEF Readable
<1>5. t = Stretch(M, Here.at, s) /\ Borrowed(M, Here.at) = Stretch(M, Here.at, s)
  BY <1>1, <1>3, <1>4, BorrowedIs DEF PieceText
<1>6. Len(Stretch(M, Here.at, s)) = s /\ \A x \in 1..s : Stretch(M, Here.at, s)[x] = M[Here.at + x - 1]
  BY DEF Stretch
<1>7. Len(t) = s /\ Read(M, Here) = Here.at..(Here.at + s)
  BY <1>1, <1>5, <1>6 DEF Read
<1> HIDE DEF t
<1>8. mem[Here.at + k] = M[Here.at + k] /\ k \in 0..s
  <2>1. k \in 0..s /\ Here.at + k \in Int /\ Here.at + k \in Here.at..(Here.at + s)
    BY <1>2, <1>3, <1>7
  <2> QED
    BY <1>2, <1>7, <2>1
<1>9. CASE Full \/ mem[Here.at + k] = NUL
  <2>1. k = s
    <3>1. CASE Full
      BY <1>2, <1>3, <1>7, <1>8, <3>1 DEF Full
    <3>2. CASE mem[Here.at + k] = NUL
      <4>1. k \notin 0..(s - 1)
        BY <1>4, <1>8, <3>2 DEF StringEnds
      <4> QED
        BY <1>8, <4>1
    <3> QED
      BY <1>9, <3>1, <3>2
  <2>2. NextPiece /\ off' = off + Len(t) /\ mem' = Poured(off + Len(t))
    BY <1>2, <1>7, <1>9, <2>1 DEF AppendString
  <2> QED
    BY <1>1, <2>2, AppendedPiece DEF t
<1>10. CASE ~(Full \/ mem[Here.at + k] = NUL)
  <2>1. k # s
    BY <1>4, <1>8, <1>10 DEF StringEnds
  <2>2. k < Len(t) /\ k + 1 \in 1..s /\ Here.at + (k + 1) - 1 = Here.at + k
    BY <1>3, <1>7, <1>8, <2>1
  <2>3. t[k + 1] = M[Here.at + k]
    BY <1>5, <1>6, <2>2
  <2>4. Write(Buf + off + k, t[k + 1]) /\ k' = k + 1 /\ UNCHANGED <<i, off>>
    BY <1>8, <1>10, <2>3 DEF AppendString, NextByte
  <2> QED
    BY <1>1, <2>2, <2>4, AppendedByte DEF t
<1> QED
  BY <1>9, <1>10

LEMMA AppendSpanPromise == ASSUME Addr = Int, PInv, AppendSpan PROVE PInv'
<1>1. /\ IInv' /\ pc = "append" /\ pc' = "append" /\ ~Past /\ Here.kind = "span"
      /\ UNCHANGED <<needed, status, n, host>>
  BY AppendSpanInv DEF PInv, AppendSpan
<1> SUFFICES ASSUME Apart(M, prog, cap)
             PROVE  Appended'
  <2>1. M' = M /\ prog' = prog /\ cap' = cap
    BY <1>1 DEF M, host
  <2> QED
    BY <1>1, <2>1, AppendKeeps DEF Appended
<1> DEFINE t == PieceText(M, Here)
           w == Here.to - Here.from
<1>2. /\ t \in Seq(Byte) /\ Here \in Piece /\ Readable(M, Here)
      /\ off \in Nat /\ k \in 0..Len(t) /\ mem = Poured(off + k) /\ off + Len(t) <= cap - 1
      /\ \A x \in Addr : x \in Read(M, Here) => mem[x] = M[x]
  BY <1>1, AppendAt
<1>3. Here.at \in Int /\ Here.from \in Int /\ Here.to \in Int /\ cap \in Int
  BY <1>2 DEF Piece, PInv, IInv, TypeOK
<1>4. Here.from >= 0 /\ w \in Nat
  BY <1>1, <1>2, <1>3 DEF Readable, IsSpan
<1>5. t = [j \in 1..w |-> M[Here.at + Here.from + j - 1]]
  BY <1>1 DEF PieceText
<1>6. Len(t) = w /\ Read(M, Here) = Here.at..(Here.at + Here.to - 1)
  <2>1. Read(M, Here) = Here.at..(Here.at + Here.to - 1)
    BY <1>1 DEF Read
  <2> HIDE DEF w
  <2>2. Len(t) = w
    BY <1>4, <1>5
  <2> QED
    BY <2>1, <2>2
<1>7. k \in 0..w
  BY <1>2, <1>6
<1>8. CASE k >= w \/ Full
  <2>1. k = w
    BY <1>2, <1>3, <1>4, <1>6, <1>7, <1>8 DEF Full
  <2>2. NextPiece /\ off' = off + Len(t) /\ mem' = Poured(off + Len(t))
    BY <1>2, <1>6, <1>8, <2>1 DEF AppendSpan
  <2> HIDE DEF t
  <2> QED
    BY <1>1, <2>2, AppendedPiece DEF t
<1>9. CASE ~(k >= w \/ Full)
  <2>1. /\ k < Len(t) /\ k + 1 \in 1..w /\ Here.at + Here.from + (k + 1) - 1 = Here.at + Here.from + k
        /\ Here.at + Here.from + k \in Int
        /\ Here.at + Here.from + k \in Here.at..(Here.at + Here.to - 1)
    BY <1>3, <1>4, <1>6, <1>7, <1>9
  <2>2. t[k + 1] = M[Here.at + Here.from + k]
    <3> HIDE DEF t, w
    <3> QED
      BY <1>5, <2>1
  <2>3. mem[Here.at + Here.from + k] = M[Here.at + Here.from + k]
    BY <1>2, <1>6, <2>1
  <2>4. Write(Buf + off + k, t[k + 1]) /\ k' = k + 1 /\ UNCHANGED <<i, off>>
    BY <1>9, <2>2, <2>3 DEF AppendSpan, NextByte
  <2> HIDE DEF t
  <2> QED
    BY <1>1, <2>1, <2>4, AppendedByte DEF t
<1> QED
  BY <1>8, <1>9

LEMMA AppendDigitsPromise == ASSUME Addr = Int, PInv, AppendDigits PROVE PInv'
<1>1. /\ IInv' /\ pc = "append" /\ pc' = "append" /\ ~Past /\ Here.kind \in {"digits", "decimal"}
      /\ NextPiece /\ UNCHANGED <<needed, status, n, host>>
  BY AppendDigitsInv DEF PInv, AppendDigits
<1> SUFFICES ASSUME Apart(M, prog, cap)
             PROVE  Appended'
  <2>1. M' = M /\ prog' = prog /\ cap' = cap
    BY <1>1 DEF M, host
  <2> QED
    BY <1>1, <2>1, AppendKeeps DEF Appended
<1> DEFINE t == Here.text
<1>2. t = PieceText(M, Here)
  BY <1>1 DEF PieceText
<1>3. /\ t \in Seq(Byte) /\ off \in Nat /\ k \in 0..Len(t) /\ mem = Poured(off + k)
      /\ off + Len(t) <= cap - 1 /\ \A x \in 1..Len(t) : Sent[off + x] = t[x]
  BY <1>1, <1>2, AppendAt
<1>4. /\ mem' = [x \in Addr |-> IF x \in (Buf + off)..(Buf + off + Len(t) - 1)
                                THEN t[x - Buf - off + 1] ELSE mem[x]]
      /\ off' = off + Len(t)
  BY <1>1, <1>3 DEF AppendDigits, Fits
<1> HIDE DEF t
<1>5. mem' = Poured(off + Len(t))
  <2>0. Buf \in Int /\ Len(t) \in Nat /\ k \in Nat /\ k <= Len(t)
    BY <1>3, ConstantsAssumption
  <2>1. ASSUME NEW x \in Addr
        PROVE  mem'[x] = Poured(off + Len(t))[x]
    <3>0. x \in Int
      OBVIOUS
    <3>1. CASE x \in (Buf + off)..(Buf + off + Len(t) - 1)
      <4>1. /\ x \in Buf..(Buf + (off + Len(t)) - 1) /\ x - Buf - off + 1 \in 1..Len(t)
            /\ off + (x - Buf - off + 1) = x - Buf + 1
        BY <1>3, <2>0, <3>0, <3>1
      <4>2. Poured(off + Len(t))[x] = Sent[x - Buf + 1]
        BY <4>1 DEF Poured
      <4>3. Sent[x - Buf + 1] = t[x - Buf - off + 1]
        BY <1>3, <4>1
      <4> QED
        BY <1>4, <3>1, <4>2, <4>3
    <3>2. CASE x \notin (Buf + off)..(Buf + off + Len(t) - 1)
      <4>1. x \in Buf..(Buf + (off + Len(t)) - 1) <=> x \in Buf..(Buf + (off + k) - 1)
        BY <1>3, <2>0, <3>0, <3>2
      <4>2. Poured(off + Len(t))[x] = Poured(off + k)[x]
        BY <4>1 DEF Poured
      <4> QED
        BY <1>3, <1>4, <3>2, <4>2
    <3> QED
      BY <3>1, <3>2
  <2>2. mem' = [x \in Addr |-> mem'[x]]
    BY <1>4
  <2>3. Poured(off + Len(t)) = [x \in Addr |-> Poured(off + Len(t))[x]]
    BY DEF Poured
  <2> QED
    BY <2>1, <2>2, <2>3
<1> QED
  BY <1>1, <1>2, <1>4, <1>5, AppendedPiece

LEMMA TerminatePromise == ASSUME Addr = Int, PInv, Terminate PROVE PInv'
  BY TerminateInv, LeavePromise DEF PInv, Terminate, Returned

\* The byte a borrowed string's copy is at is the one to send.
LEMMA CopyAt ==
  ASSUME Addr = Int, PInv, pc = "strcopy", Apart(M, prog, cap), k < n
  PROVE  mem[Here.at + k] = Sent[k + 1]
<1>1. /\ M \in [Addr -> Byte] /\ prog \in Programs /\ Pieces = prog.pieces /\ ~prog.built
      /\ Here = Pieces[1] /\ k \in Nat /\ n \in Nat
  BY Frame DEF PInv, IInv, TypeOK, Shape, PlainPasses, Here
<1>2. Len(Pieces) = 1 /\ Here.kind = "bytes" /\ Here \in Piece
  BY <1>1, ProgramFacts, Frame DEF PInv, IInv
<1>3. Here.at \in Int
  BY <1>2 DEF Piece
<1>4. AllReadable(M, prog) /\ n = Len(Asked) + 1
  BY DEF PInv, Sized
<1>5. PICK s \in Nat : StringEnds(M, Here.at, s)
  BY <1>1, <1>2, <1>3, <1>4, FirstNul DEF AllReadable, Readable
<1>6. Asked = Stretch(M, Here.at, s) /\ Len(Asked) = s
  BY <1>5, PlainText DEF PlainPasses
<1>7. n = s + 1 /\ k \in 0..s
  BY <1>1, <1>4, <1>6
<1>8. mem[Here.at + k] = M[Here.at + k]
  <2>1. Read(M, Here) = Here.at..(Here.at + s)
    <3>1. Borrowed(M, Here.at) = Stretch(M, Here.at, s)
      BY <1>3, <1>5, BorrowedIs
    <3> QED
      BY <1>2, <1>6, <3>1 DEF Read
  <2>2. Here.at + k \in Addr /\ Here.at + k \in Read(M, Here)
    BY <1>3, <1>7, <2>1
  <2>3. Here.at + k \notin Buf..(Buf + cap - 1)
    <3>1. 1 \in DOMAIN prog.pieces
      BY <1>1, <1>2, ProgramFacts
    <3> QED
      BY <1>1, <2>2, <3>1 DEF Apart
  <2> QED
    BY <2>2, <2>3 DEF PInv, IInv, OnlyBufferWritten, M
<1>9. Asked \in Seq(Byte)
  BY <1>1, <1>4, TextIsLead DEF Asked
<1>10. CASE k < s
  <2>1. k + 1 \in 1..s /\ Here.at + (k + 1) - 1 = Here.at + k
    BY <1>3, <1>7, <1>10
  <2>2. Asked[k + 1] = M[Here.at + k]
    BY <1>6, <2>1 DEF Stretch
  <2>3. Sent[k + 1] = Asked[k + 1]
    BY <1>6, <1>9, <2>1 DEF Sent
  <2> QED
    BY <1>8, <2>2, <2>3
<1>11. CASE k = s
  <2>1. Sent[k + 1] = NUL
    BY <1>6, <1>9, <1>11 DEF Sent
  <2>2. M[Here.at + k] = NUL
    BY <1>5, <1>11 DEF StringEnds
  <2> QED
    BY <1>8, <2>1, <2>2
<1> QED
  BY <1>7, <1>10, <1>11

LEMMA StrCopyPromise == ASSUME Addr = Int, PInv, StrCopy PROVE PInv'
<1>1. IInv' /\ pc = "strcopy" /\ UNCHANGED <<needed, i, n, off, host>>
  BY StrCopyInv DEF PInv, StrCopy
<1>2. CASE Returned(0)
  BY <1>1, <1>2, LeavePromise DEF Returned
<1>3. CASE k < n /\ Write(Buf + k, mem[Here.at + k]) /\ k' = k + 1 /\ UNCHANGED <<pc, status>>
  <2>1. M' = M /\ Pieces' = Pieces /\ Asked' = Asked /\ Sent' = Sent /\ prog' = prog /\ cap' = cap
    BY <1>1, Frame DEF PInv, IInv, host
  <2>2. (Fresh /\ Counted /\ CountedPlain /\ Appended)'
    BY <1>1, <1>3 DEF Fresh, Counted, CountedPlain, Appended
  <2>3. BindsFirst'
    BY <1>1, <1>3, <2>1 DEF PInv, BindsFirst, HasBound
  <2>4. Sized'
    BY <1>1, <1>3, <2>1 DEF PInv, Sized
  <2>5. Copied'
    <3> SUFFICES ASSUME Apart(M, prog, cap)
                 PROVE  (k <= n /\ mem = Poured(k))'
      BY <2>1 DEF Copied
    <3>1. k \in Nat /\ n \in Nat /\ Buf \in Int /\ DOMAIN mem = Addr /\ mem = Poured(k)
      BY <1>1, ConstantsAssumption DEF PInv, IInv, TypeOK, Copied
    <3>2. mem' = [x \in Addr |-> IF x = Buf + k THEN Sent[k + 1] ELSE mem[x]]
      BY <1>1, <1>3, <3>1, CopyAt DEF Write
    <3>3. ASSUME NEW x \in Addr
          PROVE  mem'[x] = Poured(k + 1)[x]
      <4>0. x \in Int
        OBVIOUS
      <4>1. CASE x = Buf + k
        <5>1. x \in Buf..(Buf + (k + 1) - 1) /\ x - Buf + 1 = k + 1
          BY <3>1, <4>1
        <5> QED
          BY <3>2, <4>1, <5>1 DEF Poured
      <4>2. CASE x # Buf + k
        <5>1. x \in Buf..(Buf + (k + 1) - 1) <=> x \in Buf..(Buf + k - 1)
          BY <3>1, <4>0, <4>2
        <5>2. Poured(k + 1)[x] = Poured(k)[x]
          BY <5>1 DEF Poured
        <5> QED
          BY <3>1, <3>2, <4>2, <5>2
      <4> QED
        BY <4>1, <4>2
    <3>4. mem' = [x \in Addr |-> IF x \in Buf..(Buf + k' - 1) THEN Sent[x - Buf + 1] ELSE M[x]]
      <4>1. mem' = [x \in Addr |-> mem'[x]]
        BY <3>2
      <4>2. \A x \in Addr : Poured(k + 1)[x] = IF x \in Buf..(Buf + k' - 1) THEN Sent[x - Buf + 1] ELSE M[x]
        BY <1>3 DEF Poured
      <4> QED
        BY <3>3, <4>1, <4>2
    <3>5. (mem = Poured(k))'
      BY <2>1, <3>4 DEF Poured
    <3> QED
      BY <1>1, <1>3, <3>1, <3>5
  <2>6. Retried'
    BY <1>1, <1>3, RunsOn
  <2> QED
    BY <1>1, <2>2, <2>3, <2>4, <2>5, <2>6 DEF PInv
<1> QED
  BY <1>2, <1>3 DEF StrCopy, NextByte

LEMMA StutterPromise == ASSUME PInv, UNCHANGED vars PROVE PInv'
<1>1. IInv' /\ UNCHANGED <<mem, needed, status, pc, passes, host>>
  BY StutterInv DEF PInv, vars
<1>2. M' = M /\ Pieces' = Pieces /\ Asked' = Asked /\ Sent' = Sent
  BY <1>1, Frame DEF PInv, IInv
<1>3. /\ mem' = mem /\ needed' = needed /\ status' = status /\ pc' = pc /\ i' = i /\ k' = k
      /\ n' = n /\ off' = off /\ prog' = prog /\ cap' = cap /\ calls' = calls
  BY <1>1 DEF passes, host
<1>4. Here' = Here /\ Before' = Before
  BY <1>2, <1>3 DEF Here, Before
<1>5. (Fresh /\ BindsFirst /\ CountedPlain /\ Sized)'
  BY <1>2, <1>3, <1>4 DEF PInv, Fresh, BindsFirst, HasBound, CountedPlain, Sized
<1>6. Counted'
  BY <1>2, <1>3, <1>4 DEF PInv, Counted
<1>7. (Appended /\ Copied)'
  BY <1>2, <1>3, <1>4 DEF PInv, Appended, Copied, Poured
<1>8. Retried'
  BY <1>2, <1>3 DEF PInv, Retried, RetryConverges
<1> QED
  BY <1>1, <1>5, <1>6, <1>7, <1>8 DEF PInv

LEMMA NextPromise == ASSUME Addr = Int, PInv, [Next]_vars PROVE PInv'
<1>1. CASE Call BY <1>1, CallPromise
<1>2. CASE Prelude BY <1>2, PreludePromise
<1>3. CASE \E phase \in {"values", "spans", "decimals"} : Bind(phase) BY <1>3, BindPromise
<1>4. CASE Count BY <1>4, CountPromise
<1>5. CASE Publish \/ StrDecide BY <1>5, DecidePromise DEF Publish, StrDecide
<1>6. CASE AppendString BY <1>6, AppendStringPromise
<1>7. CASE AppendSpan BY <1>7, AppendSpanPromise
<1>8. CASE AppendDigits BY <1>8, AppendDigitsPromise
<1>9. CASE Terminate BY <1>9, TerminatePromise
<1>10. CASE StrCount BY <1>10, StrCountPromise
<1>11. CASE StrCopy BY <1>11, StrCopyPromise
<1>12. CASE UNCHANGED vars BY <1>12, StutterPromise
<1> QED
  BY <1>1, <1>2, <1>3, <1>4, <1>5, <1>6, <1>7, <1>8, <1>9, <1>10, <1>11, <1>12 DEF Next, Body

LEMMA PromiseInvariance == ASSUME Addr = Int PROVE Spec => []PInv
<1>1. Init => PInv
  BY InitPromise
<1>2. PInv /\ [Next]_vars => PInv'
  BY NextPromise
<1> QED
  BY <1>1, <1>2, PTL DEF Spec

-----------------------------------------------------------------------------
(* Every step of the body is a step of the promise, or none of it.         *)

LEMMA InitMaps == ASSUME Init PROVE CB!Init
  BY DEF Init, CB!Init, Running

LEMMA CallMaps == ASSUME Call PROVE CB!Call
  BY DEF Call, CB!Call, Running

\* Within a call the host sees nothing.
LEMMA PassMaps ==
  ASSUME Running, Running', UNCHANGED <<status, host>>
  PROVE  UNCHANGED CB!vars
  BY DEF CB!vars, host, Running

LEMMA FailMaps ==
  ASSUME Running, pc' = "returned", status' \in Failures(M, prog),
         mem = M, needed = entry.needed, UNCHANGED <<mem, needed, host>>
  PROVE  CB!Fail
  BY DEF CB!Fail, Running, M, host

\* Once every piece is bound there is an answer.
LEMMA NoFailure ==
  ASSUME PInv, pc \in {"count", "append"} \union {"strdecide", "strcopy"}
  PROVE  Failures(M, prog) = {}
<1>1. prog.prelude = 0
  BY DEF PInv, BindsFirst
<1>2. CASE pc \in {"strdecide", "strcopy"}
  BY <1>1, <1>2 DEF PInv, IInv, Shape, PlainPasses, Failures
<1>3. CASE pc \in {"count", "append"}
  <2>1. \A j \in DOMAIN prog.pieces : Binding(M, prog.pieces[j]) = 0
    <3>1. Pieces = prog.pieces /\ DOMAIN prog.pieces = 1..Len(prog.pieces)
      BY Frame, ProgramFacts DEF PInv, IInv
    <3> QED
      BY <1>3, <3>1 DEF PInv, BindsFirst, HasBound
  <2> QED
    BY <1>1, <2>1 DEF Failures
<1> QED
  BY <1>2, <1>3

LEMMA TooSmallMaps ==
  ASSUME Running, pc' = "returned", status' = -1, Failures(M, prog) = {},
         mem = M, needed' = Len(Asked) + 1, cap < Len(Asked) + 1, UNCHANGED <<mem, host>>
  PROVE  CB!Answer
  BY DEF CB!Answer, Running, M, Asked, host

LEMMA WholeMaps ==
  ASSUME Addr = Int, PInv, IInv', Running, pc' = "returned", status' = 0,
         Failures(M, prog) = {}, needed = Len(Asked) + 1, Len(Asked) + 1 <= cap,
         Len(Asked) \in Nat, UNCHANGED <<needed, host>>,
         Apart(M, prog, cap) => mem' = Poured(Len(Asked) + 1), Asked \in Seq(Byte)
  PROVE  CB!Answer
<1>1. /\ M \in [Addr -> Byte] /\ mem' \in [Addr -> Byte] /\ Buf \in Int /\ M' = M /\ cap' = cap
      /\ cap \in Int
  BY Frame, ConstantsAssumption DEF PInv, IInv, TypeOK, host
<1>2. CB!Filled(Asked) = [x \in Addr |->
        IF x \in Buf..(Buf + Len(Asked) - 1) THEN Asked[x - Buf + 1]
        ELSE IF x = Buf + Len(Asked) THEN NUL ELSE M[x]]
  BY <1>1 DEF CB!Filled, Running, M
<1>3. Poured(Len(Asked) + 1) = CB!Filled(Asked)
  <2>1. ASSUME NEW x \in Addr
        PROVE  Poured(Len(Asked) + 1)[x] = CB!Filled(Asked)[x]
    <3>0. x \in Int
      OBVIOUS
    <3>1. CASE x \in Buf..(Buf + Len(Asked) - 1)
      <4>1. x \in Buf..(Buf + (Len(Asked) + 1) - 1) /\ x - Buf + 1 \in 1..Len(Asked)
        BY <1>1, <3>0, <3>1
      <4>2. Sent[x - Buf + 1] = Asked[x - Buf + 1]
        BY <4>1 DEF Sent
      <4> QED
        BY <1>2, <3>1, <4>1, <4>2 DEF Poured
    <3>2. CASE x = Buf + Len(Asked)
      <4>1. /\ x \in Buf..(Buf + (Len(Asked) + 1) - 1) /\ x - Buf + 1 = Len(Asked) + 1
            /\ x \notin Buf..(Buf + Len(Asked) - 1)
        BY <1>1, <3>2
      <4>2. Sent[Len(Asked) + 1] = NUL
        BY DEF Sent
      <4> QED
        BY <1>2, <3>2, <4>1, <4>2 DEF Poured
    <3>3. CASE x \notin Buf..(Buf + Len(Asked) - 1) /\ x # Buf + Len(Asked)
      <4>1. x \notin Buf..(Buf + (Len(Asked) + 1) - 1)
        BY <1>1, <3>0, <3>3
      <4> QED
        BY <1>2, <3>3, <4>1 DEF Poured
    <3> QED
      BY <3>1, <3>2, <3>3
  <2>2. Poured(Len(Asked) + 1) = [x \in Addr |-> Poured(Len(Asked) + 1)[x]]
    BY DEF Poured
  <2>3. CB!Filled(Asked) = [x \in Addr |-> CB!Filled(Asked)[x]]
    BY <1>2
  <2> QED
    BY <2>1, <2>2, <2>3
<1>4. CB!Clobbered
  <2>1. \A x \in Addr \ (Buf..(Buf + cap - 1)) : mem'[x] = M[x]
    BY <1>1 DEF IInv, OnlyBufferWritten, M, host
  <2> QED
    BY <1>1, <2>1 DEF CB!Clobbered, Running, M
<1>5. ~(cap < Len(Asked) + 1)
  BY <1>1
<1>6. Apart(M, prog, cap) => mem' = CB!Filled(Asked)
  BY <1>3
<1> HIDE DEF CB!Filled
<1> QED
  BY <1>4, <1>5, <1>6 DEF CB!Answer, Running, M, Asked, host

LEMMA BindMaps ==
  ASSUME Addr = Int, PInv, NEW phase \in {"values", "spans", "decimals"}, Bind(phase)
  PROVE  CB!Next \/ UNCHANGED CB!vars
<1>1. pc = phase /\ UNCHANGED <<k, off, host>> /\ mem = M /\ needed = entry.needed /\ Running
  BY DEF PInv, IInv, Frozen, Bind, M, Running
<1>2. CASE UNCHANGED status /\ pc' \in {"values", "spans", "decimals", "count"}
  BY <1>1, <1>2, PassMaps DEF Running
<1>3. CASE /\ ~Past /\ Binding(mem, Here) # 0
           /\ LeaveEarly(Binding(mem, Here))
  <2>1. /\ Pieces = prog.pieces /\ DOMAIN prog.pieces = 1..Len(Pieces) /\ Len(Pieces) \in Nat
        /\ prog.prelude = 0 /\ prog.built
    BY <1>1, Frame, ProgramFacts DEF PInv, IInv, BindsFirst, Shape, BuiltPasses
  <2>2. i \in DOMAIN prog.pieces /\ Here = prog.pieces[i]
    BY <1>3, <2>1 DEF Past, Here, PInv, IInv, TypeOK
  <2>3. Binding(M, Here) \in Failures(M, prog)
    BY <1>1, <1>3, <2>1, <2>2 DEF Failures
  <2>4. CB!Fail
    BY <1>1, <1>3, <2>3, FailMaps DEF LeaveEarly, Returned
  <2> QED
    BY <2>4 DEF CB!Next
<1> QED
  BY <1>1, <1>2, <1>3 DEF Bind, After

LEMMA DecideMaps ==
  ASSUME Addr = Int, PInv,
         \/ pc = "count" /\ Past /\ Decide("append")
         \/ pc = "strdecide" /\ Decide("strcopy")
  PROVE  CB!Next \/ UNCHANGED CB!vars
<1>1. /\ mem = M /\ Failures(M, prog) = {} /\ n = Len(Asked) + 1 /\ Running
  BY NoFailure, CountIsSize DEF PInv, IInv, Frozen, Sized, M, Running
<1>2. needed' = n /\ UNCHANGED <<mem, n, off, host>>
  BY DEF Decide, Size
<1>3. CASE cap < n /\ pc' = "returned" /\ status' = -1
  <2>1. CB!Answer
    BY <1>1, <1>2, <1>3, TooSmallMaps
  <2> QED
    BY <2>1 DEF CB!Next
<1>4. CASE pc' \in {"append", "strcopy"} /\ UNCHANGED status
  BY <1>1, <1>2, <1>4, PassMaps DEF Running
<1> QED
  BY <1>3, <1>4 DEF Decide, TooSmall, Returned

LEMMA PreludeMaps == ASSUME PInv, Prelude PROVE CB!Next \/ UNCHANGED CB!vars
<1>1. pc = "prelude" /\ UNCHANGED host /\ mem = M /\ needed = entry.needed /\ Running
  BY DEF PInv, IInv, Frozen, Prelude, M, Running
<1>2. CASE prog.prelude # 0 /\ LeaveEarly(prog.prelude)
  <2>1. CB!Fail
    BY <1>1, <1>2, FailMaps DEF LeaveEarly, Returned, Failures
  <2> QED
    BY <2>1 DEF CB!Next
<1>3. CASE pc' \in {"values", "strcount"} /\ UNCHANGED status
  BY <1>1, <1>3, PassMaps DEF Running
<1> QED
  BY <1>2, <1>3 DEF Prelude

\* What the host has asked for, once its size is published.
LEMMA SizedFacts ==
  ASSUME Addr = Int, PInv, pc \in {"append", "strcopy"}
  PROVE  /\ Running /\ Failures(M, prog) = {} /\ AllReadable(M, prog)
         /\ n = Len(Asked) + 1 /\ needed = Len(Asked) + 1 /\ Len(Asked) + 1 <= cap
         /\ Asked \in Seq(Byte) /\ Len(Asked) \in Nat
<1>1. AllReadable(M, prog) /\ n = Len(Asked) + 1 /\ needed = n /\ n <= cap
  BY DEF PInv, Sized
<1>2. Asked \in Seq(Byte)
  BY <1>1, Frame, TextIsLead DEF PInv, IInv, Asked
<1>3. Len(Asked) \in Nat
  BY <1>2
<1> QED
  BY <1>1, <1>2, <1>3, NoFailure DEF Running

LEMMA TerminateMaps == ASSUME Addr = Int, PInv, Terminate PROVE CB!Answer
<1>1. /\ pc = "append" /\ Past /\ Write(Buf + off, NUL) /\ pc' = "returned" /\ status' = 0
      /\ UNCHANGED <<needed, passes, host>>
  BY DEF Terminate, Returned
<1>2. /\ Running /\ Failures(M, prog) = {} /\ AllReadable(M, prog)
      /\ needed = Len(Asked) + 1 /\ Len(Asked) + 1 <= cap
      /\ Asked \in Seq(Byte) /\ Len(Asked) \in Nat
  BY <1>1, SizedFacts
<1>3. IInv'
  BY TerminateInv DEF PInv
<1>4. ASSUME Apart(M, prog, cap)
      PROVE  mem' = Poured(Len(Asked) + 1)
  <2>1. /\ i <= Len(Pieces) + 1 /\ off = Len(Before) /\ (k # 0 => i <= Len(Pieces))
        /\ mem = Poured(off + k)
    BY <1>1, <1>4 DEF PInv, Appended
  <2>2. /\ Pieces = prog.pieces /\ Len(Pieces) \in Nat /\ i \in Nat /\ k \in Nat /\ DOMAIN mem = Addr
        /\ M \in [Addr -> Byte] /\ prog \in Programs /\ Buf \in Int
    BY Frame, ConstantsAssumption DEF PInv, IInv, TypeOK
  <2>3. i - 1 = Len(Pieces) /\ k = 0
    BY <1>1, <2>1, <2>2 DEF Past
  <2>4. Before = Asked
    BY <1>2, <2>2, <2>3, TextIsLead DEF Before, Asked
  <2>5. off = Len(Asked) /\ off + k = off /\ off \in Nat
    BY <1>2, <2>1, <2>3, <2>4
  <2>6. mem = Poured(off)
    BY <2>1, <2>5
  <2>7. mem' = [x \in Addr |-> IF x = Buf + off THEN NUL ELSE mem[x]]
    BY <1>1, <2>2 DEF Write
  <2>8. ASSUME NEW x \in Addr
        PROVE  mem'[x] = Poured(off + 1)[x]
    <3>0. x \in Int
      OBVIOUS
    <3>1. CASE x = Buf + off
      <4>1. x \in Buf..(Buf + (off + 1) - 1) /\ x - Buf + 1 = off + 1
        BY <2>2, <2>5, <3>1
      <4>2. Sent[off + 1] = NUL
        BY <1>2, <2>5 DEF Sent
      <4> QED
        BY <2>7, <3>1, <4>1, <4>2 DEF Poured
    <3>2. CASE x # Buf + off
      <4>1. x \in Buf..(Buf + (off + 1) - 1) <=> x \in Buf..(Buf + off - 1)
        BY <2>2, <2>5, <3>0, <3>2
      <4>2. Poured(off + 1)[x] = Poured(off)[x]
        BY <4>1 DEF Poured
      <4> QED
        BY <2>6, <2>7, <3>2, <4>2
    <3> QED
      BY <3>1, <3>2
  <2>9. mem' = [x \in Addr |-> mem'[x]] /\ Poured(off + 1) = [x \in Addr |-> Poured(off + 1)[x]]
    BY <2>7 DEF Poured
  <2> QED
    BY <2>5, <2>8, <2>9
<1> QED
  BY <1>1, <1>2, <1>3, <1>4, WholeMaps

LEMMA StrCopyMaps == ASSUME Addr = Int, PInv, StrCopy PROVE CB!Next \/ UNCHANGED CB!vars
<1>1. IInv' /\ pc = "strcopy" /\ UNCHANGED <<needed, i, n, off, host>>
  BY StrCopyInv DEF PInv, StrCopy
<1>2. /\ Running /\ Failures(M, prog) = {}
      /\ n = Len(Asked) + 1 /\ needed = Len(Asked) + 1 /\ Len(Asked) + 1 <= cap
      /\ Asked \in Seq(Byte) /\ Len(Asked) \in Nat
  BY <1>1, SizedFacts
<1>3. CASE k < n /\ UNCHANGED <<pc, status>>
  BY <1>1, <1>2, <1>3, PassMaps DEF Running
<1>4. CASE ~(k < n) /\ Returned(0) /\ UNCHANGED mem
  <2>1. Apart(M, prog, cap) => k <= n /\ mem = Poured(k)
    BY <1>1 DEF PInv, Copied
  <2>2. k \in Nat /\ n \in Nat
    BY DEF PInv, IInv, TypeOK
  <2>3. Apart(M, prog, cap) => k = n /\ mem = Poured(n)
    BY <1>4, <2>1, <2>2
  <2>4. CB!Answer
    BY <1>1, <1>2, <1>4, <2>3, WholeMaps DEF Returned
  <2> QED
    BY <2>4 DEF CB!Next
<1> QED
  BY <1>3, <1>4 DEF StrCopy

LEMMA NextMaps == ASSUME Addr = Int, PInv, [Next]_vars PROVE [CB!Next]_CB!vars
<1>1. CASE Call BY <1>1, CallMaps DEF CB!Next
<1>2. CASE Prelude BY <1>2, PreludeMaps
<1>3. CASE \E phase \in {"values", "spans", "decimals"} : Bind(phase) BY <1>3, BindMaps
<1>4. CASE Count \/ AppendString \/ AppendSpan \/ AppendDigits
  BY <1>4, PassMaps DEF Count, AppendString, AppendSpan, AppendDigits, Running
<1>5. CASE Publish \/ StrDecide BY <1>5, DecideMaps DEF Publish, StrDecide
<1>6. CASE Terminate BY <1>6, TerminateMaps DEF CB!Next
<1>7. CASE StrCount BY <1>7, PassMaps DEF StrCount, Running
<1>8. CASE StrCopy BY <1>8, StrCopyMaps
<1>9. CASE UNCHANGED vars BY <1>9 DEF vars, host, CB!vars, Running
<1> QED
  BY <1>1, <1>2, <1>3, <1>4, <1>5, <1>6, <1>7, <1>8, <1>9 DEF Next, Body

-----------------------------------------------------------------------------

\* Every emitted string body, as its passes run over any memory of the host's, is
\* the atomic promise of HOST_ABI: the whole text or the size it takes or an error
\* that touched nothing (codegen.rs, ml_strout and emit_concat_return).
THEOREM PassesKeepThePromise == ASSUME Addr = Int PROVE Spec => Q12
<1>1. Init => CB!Init
  BY InitMaps
<1>2. PInv /\ [Next]_vars => [CB!Next]_CB!vars
  BY NextMaps
<1> QED
  BY <1>1, <1>2, PromiseInvariance, PTL DEF Spec, Q12, CB!Spec

\* The host's loop on -1 converges: no second call is told its buffer is too small.
THEOREM RetryConvergesAlways == ASSUME Addr = Int PROVE Spec => []RetryConverges
<1>1. PInv => RetryConverges
  BY DEF PInv, Retried
<1> QED
  BY <1>1, PromiseInvariance, PTL
=============================================================================
