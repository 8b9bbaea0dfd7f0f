------------------------------ MODULE MCString ------------------------------
(***************************************************************************)
(* TLC instances of the string return.  Bytes: 0 is NUL, 1 a letter, 2 a    *)
(* digit, 3 what lies beyond the host's data.                               *)
(***************************************************************************)
EXTENDS StringPromise

Bytes == 0..3

\* What the host leaves in *ml_needed before a call, as the tests do.
Untouched == -7

String(at)       == [kind |-> "bytes", eval |-> 0, at |-> at, from |-> 0, to |-> 0, text |-> <<>>]
Span(at, f, t)   == [kind |-> "span", eval |-> 0, at |-> at, from |-> f, to |-> t, text |-> <<>>]
Digits(e, t)     == [kind |-> "digits", eval |-> e, at |-> 0, from |-> 0, to |-> 0, text |-> t]
Decimal(e, t)    == [kind |-> "decimal", eval |-> e, at |-> 0, from |-> 0, to |-> 0, text |-> t]

Built(ps)        == [built |-> TRUE, prelude |-> 0, pieces |-> ps]
Plain(at)        == [built |-> FALSE, prelude |-> 0, pieces |-> <<String(at)>>]
Failing(b, s)    == [built |-> b, prelude |-> s, pieces |-> <<String(0)>>]

UpTo(len, S) == UNION {[1..j -> S] : j \in 1..len}

----------------------------------------------------------------------------
(* The buffer starts at cell 5.                                             *)

Cells  == 0..17
Buffer == 5

\* Strings below the buffer: cells 0..3 hold them, the last is a NUL.
ApartMemories ==
  {[x \in Cells |-> IF x < 3 THEN f[x] ELSE IF x < 5 THEN 0 ELSE 3] : f \in [0..2 -> 0..1]}
ApartPieces ==
  {String(0), String(2), Digits(0, <<2>>), Digits(-3, <<2>>), Decimal(0, <<2, 2>>),
   Decimal(-2, <<2>>), Span(0, 1, 3), Span(1, 0, 0), Span(0, 2, 1), Span(0, -1, 1)}
ApartPrograms ==
  {Built(ps) : ps \in UpTo(2, ApartPieces)}
    \union {Built(<<String(0), Span(0, 1, 3), Decimal(0, <<2>>)>>)}
    \union {Plain(0), Plain(3), Failing(TRUE, 7), Failing(FALSE, -3)}
ApartCaps == {-1, 0, 1, 3, 4, 5}

\* Strings anywhere in and around the buffer, ending with the NUL at 9 at the latest.
OverMemories(free) ==
  {[x \in Cells |-> IF x \in free THEN f[x] ELSE IF x < 9 THEN 1 ELSE IF x = 9 THEN 0 ELSE 3] :
     f \in [free -> 0..1]}
OverPieces == {String(4), String(5), String(6), Span(4, 0, 2), Span(6, 0, 1), Span(5, 1, 3),
               Digits(0, <<2, 2>>), Decimal(0, <<2>>)}
OverPrograms == {Built(ps) : ps \in UpTo(2, OverPieces)} \union {Plain(a) : a \in 3..7}
OverCaps == {0, 1, 2, 3, 4}

AllMemories == ApartMemories \union OverMemories(4..8)
AllPrograms == ApartPrograms \union OverPrograms
AllCaps     == ApartCaps \union OverCaps

\* Each memory with the programs and capacities written for it.
MatchedInit ==
  /\ Init
  /\ \/ mem \in ApartMemories /\ prog \in ApartPrograms /\ cap \in ApartCaps
     \/ mem \in OverMemories(4..8) /\ prog \in OverPrograms /\ cap \in OverCaps

FromMatched == MatchedInit /\ [][Next]_vars /\ WF_vars(Body)
=============================================================================
