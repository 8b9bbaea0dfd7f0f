----------------------------- MODULE StringOut -----------------------------
(***************************************************************************)
(* The body of a `-> string!` export as the compiler emits it               *)
(* (compiler/src/codegen.rs): ml_strout for a borrowed string, and the      *)
(* bind / count / append passes of emit_concat_return for a built one, one  *)
(* loop iteration per step over the host's memory.  The host's strings and  *)
(* its buffer live in that one memory and may overlap.                      *)
(*                                                                          *)
(* A piece is a borrowed string (bytes), a span of one, or decimal digits   *)
(* the module renders, given here as their text.  Arithmetic is unbounded:  *)
(* lengths near 2^31 are outside the model.                                 *)
(***************************************************************************)
EXTENDS Integers, Sequences, FiniteSets

CONSTANTS
  Addr,       \* addresses of the memory modelled
  Byte, NUL,
  Buf,        \* ml_buf
  Caps,       \* the ml_cap values a first call may offer
  Programs,   \* the function bodies considered
  Memories,   \* the host memory before the first call
  Unset,      \* what the host left in *ml_needed
  MaxCalls    \* bound on the calls of one host loop

Errors   == Int \ {-1, 0}
Outcomes == Errors \union {0}

\* `eval` is what evaluating the piece's operands leaves the body with, or 0:
\* -2 for an index, or a `fixed` without an answer (ml_fixscale), -3 for an
\* overflow.
Piece == [kind : {"bytes", "span", "digits", "decimal"}, eval : Outcomes,
          at : Int, from : Int, to : Int, text : Seq(Byte)]

\* `prelude` is what the statements before the `return` leave with, or 0.
Program == [built : BOOLEAN, prelude : Outcomes, pieces : Seq(Piece)]

ASSUME ConstantsAssumption ==
  /\ Addr \subseteq Int /\ Buf \in Int /\ Caps \subseteq Int /\ Unset \in Int
  /\ NUL \in Byte /\ MaxCalls \in Nat
  /\ \A m \in Memories : m \in [Addr -> Byte]
  /\ \A p \in Programs :
       /\ p \in Program
       /\ ~p.built => Len(p.pieces) = 1 /\ p.pieces[1].kind = "bytes"

VARIABLES
  mem,      \* the host's memory
  needed,   \* *ml_needed
  status,   \* the value returned
  prog, cap,
  pc,       \* the pass in progress
  i,        \* the piece the pass is at
  k,        \* bytes of that piece already passed
  n,        \* __n, the bytes counted
  off,      \* __o, the next offset in the buffer
  calls,    \* calls made so far
  entry     \* history: memory and *ml_needed when the call was made

passes == <<i, k, n, off>>
host   == <<prog, cap, calls, entry>>
vars   == <<mem, needed, status, pc, passes, host>>

Pieces == prog.pieces
Here   == Pieces[i]
Past   == i > Len(Pieces)

Init ==
  /\ mem \in Memories /\ needed = Unset /\ status = 0
  /\ prog \in Programs /\ cap \in Caps
  /\ pc = "idle" /\ i = 1 /\ k = 0 /\ n = 0 /\ off = 0
  /\ calls = 0 /\ entry = [mem |-> mem, needed |-> needed]

----------------------------------------------------------------------------
(* The host: a call, and the documented retry with cap = *needed.           *)

Call ==
  /\ \/ pc = "idle" /\ UNCHANGED cap
     \/ pc = "returned" /\ status = -1 /\ calls < MaxCalls /\ cap' = needed
  /\ pc' = "prelude" /\ calls' = calls + 1
  /\ i' = 1 /\ k' = 0 /\ n' = 0 /\ off' = 0
  /\ entry' = [mem |-> mem, needed |-> needed]
  /\ UNCHANGED <<mem, needed, status, prog>>

----------------------------------------------------------------------------
(* Leaving the body.                                                        *)

Returned(s) == pc' = "returned" /\ status' = s

\* An error before the sizes are known: nothing of the host's is written.
LeaveEarly_ResetNeeded(s) == Returned(s) /\ needed' = 0 /\ UNCHANGED mem
LeaveEarly(s) == Returned(s) /\ UNCHANGED <<mem, needed>>

----------------------------------------------------------------------------
(* Statements before the return, then the pieces bound kind by kind.        *)

Prelude ==
  /\ pc = "prelude"
  /\ \/ prog.prelude # 0 /\ LeaveEarly(prog.prelude)
     \/ /\ prog.prelude = 0
        /\ pc' = IF prog.built THEN "values" ELSE "strcount"
        /\ UNCHANGED <<mem, needed, status>>
  /\ UNCHANGED <<passes, host>>

\* The three binding loops of emit_concat_return, in order.
Bound(phase) ==
  CASE phase = "values"   -> {"bytes", "digits"}
    [] phase = "spans"    -> {"span"}
    [] phase = "decimals" -> {"decimal"}

After(phase) ==
  CASE phase = "values"   -> "spans"
    [] phase = "spans"    -> "decimals"
    [] phase = "decimals" -> "count"

\* ml_sublen(s, from, to) >= 0: `to` is not past the string's NUL.
IsSpan(m, p) ==
  /\ p.from >= 0 /\ p.to >= p.from
  /\ \A j \in 0..(p.to - 1) : m[p.at + j] # NUL

\* The status binding a piece leaves with, or 0.
Binding(m, p) ==
  IF p.eval # 0 THEN p.eval
  ELSE IF p.kind = "span" /\ ~IsSpan(m, p) THEN -2
  ELSE 0

Bind(phase) ==
  /\ pc = phase
  /\ \/ Past /\ pc' = After(phase) /\ i' = 1
        /\ n' = (IF phase = "decimals" THEN 1 ELSE n)
        /\ UNCHANGED <<mem, needed, status>>
     \/ /\ ~Past
        /\ IF Here.kind \in Bound(phase) /\ Binding(mem, Here) # 0
           THEN LeaveEarly(Binding(mem, Here)) /\ UNCHANGED i
           ELSE i' = i + 1 /\ UNCHANGED <<pc, mem, needed, status>>
        /\ UNCHANGED n
  /\ UNCHANGED <<k, off, host>>

----------------------------------------------------------------------------
(* Pass 1: count.                                                           *)

NextByte_Stuck(j) == j
NextByte(j) == j + 1

NextPiece == i' = i + 1 /\ k' = 0

\* ml_slen, ml_ilen and ml_fixlen, and the length ml_sublen answered.
Count ==
  /\ pc = "count" /\ ~Past
  /\ \/ /\ Here.kind = "bytes"
        /\ IF mem[Here.at + k] = NUL
           THEN NextPiece /\ UNCHANGED n
           ELSE n' = n + 1 /\ k' = NextByte(k) /\ UNCHANGED i
     \/ Here.kind = "span" /\ n' = n + (Here.to - Here.from) /\ NextPiece
     \/ Here.kind \in {"digits", "decimal"} /\ n' = n + Len(Here.text) /\ NextPiece
  /\ UNCHANGED <<mem, needed, status, pc, off, host>>

\* What is published through *ml_needed, and whether the buffer is too small.
Size_NoNul == n - 1
Size == n

TooSmall_Inclusive == cap <= n
TooSmall == cap < n

\* The end of either counting pass: publish the size, then the capacity test.
Decide(pass) ==
  /\ needed' = Size
  /\ IF TooSmall THEN Returned(-1) ELSE pc' = pass /\ UNCHANGED status
  /\ i' = 1 /\ k' = 0
  /\ UNCHANGED <<mem, n, off, host>>

Publish == pc = "count" /\ Past /\ Decide("append")

----------------------------------------------------------------------------
(* Pass 2: append.  Every writer keeps the last byte of the capacity free.  *)

Write(x, b) == mem' = [mem EXCEPT ![x] = b]

\* The hard stop of ml_wstr and ml_wsub, and the one of ml_wint and ml_wfix.
Full_OneLate == off + k >= cap
Full == off + k >= cap - 1
Fits_Unchecked(w) == TRUE
Fits(w) == off + w <= cap - 1

\* ml_wstr stops at the source's NUL, ml_wsub after the span's length.
AppendString ==
  /\ pc = "append" /\ ~Past /\ Here.kind = "bytes"
  /\ IF Full \/ mem[Here.at + k] = NUL
     THEN NextPiece /\ off' = off + k /\ UNCHANGED mem
     ELSE /\ Write(Buf + off + k, mem[Here.at + k])
          /\ k' = NextByte(k) /\ UNCHANGED <<i, off>>
  /\ UNCHANGED <<needed, status, pc, n, host>>

AppendSpan ==
  /\ pc = "append" /\ ~Past /\ Here.kind = "span"
  /\ IF k >= Here.to - Here.from \/ Full
     THEN NextPiece /\ off' = off + k /\ UNCHANGED mem
     ELSE /\ Write(Buf + off + k, mem[Here.at + Here.from + k])
          /\ k' = NextByte(k) /\ UNCHANGED <<i, off>>
  /\ UNCHANGED <<needed, status, pc, n, host>>

\* ml_wint and ml_wfix: all the digits, or none.
AppendDigits ==
  LET w == Len(Here.text) IN
  /\ pc = "append" /\ ~Past /\ Here.kind \in {"digits", "decimal"}
  /\ IF Fits(w)
     THEN /\ mem' = [x \in Addr |-> IF x \in (Buf + off)..(Buf + off + w - 1)
                                    THEN Here.text[x - Buf - off + 1] ELSE mem[x]]
          /\ off' = off + w
     ELSE UNCHANGED <<mem, off>>
  /\ NextPiece
  /\ UNCHANGED <<needed, status, pc, n, host>>

Terminate ==
  /\ pc = "append" /\ Past
  /\ Write(Buf + off, NUL) /\ Returned(0)
  /\ UNCHANGED <<needed, passes, host>>

----------------------------------------------------------------------------
(* ml_strout: count to the NUL inclusive, then copy that many bytes.        *)

StrCount ==
  /\ pc = "strcount" /\ n' = n + 1
  /\ IF mem[Here.at + n] = NUL THEN pc' = "strdecide" ELSE UNCHANGED pc
  /\ UNCHANGED <<mem, needed, status, i, k, off, host>>

StrDecide == pc = "strdecide" /\ Decide("strcopy")

StrCopy ==
  /\ pc = "strcopy"
  /\ IF k < n
     THEN /\ Write(Buf + k, mem[Here.at + k]) /\ k' = NextByte(k)
          /\ UNCHANGED <<pc, status>>
     ELSE Returned(0) /\ UNCHANGED <<mem, k>>
  /\ UNCHANGED <<needed, i, n, off, host>>

Body ==
  \/ Prelude \/ Bind("values") \/ Bind("spans") \/ Bind("decimals")
  \/ Count \/ Publish \/ AppendString \/ AppendSpan \/ AppendDigits \/ Terminate
  \/ StrCount \/ StrDecide \/ StrCopy

Next == Call \/ Body

\* A call runs on the host's thread until it returns; the host need not call.
Spec == Init /\ [][Next]_vars /\ WF_vars(Body)

----------------------------------------------------------------------------
(* Properties.                                                              *)

Passes == {"idle", "prelude", "values", "spans", "decimals", "count", "append",
           "strcount", "strdecide", "strcopy", "returned"}

\* Types of the call's state; a count or an offset is never negative.
TypeOK ==
  /\ mem \in [Addr -> Byte] /\ needed \in Int /\ status \in Int
  /\ prog \in Programs /\ cap \in Int /\ pc \in Passes
  /\ i \in Nat \ {0} /\ k \in Nat /\ n \in Nat /\ off \in Nat
  /\ calls \in Nat
  /\ entry \in [mem : [Addr -> Byte], needed : Int]

\* Whatever the host's strings overlap, no byte outside the ml_cap bytes it gave
\* changes (the hard stops of the four writers; HOST_ABI 3b).
OnlyBufferWritten ==
  \A x \in Addr \ (Buf..(Buf + cap - 1)) : mem[x] = entry.mem[x]

\* A call that does not answer 0 has written nothing to the buffer, and one that
\* fails before the sizes are known leaves *ml_needed as well.
FailureWritesNothing ==
  pc = "returned" /\ status # 0 =>
    /\ mem = entry.mem
    /\ status # -1 => needed = entry.needed

\* Even when a string overlaps the buffer, a built string that is answered with 0
\* is NUL-terminated inside the capacity: the host can always scan it.
BuiltIsTerminated ==
  pc = "returned" /\ status = 0 /\ prog.built =>
    \E x \in Buf..(Buf + cap - 1) : mem[x] = NUL

\* The host's loop on -1 converges: a call with the capacity the last one asked
\* for is never too small again.
RetryConverges == pc = "returned" /\ calls > 1 => status # -1

\* Every call returns: the module never hangs the host's thread.
CallsReturn == (pc = "prelude") ~> (pc = "returned")
=============================================================================
