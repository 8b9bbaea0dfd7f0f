--------------------------- MODULE StringPromise ---------------------------
(***************************************************************************)
(* The emitted string body against the promise of CallerBuffer: the passes  *)
(* of StringOut answer as one atomic step.                                  *)
(***************************************************************************)
EXTENDS StringOut, SequencesExt

\* The string at address a, without its NUL.
Borrowed(m, a) ==
  LET nul == Min({x \in Addr : x >= a /\ m[x] = NUL}) IN [j \in 1..(nul - a) |-> m[a + j - 1]]

PieceText(m, p) ==
  CASE p.kind = "bytes" -> Borrowed(m, p.at)
    [] p.kind = "span"  -> [j \in 1..(p.to - p.from) |-> m[p.at + p.from + j - 1]]
    [] OTHER            -> p.text

Text(m, p) == FlattenSeq([j \in DOMAIN p.pieces |-> PieceText(m, p.pieces[j])])

Failures(m, p) ==
  IF p.prelude # 0 THEN {p.prelude}
  ELSE IF ~p.built THEN {}
  ELSE {Binding(m, p.pieces[j]) : j \in DOMAIN p.pieces} \ {0}

\* The cells a borrowed piece is read from, its NUL included.
Read(m, p) ==
  CASE p.kind = "bytes" -> p.at..(p.at + Len(Borrowed(m, p.at)))
    [] p.kind = "span"  -> p.at..(p.at + p.to - 1)
    [] OTHER            -> {}

Apart(m, p, c) ==
  \A j \in DOMAIN p.pieces : Read(m, p.pieces[j]) \intersect (Buf..(Buf + c - 1)) = {}

\* The host looks at its memory only when the call has returned.
Running == pc \notin {"idle", "returned"}

CB == INSTANCE CallerBuffer WITH
        Requests <- Programs, request <- prog,
        mem <- IF Running THEN entry.mem ELSE mem,
        needed <- IF Running THEN entry.needed ELSE needed,
        phase <- IF Running THEN "running" ELSE pc

\* The emitted passes implement the atomic promise of Q12: exact text, exact
\* size, nothing written on failure.  With an overlap the size is still exact
\* and only the capacity changes (HOST_ABI 3b).
Q12 == CB!Spec
=============================================================================
