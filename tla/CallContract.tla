---------------------------- MODULE CallContract ----------------------------
(***************************************************************************)
(* What one call of a generated export promises its host (docs/HOST_ABI.md:  *)
(* the out-parameter contract and the status table of Q12), with the call    *)
(* answered in one step.  A host reads what it is told it may read, by the   *)
(* status alone.                                                            *)
(***************************************************************************)
EXTENDS Integers

CONSTANTS
  Outs,      \* the out parameters an export may declare
  Cells,     \* the host's elements from ml_buf on
  Caps,      \* the capacities it may offer
  Lengths,   \* the lengths the array asked for may have
  Shapes     \* of its return: "plain" (`-> T`), "fallible" (`-> T!`), "array"

VARIABLES phase, ret, declared, status, outs, value, buf, needed, cap, length

vars == <<phase, ret, declared, status, outs, value, buf, needed, cap, length>>

\* What the host has in its variables before a call.
Fresh == outs = {} /\ value = "host" /\ buf = [x \in Cells |-> "host"] /\ needed = 0

Init ==
  /\ phase = "ready" /\ status = 0 /\ Fresh
  /\ ret \in Shapes /\ declared \in SUBSET Outs /\ cap \in Caps /\ length \in Lengths

Call ==
  /\ phase \in {"ready", "returned"} /\ phase' = "running"
  /\ \/ cap' \in Caps /\ length' \in Lengths
     \/ phase = "returned" /\ status = -1 /\ cap' = needed /\ UNCHANGED length
  /\ Fresh' /\ UNCHANGED <<ret, declared, status>>

Count    == IF length < 0 THEN 0 ELSE length
Promised == {x \in Cells : x < Count}

\* 0: the value is there, and so is every declared out.
Success ==
  /\ status' = 0 /\ outs' = declared
  /\ IF ret = "array"
     THEN /\ Count <= cap \/ Count = 0
          /\ needed' = Count /\ UNCHANGED value
          /\ \A x \in Cells : buf'[x] = "host" <=> x \notin Promised
     ELSE value' = "module" /\ UNCHANGED <<buf, needed>>

\* ML_ST_INSUFFICIENT_BUFFER: the size, and nothing else.
Truncation ==
  /\ ret = "array" /\ Count > cap
  /\ status' = -1 /\ needed' = Count
  /\ UNCHANGED <<value, buf>>

\* A domain error: buffer, size and value are as they were.
DomainError ==
  /\ ret # "plain"
  /\ status' > 0
  /\ UNCHANGED <<value, buf, needed>>

\* Another reserved status: the buffer is undefined, but not beyond its capacity.
Reserved ==
  /\ ret # "plain"
  /\ status' \in {-2, -3}
  /\ \A x \in Cells : x >= cap => buf'[x] = "host"
  /\ UNCHANGED value

Answer ==
  /\ phase = "running" /\ phase' = "returned"
  /\ Success \/ Truncation \/ DomainError \/ Reserved
  /\ outs' \subseteq declared
  /\ UNCHANGED <<ret, declared, cap, length>>

Spec == Init /\ [][Call \/ Answer]_vars
=============================================================================
