---------------------------- MODULE CallerBuffer ----------------------------
(***************************************************************************)
(* What a `-> string!` export promises its host (docs/HOST_ABI.md, Q12),    *)
(* with every call answered in one step: the host gives a buffer and its    *)
(* capacity and gets either the whole text, or the size it would take, or   *)
(* an error that touched nothing.  If what it passes overlaps the buffer     *)
(* the text is lost, and nothing else.                                      *)
(***************************************************************************)
EXTENDS Integers, Sequences

CONSTANTS
  Buf,            \* address of the host's buffer
  Requests,       \* the calls the host may make
  Caps,           \* the capacities it may offer
  NUL,
  Text(_, _),     \* the text a request asks for, in the memory given
  Failures(_, _), \* the statuses with which it may fail; {} when it has an answer
  Apart(_, _, _)  \* no string it is made of overlaps the buffer of a capacity

VARIABLES mem, needed, status, phase, request, cap

vars == <<mem, needed, status, phase, request, cap>>

Init ==
  /\ phase = "idle" /\ status = 0
  /\ request \in Requests /\ cap \in Caps

\* The first call, or the same call again with the capacity it asked for.
Call ==
  /\ \/ phase = "idle" /\ UNCHANGED cap
     \/ phase = "returned" /\ status = -1 /\ cap' = needed
  /\ phase' = "running"
  /\ UNCHANGED <<mem, needed, status, request>>

\* The buffer holding the text and its NUL.
Filled(text) ==
  [x \in DOMAIN mem |->
     IF x \in Buf..(Buf + Len(text) - 1) THEN text[x - Buf + 1]
     ELSE IF x = Buf + Len(text) THEN NUL
     ELSE mem[x]]

Fail ==
  /\ phase = "running"
  /\ status' \in Failures(mem, request)
  /\ phase' = "returned"
  /\ UNCHANGED <<mem, needed, request, cap>>

\* Any bytes at all in the capacity, and nothing else changed.
Clobbered ==
  /\ DOMAIN mem' = DOMAIN mem
  /\ \A x \in DOMAIN mem \ (Buf..(Buf + cap - 1)) : mem'[x] = mem[x]

Answer ==
  LET text == Text(mem, request) IN
  /\ phase = "running"
  /\ Failures(mem, request) = {}
  /\ needed' = Len(text) + 1
  /\ IF cap < Len(text) + 1
     THEN status' = -1 /\ UNCHANGED mem
     ELSE status' = 0 /\ IF Apart(mem, request, cap) THEN mem' = Filled(text) ELSE Clobbered
  /\ phase' = "returned"
  /\ UNCHANGED <<request, cap>>

Next == Call \/ Fail \/ Answer

Spec == Init /\ [][Next]_vars
=============================================================================
