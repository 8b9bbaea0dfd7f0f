--------------------------- MODULE MCHelperChecks ---------------------------
(* TLC instance of Recursion and HelperChecks.                               *)
EXTENDS Recursion

CONSTANT N

Numbered  == 1..N
AllGraphs == [Numbered -> SUBSET Numbered]

\* The functions can be numbered with callees first.
Acyclic(g) ==
  \E number \in [Numbered -> Numbered] :
    \A f \in Numbered : \A h \in g[f] : number[h] < number[f]

\* Of a module to be refused only the graph and its tries matter.
AnyGraphInit ==
  RecursionInit /\ (Acyclic(calls) \/ (exported = Functions /\ overflows = {}))

FromAnyGraph ==
  /\ AnyGraphInit /\ [][RecursionNext]_everyVar
  /\ WF_everyVar(RejectRecursion \/ CompileAccepted)
=============================================================================
