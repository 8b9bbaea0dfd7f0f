----------------------------- MODULE MCPublish -----------------------------
(***************************************************************************)
(* TLC instances of Publish.  s1 and s2 are two staging names: r1 runs      *)
(* first, and after it either r2, which has a name of its own, or r3, whose *)
(* process has the id that r1's had.                                        *)
(***************************************************************************)
EXTENDS Publish

CONSTANTS r1, r2, r3, m1, s1, s2

OneModule   == [r \in Runs |-> m1]
ReusedStage == [r \in Runs |-> IF r = r2 THEN s2 ELSE s1]

\* Before the first build there is no artifact or a whole set of them, and at most
\* one destination, the first, second or last to be moved, is unlike the others.
OneUnlikeInit ==
  /\ Init
  /\ \A m \in Modules : \E c \in FirstContents \ {Dir}, odd \in {"dll", "h", "lib"} :
       \A a \in Arts \ {odd} : out[m][a] = c

Started == {r \in Runs : pc[r] # "idle"}

Dead    == {r \in Runs : pc[r] = "crashed"}

\* Two runs, of which at most one dies; the second follows a first that has at
\* least entered publish.
TwoRuns ==
  /\ Next
  /\ Started' \subseteq {r1} \/ latest[m1] # NoRun
  /\ Cardinality(Started') <= 2 /\ Cardinality(Dead') <= 1

FromOneUnlike == OneUnlikeInit /\ [][TwoRuns]_vars /\ \A r \in Runs : WF_vars(Step(r))
============================================================================
