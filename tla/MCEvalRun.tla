------------------------------ MODULE MCEvalRun ------------------------------
(* EvalRun on small instances.                                             *)
EXTENDS EvalRun

CONSTANTS r1, r2, r3, p1, p2

\* Two subjects of r1, one of every other run.
TwoAndOne == [r \in Runs |-> IF r = r1 THEN 2 ELSE 1]

\* All runs in one project; or r2 without one.
OneProject == [r \in Runs |-> p1]
MixedProjects == [r \in Runs |-> IF r = r2 THEN NoProject ELSE p1]
===============================================================================
