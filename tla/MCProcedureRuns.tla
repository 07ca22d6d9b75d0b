-------------------------- MODULE MCProcedureRuns --------------------------
(* Instances of ProcedureRuns for TLC.                                       *)
EXTENDS ProcedureRuns, TLC

CONSTANTS r1, r2, r3, t1, t2, t3, x1, x2, v1, v2, be1, be2

OneBackend == [ix \in Ix |-> be1]

\* Tasks are interchangeable, and so are the values and the previews: no action
\* tells one from another.  Runs are not (Free names one of them).
Symmetric == Permutations(Tasks) \cup Permutations(Values) \cup Permutations(Views)
TaskSymmetry == Permutations(Tasks)
=============================================================================
