--------------------------- MODULE MCRoutineRuns ---------------------------
(* Instances of RoutineRuns for TLC.                                         *)
EXTENDS RoutineRuns, TLC

CONSTANTS h1, h2, h3, j1, j2

\* The executor, a second call of the same executor, the person.
Roles == [h \in Handlers |->
  CASE h = h1 -> {"call", "close", "report", "ra"}
    [] h = h2 -> {"call"}
    [] OTHER -> {"pick", "close", "resume", "cancel"}]

\* The executor that was told the run waits ends its turn; the next one, with the
\* person's answer, comes while it waits.
Turns == [h \in Handlers |-> IF h = h1 THEN {"running"} ELSE {"waiting"}]

\* The executor, the stop, the pick.
ThreeScreens == [h \in Handlers |->
  CASE h = h1 -> {"call", "close"} [] h = h2 -> {"cancel"} [] OTHER -> {"pick"}]

StopAtFirst == [s \in Steps |-> IF s = 1 THEN {"denied"} ELSE {}]
=============================================================================
