------------------------- MODULE MCProcedureShapes -------------------------
(* Procedures of several shapes for TLC, a part of MCParts: `shape` is chosen *)
(* at the start and says which instance of ProcedureRuns the run is.          *)
EXTENDS Naturals

CONSTANTS r1, t1, t2, x1, x2, v1, be1, NoValue, NoView, Nobody

VARIABLES
  shape, srun, smode, sinputs, srow, sack, stask, ssem, slock, scredit, slate, sasks, srestarts

Tasks == {t1, t2}
OneBackend(n) == [ix \in 1 .. n |-> be1]

\* A choice, a warm-up, a confirmed write that names the choice, and one more write.
Confirmed == INSTANCE ProcedureRuns WITH
  Runs <- {r1}, EmptyRuns <- {}, AdHocRuns <- {}, Slots <- 2, N <- 4, Backends <- {be1},
  BackendOf <- OneBackend(4), GateSteps <- {3}, PublishSteps <- {}, WriteSteps <- {4},
  SlowSteps <- {}, WarmSteps <- {2}, SelectSteps <- {1}, SaveSteps <- {}, PickUsers <- {3, 4},
  Values <- {x1, x2}, Views <- {v1}, MaxAsks <- 4, MaxRestarts <- 1,
  run <- srun, mode <- smode, inputs <- sinputs, row <- srow, ack <- sack, task <- stask,
  sem <- ssem, lock <- slock, credit <- scredit, late <- slate, asks <- sasks,
  restarts <- srestarts

\* Writes that are resumed, the first of which saves the value the third names.
Resumed == INSTANCE ProcedureRuns WITH
  Runs <- {r1}, EmptyRuns <- {}, AdHocRuns <- {}, Slots <- 2, N <- 3, Backends <- {be1},
  BackendOf <- OneBackend(3), GateSteps <- {2}, PublishSteps <- {}, WriteSteps <- {1, 2},
  SlowSteps <- {}, WarmSteps <- {}, SelectSteps <- {}, SaveSteps <- {1}, PickUsers <- {3},
  Values <- {x1}, Views <- {v1}, MaxAsks <- 5, MaxRestarts <- 1,
  run <- srun, mode <- smode, inputs <- sinputs, row <- srow, ack <- sack, task <- stask,
  sem <- ssem, lock <- slock, credit <- scredit, late <- slate, asks <- sasks,
  restarts <- srestarts

\* A run made without a procedure, to which a client adds step by step.
Stepwise == INSTANCE ProcedureRuns WITH
  Runs <- {r1}, EmptyRuns <- {r1}, AdHocRuns <- {r1}, Slots <- 2, N <- 3, Backends <- {be1},
  BackendOf <- OneBackend(3), GateSteps <- {}, PublishSteps <- {}, WriteSteps <- {},
  SlowSteps <- {}, WarmSteps <- {}, SelectSteps <- {}, SaveSteps <- {1, 2}, PickUsers <- {2, 3},
  Values <- {x1}, Views <- {v1}, MaxAsks <- 6, MaxRestarts <- 2,
  run <- srun, mode <- smode, inputs <- sinputs, row <- srow, ack <- sack, task <- stask,
  sem <- ssem, lock <- slock, credit <- scredit, late <- slate, asks <- sasks,
  restarts <- srestarts

shapeVars == <<shape, srun, smode, sinputs, srow, sack, stask, ssem, slock, scredit, slate, sasks,
               srestarts>>

ShapeInit ==
  \/ shape = "confirmed" /\ Confirmed!Init
  \/ shape = "resumed" /\ Resumed!Init
  \/ shape = "stepwise" /\ Stepwise!Init

ShapeNext ==
  /\ \/ shape = "confirmed" /\ Confirmed!Next
     \/ shape = "resumed" /\ Resumed!Next
     \/ shape = "stepwise" /\ Stepwise!Next
  /\ UNCHANGED shape
-----------------------------------------------------------------------------
\* Through choices, approvals, steps added one by one and restarts: a run that waits shows a
\* card, a run has one runner and looks alive only with one, and an approval sends one call
\* (ProcedureRuns!WaitingRunHasACard, NothingLooksAliveThatIsNot, OneRunner,
\* SendsWithinApprovals).
LiveRunsAreTrue ==
  /\ shape = "confirmed" =>
       /\ Confirmed!WaitingRunHasACard /\ Confirmed!NothingLooksAliveThatIsNot
       /\ Confirmed!OneRunner /\ Confirmed!SendsWithinApprovals
  /\ shape = "stepwise" => Stepwise!OneRunner /\ Stepwise!NothingLooksAliveThatIsNot

\* After a cancel at most the call under way goes out (ProcedureRuns!OneCallAfterCancel).
OneCallAfterCancel == shape = "confirmed" => Confirmed!OneCallAfterCancel

\* A step that names the choice goes out with what the ledger says was chosen
\* (ProcedureRuns!CallsMatchTheLedger).
CallsMatchTheLedger ==
  [][shape = "confirmed" =>
       \A t \in Tasks :
         LET k == stask[t] IN
         (Confirmed!Sends(t) /\ k.ix \in {3, 4}) => k.fp.arg = sinputs[k.run]]_shapeVars

\* A run that is done has every step done or skipped for a reason (ProcedureRuns!DoneIsWhole).
DoneIsWhole == shape = "resumed" => Resumed!DoneIsWhole

\* A write whose outcome is unknown is sent again only when the person confirms
\* (ProcedureRuns!ResumeConfirmsUnknownWrites).
ResumedWritesAreConfirmed ==
  [][shape = "resumed" =>
       \A t \in Tasks :
         LET k == stask[t] IN
         (Resumed!Sends(t) /\ k.via = "resume" /\ k.prev = "unknown" /\ k.ix \in {1, 2})
           => Resumed!Approved(k.run, k.ix, k.fp)]_shapeVars

\* A resumed run does not repeat what is done (ProcedureRuns!ResumeNeverRepeatsDone).
ResumeNeverRepeatsDone ==
  [][shape = "resumed" =>
       \A t \in Tasks : (Resumed!Sends(t) /\ stask[t].via = "resume") => stask[t].prev # "done"]_shapeVars

\* A step added to a run never replaces one that is there (ProcedureRuns!StepsNeverOverwrite).
StepsNeverOverwrite ==
  [][shape = "stepwise" =>
       \A t \in Tasks :
         LET k == stask[t] IN
         (k.pc = "begin" /\ k.via = "step" /\ stask'[t].pc = k.next)
           => srow[k.run][k.ix].state = "none"]_shapeVars
=============================================================================
