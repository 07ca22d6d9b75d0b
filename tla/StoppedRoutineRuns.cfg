SPECIFICATION Spec
CONSTANTS
  h1 = h1  h2 = h2  h3 = h3  j1 = j1  j2 = j2
  Handlers = {h1, h2, h3}
  May <- ThreeScreens
  Closes <- Turns
  N = 2
  DelibSteps = {2}
  Stops <- StopAtFirst
  StepBudget = 1
  RunBudget = 2
  Jobs = {j1}
  NoJob = NoJob
  Outcomes = {"ok", "ambiguous", "denied"}
  MaxAsks = 5
CHECK_DEADLOCK FALSE
PROPERTIES
  StoppedRunsAreNotRevived
