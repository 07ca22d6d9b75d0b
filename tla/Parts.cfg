SPECIFICATION PartSpec
CONSTANTS
  h1 = h1  h2 = h2  h3 = h3  g1 = g1  g2 = g2  j1 = j1  j2 = j2  j3 = j3  p1 = p1  o1 = o1
  e1 = e1  e2 = e2  a1 = a1  a2 = a2  b1 = b1
  Unset = Unset
  r1 = r1  t1 = g1  t2 = g2  x1 = j1  x2 = j2  v1 = v1  be1 = be1
  NoValue = NoValue
  NoView = NoView
  Nobody = Nobody
  Handlers = {h1, h2, h3}
  May <- Roles
  Closes <- Turns
  N = 2
  DelibSteps = {2}
  Stops <- StopAtFirst
  StepBudget = 1
  RunBudget = 2
  Jobs = {r1}
  NoJob = NoJob
  Outcomes = {"ok", "ambiguous", "denied"}
  MaxAsks = 5
CHECK_DEADLOCK FALSE
SYMMETRY PartSymmetry
INVARIANTS
  LiveRunsAreTrue
  OneCallAfterCancel
  DoneIsWhole
  BudgetsHold
  NoDeliberationOutlivesTheStop
  ScreensAgree
  TicketsServeOnce
  RevokedTakeTheirChildren
  CardsAreKept
  ReviewsEndOnce
  IndexIsWhole
PROPERTIES
  CallsMatchTheLedger
  ResumedWritesAreConfirmed
  
  StepsNeverOverwrite
  SettledEndsStay
  AnAdministratorRemains
