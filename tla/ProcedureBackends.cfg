SPECIFICATION LiveSpec
CONSTANTS
  r1 = r1  r2 = r2  r3 = r3
  t1 = t1  t2 = t2  t3 = t3
  x1 = x1  x2 = x2  v1 = v1  v2 = v2  be1 = be1  be2 = be2
  Runs = {r1, r2}
  EmptyRuns = {}
  AdHocRuns = {}
  Tasks = {t1, t2}
  Slots = 2
  N = 1
  Backends = {be1}
  BackendOf <- OneBackend
  GateSteps = {}
  PublishSteps = {}
  WriteSteps = {}
  SlowSteps = {1}
  WarmSteps = {}
  SelectSteps = {1}
  SaveSteps = {}
  PickUsers = {}
  Values = {x1}
  NoValue = NoValue
  Views = {v1}
  NoView = NoView
  Nobody = Nobody
  MaxAsks = 3
  MaxRestarts = 0
CHECK_DEADLOCK FALSE
INVARIANTS
  OneRunner
  SlowStepsTakeTurns
PROPERTIES
  EndsAreKept
  RunsKeepTheirLifecycle
  RunsSettle
