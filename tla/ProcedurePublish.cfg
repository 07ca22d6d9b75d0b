SPECIFICATION Spec
CONSTANTS
  r1 = r1  r2 = r2  r3 = r3
  t1 = t1  t2 = t2  t3 = t3
  x1 = x1  x2 = x2  v1 = v1  v2 = v2  be1 = be1  be2 = be2
  Runs = {r1}
  EmptyRuns = {}
  AdHocRuns = {r1}
  Tasks = {t1, t2}
  Slots = 2
  N = 2
  Backends = {be1}
  BackendOf <- OneBackend
  GateSteps = {2}
  PublishSteps = {2}
  WriteSteps = {}
  SlowSteps = {}
  WarmSteps = {1}
  SelectSteps = {}
  SaveSteps = {}
  PickUsers = {}
  Values = {x1, x2}
  NoValue = NoValue
  Views = {v1, v2}
  NoView = NoView
  Nobody = Nobody
  MaxAsks = 4
  MaxRestarts = 1
CHECK_DEADLOCK FALSE
SYMMETRY Symmetric
INVARIANTS
  SendsWithinApprovals
