SPECIFICATION Spec
CONSTANTS
  r1 = r1  r2 = r2  r3 = r3
  t1 = t1  t2 = t2  t3 = t3
  x1 = x1  x2 = x2  v1 = v1  v2 = v2  be1 = be1  be2 = be2
  Runs = {r1}
  EmptyRuns = {}
  AdHocRuns = {}
  Tasks = {t1, t2}
  Slots = 2
  N = 3
  Backends = {be1}
  BackendOf <- OneBackend
  GateSteps = {}
  PublishSteps = {}
  WriteSteps = {3}
  SlowSteps = {}
  WarmSteps = {}
  SelectSteps = {1}
  SaveSteps = {}
  PickUsers = {2}
  Values = {x1, x2}
  NoValue = NoValue
  Views = {v1}
  NoView = NoView
  Nobody = Nobody
  MaxAsks = 5
  MaxRestarts = 1
CHECK_DEADLOCK FALSE
SYMMETRY TaskSymmetry
PROPERTIES
  ResumeConfirmsUnknownWrites
