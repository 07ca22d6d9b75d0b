SPECIFICATION PartSpec
CONSTANTS
  t1 = t1  t2 = t2  x1 = x1  x2 = x2  r1 = r1  h1 = h1  h2 = h2  p1 = p1  j1 = j1  j2 = j2  o1 = o1
  Turns = {t1, t2}
  Mixes <- Kinds3
  RunOf <- OneRun
  Stoppers = {x1, x2}
  Nobody = Nobody
  Permits = 2
  Cap = 1
  MaxDetached = 1
  Deletes = TRUE
  MaxFails = 1
  Handlers = {h1, h2}
  People = {p1}
  Crews <- One
  Jobs = {j1, j2}
  Orders = {o1}
  NoOrder = NoOrder
  Max = 1
  BoxMax = 2
  MaxAsks = 3
  MaxCrashes = 1
CHECK_DEADLOCK FALSE
INVARIANTS
  PermitsMatchReaders
  AnswersAreKept
  AnswersAreSaidOnce
  StopsAreTold
  
  OrdersAreMadeOnce
  DeckEndsAreTold
PROPERTIES
  NoticesKeepToTheGaps
