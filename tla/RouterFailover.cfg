SPECIFICATION Spec
CONSTANTS
  s1 = s1  s2 = s2  q1 = q1  q2 = q2  q3 = q3  m = m
  Servers = {s1, s2}
  Requests = {q1}
  FirstList = {s1, s2}
  Models = {m}
  NoModel = NoModel
  Offer <- ChangedOffer
  Wants <- WantM
  Keyed = {}
  Rank <- PreferS1
  StickySlack = 2
  KeepFails = 2
  TimeoutsDown = 1
  OtherLoad = 0
  Lives = 2
  Troubles = 1
  Reloads = 2
CHECK_DEADLOCK FALSE
SYMMETRY ServerSymmetry
INVARIANTS
  ReachesOneServer
  CountsAreTrue
  NoOrphans
  CompleteIsWhole
  UpOutlivesOutage
PROPERTIES
  FittestServerFirst
