SPECIFICATION Spec
CONSTANTS
  s1 = s1  s2 = s2  q1 = q1  q2 = q2  q3 = q3  m = m
  Servers = {s1}
  Requests = {q1}
  FirstList = {s1}
  Models = {m}
  NoModel = NoModel
  Offer <- SameOffer
  Wants <- WantAny
  Keyed = {}
  Rank <- PreferS1
  StickySlack = 2
  KeepFails = 2
  TimeoutsDown = 1
  OtherLoad = 0
  Lives = 3
  Troubles = 2
  Reloads = 0
CHECK_DEADLOCK FALSE
INVARIANTS
  UpOutlivesFailure
