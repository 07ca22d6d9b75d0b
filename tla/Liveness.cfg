SPECIFICATION Spec
CONSTANTS
  t1 = t1  t2 = t2  r1 = r1  s1 = s1  q1 = q1  m = m
  NoModel = NoModel
  Nobody = Nobody
CHECK_DEADLOCK FALSE
PROPERTIES
  ServersComeBack
  LeftRequestsAreReleased
  LeftTurnsEnd
