SPECIFICATION Spec
CONSTANTS
  a = a  b = b  g1 = g1  g2 = g2
  People = {a, b}
  SabunOf <- NoSabuns
  NoSabun = NoSabun
  BySabun = FALSE
  Pinned = {}
  Founders = {}
  Ledgers <- OneAdmin
  Handlers = {g1, g2}
  Nobody = Nobody
  MaxAsks = 3
CHECK_DEADLOCK FALSE
SYMMETRY RequestSymmetry
INVARIANTS
  ChangesAreSeenAtOnce
