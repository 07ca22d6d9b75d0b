SPECIFICATION Spec
CONSTANTS
  h1 = h1  t1 = t1
  Searches = {h1}
  Tasks = {t1}
  N = 3
  Size <- Sizes
  Batch = 1
  Spaces = 2
  MaxSearches = 2
  MaxFails = 0
  MaxRestarts = 0
CHECK_DEADLOCK FALSE
INVARIANTS
  VectorsAreOfTheirSpace
