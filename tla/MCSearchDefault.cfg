CONSTANTS
  Point = {1, 2, 3}
  Blank = {2}
  Tagged = {3}
  Build = {b1}
  Query = {q}
  PageSize = 1
  DenseTopK = 2
  SparseTopK = 2
  TopK = 2
  Threshold = 350
  Faults = {}
  DenseWeight = 7
  SparseWeight = 3
  RrfK = 60
  MaxRank = 2
  Scale = 3782
SPECIFICATION Spec
INVARIANT SearchReturnsFound
CHECK_DEADLOCK FALSE
