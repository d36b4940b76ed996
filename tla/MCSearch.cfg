CONSTANTS
  Point = {1, 2, 3}
  Blank = {2}
  Tagged = {3}
  Build = {b1, b2}
  Query = {q}
  PageSize = 1
  DenseTopK = 2
  SparseTopK = 2
  TopK = 2
  Threshold = 10
  Faults = {"scroll", "embed", "dense", "crash"}
  DenseWeight = 7
  SparseWeight = 3
  RrfK = 60
  MaxRank = 2
  Scale = 3782
SPECIFICATION Spec
SYMMETRY Symmetry
INVARIANTS TypeOK LossNeedsOverlap AnswerRespectsRanks
CHECK_DEADLOCK FALSE
