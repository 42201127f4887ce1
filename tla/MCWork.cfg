SPECIFICATION MCSpec
CONSTANTS
  Size = 5
  Width = 1
  ExpBits = 30
  Two <- PowersOf2
  Hashed = 3
  Garbage = {0, 255}
  SmallSize = 4
  SmallWidth = 4
  Xs <- Uppers
  Ys <- Edges
  Shifts <- EveryShift
  Powers <- PastTheEnd
  Exponents <- EveryExponent
  Coefficients <- EdgeCoefficients
CHECK_DEADLOCK FALSE
INVARIANTS
  FirstSolution
  SearchBounded
  ExactWhereUsed
  PowersOfTwo
  TargetPlaced
  NonceComesBack
PROPERTY SolvableIsSolved
