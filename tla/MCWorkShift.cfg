SPECIFICATION MCSpec
CONSTANTS
  Size = 2
  Width = 1
  ExpBits = 30
  Two <- PowersOf2
  Hashed = 1
  Garbage = {0, 255}
  SmallSize = 3
  SmallWidth = 8
  Xs <- EveryByte
  Ys <- OneNumber
  Shifts <- EveryShift
  Powers <- NoCall
  Exponents <- NoCall
  Coefficients <- NoCall
CHECK_DEADLOCK FALSE
INVARIANT ShiftsLeft
