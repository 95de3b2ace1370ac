CONSTANTS
  Ints <- MCInts
  MaxInts = 3
  Inputs <- MCInputs
SPECIFICATION Spec
INVARIANTS
  NothingLost
  CountExact
  ValueIsEncoding
  IntegersComeBack
CHECK_DEADLOCK FALSE
