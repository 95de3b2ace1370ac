CONSTANTS
  Word = 1000000
  NilSlice = NilSlice
  Types <- MCTypes
  Samples <- MCSamples
  Inputs <- MCInputs
SPECIFICATION Spec
INVARIANTS
  RoundTrip
  Canonical
  ParsersAgree
  
CHECK_DEADLOCK FALSE
