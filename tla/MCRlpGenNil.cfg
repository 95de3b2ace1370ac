CONSTANTS
  Word = 1000000
  NilSlice = NilSlice
  Types <- NilTypes
  Samples <- NilSamples
  Inputs <- NilInputs
SPECIFICATION Spec
INVARIANT RoundTrip
CHECK_DEADLOCK FALSE
