CONSTANTS
  Inputs <- MCInputs
  Limits = {0, 3}
  Lengths = {1, 2}
  Word = 1000
SPECIFICATION Spec
INVARIANT
  ElemFitsList
