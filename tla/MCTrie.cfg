CONSTANTS
  Keys <- MCKeys
  Values = {1, 30}
  ValueSize <- MCValueSize
  ReadMayFail = TRUE
  MaxRoots = 2
SPECIFICATION Spec
INVARIANTS
  MinimalForm
  GetCorrect
  HashCanonical
  NodeSetChildrenFirst
  NodeAgreesWithBlob
  OldRootsReadable
