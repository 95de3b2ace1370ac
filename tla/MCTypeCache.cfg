CONSTANTS
  Threads = {t1, t2}
  A = A  B = B  C = C
  Keys <- MCKeys
  Roots <- MCRoots
  Shapes <- MCShapes
  None = None
SPECIFICATION LiveSpec
INVARIANTS
  PublishedComplete
  PublishedExact
PROPERTIES
  PublishedForever
  RequestsReturn
