CONSTANTS
  c1 = c1  c2 = c2
  Clients = {c1, c2}
  Buffers = {b1, b2}
  Strings <- MCStrings
  Chunks = {20}
  MaxWrites <- MCMaxWrites
SPECIFICATION FairSpec
INVARIANTS
  BufferExclusive
  OutputIsEncoding
  SizeIsLength
PROPERTY
  ReaderEnds
