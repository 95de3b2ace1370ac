CONSTANTS
  Nibbles = {0, 1, 2, 15}
  Digest <- MCDigest
  ValueBytes <- MCValueBytes
  ValueSize <- MCValueSize
  RawNodes <- MCRawNodes
SPECIFICATION Spec
INVARIANT BlobRoundTrip
CHECK_DEADLOCK FALSE
