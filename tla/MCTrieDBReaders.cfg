CONSTANTS
  s = s  l = l  x = x  p = p  q = q
  Zero = Zero  NotLeaf = NotLeaf  BadBlob = BadBlob  EmptyRoot = EmptyRoot
  Hash <- MCHash
  Kids <- MCKids
  Account <- MCAccount
  Weight <- MCWeight
  IdealBatchSize = 3
  StorageLists <- MCReadStorageLists
  AccountLists <- MCReadAccountLists
  CommitArgs <- MCReadCommitArgs
  Readers = {g1}
  NodeArgs <- MCNodeArgs
  BlobArgs <- MCBlobArgs
  PutMayFail = TRUE
  SubmitMayFail = FALSE
  MaxParents = 1
SPECIFICATION FairSpec
INVARIANT
  ReadNeverMisses
PROPERTIES
  CallsReturn
