CONSTANTS
  s = s  l = l  x = x  p = p  q = q
  Zero = Zero  NotLeaf = NotLeaf  BadBlob = BadBlob  EmptyRoot = EmptyRoot
  Hash <- MCHash
  Kids <- MCKids
  Account <- MCAccount
  Weight <- MCWeight
  IdealBatchSize = 3
  StorageLists <- MCStorageLists
  AccountLists <- MCAccountLists
  CommitArgs <- MCCommitArgs
  Readers = {}
  NodeArgs = {}
  BlobArgs = {}
  PutMayFail = TRUE
  SubmitMayFail = TRUE
  MaxParents = 9
SPECIFICATION Spec
INVARIANT CommittedDurable
