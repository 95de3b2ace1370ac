CONSTANTS
  s = s  l = l  x = x  p = p  q = q
  Zero = Zero  NotLeaf = NotLeaf  BadBlob = BadBlob  EmptyRoot = EmptyRoot
  Hash <- MCHash
  Kids <- MCKids
  Account <- MCAccount
  Weight <- MCWeight
  IdealBatchSize = 3
  StorageLists <- MCStorageLists
  AccountLists <- MCAccountLists
  CommitArgs <- MCCommitArgs
  Readers = {}
  NodeArgs = {}
  BlobArgs = {}
  PutMayFail = FALSE
  SubmitMayFail = TRUE
  MaxParents = 9
SPECIFICATION Spec
INVARIANTS
  TypeOK
  NoPanic
  NodeAvailable
  DiskClosed
  CommittedDurable
  FlushListLinked
  FlushOldestFirst
  RefCount
PROPERTIES
  UncacheDurable
  StoreSpec
