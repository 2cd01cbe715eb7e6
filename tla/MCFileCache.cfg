CONSTANTS
  Names <- MCNames
  Threads = {t1, t2}
  Readers = {1, 2}
  JobIds = {1, 2, 3}
  Files = {1, 2, 3, 4}
  Workers = {0, 1}
  Slots = 1
  MaxUint64 = 16
  Kinds <- MCKinds
SPECIFICATION Spec
CHECK_DEADLOCK FALSE
INVARIANTS DownloadsInPlace CacheAndJobsInOrder
PROPERTIES ServedFresh ReadsEnd
