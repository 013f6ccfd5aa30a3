SPECIFICATION Spec
CONSTANTS
  b1 = b1  b2 = b2  t1 = t1  t2 = t2  t3 = t3  here = here  there = there
  None = None
  Buckets = {b1}
  Parts = {1, 2}
  Threads = {t1, t2, t3}
  Processes = {here, there}
  ProcessOf <- Apart
  MaxVersion = 2
  MaxLost = 1
SYMMETRY Swap
INVARIANTS BucketIsWhole
PROPERTIES ServesItsManifest DeletedFilesAreFetched FillsAreNeeded
