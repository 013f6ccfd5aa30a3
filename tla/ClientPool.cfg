SPECIFICATION FairSpec
CONSTANTS
  None = None
  r1 = r1  r2 = r2  c1 = c1  c2 = c2
  Readers = {r1, r2}
  Connections = {c1, c2}
  Kinds = {"manifest", "metadata", "ranges", "objects", "cache"}
  Objects = 3
  BucketEnds = {1, 3}
  Retries = 1
INVARIANTS EveryConnectionOnce EachObjectOnce
PROPERTIES RequestsEnd
