SPECIFICATION Spec
CONSTANTS
  None = None
  r1 = r1  r2 = r2  c1 = c1  c2 = c2
  Readers = {r1}
  Connections = {c1}
  Kinds = {"ranges"}
  Objects = 2
  BucketEnds = {2}
  Retries = 2
INVARIANTS RetriesUntilSpent
