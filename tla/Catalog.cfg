SPECIFICATION Spec
CONSTANTS
  p1 = p1  p2 = p2  v1 = v1  v2 = v2  c1 = c1  c2 = c2  c3 = c3
  None = None
  w1 = w1
  h1 = h1  h2 = h2
  Partitions = {p1, p2}
  Versions = {v1, v2}
  Contents = {c1, c2, c3}
  Legacy <- OldVersions
  Prepared <- ConflictingRequests
  StartFormats = {"v1", "v2"}
  Publishers = {w1}
  Handlers = {h1, h2}
  CacheSize = 1
  MaxWrites = 9
  ServingWrites = 4
SYMMETRY SwapHandlers
CONSTRAINT Small
INVARIANTS TypeOK AnswerIsCurrent NothingMissing OneContentPerVersion
PROPERTIES MigrationChangesNothing
