SPECIFICATION Spec
CONSTANTS
  Stores = {"derived", "points"}
  h1 = h1  h2 = h2
  MaxGeneration = 2
  Size <- SameThenLarger
  Handlers = {h1}
  Capacity = 2
  MaxRestarts = 0
INVARIANTS PinnedVersion
