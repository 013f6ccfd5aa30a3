SPECIFICATION Spec
CONSTANTS
  Stores = {"derived", "points"}
  h1 = h1  h2 = h2
  MaxGeneration = 3
  Size <- SameThenLarger
  Handlers = {h1, h2}
  Capacity = 2
  MaxRestarts = 1
SYMMETRY SwapHandlers
INVARIANTS TypeOK AdmittedPlansAreWhole CurrentPlanIsServed
