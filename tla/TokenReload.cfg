SPECIFICATION Spec
CONSTANTS
  alice = alice  bob = bob
  h1 = h1  h2 = h2  h3 = h3
  adm1 = adm1  adm2 = adm2
  Users <- TwoUsers
  Handlers <- ThreeHandlers
  Admins <- OneAdmin
  MaxStamp = 4
  MaxIssued = 2
SYMMETRY SwapHandlers
INVARIANTS TypeOK StaleOnlySinceStart
CHECK_DEADLOCK FALSE
