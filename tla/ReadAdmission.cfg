SPECIFICATION FairSpec
CONSTANTS
  Nobody = Nobody
  r1 = r1  r2 = r2  r3 = r3
  Readers = {r1, r2, r3}
  Plans <- SomePlans
  Slots = 2
  Capacity = 2
  Connections = 1
INVARIANTS NothingLeaks NobodySleepsBesideEnough
PROPERTIES RequestsEnd
