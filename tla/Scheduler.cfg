SPECIFICATION FairHSpec
CONSTANTS
  u1 = u1  u2 = u2  u3 = u3
  a1 = a1  a2 = a2  b1 = b1  c1 = c1
  Users <- ThreeUsers
  Threads <- SharedThreads
  UserOf <- UserOfThread
  MaxStreams = 2
  MaxPendingPerUser = 2
  MaxPending = 4
INVARIANTS LeasesAccounted QueuedIffUnserved RotationHoldsWaitingUsers NoEligibleWaiter NoLostWakeup WorkConserving
PROPERTIES RefinesAdmission ServedOncePerTurn WaiterIsServed LeaseReachesHolder AcquireEnds
