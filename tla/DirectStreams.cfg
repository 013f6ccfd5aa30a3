SPECIFICATION FairSpec
CONSTANTS
  None = None
  s1 = s1  s2 = s2  c1 = c1
  Streams = {s1, s2}
  Connections = {c1}
  Piped = {s2}
  Objects = 2
  RequestSize = 2
  QueueParts = 1
  PipeSize = 1
  Retries = 1
CONSTRAINT PlainFirst
CHECK_DEADLOCK FALSE
INVARIANTS TypeOK ObjectsInOrder SuccessIsWhole TroubleOnlyFromLateProducers
PROPERTIES StreamsEnd
