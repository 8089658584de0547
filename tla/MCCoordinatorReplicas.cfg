SPECIFICATION PipelineSpec
CONSTANTS
  c1 = c1
  c2 = c2
  Senders = {c1, c2}
  Coordinators = {c1, c2}
  Workers = {}
  Users = {1, 2, 3}
  Movers = {}
  Sleepers = {}
  Renewers = {2}
  Digests <- MCDigests
  InitialPages <- MCNoPages
  BatchSize = 2
  ColdMax = 3
  PageSize = 2
  MaxPosts = 2
  Faults = {"crash", "reject", "claim", "release", "db"}
  MaxFaults = 1
  MaxAttempts = 2
  NoJob = NoJob
INVARIANTS AtMostOnce
PROPERTIES DigestStateMonotone ImplementsNotification
SYMMETRY MCCoordinatorSymmetry
CHECK_DEADLOCK FALSE
