SPECIFICATION PipelineSpec
CONSTANTS
  c1 = c1
  c2 = c2
  Senders = {c1, w1}
  Coordinators = {c1}
  Workers = {w1}
  Users = {1, 2}
  Movers = {}
  Sleepers = {}
  Renewers = {}
  Digests <- MCDigests
  InitialPages <- MCNoPages
  BatchSize = 2
  ColdMax = 1
  PageSize = 1
  MaxPosts = 2
  Faults = {"crash"}
  MaxFaults = 1
  MaxAttempts = 2
  NoJob = NoJob
INVARIANTS NoPostTwice
CHECK_DEADLOCK FALSE
