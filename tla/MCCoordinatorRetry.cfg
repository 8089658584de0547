SPECIFICATION FairPipelineSpec
CONSTANTS
  c1 = c1
  c2 = c2
  Senders = {c1, w1}
  Coordinators = {c1}
  Workers = {w1}
  Users = {1, 2}
  Movers = {2}
  Sleepers = {}
  Renewers = {}
  Digests <- MCDigests
  InitialPages <- MCNoPages
  BatchSize = 1
  ColdMax = 1
  PageSize = 2
  MaxPosts = 2
  Faults = {"reject", "lapse"}
  MaxFaults = 2
  MaxAttempts = 2
  NoJob = NoJob
INVARIANTS PipelineTypeOK NobodyPassedOver OncePerPost
PROPERTIES PagesPartition EveryPostAnnounced
CHECK_DEADLOCK FALSE
