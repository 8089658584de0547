SPECIFICATION FairSpec
CONSTANTS
  w1 = w1
  w2 = w2
  Senders = {w1, w2}
  Workers = {w1, w2}
  Users = {1, 2, 3}
  Movers = {2}
  Sleepers = {2}
  Renewers = {2}
  Digests <- MCDigests
  InitialPages <- MCOnePage
  BatchSize = 2
  Faults = {"lapse", "db"}
  MaxFaults = 2
  MaxAttempts = 2
  NoJob = NoJob
INVARIANTS MarkersGuard DoneMeansNotified
PROPERTIES EveryoneNotified EveryPageSettles
CHECK_DEADLOCK FALSE
