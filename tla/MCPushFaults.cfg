SPECIFICATION FairSpec
CONSTANTS
  w1 = w1
  w2 = w2
  Senders = {w1, w2}
  Workers = {w1, w2}
  Users = {1, 2}
  Movers = {2}
  Sleepers = {}
  Renewers = {2}
  Digests <- MCDigests
  InitialPages <- MCTwicePaged
  BatchSize = 1
  Faults = {"crash", "lapse", "reject", "ambiguous", "claim", "release", "db", "forget"}
  MaxFaults = 1
  MaxAttempts = 2
  NoJob = NoJob
INVARIANTS TypeOK RepeatsPaid
PROPERTIES PruneSparesLive EveryPageSettles
CHECK_DEADLOCK FALSE
