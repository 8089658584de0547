SPECIFICATION FairSpec
CONSTANTS
  p1 = p1
  p2 = p2
  t1 = t1
  t2 = t2
  Callers = {t1, t2}
  Burst = 2
  MaxAmount = 3
  MaxAge = 3
  Processes = {p1, p2}
  Self = p1
  Commands = {p2}
INVARIANTS TypeOK RateInv SleepSuffices NoStartFails
PROPERTIES StartsServe CallsReturn ShutdownEnds
