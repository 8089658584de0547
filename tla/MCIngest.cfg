SPECIFICATION FairSpec
CONSTANTS
  p1 = p1
  p2 = p2
  s1 = s1
  s2 = s2
  Pollers = {p1, p2}
  Sources = {s1, s2}
  SourcesPerCycle = 2
  PageSize = 2
  MaxItems = 3
  MaxFaults = 1
INVARIANTS TypeOK NothingSkipped
PROPERTIES CursorMonotone EverythingIngested
CHECK_DEADLOCK FALSE
