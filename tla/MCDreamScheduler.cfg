SPECIFICATION FairSpec
CONSTANTS
  p1 = p1
  p2 = p2
  Process = {p1, p2}
  ModesOf <- LoopAndHand
  MaxRuns = 2
  MaxFaults = 1
INVARIANTS
  DreamInv
  ScheduleKeepsUp
PROPERTIES
  DreamsGoOn
  ImplementsDreamLog
CHECK_DEADLOCK FALSE
