CONSTANTS
  e1 = e1
  e2 = e2
  w1 = w1
  None = None
  Workers = {w1}
  Events = {e1, e2}
  FailsAs <- OneRefused
  Budget = 2
  Threshold = 2
  MaxPerTick = 2
  MaxFaults = 1
SPECIFICATION FairSpec
INVARIANTS
  NeverLost
  RedrivesBounded
PROPERTIES
  EverythingSettles
