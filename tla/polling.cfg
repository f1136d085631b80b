SPECIFICATION Spec
CONSTANTS
  i1 = i1
  i2 = i2
  Icaos <- TwoAerodromes
  Dashboard = dashboard
  MaxJobs = 2
  MaxChains = 2
  MaxMoves = 2
  MaxFaults = 1
CHECK_DEADLOCK FALSE
INVARIANT OneChain
INVARIANT BulkCountsNewJobs
PROPERTY EndIsShown
PROPERTY BulkEnds
PROPERTY ShownGoesForward
