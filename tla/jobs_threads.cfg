SPECIFICATION Spec
CONSTANTS
  j1 = j1
  j2 = j2
  a1 = a1
  a2 = a2
  h1 = h1
  h2 = h2
  Jobs <- TwoJobs
  Aerodromes <- OneAerodrome
  Handlers <- TwoHandlers
  BulkRequests <- NoBulk
  ExtractStaleAfter = 0
  SyncStaleAfter = 1
  ScrapeMaxWait = 0
  MaxClock = 2
  MaxFaults = 1
SYMMETRY JobSymmetry
INVARIANT LiveTerminalIsStuck
PROPERTY SyncWindowCoversScrape
