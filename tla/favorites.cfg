SPECIFICATION Spec
CONSTANTS
  p1 = p1
  p2 = p2
  i1 = i1
  i2 = i2
  Pages <- TwoPages
  Icaos <- TwoAerodromes
  MaxCalls = 2
  MaxFaults = 1
SYMMETRY PageSymmetry
INVARIANT SettledPageAgrees
INVARIANT RaisesOnlyIfOverlapping
