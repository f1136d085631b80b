SPECIFICATION Spec
CONSTANTS
  Ids <- ThreeIds
  Titles <- TwoTitles
  Rotations <- Degrees
  Manifests <- AllManifests
  MonthOf <- Months
INVARIANT RotationSurvives
INVARIANT OneRowPerTitle
 
