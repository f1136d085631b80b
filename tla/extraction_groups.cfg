SPECIFICATION GroupsSpec
CONSTANTS
  Readings <- AllReadings
  MaxCharts = 2
  Pictures <- AllPictures
  Ladder <- Rungs
  MaxBytes = 4
  MaxAudited = 3
  MaxLost = 1
  GeoReadings <- SomeGeo
  FreqReadings <- SomeFreqs
  GeoFields <- TwoFields
  Tolerance <- Tolerances
  MaxCandidates = 2
CHECK_DEADLOCK FALSE
INVARIANT ConsistentChartsAddNoStrip
INVARIANT PrimaryHasBestSurface
INVARIANT TwoStripsAreWritten
INVARIANT ListingOrderIrrelevant
INVARIANT SpentIsShown
INVARIANT EveryCallHasItsRow
INVARIANT RetryFits
INVARIANT ScalarsFromFirstAgreement
INVARIANT LinesPairUp
PROPERTY HighEndIsSafe
