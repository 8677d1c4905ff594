SPECIFICATION TaggedSpec
CONSTANTS
  ResourceTypes <- MCResourceTypes
  Regions <- MCRegions
  NoRegion = ""
  ResourceIds <- MCResourceIds
  CheckIds <- MCCheckIds
  Sources <- MCSources
  Words <- MCWords
  Strip <- MCStrip
  Lower <- MCLower
  Writings <- MCWritings
  NoFile = NoFile
  StaleFile = StaleFile
  MaxEntries = 3
INVARIANTS
  WriterTypeOK
  TotalsMatchRecords
  SuppressionsAgree
  TruncationIsVisible
  WrittenIsComplete
  WishesAreKept
CHECK_DEADLOCK FALSE
