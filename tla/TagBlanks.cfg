SPECIFICATION TaggedSpec
CONSTANTS
  ResourceTypes <- MCResourceTypes
  Regions <- MCRegions
  NoRegion = ""
  ResourceIds <- MCResourceIds
  CheckIds <- MCCheckIds
  Sources <- MCSources
  Words <- MCWords
  Strip <- MCStrip
  Lower <- MCLower
  Writings <- MCBlankWritings
  NoFile = NoFile
  StaleFile = StaleFile
  MaxEntries = 2
INVARIANTS
  WishesAreKept
CHECK_DEADLOCK FALSE
