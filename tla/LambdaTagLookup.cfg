SPECIFICATION GatherSpec
CONSTANTS
  Programs <- MCOnlyLambda
  Statements <- MCStatements
  Claims <- MCClaimAll
  Intents <- MCIntents
  MaxEvents = 3
  ResourceTypes <- MCResourceTypes
  Regions <- MCRegions
  NoRegion = ""
  ResourceIds <- MCResourceIds
  CheckIds <- MCCheckIds
  Sources <- MCSources
  NoFile = NoFile
  StaleFile = StaleFile
  MaxEntries = 0
INVARIANTS
  SuppressedNeverRecorded
CHECK_DEADLOCK FALSE
