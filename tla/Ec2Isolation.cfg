SPECIFICATION GatherSpec
CONSTANTS
  Programs <- MCOnlyEc2
  Statements <- MCStatements
  Claims <- MCClaimAll
  Intents <- MCIntents
  MaxEvents = 3
  ResourceTypes <- MCResourceTypes
  Regions <- MCRegions
  NoRegion = ""
  ResourceIds <- MCResourceIds
  CheckIds <- MCCheckIds
  Sources <- MCSources
  NoFile = NoFile
  StaleFile = StaleFile
  MaxEntries = 0
INVARIANTS
  SectionsIsolated
CHECK_DEADLOCK FALSE
