SPECIFICATION GatherSpec
CONSTANTS
  Programs <- MCOnlyAccount
  Statements <- MCStatements
  Claims <- MCClaimAll
  Intents <- MCIntents
  MaxEvents = 2
  ResourceTypes <- MCResourceTypes
  Regions <- MCRegions
  NoRegion = ""
  ResourceIds <- MCResourceIds
  CheckIds <- MCCheckIds
  Sources <- MCSources
  NoFile = NoFile
  StaleFile = StaleFile
  MaxEntries = 0
INVARIANTS
  NoSilentLoss
CHECK_DEADLOCK FALSE
