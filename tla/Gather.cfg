SPECIFICATION GatherSpec
CONSTANTS
  Programs <- MCPrograms
  Statements <- MCStatements
  Claims <- MCClaims
  Intents <- MCIntents
  MaxEvents = 4
  ResourceTypes <- MCResourceTypes
  Regions <- MCRegions
  NoRegion = ""
  ResourceIds <- MCResourceIds
  CheckIds <- MCCheckIds
  Sources <- MCSources
  NoFile = NoFile
  StaleFile = StaleFile
  MaxEntries = 0
INVARIANTS
  GatherTypeOK
  EdgeOwnersRecorded
  EdgesFromRecorded
  ParentEdgesLand
  SuppressedUnlessUnread
  UniqueRecords
  LossIsConfined
  LossIsExplained
  NoSilentLoss
  SectionsIsolated
  NetworkEdgesLand
  DanglingExplained
CHECK_DEADLOCK FALSE
