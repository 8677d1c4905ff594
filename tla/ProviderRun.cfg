SPECIFICATION RunSpec
CONSTANTS
  ResourceTypes <- MCResourceTypes
  Regions <- MCRegions
  NoRegion = ""
  ResourceIds <- MCResourceIds
  CheckIds <- MCCheckIds
  Sources <- MCSources
  NoFile = NoFile
  StaleFile = StaleFile
  MaxEntries = 2
  Providers <- MCProviders
  RegionalModules <- MCRegionalModules
  GlobalModules <- MCGlobalModules
  GlobalRegion = "global"
  RegionLists <- MCRegionLists
  GatherSources <- MCGatherSources
INVARIANTS
  RunTypeOK
  ExitZeroIsComplete
  EveryFailureReported
PROPERTIES
  EarlierFileKept
  RunEnds
  KeepsContract
CHECK_DEADLOCK FALSE
