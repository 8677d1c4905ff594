SPECIFICATION RunnerSpec
CONSTANTS
  Providers <- MCProviders
  Packages <- MCPackages
  Required <- MCRequired
  Added = {"new"}
  MaxFaults = 2
INVARIANTS
  RunnerTypeOK
  GathersWithDependencies
PROPERTY
  RunsRecover
