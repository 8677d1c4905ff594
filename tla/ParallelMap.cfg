SPECIFICATION MapSpec
CONSTANTS
  MaxItems = 4
  MaxWorkers = 2
INVARIANTS
  MapTypeOK
  NothingLeftRunning
PROPERTIES
  IsOrderedMap
  MapEnds
CHECK_DEADLOCK FALSE
