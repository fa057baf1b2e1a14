SPECIFICATION Spec
CONSTANTS
  Cores = {0, 1}
  Ids = {1, 2, 3, 4, 5, 6}
  MshrSize = 2
  Assoc = 1
  InSize = 4
  FillSize = 2
  WbSize = 1
  OutSize = 1
  McSize = 1
  WritePorts = 1
  Scenarios <- MCScenarios
INVARIANTS WaitersOwned MergesSound
PROPERTIES DirtyNeverLost EveryAccessServed
CHECK_DEADLOCK FALSE
