SPECIFICATION Spec
CONSTANTS
  MasterLines = 3
  SlaveLines = 2
  InitMask <- MCInitMask
  Timer = 0
  Crtv = 1
  LevelLines = {1}
  Levels = {0, 1, 2, 3}
  LevelOf <- MCLevelOf
  Maskable = {0, 1, 2}
  DirectLevels = {}
  Timer2 = 2
  Modes = {"native"}
  Ocw1 <- MCOcw1
  Ocw2 <- MCOcw2
  Ocw3 <- MCOcw3
  Icw1 <- MCIcw1
  Statuses = {}
  E6Masks = {}
INVARIANTS
  NestedOrder
  EdgeOnce
PROPERTIES
  TakesTheHighest
  RequestsKept
