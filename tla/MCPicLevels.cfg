SPECIFICATION Spec
CONSTANTS
  MasterLines = 3
  SlaveLines = 2
  InitMask <- MCInitMask
  Timer = 0
  Crtv = 1
  LevelLines = {}
  Levels = {0, 1, 2, 3}
  LevelOf <- MCLevelOf
  Maskable = {0, 1, 2}
  DirectLevels = {0}
  Timer2 = 2
  Modes = {"native", "compat", "call"}
  Ocw1 <- MCOcw1Levels
  Ocw2 <- MCOcw2Levels
  Ocw3 <- Nothing
  Icw1 <- Nothing
  Statuses <- MCStatuses
  E6Masks <- MCE6Masks
INVARIANTS
  NoSpuriousInt
PROPERTIES
  LetsThroughAtOnce
  OneAcceptPerArming
