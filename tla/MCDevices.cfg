CONSTANTS
  Samples = 2
  Reserve = 1
  Chunk = 2
  FifoFrames = 6
  ClockBase = 2
  CounterWord = 16
  MaxClock = 5
  MaxCallbacks = 3
  MaxEpoch = 2
  Drives = {0, 1}
  NoDrive = 9
  Tracks = {0, 1, 2}
  Present <- MCPresent
  TrackMax = 3
  MaxChanges = 2
  Slots = 3
  Queues <- MCQueues
  MaxId = 2
  MaxTasks = 4
  MaxCrashes = 1
  SasiOps = {"ready", "recalibrate", "sense", "formatdrive", "formattrack", "c2", "read", "write",
    "other"}
  SasiDrives = {0}
  SasiBlocks = {0, 1, 2}
  SasiBlockBytes = 2
  SasiCommands = 2
  CmtTapes <- MCTapes
  CmtNoTape <- MCNoTape
  CmtMaxOps = 7
SPECIFICATION Spec
CONSTRAINT Followed
INVARIANTS TypeOK GuestIsServed SuccessIsTrue ReportsArrive DiskKeepsWrites ResultsTrue
    StatesKept FramesOnce
