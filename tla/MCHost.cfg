CONSTANTS
  A = A
  B = B
  Shift = Shift
  KeyOrder <- MCOrder
  Texts <- MCTexts
  Hold = 2
  QueueMax = 5
  FifoMax = 2
  FramesPerEvent = 2
  MaxUser = 2
  Sources = {"a", "b"}
  Tracks = {"video", "audio"}
  MaxQueue = 1
  MaxJobs = 3
  Rate = 2
  ClockRate = 3
  Frames = {5, 6}
  Writes = {0, 4}
  Capacity = 8
  Limits = {0, 1}
  MaxTime = 17
  MaxOps = 3
  Root = "root"
  Dirs = {"sub"}
  Files = {"f", "g"}
  Parent <- MCParent
  Gone = Gone
  MaxChanges = 2
  MaxBuilds = 2
SPECIFICATION HostSpec
INVARIANTS KeysArrive RecordedExactly SnapshotTrue
PROPERTIES KeysSeen NothingIsLost HonestOutcome ComesToEnd
