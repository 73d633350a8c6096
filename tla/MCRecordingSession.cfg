CONSTANTS
    client = client
    worker = worker
    MaxSlices = 2
    Room = 3
    Sizes = {1, 2}
    Misfits = {"DescriptorMismatch"}
    MaxSequence = 3
    MaxRuns = 2
SPECIFICATION FairSpec
INVARIANTS
    FailureIsNamed
PROPERTIES
    StopSaves
    CallReturns
    ImplementsArchive
\* A destroyed session does nothing any more, and neither does one past MaxRuns.
CHECK_DEADLOCK FALSE
