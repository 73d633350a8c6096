CONSTANTS
    Slots = 3
    Queues <- MCKeyQueues
    MaxId = 2
    MaxTasks = 4
    MaxCrashes = 1
SPECIFICATION Spec
INVARIANT UndoRestores
CHECK_DEADLOCK FALSE
