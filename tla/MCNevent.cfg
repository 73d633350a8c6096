\* A guarded FM timer, a freely re-armed one and one armed relative while idle.
CONSTANTS
    Ids = {fm, pit, cmt}
    Stale = {cmt}
    Guarded = {fm}
    Delays = {0, 1, 3}
    MaxClock = 4
    MaxStep = 2
    MaxDebt = 1
    MaxCalls = 2
    ClockCap = 5
    fm = fm
    pit = pit
    cmt = cmt
SPECIFICATION FairSpec
INVARIANTS
    TypeOK
    TimeExact
    NothingDueWhenFetching
    Deadline
    NoLostEvent
PROPERTIES
    ImplementsTimerQueue
    EventuallyCalled
