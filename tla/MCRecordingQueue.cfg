\* Two capturing threads race for the same sequence numbers; one worker; every
\* slice fits the budget, as recording_native_session.cpp:1160 computes it.
CONSTANTS
    p1 = p1
    p2 = p2
    worker = worker
    ui = ui
    Producers = {p1, p2}
    Consumers = {worker}
    Controllers = {ui}
    MaxSlices = 2
    Room = 2
    Sizes = {1, 2}
    Misfits = {}
    MaxSequence = 1
SPECIFICATION FairSpec
INVARIANTS
    UnbrokenRun
    ClosedIsDrained
    NoLostWakeup
PROPERTIES
    CallsReturn
