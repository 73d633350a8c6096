\* Accesses to the file of the image may fail.
CONSTANTS
    Drives = {0, 1}
    NoDrive = 9
    Tracks = {0, 1, 2}
    Present <- MCPresent
    TrackMax = 3
    Outcomes = {TRUE, FALSE}
    MaxChanges = 2
SPECIFICATION Spec
INVARIANT ReadsBack
