CONSTANTS
    Requests <- MCRequests
    Size <- MCSize
    Drives = 2
    DataBuf = 4
    MaxCalls = 4
SPECIFICATION FairSpec
INVARIANTS EachByteOnce HonestRead
PROPERTY RequestEnds
