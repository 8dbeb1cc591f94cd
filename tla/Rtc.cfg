\* Two nested programs, every request, the handler anywhere.
CONSTANTS
    MaxDepth = 2
    Slots = {2}
    Requests <- MCRequests
    Garbage <- MCGarbage
SPECIFICATION FairSpec
INVARIANT TypeOK
PROPERTIES
    ReadsWait
    DeafOnlyByFailure
    QuietClockKeepsTicking
    ReadersProgress
