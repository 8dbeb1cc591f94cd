\* Two terminals with buffers of two characters and two processes.
CONSTANTS
    KEYBOARD_NUM_KEYS = 2
    NUM_TERM = 2
    MAX_PROCESSES = 2
    a = a
    Keys <- MCKeys
    KEY_NULL = KEY_NULL
    ReadSizes <- MCReadSizes
SPECIFICATION FairSpec
INVARIANTS
    TypeOK
    EnterNotLost
PROPERTIES
    UnfinishedLinesKept
    ReadsWaitForEnter
    QuietReadGetsLine
    EnterEndsRead
