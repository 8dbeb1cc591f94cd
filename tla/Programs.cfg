\* Three processes, and as many descriptors as syserr counts on.
CONSTANTS
    MAX_PROCESSES = 3
    MAX_OPEN_FILE = 8
    DATA_BLOCK_SIZE = 1
    WORD = 65536
    dir_entries <- MCEntries
    inodes <- MCInodes
    ReadSizes = {1, 2}
    Commands <- MCCommands
    DotNames = {".", ".hidden"}
    BUFSIZE = 2
    NEG_FD <- MCNegative
    BIG_FD = 1073741823
    NEG_NUM <- MCNegative
    BIG_NUM = 1073741823
SPECIFICATION ProgramsSpec
INVARIANT TestsPass
PROPERTIES
    PrintedInFull
    ShellTellsCause
    ProgramsEnd
