\* Reading a file to its end.
CONSTANTS
    MAX_PROCESSES = 1
    MAX_OPEN_FILE = 4
    DATA_BLOCK_SIZE = 2
    WORD = 65536
    dir_entries <- MCEntries
    inodes <- MCInodes
    ReadSizes <- MCReadSizes
SPECIFICATION Spec
INVARIANT ReadsStopAtEnd
