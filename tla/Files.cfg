\* Two processes with two descriptors each besides the terminal's.
CONSTANTS
    MAX_PROCESSES = 2
    MAX_OPEN_FILE = 4
    DATA_BLOCK_SIZE = 2
    WORD = 65536
    dir_entries <- MCEntries
    inodes <- MCInodes
    ReadSizes <- MCReadSizes
SPECIFICATION Spec
INVARIANTS
    TypeOK
    InUseIsOpened
    LeadsToItsFile
    FileReadInOrder
PROPERTY DirReadListsAll
