\* Memory of three long words; one byte for a number; two conversions.
\* A name fits its array with two letters, an argument with three.
CONSTANTS
    WIDTH = 8
    LONG = 4
    MAX_NAME_SIZE = 3
    MAX_ARG_SIZE = 4
    FILE_NAME_SIZE = 3
    dir_entries <- MCEntries
    SIZE = 12
    Letters = {1, 2}
    LENGTH = 3
    CommandLength = 8
    Values = {0, 7, 10, 16, 127, 128, 255}
    Items = 2
SPECIFICATION Spec
INVARIANTS
    MemoryRoutines
    StringRoutines
    PrintfPrints
    CommandsObeyed
CHECK_DEADLOCK FALSE
