\* A screen of three rows of two columns, two terminals, two processes, lines of three characters.
CONSTANTS
    NUM_ROWS = 3
    NUM_COLS = 2
    NUM_TERM = 2
    MAX_PROCESSES = 2
    KEYBOARD_NUM_KEYS = 3
    MaxRow = 3
    MaxColumn = 3
SPECIFICATION Spec
INVARIANTS
    TypeOK
    
