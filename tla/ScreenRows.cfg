\* One program printing while keys are pressed, on a screen of two rows.
CONSTANTS
    NUM_ROWS = 2
    NUM_COLS = 3
    NUM_TERM = 1
    MAX_PROCESSES = 1
    KEYBOARD_NUM_KEYS = 2
    MaxRow = 2
    MaxColumn = 4
SPECIFICATION Spec
INVARIANT CursorOnScreen
