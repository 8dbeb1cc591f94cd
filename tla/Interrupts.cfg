\* Three terminals and two processes: a launch finds the process table full.
CONSTANTS
    NUM_TERM = 3
    MAX_PROCESSES = 2
    MAX_FRAMES = 6
    left_shift = left_shift
    right_shift = right_shift
    ctrl = ctrl
    alt = alt
    arrow = arrow
    ShiftKeys <- MCShiftKeys
    CtrlKeys <- MCCtrlKeys
    AltKeys <- MCAltKeys
    ExtendedKeys <- MCExtendedKeys
SPECIFICATION Spec
INVARIANTS
    TypeOK
    LinesHeard
    InterruptsReachHandlers
    MaskedByHandler
    NoModifierStuck
    CharactersFollowKeys
