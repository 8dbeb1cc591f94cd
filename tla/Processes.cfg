\* The process stack: safety, refinement and delivery of answers.
CONSTANTS
    MAX_PROCESSES = 3
    NUM_TERM = 3
    Shell = Shell
    Cat = Cat
    Programs <- MCPrograms
    Statuses <- MCStatuses
SPECIFICATION FairSpec
INVARIANTS
    TypeOK
    TableIsStack
    OneCurrentProcess
    ParentIsCaller
    FramesInOrder
PROPERTIES
    SuspendedUntouched
    ImplementsProcessStack
    BackToPrograms
