\* Ordinary requests of one program against the handler.
CONSTANTS
    MaxDepth = 1
    Slots = {2}
    Requests <- MCPlainRequests
    Garbage <- MCGarbage
SPECIFICATION Spec
PROPERTY NewFrequencySet
