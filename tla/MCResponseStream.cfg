SPECIFICATION Spec
CONSTANTS
    Modes <- AllModes
    MaxChunks = 7
INVARIANTS
    RelayedExactly
    MeterAgrees
    TruncationVisible
    ChatEndsTold
    EveryEndMetered
PROPERTY TailAtBoundary
CHECK_DEADLOCK FALSE
