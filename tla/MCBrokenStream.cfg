SPECIFICATION Spec
CONSTANTS
    Modes <- AllModes
    MaxChunks = 2
INVARIANT BrokenStreamSigned
CHECK_DEADLOCK FALSE
