SPECIFICATION Spec
CONSTANTS
    Profiles <- OneSetting
    NoRecord = NoRecord
    MaxFaults = 1
    MaxEdits = 0
    MaxMoves = 1
    MaxUpsets = 2
INVARIANT OriginalAlwaysKept
