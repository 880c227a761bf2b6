SPECIFICATION Spec
CONSTANTS
    Profiles <- RoutedAgent
    NoRecord = NoRecord
    MaxFaults = 1
    MaxEdits = 0
    MaxMoves = 0
    MaxUpsets = 1
INVARIANT RevokedStaysEnded
