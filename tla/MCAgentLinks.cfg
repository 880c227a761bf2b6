SPECIFICATION FairSpec
CONSTANTS
    Profiles <- AgentProfiles
    NoRecord = NoRecord
    MaxFaults = 2
    MaxEdits = 1
    MaxMoves = 1
    MaxUpsets = 3
INVARIANTS
    OriginalKept
    EndedStaysEnded
    AuthorizedIsWhole
PROPERTY CleanupEnds
