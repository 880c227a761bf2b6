SPECIFICATION FairSpec
CONSTANTS
    Config <- SmallConfigs
    Upstream = {"a", "b"}
    Puller = Puller
    Free = Free
    Admin = {admin}
    Request = {p}
    Concurrency = 1
    ReverifyAttempts = 1
    MaxChanges = 1
    MaxFaults = 1
INVARIANTS
    RestartKeepsConfig
    VerifiedChannelKept
PROPERTY RefreshesGoOn
