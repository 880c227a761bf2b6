SPECIFICATION Spec
CONSTANTS
    r1 = r1
    r2 = r2
    Chain <- TwinChain
    NoRoute = NoRoute
    Answer = {"ok", "unpaid", "busy_fault", "fault", "image_input"}
    MaxRenewals = 1
INVARIANTS
    OneOutcome
    AttemptsAccounted
    OnlyCapacityReplayed
    HeaderKeysetCited
    LateFailureAttributed
    AnswerRelayed
    CapacityRetried
CHECK_DEADLOCK FALSE
