SPECIFICATION FairSpec
CONSTANTS
    p1 = p1
    p2 = p2
    f1 = f1
    f2 = f2
    d1 = d1
    b1 = b1
    b2 = b2
    Compactor = Compactor
    Free = Free
    Fingerprint = {f1}
    Doc = {d1}
    DocOf <- ReviewedDocOf
    Bundle = {b1, b2}
    Holder = {p1, p2}
    EvidenceOf <- ReviewedEvidence
    NotAfter <- ReviewedNotAfter
    SessionTtl = 1
    ReceiptTtl = 1
    MaxSeq = 3
    MaxLog = 2
    MaxTime = 1
    MaxCrashes = 1


INVARIANTS
    LogSelfContained
    LogCoversIndex
    ReplayKeepsNewest
    ReplayIsLoop
PROPERTIES
    WriterReleased
    ImplementsRegistry
