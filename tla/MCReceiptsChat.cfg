SPECIFICATION Spec
CONSTANTS
    p1 = p1
    p2 = p2
    f1 = f1
    f2 = f2
    d1 = d1
    d2 = d2
    b1 = b1
    b2 = b2
    r1 = r1
    r2 = r2
    c1 = c1
    c2 = c2
    Fingerprint = {f1}
    Doc = {d1}
    Bundle = {b1}
    Holder = {p1, p2}
    DocOf <- OneDocOf
    EvidenceOf <- OneEvidence
    NotAfter <- OneNotAfter
    Event <- NoneEvent
    Receipt = {r1, r2}
    Chat = {c1, c2}
    SessionTtl = 1
    ReceiptTtl = 2
    ReverifyAttempts = 0
    MaxTime = 3
SYMMETRY Symmetry
INVARIANTS
    ReceiptIndexesAgree
PROPERTIES
    NoEarlyExpiry
    ChatMappingSurvives
