SPECIFICATION Spec
CONSTANTS
    p1 = p1
    p2 = p2
    f1 = f1
    f2 = f2
    d1 = d1
    d2 = d2
    b1 = b1
    b2 = b2
    r1 = r1
    r2 = r2
    c1 = c1
    c2 = c2
    Fingerprint = {f1, f2}
    Doc = {d1, d2}
    Bundle = {b1}
    Holder = {p1, p2}
    DocOf <- TwoDocOf
    EvidenceOf <- TwoEvidence
    NotAfter <- TwoNotAfter
    Event <- AnyEvent
    Receipt = {r1}
    Chat = {}
    SessionTtl = 1
    ReceiptTtl = 1
    ReverifyAttempts = 1
    MaxTime = 2
SYMMETRY Symmetry
INVARIANTS
    CitedSessionRetained
    NoLeaseLeak
    CitesValidSession
