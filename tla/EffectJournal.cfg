SPECIFICATION Spec
CONSTANTS
    Effects = {e1, e2}
    Payloads = {p1, p2}
    MaxCalls = 2
INVARIANTS
    TypeOK
    SentAtMostOnce
    PreparedMeansUnsent
    ReceiptMeansSent
PROPERTIES
    EvidenceIsFinal
    ImplementsLifecycle
