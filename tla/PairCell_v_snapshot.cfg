SPECIFICATION Spec
CONSTANTS
    MaxAttempts = 1
    MaxInbox = 3
    MaxUpsets = 1
    UpsetKinds = {"close"}
    Fills = {"working"}
INVARIANTS
    NoAbandonedExposure
