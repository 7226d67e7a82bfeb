SPECIFICATION Spec
CONSTANTS
    MaxAttempts = 2
    MaxInbox = 2
    MaxUpsets = 2
    UpsetKinds = {"crash", "write", "market"}
    Fills = {}
INVARIANTS
    NoAbandonedExposure
    OneAttemptAtATime
