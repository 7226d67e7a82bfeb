SPECIFICATION Spec
CONSTANTS
    MaxAttempts = 2
    MaxInbox = 2
    MaxUpsets = 1
    UpsetKinds = {"write"}
    Fills = {"working"}
INVARIANTS
    ConfirmedMeansFilled
    ActiveLegsMatch
