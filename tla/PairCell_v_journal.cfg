SPECIFICATION Spec
CONSTANTS
    MaxAttempts = 1
    MaxInbox = 5
    MaxUpsets = 2
    UpsetKinds = {"close", "timeout", "write", "read", "market", "refusal", "evidence", "relay", "crash"}
    Fills = {}
INVARIANTS
    JournalSettled
