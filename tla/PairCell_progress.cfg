SPECIFICATION FairSpec
CONSTANTS
    MaxAttempts = 1
    MaxInbox = 2
    MaxUpsets = 2
    UpsetKinds = {"close", "relay", "timeout"}
    Fills = {}
PROPERTIES
    ContainmentCompletes
