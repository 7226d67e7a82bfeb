SPECIFICATION FairSpec
CONSTANTS
    MaxKeys = 3
    MaxFaults = 3
    CrashPoints = {"opening", "session", "recovered", "retiredAgain", "clean", "cleaned", "created", "challenged", "requested", "answered", "journaled", "switched", "retired", "failed", "rotated"}
    Failures = {"session", "terminal", "create", "challenge", "response", "journal", "save", "resave", "retire", "unlink", "delete", "clean", "restart"}
INVARIANTS
    TypeOK
    IdentityKeyHeld
    SupersededKeysTracked
    ReconnectsUnlessStruck
    JournalMatchesIdentity
PROPERTIES
    SupersededProcessEnds
    CertificateReplaced
    RetiredKeysDeleted
