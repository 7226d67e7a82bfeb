SPECIFICATION Spec
CONSTANTS
    MaxKeys = 2
    MaxFaults = 1
    CrashPoints = {}
    Failures = {"response"}
INVARIANTS
    FailsSafely
