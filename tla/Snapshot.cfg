SPECIFICATION Spec
CONSTANTS
    Limits <- MCLimits
    Chunks = {1, 2, 3}
    MaxSize = 9
CHECK_DEADLOCK FALSE
INVARIANTS
    SnapshotIsBounded
    QuietSnapshotIsExact
PROPERTY KeepsPromise
