\* Two rotations and two restarts: a manifest chain of two records.
SPECIFICATION HFairSpec
CONSTANTS
    None = None
    u1 = u1  u2 = u2  s1 = s1
    b1 = b1  b2 = b2  b3 = b3
    c1 = c1  c2 = c2
    Updates = {u1, u2}
    Snapshots = {s1}
    Deps <- MCDeps
    SnapshotOps <- MCSnapshotOps
    Connections = {c1}
    Batches = {b1, b2}
    Content <- NoSnapshotContent
    MaxGeneration = 2
    MaxBoots = 3
    MaxFrames = 1
    AmbiguousRetries = 1
    OperatorRetries = FALSE
    StreamLimit <- WideLimit
    BadWindows = FALSE
    Orphans = FALSE
    StaleReads = FALSE
CHECK_DEADLOCK FALSE
INVARIANT AckedRecoverable
INVARIANT CheckpointCoversItsRange
INVARIANT DocumentSettled
PROPERTY AcksGoToActiveGeneration
PROPERTY HandlerReturns
PROPERTY ImplementsDurableRoom
