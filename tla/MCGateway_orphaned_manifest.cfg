\* A manifest append of a dead process lands after the restart.
SPECIFICATION Spec
CONSTANTS
    None = None
    u1 = u1  u2 = u2  s1 = s1
    b1 = b1  b2 = b2  b3 = b3
    c1 = c1  c2 = c2
    Updates = {u1, u2}
    Snapshots = {s1}
    Deps <- MCDeps
    SnapshotOps <- MCSnapshotOps
    Connections = {c1}
    Batches = {b1, b2}
    Content <- NoSnapshotContent
    MaxGeneration = 1
    MaxBoots = 2
    MaxFrames = 1
    AmbiguousRetries = 0
    OperatorRetries = FALSE
    StreamLimit <- WideLimit
    BadWindows = FALSE
    Orphans = TRUE
    StaleReads = FALSE
CHECK_DEADLOCK FALSE
PROPERTY AcksGoToActiveGeneration
