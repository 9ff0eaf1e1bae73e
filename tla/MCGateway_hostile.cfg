\* Orphaned requests, stale reads, operator retries: what still holds.
SPECIFICATION Spec
CONSTANTS
    None = None
    u1 = u1  u2 = u2  s1 = s1
    b1 = b1  b2 = b2  b3 = b3
    c1 = c1  c2 = c2
    Updates = {u1, u2}
    Snapshots = {s1}
    Deps <- MCDeps
    SnapshotOps <- MCSnapshotOps
    Connections = {c1}
    Batches = {b1, b3}
    Content <- SnapshotContent
    MaxGeneration = 1
    MaxBoots = 2
    MaxFrames = 1
    AmbiguousRetries = 1
    OperatorRetries = TRUE
    StreamLimit <- WideLimit
    BadWindows = TRUE
    Orphans = TRUE
    StaleReads = TRUE
CHECK_DEADLOCK FALSE
INVARIANT TypeOK
INVARIANT AckedInLog
INVARIANT NextGenerationUntouched
INVARIANT ManifestNamesStoredCheckpoint
INVARIANT SequenceTracksStore
