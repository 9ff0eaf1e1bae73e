\* One rotation, one restart at any point, two peers, a full snapshot.
SPECIFICATION Spec
CONSTANTS
    None = None
    u1 = u1  u2 = u2  s1 = s1
    b1 = b1  b2 = b2  b3 = b3
    c1 = c1  c2 = c2
    Updates = {u1, u2}
    Snapshots = {s1}
    Deps <- IndependentDeps
    SnapshotOps <- MCSnapshotOps
    Connections = {c1, c2}
    Batches = {b1, b2, b3}
    Content <- MCContent
    MaxGeneration = 1
    MaxBoots = 2
    MaxFrames = 2
    AmbiguousRetries = 1
    OperatorRetries = FALSE
    StreamLimit <- NarrowLimit
    BadWindows = FALSE
    Orphans = FALSE
    StaleReads = FALSE
SYMMETRY ConnectionSymmetry
CHECK_DEADLOCK FALSE
INVARIANT OnlyDurableIsShared
INVARIANT SequenceTracksStore
INVARIANT JoinedPeersConverge
PROPERTY CorruptHasCause
