\* A connection, the queue, operators and late requests of dead processes, in a
\* room that never rotates.
SPECIFICATION RFairSpec
CONSTANTS
    None = None
    u1 = u1  u2 = u2  s1 = s1
    b1 = b1  b2 = b2  b3 = b3
    c1 = c1  c2 = c2
    Updates = {u1, u2}
    Snapshots = {s1}
    Deps <- MCDeps
    SnapshotOps <- MCSnapshotOps
    Connections = {c1}
    Batches = {b2, b3}
    Content <- DependentContent
    MaxGeneration = 0
    MaxBoots = 2
    MaxFrames = 2
    AmbiguousRetries = 0
    CommandCapacity = 2
    OperatorRetries = TRUE
    StreamLimit <- WideLimit
    BadWindows = FALSE
    Orphans = TRUE
    StaleReads = FALSE
CHECK_DEADLOCK FALSE
INVARIANT ReadyServesAcked
INVARIANT SequenceTracksStore
INVARIANT GonePeersAreForgotten
PROPERTY ClosedTaskEnds
PROPERTY QueueMoves
PROPERTY CorruptHasCause
