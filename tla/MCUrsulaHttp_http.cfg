\* Appends, reads in windows and stream creation over a cluster of nodes.
SPECIFICATION FairSpec
CONSTANTS
    None = None
    n1 = n1  n2 = n2  n3 = n3  n4 = n4
    b1 = b1  b2 = b2
    MaxGeneration = 0
    MaxBoots = 2
    Orphans = FALSE
    StaleReads = FALSE
    Appends <- MCAppends
    MaxRecords = 3
    RecordBytes = 2
    Nodes = {n1, n2, n3, n4}
    Base = n1
    Allowed = {n1, n2, n3}
    MaxRedirects = 1
    SafeRetries = 2
    ReadChunkBytes = 3
    MaxStreamBytes = 4
INVARIANT TypeOK
PROPERTY ImplementsStore
PROPERTY CallsReturn
PROPERTY IntegrityIsJustified
