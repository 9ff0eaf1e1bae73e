\* Two rooms, two batch ids, every kind of message, every limit within reach.
SPECIFICATION FairSpec
CONSTANTS
    pa = pa  pb = pb  pe = pe
    r1 = r1  r2 = r2
    x = x  y = y
    Rooms = {r1, r2}
    BatchIds = {x, y}
    Pieces = {pa, pb, pe}
    Size <- MCSize
    Counts = {0, 1, 2, 3}
    Totals = {0, 1, 2, 3}
    MaxFragmentBatches = 2
    MaxFragmentsPerBatch = 2
    MaxReassembledBytes = 2
    MaxFragmentBytesPerConnection = 3
    FragmentTimeout = 1
CHECK_DEADLOCK FALSE
INVARIANT TypeOK
INVARIANT BuffersBounded
INVARIANT HandedIsWhatWasSent
INVARIANT OpenOnlyInJoinedRooms
PROPERTY DroppedIsAnswered
PROPERTY OpenBatchesEnd
