\* Stored streams, whole, torn and damaged; received messages up to 23 bytes.
SPECIFICATION Spec
CHECK_DEADLOCK FALSE
CONSTANTS
    FrameLimits <- MCFrameLimits
    CheckpointLimits <- MCCheckpointLimits
    ManifestLimits <- MCManifestLimits
    Frames <- MCFrames
    Checkpoints <- MCCheckpoints
    Manifests <- MCManifests
    MaxWritten = 3
    Wrong = {0, 1, 2, 3, 12, 14, 15, 40}
    GroupBits = 2
    WordBits = 5
    MaxSize = 23
    MaxMessageBytes = 22
    MaxRoomIdBytes = 2
    MaxUpdates = 3
    MaxUpdateBytes = 3
    MaxUpdatesBytes = 4
INVARIANT AcceptedIsWhatWasWritten
INVARIANT WrittenIsReadable
INVARIANT NumbersAreExact
INVARIANT AcceptedIsWithinLimits
PROPERTY WalkGoesForward
