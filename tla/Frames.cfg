SPECIFICATION FairSpec
CONSTANTS
    Streams <- MCStreams
    ChunkSize = 5
    v1 = v1
    v2 = v2
    Client = {v1, v2}
CHECK_DEADLOCK FALSE
INVARIANTS
    TypeOK
    FramesAreWhole
    OnlyCutFramesAreLost
    LatestIsAnnounced
    OnlyARaceStalls
PROPERTY
    FrameIsShown
