CONSTANTS
    Sessions = {s1, s2}
    Kinds = {"async", "tokio"}
    Depth = 1
    ZeroLimit = 2
    MaxChunks = 3
SPECIFICATION FairSpec
PROPERTIES
    DroppedStreamFrees
    CancelReturns
    UnplugEndsStreams
