CONSTANTS
    Sessions = {s1, s2}
    Kinds = {"read_sync", "iter_samples", "async", "tokio", "smol"}
    Depth = 2
    ZeroLimit = 2
    MaxChunks = 4
SYMMETRY Symmetric
SPECIFICATION Spec
INVARIANTS
    TypeOK
    OneTransfer
    SamplesContiguous
    ErrorIsLast
    EndMeansReleased
    IdleMeansFree
    DeviceLostRecorded
PROPERTY ImplementsSingleReader
