CONSTANTS
    Openers = {o1, o2}
    None = None
SPECIFICATION FairSpec
INVARIANTS
    TypeOK
    ClaimReturned
    ChipOwned
    ReadyIsPowered
    CloseIsPowerDown
    DriverRestored
PROPERTY OpenEnds
