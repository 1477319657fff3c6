CONSTANTS
    Chips = {"R820T", "R828D"}
    Freqs = {100000000}
    Rates = {299990, 900000}
    Bandwidths = {350000}
    Gains = {87}
    Ppms = {5}
    Xtals <- MCXtals
    MaxFaults <- MCFaults
SPECIFICATION Spec
INVARIANTS
    TypeOK
    ReceivesCenterFreq
    ModeAsReported
    RateAsReported
    GainAsReported
    DriverXtalTracks
    RepeaterClosed
PROPERTY RejectedIsNoOp
