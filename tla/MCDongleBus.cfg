CONSTANTS
    Size = 3
    SerialAt = 1
    Dongles = {"a", "b"}
    Tuner <- MCTuner
    Roms <- MCRoms
    Serials <- MCSerials
    Images <- MCImages
    Pins = {5}
    MaxFaults <- MCFaults
    None = "none"
SPECIFICATION Spec
INVARIANTS
    TypeOK
    OpensAsAsked
    BoardAsAsked
