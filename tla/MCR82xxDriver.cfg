CONSTANTS
    Chips = {"R820T", "R828D", "BlogV4"}
    FaultyChips = {"R820T"}
    Freqs <- MCFreqs
    Bandwidths = {2400000}
    Gains <- MCGains
    FineTunes = {1}
    CalCodes = {0}
    MaxFaults <- MCMaxFaults
SPECIFICATION Spec
INVARIANTS
    TypeOK
    ShadowIsChip
    AntennaFollowsFreq
    SynthesisesLo
    TracksLo
    SettingsAsAsked
