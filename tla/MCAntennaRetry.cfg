CONSTANTS
    Chips = {"R828D"}
    FaultyChips = {"R828D"}
    Freqs <- MCFreqs
    Bandwidths = {2400000}
    Gains <- MCGains
    FineTunes = {1}
    CalCodes = {0}
    MaxFaults <- MCMaxFaults
SPECIFICATION Spec
INVARIANT SwitchesAt345
