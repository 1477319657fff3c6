CONSTANTS
    Chips = {"R820T"}
    Freqs = {7000000, 100000000, 200000000}
    Rates = {1200000, 2400000}
    Bandwidths = {0, 350000}
    Gains = {87}
    Ppms = {0, 5}
    Xtals <- MCXtals
    MaxFaults <- MCFaults
SPECIFICATION Spec
INVARIANT DirectReceivesCenterFreq
