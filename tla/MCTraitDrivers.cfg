CONSTANTS
    Models = {"FC0012", "FC0013", "E4000", "FC2580"}
    Freqs <- MCFreqs
    Bandwidths <- MCBandwidths
    Gains <- MCGains
    StageGains <- MCStageGains
    Xtals <- MCXtals
    MaxFaults = 1
SPECIFICATION Spec
INVARIANTS
    TypeOK
    TunesAsAsked
    SettingsAsAsked
