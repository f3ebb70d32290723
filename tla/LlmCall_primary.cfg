SPECIFICATION FairSpec
CONSTANTS
    Questions = {q1, q2}
    Thresholds = {2}
    Timeouts = {1, 2}
    MaxWait = 2
    Settings <- MCSettings
    Beats <- MCBeats
INVARIANTS FallbackTakesOver
PROPERTIES NoLiveProbeUnpolled Recovers
