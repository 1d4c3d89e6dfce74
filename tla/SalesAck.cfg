CONSTANTS
    Words = {w1}
    Asked = 2
    RateWindow = 0
    RateMax = 2
    TimesKept = 2
    StreakMax = 2
    MissMax = 2
    BurstCap = 1
    MaxTime = 1
    MaxMessages = 4
SPECIFICATION GuardsSpec
CHECK_DEADLOCK FALSE
PROPERTIES AckKeepsQualification
