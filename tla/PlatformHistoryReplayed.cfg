CONSTANTS
    None = None
    Keep = Keep
    auth = auth
    kelasi = kelasi
    Modes <- ReplayModes
    Projections <- MCProjections
    Slots <- MCSlots
    Burst = 2
    Polls = 2
    Services = {auth}
    LateAfter = 0
    GoneAfter = 1
    MaxKept = 2
    MaxHistory = 2
    MaxSamples = 3
    MaxRecent = 2
    Buckets = 2
    LastHour = 3
    MaxEvents = 3
    MaxErrors = 1
    Figures = {1, 2}
SPECIFICATION Spec
CHECK_DEADLOCK FALSE
INVARIANT OneHistoryIsNotReplayed
