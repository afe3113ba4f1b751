CONSTANTS
    Clients = {c1, c2}
    Closer = closer
    MaxInFlight = 3
    MaxItems = 3
    Window = 2
    Projects = {pA}
    NoProject = noProject
    Keep = keep
    Workloads <- Overlapping
SPECIFICATION FairSpec
INVARIANTS DatesStamped ReferencesDistinct
PROPERTIES ResolvedEndsOneDay
