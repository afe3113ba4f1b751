CONSTANTS
    t1 = t1
    t2 = t2
    t3 = t3
    s1 = s1
    s2 = s2
    pA = pA
    pB = pB
    h1 = h1
    h2 = h2
    Tickets = {t1, t2, t3}
    Sprints = {s1, s2}
    Projects = {pA, pB}
    None = none
    Keep = keep
    Handlers = {h1, h2}
    Modes <- MCModes
    PartIds = {1, 2, 3}
    MaxAttachments = 1
SPECIFICATION FairSpec
INVARIANTS SprintBelongsToProject NoTicketWaitsForItself PartsStand
PROPERTIES WalkEnds
CHECK_DEADLOCK FALSE
