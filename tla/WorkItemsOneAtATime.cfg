CONSTANTS
    Clients = {c1}
    Closer = closer
    MaxInFlight = 1
    MaxItems = 3
    Window = 2
    Projects = {pA}
    NoProject = noProject
    Keep = keep
    Workloads <- OneAtATime
SPECIFICATION Spec
INVARIANTS CyclesAndOnlyCyclesRefused
PROPERTIES ClosedRowsFrozen MoveLeavesDenseColumns
