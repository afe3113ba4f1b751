CONSTANTS
    None = None
    Handlers = {1, 2}
    Tickets = {1, 2, 3}
    Members = {"m1", "m2"}
    Unassigned = "unassigned"
    Priorities = {"P1", "P2"}
    Requests <- MCRequests
    Modes <- MCModes
    Sources = {"yekoli"}
    Sweeps = {1, 2}
    Period = 2
    Targets = {5, 10}
SPECIFICATION FairSpec
INVARIANTS AlertedOnce ClockTellsTheWait
PROPERTIES SettledStands RequestsBecomeTickets
CHECK_DEADLOCK FALSE
