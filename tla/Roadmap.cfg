CONSTANTS
    None = None
    Keep = Keep
    ann = ann
    ben = ben
    nola = nola
    kin = kin
    churn = churn
    Handlers <- MCHandlers
    Modes <- MCModes
    Objectives = {1, 2, 3}
    KeyResults = {1}
    Points = {1, 2}
    Metrics <- MCMetrics
    LastDay = 2
    Initiatives = {1, 2, 3}
    Milestones = {1, 2}
    bug = bug
    wish = wish
    Tickets <- MCTickets
    Units <- MCUnits
    Statuses <- MCStatuses
    MaxSeq = 2
    ObjectiveBodies <- MCObjectiveBodies
    ObjectivePatches <- MCObjectivePatches
    KeyResultBodies <- MCKeyResultBodies
    KeyResultPatches <- MCKeyResultPatches
    PointPatches <- MCPointPatches
    MetricValues <- MCMetricValues
    InitiativeBodies <- MCInitiativeBodies
    InitiativePatches <- MCInitiativePatches
    Bases <- MCBases
    TypedPrefixes <- MCTypedPrefixes
SPECIFICATION Spec
SYMMETRY MCSymmetry
CHECK_DEADLOCK FALSE
INVARIANT DownMirrorsUp
INVARIANT ReferencesReadable
PROPERTY DoneNeverLowers
