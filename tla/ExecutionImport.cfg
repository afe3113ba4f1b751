CONSTANTS
    Tickets = {1, 2, 3, 4, 5, 6}
    ReleaseIds = {"r1", "r2"}
    Versions = {"1.0", "2.0"}
    None = none
    Keep = keep
    Handlers = {h1, h2}
    Keys <- MCKeys
    References = {"A", "B"}
    VersionNos = {1, 2}
    Projects = {"pA", "pB"}
    E1 = E1
    E2 = E2
    D06 = D06
    D99 = D99
    C1 = C1
    Registered = {D06}
    ManifestIds = {1, 2, 3, 4, 5, 6, 7, 8}
    Documents <- MCDocuments
    Modes <- MCModes
SPECIFICATION RSpec
INVARIANTS SectionsAreRead
PROPERTIES ImportAccounts DecisionsStand CascadeMovesFollowers
CHECK_DEADLOCK FALSE
SYMMETRY Alike
