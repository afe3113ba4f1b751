CONSTANTS
    None = None
    Keep = Keep
    t1 = t1
    t2 = t2
    h1 = h1
    h2 = h2
    front = front
    back = back
    other = other
    hq_ = hq_
    Tickets = {t1, t2}
    Described <- MCDescribed
    Handlers = {h1, h2}
    Modes <- MCModes
    Home = 1
    Prefixes = {"by type"}
    MaxEvents = 5
    RepoIds = {1, 2}
    RowIds = {1, 2, 3}
    Projects = {hq_}
    Figures = {"10", "01", "2"}
    MaxBranchLength = 9
    MaxSlugLength = 4
SPECIFICATION Spec
SYMMETRY HandlerSymmetry
INVARIANTS LinksMirrorGithub BranchesJoinTheirTicket
PROPERTIES EndedLinksStayEnded OneRepositoryOneRow
