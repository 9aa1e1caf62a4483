CONSTANTS
    p1 = p1
    p2 = p2
    s1 = s1
    s2 = s2
    r1 = r1
    m1 = m1
    None = None
    Projects = {p1, p2}
    Sessions = {s1, s2}
    InitSessions = {s1}
    Topics = {1}
    Ids = {1, 2, 3}
    Relevance <- MCRelevance
    Stability <- MCStability
    Similar <- MCSimilar
    Sections <- MCSections
    MinSections = 2
    MaxMembers = 2
    Limit = 1
    InitDocs <- MCInitDocs
    Others <- MCOthers
    Filters <- MCFilters
    MaxClock = 4
    MaxPending = 1
    Readers = {r1}
    Mutators = {m1}
    Calls <- Actions
    Hosts = {p1}
    Default = p1
    Requested = {None, p1}
SPECIFICATION Spec
INVARIANTS TypeOK CallsStayInside ReadsSeeAccepted AnswersAddUp PageShowsSelection
