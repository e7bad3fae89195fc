SPECIFICATION Spec
CONSTANTS
    r1 = r1
    r2 = r2
    h1 = h1
    h2 = h2
    Runs <- TwoRuns
    Hosts = {h1, h2}
    OvsHosts = {h1}
    MaxFailures = 2
INVARIANTS
    TypeOK
    ReportExact
    SurvivorsClean
    ReportKept
PROPERTIES
    EveryRunEnds
