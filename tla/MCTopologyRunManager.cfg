SPECIFICATION Spec
CONSTANTS
    r1 = r1
    r2 = r2
    h1 = h1
    h2 = h2
    Runs <- TwoRuns
    Hosts = {h1}
    OvsHosts = {h1}
    MaxFailures = 1
INVARIANTS
    ManagerCleared
