SPECIFICATION Spec
CONSTANTS
    h1 = h1
    h2 = h2
    itf = itf
    vf0 = vf0
    vf1 = vf1
    vf2 = vf2
    p1 = p1
    p2 = p2
    p3 = p3
    i1 = i1
    i2 = i2
    Importers = {i1, i2}
    Reports <- TwoReports
    OldReport <- Before
    MaxTouches = 1
    MaxDeletes = 1
    MaxFailures = 1
    Exceptions = {"message", "bare"}
INVARIANTS
    ImportAccounted
    FailuresJustified
    LastImportWins
    CompareQuiet
PROPERTIES
    NeverOlder
    KeepsStore
    EveryImportEnds
