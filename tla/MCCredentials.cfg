SPECIFICATION CredentialsSpec
CONSTANTS
    OutLines <- SomeLines
    Key <- KeyOf
    Value <- ValueOf
    Callers <- SomeCallers
    Floats = {"2", "2.0", "3", "3.0"}
    Threes = {"3", "3.0"}
    Programs <- SomePrograms
    Codes = {0, 1}
    PipeCap = 8
INVARIANTS
    OutputComplete
    FailureNoticed
    RcWins
    ClientOfRc
PROPERTIES
    EndsIfItFits
CHECK_DEADLOCK FALSE
