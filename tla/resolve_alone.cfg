SPECIFICATION Spec
CONSTANTS
    i1 = i1
    i2 = i2
    Procs = {p1}
    Issuers = {i1, i2}
    Policies = {"rotate", "reuse"}
    Moves <- MCMoves
    MaxTokens = 3
INVARIANTS TypeOK NamedSessionSurvives
PROPERTIES LoginOnlyWhenNeeded NoNeedlessRefresh
CHECK_DEADLOCK FALSE
