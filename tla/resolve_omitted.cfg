SPECIFICATION Spec
CONSTANTS
    Procs = {p1}
    Issuers = {i1}
    Policies = {"omit"}
    Moves = {}
    MaxTokens = 3
PROPERTY LoginOnlyWhenNeeded
CHECK_DEADLOCK FALSE
