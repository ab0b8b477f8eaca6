SPECIFICATION Spec
CONSTANTS
    Procs = {p1, p2}
    Issuers = {i1}
    Policies = {"rotate"}
    Moves = {}
    MaxTokens = 3
INVARIANT SessionSurvives
CHECK_DEADLOCK FALSE
