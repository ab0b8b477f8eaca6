SPECIFICATION Spec
CONSTANTS
    Publishers = {p1}
    Owners = {p1}
    Manual = {}
    Bearerless = {}
    Signers = {p1}
    Attesters = {p1}
    Checkers = {p1}
    SignatureRequired = TRUE
    LateHub = TRUE
    MaxAttempts = 2
INVARIANT IndexedTagNeverMoves
CHECK_DEADLOCK FALSE
