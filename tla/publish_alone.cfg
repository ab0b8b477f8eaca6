SPECIFICATION FairSpec
CONSTANTS
    Publishers = {p1, p2}
    Owners = {p1}
    Manual = {}
    Bearerless = {}
    Signers = {p1}
    Attesters = {p1}
    Checkers = {p1}
    SignatureRequired = TRUE
    LateHub = FALSE
    MaxAttempts = 3
INVARIANTS TypeOK SuccessMeansIndexed IndexedTagNeverMoves
PROPERTIES IsPublication EventuallyIndexed
CHECK_DEADLOCK FALSE
