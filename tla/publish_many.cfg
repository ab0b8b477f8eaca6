SPECIFICATION Spec
CONSTANTS
    Publishers = {p1, p2, p3}
    Owners = {p1}
    Manual = {p2}
    Bearerless = {p2}
    Signers = {p1}
    Attesters = {p1}
    Checkers = {}
    SignatureRequired = FALSE
    LateHub = TRUE
    MaxAttempts = 2
INVARIANTS NoBytesWithoutGrant SuccessMeansAttached
CHECK_DEADLOCK FALSE
