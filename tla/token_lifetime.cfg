SPECIFICATION Spec
CONSTANTS
    RenewalWindow = 6
    Grace = 3
    HttpTimeout = 1
    ExpiresIn = {0, 2, 9, 10, 15}
    MaxTime = 26
INVARIANTS TypeOK UsableTokenHasMargin
PROPERTY RefreshesAreSpaced
CHECK_DEADLOCK FALSE
