SPECIFICATION Spec
CONSTANTS
    Spellings <- MCSpellings
    Canon <- MCCanon
    Blank <- MCBlank
    NoToken = NoToken
    Procs = {p1, p2}
    Tokens = {t1}
    Outsiders = {"user", "newer tool"}
INVARIANTS TypeOK StoreNeverTorn
PROPERTY IsSnapshotStore
