SPECIFICATION Spec
CONSTANTS
    Spellings <- MCManySpellings
    Canon <- MCCanon
    Blank <- MCBlank
    NoToken = NoToken
    Procs = {p1}
    Tokens = {t1, t2}
    Outsiders = {"user"}
INVARIANT AnySpellingFindsLogin
PROPERTIES IsCredentialMap UnreadableNeverReplaced
