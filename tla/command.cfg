SPECIFICATION CommandSpec
CONSTANTS
    Callers = {c1}
    Main = c1
    Hubs = {h1, h2}
    MaxVersion = 1
INVARIANTS CommandTypeOK OneDocumentPerHub EveryDocumentHasRegistry
INVARIANTS NothingAstray NothingPersonalInCI
