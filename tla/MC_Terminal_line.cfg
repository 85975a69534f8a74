CONSTANTS
    t1 = t1
    t2 = t2
    Task = {t1, t2}
    Char = {a}
    NL = NL
    BS = BS
    NUL = NUL
    NULL = NULL
    TTY_BUF_SIZE = 4
    MaxNr = 2
    Reads <- TwoReads
    Signalled = {t1}
    MaxNest = 2
SPECIFICATION FairSpec
CONSTRAINT Unspoiled
VIEW Relevant
INVARIANT LineAnnounced
PROPERTIES ImplementsLineInput LoneReaderServed
