CONSTANTS
    Signal = {1, 2, 9}
    SIGKILL = 9
    Requests <- MCRequests
    MaxStack = 16
SPECIFICATION FairSpec
INVARIANTS ContextKept NeverTwice
PROPERTIES ProgramGoesOn
