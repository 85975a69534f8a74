CONSTANTS
    NR_TASKS = 4
    LOW_MEM = 1
    HIGH_MEMORY = 9
    Segment = 2
    Image = 1
    Value = {0, 1}
    Zero = 0
    Code = 1
    NULL = NULL
SPECIFICATION QuietSpec
INVARIANTS TypeOK CountsRight WritableIsPrivate
PROPERTY ImplementsPrivateMemory
\* The kernel may run out of memory, and panic() stops it.
CHECK_DEADLOCK FALSE
