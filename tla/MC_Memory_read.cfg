CONSTANTS
    NR_TASKS = 3
    LOW_MEM = 1
    HIGH_MEMORY = 8
    Segment = 2
    Image = 1
    Value = {0, 1}
    Zero = 0
    Code = 1
    NULL = NULL
SPECIFICATION Spec
PROPERTY SharedPagesKept
\* The kernel may run out of memory, and panic() stops it.
CHECK_DEADLOCK FALSE
