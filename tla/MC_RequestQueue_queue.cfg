CONSTANTS
    Task = {t1, t2, t3}
    Block = {1, 2, 3}
    NR_REQUEST = 3
    MAX_ERRORS = 2
    nr_sects = 6
    Changed = {1}
    NULL = NULL
SPECIFICATION Spec
INVARIANTS LocksAccounted QueueMatchesTable TwoSweeps
SYMMETRY TaskSymmetry
