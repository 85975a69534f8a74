CONSTANTS
    Task = {t1, t2, t3}
    Block = {b1, b2, b3}
    Changed = {b1}
    NR_BUFFERS = 2
    Value = {0, 1}
    Zero = 0
    NULL = NULL
SPECIFICATION Spec
SYMMETRY Symmetry
INVARIANTS OneBufferPerBlock CountsAccounted HoldersHaveData
PROPERTY ImplementsBlockStore
