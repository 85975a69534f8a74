CONSTANTS
    Task = {t1, t2}
    first = t1
    Num = {1, 2, 3}
    ROOT_INO = 1
    Value = {0, 1}
    Zero = 0
    Changed = {2}
    NR_INODE = 3
    NR_OPEN = 2
    NR_FILE = 2
    NULL = NULL
SPECIFICATION FairSpec
CONSTRAINT StillSane
INVARIANTS OneInodePerNumber FreeInodesClean FileCountsRight InodeCountsRight
PROPERTIES ImplementsFileStore LocksUndone
CHECK_DEADLOCK FALSE
