CONSTANTS
    Task = {t1, t2, t3}
    NULL = NULL
SPECIFICATION FairSpec
INVARIANTS TypeOK OneOwner HeadAwake NoLostSleeper
PROPERTIES OnlySleepersWoken WaitersLeave
\* Every task may have exited, or sleep for ever (run waitqueue_lost).
CHECK_DEADLOCK FALSE
