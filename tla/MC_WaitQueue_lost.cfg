CONSTANTS
    Task = {t1, t2, t3}
    NULL = NULL
SPECIFICATION FairSpec
PROPERTY SleepersWoken
CHECK_DEADLOCK FALSE
