CONSTANTS
    NR_TASKS = 4
    Page = {p1, p2, p3, p4}
    NULL = NULL
    Priority = 1
    HZ = 1
    MaxPid = 4
    MaxJiffies = 0
    AlarmSeconds = {}
    KillSignals = {}
    Masks = {}
    DeviceSleeps = {"UNINTERRUPTIBLE"}
    InitExits = TRUE
SYMMETRY PageSymmetry
SPECIFICATION Spec
INVARIANTS TypeOK PidsUnique NoLostChild ZombieHasFather RunnerReady
PROPERTY ImplementsTaskLife
