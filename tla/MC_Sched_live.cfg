CONSTANTS
    NR_TASKS = 3
    Page = {p1, p2}
    NULL = NULL
    Priority = 1
    HZ = 1
    MaxPid = 2
    MaxJiffies = 2
    AlarmSeconds = {1}
    KillSignals = {14}
    Masks = {{14, 17}}
    DeviceSleeps = {}
    InitExits = FALSE
SPECIFICATION FairSpec
INVARIANT CounterBound
PROPERTIES NoStarvation SignalEndsSleep AlarmEndsSleep WaitFindsChild
