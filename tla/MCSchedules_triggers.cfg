SPECIFICATION Spec
CONSTANTS
    None = None
    Sched = {s1, s2}
    Session = {x1}
    Exec = {e1}
    Kind <- AllKinds
    Target <- Mixed
    CatchUp = {s1}
    Grace = 0
    MaxMissedRows = 3
    Outcome = {"completed"}
    Api = {"pause", "delete"}
    MaxTime = 3
    MaxRuns = 3
    MaxApi = 1
    MaxUser = 0
    MaxRestart = 0
INVARIANTS
    TypeOK
    TriggersAccounted
    TriggersFireOnce
CHECK_DEADLOCK FALSE
