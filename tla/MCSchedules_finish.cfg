SPECIFICATION FairSpec
CONSTANTS
    None = None
    Sched = {s1, s2}
    Session = {x1}
    Exec = {e1, e2}
    Kind <- OnceKind
    Target <- Continue
    CatchUp = {}
    Grace = 1
    MaxMissedRows = 3
    Outcome = {"completed", "interrupted"}
    Api = {"update", "resume", "run_now"}
    MaxTime = 0
    MaxRuns = 2
    MaxApi = 1
    MaxUser = 1
    MaxRestart = 1
PROPERTIES
    EndsByFirstTurnEnd
    RunsFinish
CHECK_DEADLOCK FALSE
