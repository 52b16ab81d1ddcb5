SPECIFICATION Spec
CONSTANTS
    None = None
    Session = {s1}
    Caller = {c1, c2}
    ChanCap = 2
    PipeCap = 1
    Chore = {"reap"}
    MaxGen = 2
    MaxMsg = 2
    MaxApproval = 0
    MaxAnswer = 0
    MaxRestart = 0
PROPERTIES
    ReapSparesActiveTurns
CHECK_DEADLOCK FALSE
