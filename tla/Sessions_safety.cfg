SPECIFICATION Spec
CONSTANTS
    None = None
    Session = {s1}
    Caller = {c1, c2}
    ChanCap = 1
    PipeCap = 1
    Chore = {"end"}
    MaxGen = 2
    MaxMsg = 2
    MaxApproval = 1
    MaxAnswer = 1
    MaxRestart = 0
SYMMETRY CallerSymmetry
INVARIANTS
    TypeOK
    NoOrphanRun
    EndsFollowMessages
    PendingIsShown
CHECK_DEADLOCK FALSE
