SPECIFICATION FairSpec
CONSTANTS
    None = None
    Session = {s1}
    Caller = {c1, c2}
    ChanCap = 1
    PipeCap = 1
    Chore = {"reap", "sweep"}
    MaxGen = 2
    MaxMsg = 2
    MaxApproval = 0
    MaxAnswer = 0
    MaxRestart = 1
PROPERTIES
    ResumeKeepsConversation
    CallsReturn
CHECK_DEADLOCK FALSE
