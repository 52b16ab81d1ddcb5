SPECIFICATION Spec
CONSTANTS
    None = None
    Session = {a, b}
    Target = {b}
    MaxAge = 1
    Sender = {k1, k2}
    Flusher = {f1, f2}
    PerSession = 5
    PerPair = 1
    PushCap = 2
    Faults = {"start", "mark", "end", "exit"}
    MaxMsg = 2
    MaxUser = 0
    MaxMention = 0
    MaxNotice = 0
    MaxToggle = 1
    MaxFault = 1
    MaxRestart = 1
SYMMETRY CallSymmetry
INVARIANT WithinLimits
PROPERTIES
    DeliversLikeAMailbox
    DeliversBetweenTurns
CHECK_DEADLOCK FALSE
