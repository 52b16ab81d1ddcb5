SPECIFICATION FairSpec
CONSTANTS
    None = None
    Session = {a, b}
    Target = {a, b}
    MaxAge = 0
    Sender = {k1}
    Flusher = {f1}
    PerSession = 5
    PerPair = 5
    PushCap = 1
    Faults = {}
    MaxMsg = 1
    MaxUser = 1
    MaxMention = 1
    MaxNotice = 0
    MaxToggle = 0
    MaxFault = 1
    MaxRestart = 1
PROPERTIES
    QueuedIsDelivered
CHECK_DEADLOCK FALSE
