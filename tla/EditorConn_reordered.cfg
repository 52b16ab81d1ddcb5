SPECIFICATION FairSpec
CONSTANTS
    Sender = {"a", "b"}
    MaxSend = 4
    MaxPeer = 0
    MaxLoss = 0
    MaxPause = 0
PROPERTIES
    SentArrives
CHECK_DEADLOCK FALSE
