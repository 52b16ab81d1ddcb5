SPECIFICATION FairSpec
CONSTANT None = None
PROPERTIES WorkEnds NewsArrives
CHECK_DEADLOCK FALSE
