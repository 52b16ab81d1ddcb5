SPECIFICATION Spec
CONSTANTS None = None Gone = Gone Any = Any
INVARIANTS TypeOK NoneLeftWaiting TurnsEndOnce ShownAsSaid BytesWhole TerminalsAgree DevicesAdmitted
PROPERTY FilesChangeAsChecked
CHECK_DEADLOCK FALSE
