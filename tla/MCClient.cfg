SPECIFICATION Spec
CONSTANTS None = None
INVARIANTS TypeOK ClientIsComplete AppKeepsWhatIsTyped EditorAgrees EditorCallsMeet TabsMoveWhole
PROPERTY AnswersFitVersions
CHECK_DEADLOCK FALSE
