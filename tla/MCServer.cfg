SPECIFICATION Spec
CONSTANT None = None
INVARIANTS TypeOK TalkInBounds AgentsSeeTheirComputer RemoteFilesAgree SignInsHold  HubIsFollowed
PROPERTY UpdatesKeepTheRest
CHECK_DEADLOCK FALSE
