SPECIFICATION Spec
CONSTANTS
    Kinds = {"audio", "key", "p"}
    BDrop = 1
    PDrop = 2
    Allowed = {"disconnect", "stop", "force"}
    MaxPackets = 5
    MaxSessions = 2
    Nobody = nobody
INVARIANTS PostsCoverQueue InOrder OnlyThisSession
 
CHECK_DEADLOCK FALSE
