SPECIFICATION Spec
CONSTANTS
    Kinds = {"audio", "key", "i", "p", "b"}
    BDrop = 1
    PDrop = 2
    Allowed = {}
    MaxPackets = 7
    MaxSessions = 1
    Nobody = nobody
INVARIANTS Decodable NeverDropped DroppedIsCounted 
CHECK_DEADLOCK FALSE
