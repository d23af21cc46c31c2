SPECIFICATION Spec
CONSTANTS
    Period <- TwoToThree
    KeyInterval = 3
    Leads = {0, 2}
    MaxLag = 6
    MaxEarly = 2
    MaxSessions = 2
    MaxPackets = 10
INVARIANTS FirstIsKeyframe Monotonic Gapless InSync
CHECK_DEADLOCK FALSE
