SPECIFICATION Spec
CONSTANTS
    OBS = obs
    Main = main
    ConnectThreads = {c1}
    SendThreads = {n1, n2}
    EndThreads = {e1, e2}
    Threads = {obs, main, c1, n1, n2, e1, e2}
    NoThread = none
    Allowed = {"force", "connect_fails", "meta_fails", "disconnect", "rush", "timeout", "exit"}
    MaxCommands = 4
    MaxPackets = 1
SYMMETRY Symmetry
INVARIANTS AnnouncedIsServed LeftClean
PROPERTIES OpensFreeQueue
CHECK_DEADLOCK FALSE
