SPECIFICATION FairSpec
CONSTANTS
    OBS = obs
    Main = main
    StartThreads = {s1}
    WriteThreads = {w1}
    EndThreads = {e1, e2}
    Threads = {obs, main, s1, w1, e1, e2}
    NoThread = none
    Paths = {p1}
    NoFile = nofile
    Allowed = {"exit", "rush"}
    MaxCommands = 2
    MaxPackets = 1
PROPERTIES ExitsWhenDisconnected
CHECK_DEADLOCK FALSE
