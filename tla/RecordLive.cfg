SPECIFICATION FairSpec
CONSTANTS
    OBS = obs
    Main = main
    StartThreads = {s1, s2}
    WriteThreads = {w1, w2}
    EndThreads = {e1, e2, e3}
    Threads = {obs, main, s1, s2, w1, w2, e1, e2, e3}
    NoThread = none
    Paths = {p1, p2}
    NoFile = nofile
    Allowed = {"open_fails", "force", "exit"}
    MaxCommands = 3
    MaxPackets = 1
INVARIANT ExitCompletesFile
PROPERTIES StartAnswered StopAnswered  ExitsWhenDisconnected
CHECK_DEADLOCK FALSE
