SPECIFICATION Spec
CONSTANTS
    OBS = obs
    Main = main
    StartThreads = {s1, s2}
    WriteThreads = {w1, w2}
    EndThreads = {e1, e2, e3}
    Threads = {obs, main, s1, s2, w1, w2, e1, e2, e3}
    NoThread = none
    Paths = {p1}
    NoFile = nofile
    Allowed = {"early", "preempt", "rush", "force", "open_fails", "create_fails"}
    MaxCommands = 3
    MaxPackets = 1
INVARIANTS OneStartThread 
SYMMETRY Symmetry
CHECK_DEADLOCK FALSE
