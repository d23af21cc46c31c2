SPECIFICATION Spec
CONSTANTS
    OBS = obs
    Main = main
    StartThreads = {s1, s2}
    WriteThreads = {w1, w2}
    EndThreads = {e1, e2, e3}
    Threads = {obs, main, s1, s2, w1, w2, e1, e2, e3}
    NoThread = none
    Paths = {p1, p2}
    NoFile = nofile
    Allowed = {"open_fails", "force"}
    MaxCommands = 4
    MaxPackets = 2
INVARIANTS CleanWhenDrained WriterHasFile  NoStrayNotice
 
SYMMETRY Symmetry
CHECK_DEADLOCK FALSE
