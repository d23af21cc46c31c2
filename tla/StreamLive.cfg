SPECIFICATION FairSpec
CONSTANTS
    OBS = obs
    Main = main
    ConnectThreads = {c1, c2}
    SendThreads = {n1, n2}
    EndThreads = {e1, e2}
    Threads = {obs, main, c1, c2, n1, n2, e1, e2}
    NoThread = none
    Allowed = {"force", "connect_fails", "create_fails", "disconnect", "exit"}
    MaxCommands = 3
    MaxPackets = 1
INVARIANTS ExitLeavesNoThread
PROPERTIES StartAnswered StopAnswered DisconnectReported ExitsWhenDisconnected
CHECK_DEADLOCK FALSE
