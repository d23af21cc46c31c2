SPECIFICATION FairSpec
CONSTANTS
    Events = {"init"}
    Unknown = "other"
    Initialize = "init"
    PayloadSize <- OneCommand
    MaxMessages = 3
INVARIANTS ExecutedAsSent NeverTwice
PROPERTIES EveryCommandRuns
CHECK_DEADLOCK FALSE
