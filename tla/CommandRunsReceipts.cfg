SPECIFICATION Spec
CONSTANTS
    Runs = {r1}
    Kinds = {"detached", "supervised"}
    Pumps = {1, 2}
    Workers = {w1}
    Ops = {"recover", "reclaim", "stop"}
    Exits = {"succeeded"}
    MaxJournal = 1
    PageSize = 1
    MaxCrashes = 1
    MaxFaults = 1
    MayMiss = FALSE
INVARIANTS
    CommandsTypeOK
    OutputComplete
PROPERTIES
    ReceiptsHold
CHECK_DEADLOCK FALSE
