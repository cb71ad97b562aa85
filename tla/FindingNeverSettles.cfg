SPECIFICATION FairSpec
CONSTANTS
    Runs = {r1}
    Kinds = {"foreground"}
    Pumps = {1, 2}
    Workers = {w1}
    Ops = {"recover", "reclaim", "stop"}
    Exits = {"succeeded"}
    MaxJournal = 0
    PageSize = 1
    MaxCrashes = 0
    MaxFaults = 0
    MayMiss = FALSE
PROPERTIES
    EveryCommandSettles
CHECK_DEADLOCK FALSE
