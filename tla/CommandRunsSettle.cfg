SPECIFICATION FairSpec
CONSTANTS
    Runs = {r1}
    Kinds = {"foreground", "supervised"}
    Pumps = {1, 2}
    Workers = {w1}
    Ops = {"recover", "reclaim", "poll"}
    Exits = {"succeeded"}
    MaxJournal = 0
    PageSize = 1
    MaxCrashes = 1
    MaxFaults = 0
    MayMiss = FALSE
PROPERTIES
    UnattendedSettles
CHECK_DEADLOCK FALSE
