SPECIFICATION FairSpec
CONSTANTS
    Steps = {1, 2, 3}
    Deps <- Fork
    Criteria = {c1}
    Mandatory = {c1}
    StepsFinish = {c1}
    Links <- FirstTwo
    Profiles = {1, 2}
    Limit <- OneMoreRun
    Tasks = {1, 2, 3}
    MaxTurns = 1
    MaxChanges = 1
    MaxCrashes = 1
INVARIANTS
    GoalsTypeOK
    EvidenceIsWork
    StepWorksOnce
    RunsPaid
    OverIsOver
PROPERTIES
    PauseKeepsWork
    GoalMoves
CHECK_DEADLOCK FALSE
