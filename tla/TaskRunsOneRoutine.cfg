SPECIFICATION Spec
CONSTANTS
  t1 = t1
  t2 = t2
  t3 = t3
  h1 = h1
  tick = tick
  nudge = nudge
  resume = resume
  Tasks = {t1,t3}
  Routines = {t3}
  Skipping = {}
  Ending = {t3}
  Orphans = {t1}
  GoalSteps = {}
  Hosts = {h1}
  Passes = {tick,nudge}
  Resumers = {}
  HostOf <- TwoPasses
  BatchLimit = 10
  FailureLimit = 2
  OwnerActions = {"cancel"}
  RenewalsMayMiss = FALSE
  ContinuationsMayBlock = FALSE
  MaxGen = 4
  MaxCrashes = 1
INVARIANTS OneLiveTurn StreakCountsCycles
PROPERTIES EveryRunSettles DueIsClaimed
