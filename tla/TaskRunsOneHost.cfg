SPECIFICATION Spec
CONSTANTS
  t1 = t1
  t2 = t2
  t3 = t3
  h1 = h1
  tick = tick
  nudge = nudge
  resume = resume
  Tasks = {t1, t2}
  Routines = {t2}
  Skipping = {}
  Ending = {}
  Orphans = {}
  GoalSteps = {}
  Hosts = {h1}
  Passes = {tick, nudge}
  Resumers = {resume}
  HostOf <- OneHost
  BatchLimit = 10
  FailureLimit = 2
  OwnerActions = {"cancel", "hold", "tab"}
  RenewalsMayMiss = FALSE
  ContinuationsMayBlock = FALSE
  MaxGen = 3
  MaxCrashes = 1
INVARIANTS TypeOK SettledOnce SettledInOrder
PROPERTIES TerminalStays
