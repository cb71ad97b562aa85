SPECIFICATION Spec
CONSTANTS
  t1 = t1
  t2 = t2
  t3 = t3
  h1 = h1
  tick = tick
  nudge = nudge
  resume = resume
  Tasks = {t1,t2,t3}
  Routines = {t3}
  Skipping = {t3}
  Ending = {t3}
  Orphans = {}
  GoalSteps = {t2}
  Hosts = {h1}
  Passes = {tick}
  Resumers = {resume}
  HostOf <- OnePass
  BatchLimit = 10
  FailureLimit = 2
  OwnerActions = {"tab"}
  RenewalsMayMiss = FALSE
  ContinuationsMayBlock = TRUE
  MaxGen = 2
  MaxCrashes = 0
PROPERTIES EveryRunSettles
