SPECIFICATION Spec
CONSTANTS
  write = write
  send = send
  question = question
  critical = critical
  edit = edit
  r1 = r1
  r2 = r2
  Ids = {write}
  Relayable = {write}
  Sends = {}
  Questions = {}
  Criticals = {}
  Edits = {}
  Parking = {write}
  Relayed = {}
  Raising = {}
  Requests = {r1, r2}
  Decisions = {TRUE, FALSE}
  DecideUnparked = FALSE
  MaxCrashes = 0
PROPERTIES ResultStands DecisionReachesTurn ExecutionSettles
