SPECIFICATION Spec
CONSTANTS
  write = write
  send = send
  question = question
  critical = critical
  edit = edit
  r1 = r1
  r2 = r2
  Ids = {write, edit, critical}
  Relayable = {write, edit}
  Sends = {}
  Questions = {}
  Criticals = {critical}
  Edits = {edit}
  Parking = {}
  Relayed = {}
  Raising = {write, critical}
  Requests = {r1, r2}
  Decisions = {TRUE, FALSE}
  DecideUnparked = TRUE
  MaxCrashes = 0
INVARIANTS ApprovalsTypeOK RunsOnce OnlyApprovedRuns
