SPECIFICATION Spec
CONSTANTS
  write = write
  send = send
  question = question
  critical = critical
  edit = edit
  r1 = r1
  r2 = r2
  Ids = {send, question}
  Relayable = {}
  Sends = {send}
  Questions = {question}
  Criticals = {}
  Edits = {}
  Parking = {send, question}
  Relayed = {send, question}
  Raising = {}
  Requests = {r1, r2}
  Decisions = {TRUE, FALSE}
  DecideUnparked = TRUE
  MaxCrashes = 1
INVARIANTS TruthfulResume
PROPERTIES UndoneNeverSent
