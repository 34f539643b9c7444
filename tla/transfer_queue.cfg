CONSTANTS
  copy = copy
  move = move
  upload = upload
  other = other
  Copies = {copy}
  Moves = {move}
  Uploads = {upload, other}
  Runs = {1, 2}
  NoRun = NoRun
  NoJob = NoJob
  Settings <- MCSettings
  Scenarios <- MCScenarios
SPECIFICATION Spec
INVARIANTS TypeOK SlotsAreCounted
PROPERTIES NeverRepeated PartsGoFirst SlotIsNotMissed
CHECK_DEADLOCK FALSE
