CHECK_DEADLOCK FALSE
SPECIFICATION Spec
CONSTANTS
  Task = {t}
  Streamed = t
  PagesLimit = 0
  DeleteBatch = 1
  CheckEvery = 1
  MaxEvents = 3
  Client = {sender, reader}
  Sender = sender
  Detached = FALSE
  HubCapacity = 1
  HistoryLimit = 10
INVARIANTS
  NoHoles
