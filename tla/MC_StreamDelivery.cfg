CHECK_DEADLOCK FALSE
SPECIFICATION FairSpec
CONSTANTS
  Task = {t, other}
  Streamed = t
  PagesLimit = 1
  DeleteBatch = 2
  CheckEvery = 2
  MaxEvents = 3
  Client = {sender, reader}
  Sender = sender
  Detached = FALSE
  HubCapacity = 1
  HistoryLimit = 2
INVARIANTS
  TypeOK
  DirectComplete
  KeepsNewest
PROPERTIES
  InOrderOnce
  ResubscriptionEnds
