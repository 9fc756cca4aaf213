\* Posts and rows come to an end.
CHECK_DEADLOCK FALSE
SPECIFICATION Spec
CONSTANTS
  a1 = a1  a2 = a2  g1 = g1  c1 = c1  c2 = c2  p1 = p1  p2 = p2  p3 = p3
  Agents = {a1, a2}
  Entries = {"echo", "cat", "cat in dir"}
  PrintOf <- Prints1
  NoPrint = ""
  Usable = {"echo", "cat"}
  Gateways = {g1}
  Commands = {c1, c2}
  Retention = 1
  SizeLimit = 1
  Batch = 2
  WarnAt = 1
  Excluded = 1
  MaxTime = 3
  MaxEvents = 4
  Posts = {p1, p2, p3}
  TtlMinutes = 1
  StartLevel = "warn"
  Limit = 3
  Compress = TRUE
  MaxFiles = 3
  MaxSize = 3
  MaxDays = 5
INVARIANTS
  TypeOK
  Consent
  AdmitsStanding
  SeqsRise
  KeptNewest
  TodayKept
PROPERTIES
  MonitorReturns
  TakenBack
