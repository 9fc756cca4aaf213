SPECIFICATION FairSpec
CONSTANTS
  c1 = c1
  c2 = c2
  Agent = {a1}
  Target = a1
  StreamLimit = 1
  Conn = {c1, c2}
  Session = {s1, s2}
  MaxSessions = 1
  MaxRequests <- Lengths
  MaxChunks = 2
  MaxQueued = 2
INVARIANTS LeasesAreSessions Transcript StreamWhole
PROPERTY Served
CHECK_DEADLOCK FALSE
