SPECIFICATION FairSpec
CONSTANTS
  c1 = c1  c2 = c2  c3 = c3
  x = x  y = y  A = A  B = B
  Call <- ThreeCalls
  Context = {x, y}
  Owner = {A}
  ContextOf <- ThirdElsewhere
  OwnerOf <- SameClient
  SessionId = {s1, s2}
  Lock = {l1, l2, l3}
  NoCall = NoCall
  NoLock = NoLock
  NoSession = NoSession
  NoEntry = NoEntry
  Unissued = Unissued
  MaxSessions = 1
  MaxGeneration = 1
  IdsRestart = FALSE
INVARIANTS
  SessionCap
PROPERTIES
  Returns
