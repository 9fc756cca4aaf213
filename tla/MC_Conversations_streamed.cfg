SPECIFICATION Spec
CONSTANTS
  c1 = c1  c2 = c2  c3 = c3
  x = x  y = y  A = A  B = B
  Call <- ThreeCalls
  Context = {x}
  Owner = {A, B}
  ContextOf <- SameContext
  OwnerOf <- ForeignThird
  SessionId = {s1, s2}
  Lock = {l1, l2, l3}
  NoCall = NoCall
  NoLock = NoLock
  NoSession = NoSession
  NoEntry = NoEntry
  Unissued = Unissued
  MaxSessions = 1
  MaxGeneration = 2
  IdsRestart = FALSE
INVARIANTS
  OneTurnPerSession
