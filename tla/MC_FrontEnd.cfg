SPECIFICATION FairSpec
CONSTANTS
  Agent = {a1, a2}
  StreamLimit = 1
  Req = {r1, r2, r3}
  NoReq = NoReq
INVARIANTS OneProcess SlotsAccounted
PROPERTY Settles
CHECK_DEADLOCK FALSE
