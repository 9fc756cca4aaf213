CHECK_DEADLOCK FALSE
SPECIFICATION FairSpec
CONSTANTS
  s = s
  NoPrompt = NoPrompt
  Session <- OneSession
  SessionOf <- AllInOne
  MaxChunks = 1
  MaxAsks = 0
  PipeCapacity = 3
  Prompt = {p1, p2}
  Call = {}
  Cancel = {n1}
PROPERTIES
  Returns
