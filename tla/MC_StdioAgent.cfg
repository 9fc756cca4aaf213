CHECK_DEADLOCK FALSE
SPECIFICATION Spec
CONSTANTS
  s = s
  NoPrompt = NoPrompt
  Session <- OneSession
  SessionOf <- AllInOne
  MaxChunks = 2
  MaxAsks = 1
  PipeCapacity = 1
  Prompt = {p1, p2}
  Call = {c1}
  Cancel = {}
SYMMETRY Symmetry
INVARIANTS
  AnswersAreOwn
  CompleteTurn
