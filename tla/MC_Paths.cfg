\* Lines, requests, attempts and updates come to an end.
CHECK_DEADLOCK FALSE
SPECIFICATION Spec
CONSTANTS
  r1 = r1  r2 = r2  h1 = h1  h2 = h2  h3 = h3  nobody = nobody
  MaxLines = 4
  Buffer = 2
  Requests = {r1, r2}
  Callers = {h1, h2, h3}
  Nobody = nobody
  Backoff = 2
  MaxInstant = 6
  MaxAttempts = 4
  Data = {"", "one", "two", "tool", "bytes"}
  Empty = ""
  ImageMime = {"image/png"}
  AudioMime = {"audio/wav"}
  OtherMime = {"application/octet-stream", "application/pdf"}
  OctetStream = "application/octet-stream"
  Uri = {"", "file:"}
  NoUri = ""
  None = "none"
  Prompts <- ContentBlock
  Says <- SomeSays
  MaxUpdates = 4
  MaxHops = 3
INVARIANTS
  TypeOK
  InOrder
  CachedWasProbed
  Paced
  Carried
  RecordWhole
PROPERTIES
  Ended
  Forwarded
