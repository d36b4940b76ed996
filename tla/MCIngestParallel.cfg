CONSTANTS
  File = {a, b, other}
  NoFile = none
  Call = {c1, c2}
  Doc = {text}
  Docs <- MCDocs
  Unsupported = {other}
  Invalid = {}
  Batches <- MCBatches
  Faults = {"dedup", "model", "upsert", "upsert_ack", "move", "crash"}
  SerialCalls = FALSE
  a = a
  b = b
  junk = junk
  other = other
  text = text
  scrap = scrap
SPECIFICATION FairSpec
INVARIANTS TypeOK IndexedIsStored HalfIndexedHasCause
PROPERTY CallsEnd
CHECK_DEADLOCK FALSE
