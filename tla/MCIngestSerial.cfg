CONSTANTS
  File = {note, record, scrap, odd, picture}
  NoFile = none
  Call = {c1, c2}
  Source <- MCSource
  Lower <- MCLower
  Upper <- MCUpper
  IsCve <- MCIsCve
  UpsertBatchSize = 2
  Doc = {"guide", "alert", "scrap"}
  Docs <- MCDocs
  Unsupported = {picture}
  Invalid = {"scrap"}
  Batches <- MCBatches
  Faults = {"embed", "upsert", "upsert_ack", "crash"}
  SerialCalls = TRUE
  note = note
  record = record
  scrap = scrap
  odd = odd
  picture = picture
SPECIFICATION DocsSpec
SYMMETRY Symmetry
INVARIANTS NoDuplicateChunks ReadingOrder FiltersFindPoints
CHECK_DEADLOCK FALSE
