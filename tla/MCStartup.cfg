CONSTANTS
  r1 = r1
  r2 = r2
  p1 = p1
  p2 = p2
  Request = {r1, r2}
  Process = {p1, p2}
  Actor <- MCActor
  Spelling <- MCSpelling
  Email = {"admin", "b"}
  Norm <- MCNorm
  Name = {"x", "root"}
  Call <- MCCall
  NoCall = NoCall
  NoUser = NoUser
  AuthFaults = {"db", "ack"}
  At <- MCAt
  MaxAttempts = 2
  IndexedFields <- MCFields
  AdminEmail = "admin"
  AdminName = "root"
  StartFaults = {"service", "qdrant", "qdrant_ack", "crash"}
SPECIFICATION Spec
INVARIANTS TypeOK UniqueAccounts AnswersAreAudited AdminIsSeeded MissingIndexHasCause
PROPERTIES NoLostUpdate
SYMMETRY Symmetry
CHECK_DEADLOCK FALSE
