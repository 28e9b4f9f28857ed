CONSTANTS
  Readers = {r1}
  Exporters = {x1, x2}
  Limit = 1
  ExportRowLimit = 1
  MaxExports = 2
  None = None
  Slots = {q1, q2}
  ann = ann
  ANN = ANN
  bob = bob
  Emails = {ann, ANN, bob}
  Lower <- Spellings
  SetupTtl = 1
  InviteTtl = 1
  MaxIssues = 2
  MaxInvites = 1
  MaxLog = 2
  Horizon = 1
SPECIFICATION Spec
INVARIANT SetupStaysClosed
ACTION_CONSTRAINT KeptApart
SYMMETRY Symmetric
CHECK_DEADLOCK FALSE
