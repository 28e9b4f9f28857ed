SPECIFICATION Spec
SYMMETRY Symmetry
CONSTANTS
  None = None
  Failed = Failed
  payload1 = payload1
  payload2 = payload2
  totp = totp
  Rows <- MCRows
  Kid <- MCKid
  DefaultAad = payload2
  Plaintexts = {p1, p2}
  Keys = {k1, k2, k3}
  MaxVersion = 3
  MaxSeals = 4
INVARIANTS OpensExactly RotationExact
