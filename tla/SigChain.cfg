CONSTANTS
  r1 = r1  r2 = r2  r3 = r3  d1 = d1  d2 = d2  u1 = u1  u2 = u2
  Requests = {r1, r2, r3}
  Docs = {d1, d2}
  Subs = {u1, u2}
  Checksums = {}
SPECIFICATION Spec
SYMMETRY MCSymmetry
CHECK_DEADLOCK FALSE
INVARIANTS TypeOK OneSignaturePerUser ChainsBackwards ForksOnlyBetweenOverlapping EventIffSigned ConflictMeansSigned
PROPERTIES AppendOnly ImplementsLedger
