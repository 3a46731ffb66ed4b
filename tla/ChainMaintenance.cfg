CONSTANTS
  r1 = r1  r2 = r2  d1 = d1  d2 = d2  u1 = u1  u3 = u3  c1 = c1
  Requests = {r1, r2}
  Docs = {d1}
  Subs = {u1}
  Checksums = {c1}
  Earlier <- TwoSigned
SPECIFICATION MaintSpec
CHECK_DEADLOCK FALSE
INVARIANT RebuildRepairs
PROPERTIES RebuildKeepsSignatures EveryRequestSettles
