CONSTANTS
  q1 = q1  q2 = q2  owner = owner  admin = admin  n1 = n1  g1 = g1  g2 = g2
  url1 = url1  path1 = path1  k1 = k1  none = none
  Requests = {q1, q2}
  Users = {owner, admin}
  Admins = {admin}
  OnlyAdminCanCreate = FALSE
  Outsiders = {}
  Name = n1
  Gen = {g1, g2}
  Url = url1
  Path = path1
  Keys = {k1}
  None = none
  MaxOps = 4
SYMMETRY Symmetric
SPECIFICATION Spec
CHECK_DEADLOCK FALSE
INVARIANTS FilesMatchDocuments DuplicatesOnlyByOverlap
PROPERTIES EditsSurvive
