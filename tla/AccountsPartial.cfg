CONSTANTS
  q1 = q1  q2 = q2  main = main  d1 = d1  d2 = d2  p1 = p1  p2 = p2
  s1 = s1  s2 = s2  mask = mask  none = none  b1 = b1  b2 = b2  f1 = f1  f2 = f2
  Requests = {q1}
  Main = main
  Domains = {d1, d2}
  Providers = {p1, p2}
  Secrets = {s1, s2}
  Mask = mask
  Env <- MailOnly
  DisableAuthMethodCheck = FALSE
  None = none
  Browsers = {b1}
  Flows = {f1}
  MaxOps = 1
SPECIFICATION Spec
CHECK_DEADLOCK FALSE
PROPERTY AuthMethodRemains
