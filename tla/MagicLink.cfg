CONSTANTS
  q1 = q1  q2 = q2  q3 = q3  m1 = m1  v1 = v1  v2 = v2  e1 = e1  i1 = i1  i2 = i2
  Asks = {q1, q2, q3}
  Reminders = {m1}
  Visits = {v1, v2}
  EmailOf <- OneEmail
  IpOf <- TwoIps
  LimitEmail = 1
  LimitIp = 1
  MaxLost = 1
SPECIFICATION Spec
SYMMETRY MCSymmetry
CHECK_DEADLOCK FALSE
INVARIANTS SingleUse MailsAreLimited ReminderUsedMeansSession
PROPERTIES UsedForever
