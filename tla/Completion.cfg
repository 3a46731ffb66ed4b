CONSTANTS
  a1 = a1  a2 = a2  a3 = a3  e1 = e1  e2 = e2  e3 = e3  blank = blank  noemail = noemail
  Accounts = {a1, a2, a3}
  Emails = {e1, e2, e3}
  EmailOf <- SharedEmail
  MaxChanges = 2
  Malformed = {e3}
  Files <- SampleFiles
  Bodies <- SampleBodies
  Blank = blank
  NoEmail = noemail
  MaxSigners = 2
  MaxRequests = 1
SPECIFICATION SignersSpec
CHECK_DEADLOCK FALSE
INVARIANTS EarlyOnlyByTwins MissedOnlyByOverlap
PROPERTIES RemindersMatchLogs RemindersOnlyToPending ImportCountsTrue
