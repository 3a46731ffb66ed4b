CONSTANTS
  a1 = a1  a2 = a2  a3 = a3  e1 = e1  e2 = e2  e3 = e3  blank = blank  noemail = noemail
  Accounts = {a1, a2, a3}
  Emails = {e1, e2, e3}
  EmailOf <- SharedEmail
  MaxChanges = 2
  Malformed = {}
  Files <- NoFiles
  Bodies <- NoBodies
  Blank = blank
  NoEmail = noemail
  MaxSigners = 2
  MaxRequests = 0
SPECIFICATION SignersSpec
CHECK_DEADLOCK FALSE
INVARIANT AnnouncedWhenComplete
