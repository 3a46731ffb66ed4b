CONSTANTS
  e1 = e1  e2 = e2  w1 = w1  w2 = w2
  Emails = {e1, e2}
  Workers = {w1, w2}
  MaxRetries = 2
  BatchSize = 2
  MaxConcurrent = 1
  RowSecurity = FALSE
  MaxHalts = 2
SPECIFICATION Spec
CHECK_DEADLOCK FALSE
INVARIANTS OneHolder NeverResent StatusTruthful TriesBeforeFailing EventsMatchRows
PROPERTIES ImplementsWorkQueue EveryMailSettles
