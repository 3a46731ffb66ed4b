CONSTANTS
  v1 = v1  v2 = v2  h1 = h1  h2 = h2
  Events = {v1}
  Hooks = {h1, h2}
  MaxRetries = 2
  BatchSize = 2
  RowSecurity = FALSE
  MaxFaults = 2
SPECIFICATION Spec
CHECK_DEADLOCK FALSE
INVARIANTS EventReachesAll NoEventFromRollback DeletedHookHasNoRows PostsAreBounded
PROPERTIES ImplementsWorkQueue EveryDeliverySettles
