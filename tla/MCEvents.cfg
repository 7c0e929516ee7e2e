CONSTANTS
  Events <- MCEventSet
  Own = {own}
  push = push
  pull = pull
  own = own
  Batches <- MCBatches
  Handlers = {h1, h2}
  Nobody = Nobody
  EventDeletion = TRUE
  Retention = 1
  LogRetention = 1
  MaxRuns = 2
  MaxDay = 3
  MaxFaults = 2
SPECIFICATION FairEventSpec
INVARIANTS
  EventKept
  RunLogged
PROPERTIES
  OutboxDrains
CHECK_DEADLOCK FALSE
