SPECIFICATION Spec
CONSTANTS
  cron = cron
  poke = poke
  MaxRuns = 2
  MaxDeliveries = 2
  Dispatcher = {cron, poke}
  MaxCrashes = 0
INVARIANTS OneActiveUnlessRevived
PROPERTIES DeletedStartsNothing ImplementsLifecycle
SYMMETRY Interchangeable
CHECK_DEADLOCK FALSE
