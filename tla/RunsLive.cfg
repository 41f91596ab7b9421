SPECIFICATION FairSpec
CONSTANTS
  cron = cron
  poke = poke
  MaxRuns = 2
  MaxDeliveries = 1
  Dispatcher = {cron,poke}
  MaxCrashes = 1
PROPERTIES RunningEnds 
CHECK_DEADLOCK FALSE
