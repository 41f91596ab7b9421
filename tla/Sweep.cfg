SPECIFICATION FairSpec
CONSTANTS
  Task = {v1}
  Visible = {v1}
  MaxSweeps = 2
  MaxAbandoned = 1
  MaxAttempts = 2
  Batch = 1
  VisibleBatch = 2
  MaxStalls = 1
  MaxRestarts = 1
  v1 = v1

  
PROPERTIES AbandonedBeginsNothing DueTaskBegins
CHECK_DEADLOCK FALSE
