SPECIFICATION Spec
CONSTANTS
  MaxVersions = 3
  MaxRevisions = 3
  Content = {"brief", "revised"}
  Request = {"r1", "r2", "r3"}
INVARIANTS TriggersFollowCurrent OnlyApprovedRuns 
PROPERTIES RetriesChangeNothing
CHECK_DEADLOCK FALSE
