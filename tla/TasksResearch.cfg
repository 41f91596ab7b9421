SPECIFICATION Spec
CONSTANTS
  t1 = t1
  t2 = t2
  t3 = t3
  k1 = k1
  c1 = c1
  NoSubject = NoSubject
  Task = {t1, t2}
  Contact = {k1}
  Company = {}
  KindOf <- TwoRequests
  SubjectOf <- TwoRequestsAbout
  Priority <- TwoRequestsRank
  Requested = {t2}
  MaxAttempts = 1
  Batch = 1
  MaxSettling = 2
  MaxCrashes = 1

PROPERTIES FirstFinishWins CompleteStands FreshRequestStands
CHECK_DEADLOCK FALSE
