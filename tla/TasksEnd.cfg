SPECIFICATION FairSpec
CONSTANTS
  t1 = t1
  t2 = t2
  t3 = t3
  k1 = k1
  c1 = c1
  NoSubject = NoSubject
  Task = {t1, t2}
  Contact = {k1}
  Company = {}
  KindOf <- RequestAndBooking
  SubjectOf <- TwoRequestsAbout
  Priority <- TwoRequestsRank
  Requested = {}
  MaxAttempts = 1
  Batch = 1
  MaxSettling = 2
  MaxCrashes = 0
PROPERTIES DueWorkEnds ResearchingEnds
CHECK_DEADLOCK FALSE
