SPECIFICATION Spec
CONSTANTS
  t1 = t1
  t2 = t2
  t3 = t3
  k1 = k1
  c1 = c1
  NoSubject = NoSubject
  Task = {t1, t3}
  Contact = {}
  Company = {c1}
  KindOf <- Logos
  SubjectOf <- LogosAbout
  Priority <- LogosRank
  Requested = {}
  MaxAttempts = 2
  Batch = 1
  MaxSettling = 2
  MaxCrashes = 0
PROPERTIES LiveLeaseUntouched ImplementsTaskLifecycle
CHECK_DEADLOCK FALSE
