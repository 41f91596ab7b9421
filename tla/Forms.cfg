SPECIFICATION FilingSpec
CONSTANTS
  f1 = f1
  f2 = f2
  NoForm = NoForm
  d1 = d1
  d2 = d2
  Form = {f1, f2}
  Delivery = {d1, d2}
  MaxContacts = 2
  MaxHours = 2
  Cap = 1
  MaxFaults = 1
INVARIANTS  FilingIsWhole
PROPERTIES DeletedStaysUnlessEarlier
SYMMETRY Interchangeable
CHECK_DEADLOCK FALSE
