SPECIFICATION FairSpec
CONSTANTS
  a = a
  b = b
  Blank = Blank
  c1 = c1
  l1 = l1
  l2 = l2
  r1 = r1
  w1 = w1
  lost = lost
  Value = {a, b}
  Handle = {b}
  Call = {c1}
  Legacy = {l1, l2}
  Rep = {r1}
  Sweeper = {w1}
  Fault = {lost}
INVARIANTS OneAppliedUnlessOverlapped RecordShowsApplied
PROPERTIES PersonOutranks 
CHECK_DEADLOCK FALSE
