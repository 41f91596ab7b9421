SPECIFICATION Spec
CONSTANTS
  post = post
  note = note
  p1 = p1
  p2 = p2
  n1 = n1
  NoKey = NoKey
  Calls = {post, note}
  KindOf <- ReplayedKind
  Executions = {p1, p2, n1}
  CallOf <- ReplayedCallOf
  MaxClaims = 2
  Declared = {"slack", "crm"}
  NoActionTrigger = TRUE
  Crashing = {p1, p2, n1}
INVARIANTS SuccessIsEarned OneKeyPerCall ReportedSuccessIsReal ReceiptIsRecorded
PROPERTIES FreshClaimKept NothingBegunAfterEnd
CHECK_DEADLOCK FALSE
