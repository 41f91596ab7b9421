SPECIFICATION FairSpec
CONSTANTS
  p1 = p1
  p2 = p2
  Pass = {p1, p2}
  ByHand = {p2}
  MaxMail = 3
  Fileable = {1, 3}
  GmailBudget = 1
  Budget = 2
  CalendarBudget = 2
  HistoryPage = 2
  MaxRows = 1
  MaxFaults = 1
INVARIANTS  OneTickUnlessOvertaken
PROPERTIES MailIsRead
CHECK_DEADLOCK FALSE
