SPECIFICATION Spec
CONSTANTS
  out1 = out1
  Text = {a}
  NoText = NoText
  CallLists <- CommandLists
  Action = {x1}
  MaxSize = 2
  MaxAttempts = 2
  MaxMsgs = 6
  MaxFailures = 0
INVARIANTS HistoryStopsNobody
CHECK_DEADLOCK FALSE
