SPECIFICATION Spec
CONSTANTS
  Workspace = {w1}
  Run = {r1, r2, r3}
  Kind = {browser}
  None = None
  MaxMsgs = 0
  MaxStops = 1
INVARIANT OneLoopPerWorkspace
