SPECIFICATION BoundedSpec
CONSTANTS
  Workspace = {w1, w2}
  Run = {r1, r2, r3}
  Kind = {browser}
  None = None
  MaxMsgs = 2
  MaxStops = 2
INVARIANTS SingleLoopUnlessOverlap ActiveRunKeepsTools LeaksComeFromStops MessagesOnceInOrder
PROPERTIES LeaseRefinement StopsAndIdlesEnd MessageReadOrRunOver
CHECK_DEADLOCK FALSE
