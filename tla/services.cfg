SPECIFICATION FairSpec
CONSTANTS
  None = None
  c1 = c1
  c2 = c2
  w1 = w1
  w2 = w2
  Cmd = {c1, c2}
  BgId = {b1, b2}
  Workspace = {w1, w2}
  Home <- SomeHome
  TermId = {t1}
  Session = {s1, s2}
  Viewer = {v1, v2}
  NoSession = NoSession
  TermCapacity = 1
  MaxChunks = 2
  Call = {i1, i2}
  PipeCap = 1
  Server = {n1, n2}
  Agent = {a1}
  MaxStarts = 3
  Watched = {w1, w2}
  Ws = {x1}
  Pull = {}
  Ipc = {y1}
  WsCapacity = 1
  MaxEvents = 2
  MaxMoves = 2
  Update = {u1, u2, u3}
  NoContent = NoContent
  Subscriber = {e1}
  BufCapacity = 2
  MaxVersion = 2
  Daemon = {d1, d2}
INVARIANTS CommandsAccounted TerminalsSound McpSound  OneDaemon
PROPERTIES  CallsReturn DaemonsEnd
CHECK_DEADLOCK FALSE
