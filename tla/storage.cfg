SPECIFICATION Spec
CONSTANTS
  NoFile = NoFile
  Empty = Empty
  SessionManager = {m1, m2}
  SessionCrashes = 1
  Field = {history}
  Summary = summary
  MaxWrites = 2
  RegRequest = {r1, r2, r3}
  Name = {n1, n2}
  Dir = {p1, p2}
  JobRequest = {r1, r2, r3}
  Task = {t1, t2}
  MaxRestarts = 1
  a1 = a1
  a2 = a2
  a3 = a3
  o1 = o1
  o2 = o2
  Agent = {a1, a2, a3}
  OwnerOf <- SomeOwners
  LockPath = {p1}
  Default = Default
  NoOwner = NoOwner
  LockTTL = 1
  MaxAge = 2
  CpName <- TwoNames
  Within <- NamesWithin
  NoMsgs = NoMsgs
  MaxEdits = 2
  Writer = {w1, w2}
  MaxFacts = 2
  MaxCore = 2
  MaxText = 3
  MaxRuns = 2
  Kind = {audio}
  MediaRequest = {q1, q2}
  NoTake = NoTake
  MaxTakes = 3
  good1 = good1
  good2 = good2
  bad1 = bad1
  bad2 = bad2
  Content <- SomeContent
  Valid <- GoodContent
  Absent = Absent
  Torn = Torn
  MaxCrashes = 2
  gitStar = gitStar
  gitPush = gitPush
  writeFile = writeFile
  daemon = daemon
  cli = cli
  batch = batch
  Manager = {daemon, cli, batch}
  Mode <- EveryMode
  Target <- SomeTargets
  Matches <- GitStarMatches
  NoTarget = NoTarget
  MaxDeaths = 1
  SetCommand = {c1, c2}
  SetRun = {r1}
  Key = {model, limit, mode}
  Copied = {model}
  Own = {mode}
  Flagged = {model}
  Secret = {key}
  Given <- ValueOfEach
  Unset = Unset
  Blank = Blank
  g1 = g1
  l1 = l1
  e1 = e1
  f1 = f1
INVARIANTS   LockExcludes RestoreIsExact MediaIsOwn UndoTakesBackOneEdit SettingsSound 
 
SYMMETRY CommandsAlike
CHECK_DEADLOCK FALSE
