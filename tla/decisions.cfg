SPECIFICATION Spec
CONSTANTS
  MaxHistory = 10
  MaxLarge = 1
  MaxSystem = 1
  MaxTurns = 5
  Agent = {a1, a2}
  Attempts = 2
  Retries = 2
  MaxCalls = 1
  Run = {r1, r2}
  Child = {spawn}
  None = None
  Rounds = 2
  MaxHelpers = 3
  MaxAnswers = 1
  t1 = t1
  t2 = t2
  Fix = Fix
  Title = {t1, t2, Fix}
  Norm <- TitleNorm
  MaxItems = 3
  MaxWords = 2
  MaxSteps = 2
  Announceable <- Paths
  Place <- Files
  MaxChanges = 5
  text = text
  NoText = NoText
  o1 = o1
  o2 = o2
  Action = {x1, x2, x3, x4}
  MaxSize = 2
  MaxAttempts = 2
  MaxMsgs = 5
  MaxFailures = 6
  Tool = {run, write_file}
  Unknown = Unknown
  WriteFile = write_file
  File = {f1, f2}
  NoFile = NoFile
  MaxSegments = 3
  MaxNative = 1
SYMMETRY Symmetric
INVARIANTS   SpecialistsSound PlanSound DetectorsSound 
 
CHECK_DEADLOCK FALSE
