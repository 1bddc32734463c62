SPECIFICATION Spec
CONSTANTS
  gitStar = gitStar
  gitPush = gitPush
  writeFile = writeFile
  daemon = daemon
  cli = cli
  batch = batch
  Manager = {daemon}
  Mode <- EveryMode
  Target <- SomeTargets
  Matches <- GitStarMatches
  NoTarget = NoTarget
  MaxDeaths = 1
INVARIANT RememberedSurvives
