SPECIFICATION FairSpec
CONSTANTS
  Handler = {h1, h2}
  ApiClient = {a1}
  GrpcClient = {g1}
  IpcClient = {i1}
  None = None
  MaxQuestions = 2
INVARIANTS OnlyLateAnswersStray AnswersFindTheAgent
PROPERTIES StoppedPromptEnds AnswerEndsQuestion
CHECK_DEADLOCK FALSE
