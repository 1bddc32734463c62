SPECIFICATION Spec
CONSTANTS
  Handler = {h1, h2}
  ApiClient = {a1}
  GrpcClient = {}
  IpcClient = {}
  None = None
  MaxQuestions = 2
INVARIANT RunningHandlerKept
CHECK_DEADLOCK FALSE
