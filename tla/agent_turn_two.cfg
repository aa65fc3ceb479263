SPECIFICATION Spec
CONSTANTS
  t1 = t1  t2 = t2
  read = read  shell = shell  drop = drop
  ToolOf <- MCToolOf
  Turn = {t1, t2}
  Tool = {read, shell}
  Call <- ReadShell
  Responses <- PluginPair
  Covers <- MCCovers
  ToolPermissions <- AllAllowed
  HookAnswers <- NoHook
  PluginTools = {read}
  AwaitingTools = {}
  EnableToolLoop = TRUE
  Fallback = TRUE
  MaxIterations = 1
  Threshold = 2
  HooksMayBlock = FALSE
  LlmMayFail = FALSE
  ListenersThrow = TRUE
  MaxNow = 2
INVARIANT AnswersAreInOrder
