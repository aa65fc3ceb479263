SPECIFICATION Spec
CONSTANTS
  t1 = t1  t2 = t2
  read = read  shell = shell  drop = drop
  ToolOf <- MCToolOf
  Turn = {t1, t2}
  Tool = {read, shell}
  Call <- ReadOnly
  Responses <- OneRead
  Covers <- MCCovers
  ToolPermissions <- AllAllowed
  HookAnswers <- NoHook
  PluginTools = {}
  AwaitingTools = {}
  EnableToolLoop = TRUE
  Fallback = TRUE
  MaxIterations = 3
  Threshold = 4
  HooksMayBlock = TRUE
  LlmMayFail = TRUE
  ListenersThrow = FALSE
  MaxNow = 3
INVARIANT CancelStops
