SPECIFICATION FairSpec
CONSTANTS
  t1 = t1  t2 = t2
  read = read  shell = shell  drop = drop
  ToolOf <- MCToolOf
  Turn = {t1}
  Tool = {read, shell, drop}
  Call <- ReadShellDrop
  Responses <- TwoTools
  Covers <- MCCovers
  ToolPermissions <- ShellAsks
  HookAnswers <- AnyHook
  PluginTools = {}
  AwaitingTools = {shell}
  EnableToolLoop = TRUE
  Fallback = TRUE
  MaxIterations = 2
  Threshold = 2
  HooksMayBlock = TRUE
  LlmMayFail = TRUE
  ListenersThrow = FALSE
  MaxNow = 2
INVARIANTS EveryCallAnswered RunsArePermitted StopHookOnce CancelStops
PROPERTY TurnEnds
