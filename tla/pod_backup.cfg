SPECIFICATION PodSpec
CONSTANTS
  PodConversations = {"c"}
  MaxPodMessages = 2
  MaxPodTime = 3
  MaxStarts = 1
  MaxPodFailures = 0
  NoBackup = NoBackup
INVARIANT SkippedIsUnchanged
CHECK_DEADLOCK FALSE
