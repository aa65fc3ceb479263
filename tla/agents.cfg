SPECIFICATION FairSpec
CONSTANTS
  Gates = {"g1"}
  Workers <- MCWorkers
  Reviewers <- MCReviewers
  Fixers <- MCWorkers
  MaxIterations = 2
  MaxChunks = 1
  MaxCancels = 1
  BatchSize = 3
  CallTimeouts <- MCCallTimeouts
  BatchTimeout = 3
  MaxClock = 6
  Devices = {"d1"}
  MaxLog = 4
  MaxPolls = 5
  IdlePolls = 2
  Turns = {"t0", "t1", "t2", "t3"}
  Root = "t0"
  Agents = {"build"}
  Separators <- MCSeparators
  Named = FALSE
  MaxMs = 1
  Settings <- MCSettings
  PromptTrees <- MCTrees
  MaxStored = 6
  Compactors = {"c1", "c2"}
  MaxUses = 3
  MaxFailures = 2
  Window = 2
  p1 = p1  n1 = n1  n2 = n2
  HookNames = {n1, n2}
  Handlers = {"h1", "h2", "h3"}
  Executions = {"e1"}
  Plugins <- MCPlugins
  Loaders = {"l1", "l2"}
  MaxLoadCalls = 2
  Files = {"f"}
  Lines = {"a", "b", "$&"}
  Pattern = "$&"
  MaxLines = 2
  MaxAge = 1
  MaxNow = 2
  Writers = {"w"}
  Gone = Gone
  Wikis <- MCWikis
  ToolCalls = {"c1", "c2"}
  Refreshes = {"f1"}
  MaxWrites = 1
  MaxBoots = 3
  Requests = {"q1", "q2"}
  Conversations = {"v"}
  KnownProfiles = {"k"}
  OtherProfiles = {"o"}
  NoRow = NoRow
  Chats = {"a", "b", "b_"}
  FileOf <- MCFileOf
  Saves = {"s1", "s2"}
  MaxMessages = 1
  MaxCrashes = 1
  NoFile = NoFile
  Torn = Torn
  PodConversations = {"c"}
  MaxPodMessages = 1
  MaxPodTime = 2
  MaxStarts = 2
  MaxPodFailures = 1
  NoBackup = NoBackup
  LoopTools = {"ask", "todo"}
  HostTarget <- MCHostTarget
  LoopProfiles <- MCLoopProfiles
  LoopIds = {"agent-tool-loop", "agent-agent-loop"}
  AgentIds <- MCAgentIds
  Stamps = {"m1"}
  NodeCalls = {"k1", "k2"}
  Ports = {3000, 8080}
  DefaultPort = 3000
  McpServers <- MCMcpServers
  CloudDevices = {"p", "q"}
  RecordContents = {"x", "y"}
  MaxStoreChanges = 4
  Callers = {"a", "b"}
  CallPairs <- MCCallPairs
  CloudCalls = {"c1", "c2"}
  GrantLife = 2
  Margin = 1
  MaxGrantTime = 3
  MaxGrantChanges = 1
  MaxRuns = 2
  MaxBeats = 2
  NoRecord = NoRecord
INVARIANTS DelegationIsSound ToolsReport ContextIsSound PluginsAreSound EditsLoseNothing KnowledgeIsCurrent
PROPERTY AgentsEnd
CHECK_DEADLOCK FALSE
