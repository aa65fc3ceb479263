SPECIFICATION FairSpec
CONSTANTS
  Names = {"p", "q"}
  Urls = {"u"}
  Keys = {"k"}
  Unset = Unset
  Blank = Blank
  Presets <- MCPresets
  Imports <- MCImports
  Tools <- MCTools
  FirstDisks <- MCFirstDisks
  MaxSubmits = 2
  MaxChecks = 2
  SessionMessages = {"m1", "m2"}
  MaxVersions = 2
  MaxStatus = 1
  PollSlots = {"s1", "s2"}
  MaxStarts = 2
  MaxPollFailures = 1
  None = None
  Asked = Asked
  Definitions = {"d1", "d2"}
  Edits = {"e1", "e2", "e3"}
  SavedEdits = {"e1", "e2"}
  SaveSlots = {"s1", "s2"}
  LoadSlots = {"s1", "s2"}
  MaxLoads = 2
  MaxSaveFailures = 1
  Nothing = Nothing
  Stored = {"s"}
  Changes = {"e1"}
  WizardCalls = {"c1", "c2", "c3"}
  Generations = {"g1", "g2"}
  Absent = Absent
  Readers = {"r1"}
  MaxChunks = 4
  KeepChunks = 2
  KeepTail = 2
  Attachments = {"f1", "f2"}
  Sends = {"s1", "s2"}
  Targets = {"a", "b", "c"}
  FirstTarget = "a"
  MaxSwitches = 3
  Empty = Empty
  MaxMessages = 4
  MaxAsks = 3
  MaxDetail = 2
  Options = {"a", "b"}
  MaxMounts = 2
  MaxSteps = 3
  MaxQuestions = 2
  Saved <- MCSaved
  Peers = {"p"}
  StartCalls = {"c1", "c2"}
  Observers = {"o"}
  MaxNews = 2
  Unlisted = Unlisted
  Pairings = {"s"}
  MaxUses = 4
INVARIANTS  ShownIsTrue EditingIsSound
PROPERTIES OthersUntouched ClientsSettle
CHECK_DEADLOCK FALSE
