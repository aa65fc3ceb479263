SPECIFICATION PeopleSpec
CONSTANTS
  r1 = r1  r2 = r2  r3 = r3  a1 = a1  a2 = a2
  read = read
  Request = {r1, r2, r3}
  AgentOf <- MCAgentOf
  KeyOf <- SameTool
  Plugin = {r3}
  MayCollide = FALSE
  Timeout = 1
  MaxNow = 3
  ImUsers = {"u1", "u2"}
  Requests = {1, 2, 3}
  MaxConvs = 2
  MaxText = 5
  Blanks <- MCBlanks
  ChunkSize = 2
  MaxEnds = 1
  QuestionIds = {"q1", "q2"}
  Answers = {"yes", "no"}
INVARIANTS AllowedAsShown PendingIsUndecided DeniedForAReason ChannelIsSound AnswersReachTheAgent
PROPERTY PeopleAreServed
CHECK_DEADLOCK FALSE
