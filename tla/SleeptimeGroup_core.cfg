SPECIFICATION GroupSpec
CONSTANTS
  a = a
  b = b
  c = c
  agent = agent
  conv = conv
  Req = {a, b, c}
  Thread = {agent, conv}
  Default = agent
  ThreadOf <- MCInConversation
  InputOf <- MCInput
  FollowUps = {b}
  Locked = {a, b, c}
  MayCancel = {}
  MayCrash = {b}
  Replies = {"text", "gated", "mixed"}
  Modes = {"all"}
  Faults = {"llm", "credits"}
  MaxSteps = 2
  MaxTries = 0
  Frequency = 2
  Limit = 2
  TasksFail = TRUE
INVARIANTS
  GroupTypeOK
  
  
  CallRunsOnce
  
  WellFormed
  
CHECK_DEADLOCK FALSE
