SPECIFICATION FairSpec
CONSTANTS
  a = a
  b = b
  c = c
  conv = conv
  t1 = t1
  t2 = t2
  NoReq = NoReq
  Req = {a, b, c}
  Key = {conv}
  Token = {t1, t2}
  KeyOf <- MCKeyOf
  TokenOf <- MCTokenOf
  KindOf <- MCSyncLast
  Direct = {c}
  AgentStops = {"end_turn", "error"}
  Faults = {"create", "writer", "interrupt"}
INVARIANTS TypeOK MutualExclusion  RecoveryFindsRun
PROPERTIES ImplementsConversationLock EveryRequestAnswered EveryRunConcludes 
CHECK_DEADLOCK FALSE
