SPECIFICATION Spec
CONSTANTS
  a = a
  b = b
  c = c
  conv = conv
  t1 = t1
  t2 = t2
  NoReq = NoReq
  Req = {a, b}
  Key = {conv}
  Token = {t1, t2}
  KeyOf <- MCKeyOf
  TokenOf <- MCTokenOf
  KindOf <- MCForegroundFirst
  Direct = {a}
  AgentStops = {"end_turn", "requires_approval"}
  Faults = {"create", "raise", "load", "interrupt", "cancel", "expire"}
INVARIANTS  StatusFollowsStop
CHECK_DEADLOCK FALSE
