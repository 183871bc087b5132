SPECIFICATION Spec
CONSTANTS
  a = a
  b = b
  c = c
  conv = conv
  t1 = t1
  t2 = t2
  NoReq = NoReq
  Req = {a, b, c}
  Key = {conv}
  Token = {t1, t2}
  KeyOf <- MCKeyOf
  TokenOf <- MCTokenOf
  KindOf <- MCAllBackground
  Direct = {}
  AgentStops = {"end_turn"}
  Faults = {"raise"}
INVARIANT MutualExclusion
CHECK_DEADLOCK FALSE
