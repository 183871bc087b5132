SPECIFICATION Spec
CONSTANTS
  s1 = s1
  s2 = s2
  j1 = j1
  a1 = a1
  a2 = a2
  Server = {s1, s2}
  Job = {j1}
  Agent = {a1}
  AgentsOf <- MCAllAgents
  MayCancel = {}
  Results = {"completed", "failed"}
  RethinkMay = FALSE
  Faults = {"crash", "lead", "recycle", "shutdown"}
  MaxFaults = 2
  MaxSteps = 1
  MaxBatches = 2
INVARIANTS OneLeader OnePoller
CHECK_DEADLOCK FALSE
