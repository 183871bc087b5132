SPECIFICATION FairSpec
CONSTANTS
  s1 = s1
  s2 = s2
  j1 = j1
  a1 = a1
  a2 = a2
  Server = {s1, s2}
  Job = {j1}
  Agent = {a1, a2}
  AgentsOf <- MCAllAgents
  MayCancel = {j1}
  Results = {"completed", "failed"}
  RethinkMay = TRUE
  Faults = {"abort", "crash", "fetch", "lead", "retrieve", "send", "shutdown", "store"}
  MaxFaults = 1
  MaxSteps = 1
  MaxBatches = 2
INVARIANTS TypeOK  StepDoneMeansToolRan 
PROPERTY JobEnds
CHECK_DEADLOCK FALSE
