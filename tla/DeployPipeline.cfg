SPECIFICATION Spec
CONSTANTS
  p1 = p1
  s1 = s1
  s2 = s2
  Projects = {p1}
  Services = {s1, s2}
  ProjectOf <- MCProjectOf
  SlNo <- MCSlNo
  Workers = {w1, w2}
  Batches = {b1}
  QueueCap = 1
  MaxRedeploys = 2
  MaxBatches = 1
  MaxCommits = 2
  MaxFaults = 1
  None = None
INVARIANTS
  OneDeployPerProject
  BuildsWhatItReports
  IndicatorsAreTrue
PROPERTIES
  EveryJobSettles
CHECK_DEADLOCK FALSE
