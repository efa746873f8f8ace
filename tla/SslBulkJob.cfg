\* One job of two domains, restarted before or after the cutoff.
SPECIFICATION Spec
CONSTANTS
  Jobs = {j1}
  NDomains = 2
  Cutoff = 1
  MaxNow = 3
  MaxRestarts = 2
  MaxFaults = 1
CHECK_DEADLOCK FALSE
INVARIANTS RowIsTrue
PROPERTIES RecoverySparesLive SettlesUnlessCutOff
