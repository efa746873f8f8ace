\* Two transfers from one source, two creations at once, every optional step,
\* one stop, refused write or failed read.
SPECIFICATION Spec
CONSTANTS
  Jobs = {j1, j2}
  Sources = {s1}
  Clients = {c1, c2}
  OptionSets <- MCOptionSets
  MaxFaults = 1
  None = None
SYMMETRY Symmetry
CHECK_DEADLOCK FALSE
INVARIANTS OverlapOnlyByRace GreenMeansCounted CancelHolds NoOrphans
