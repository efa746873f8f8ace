\* One upload of three rows, with two restarts and two refused calls at any
\* points.
SPECIFICATION Spec
CONSTANTS
  Jobs = {j1}
  NRows = 3
  MaxRestarts = 2
  MaxFaults = 2
CHECK_DEADLOCK FALSE
INVARIANTS CancelStopsWork FinishedRowAddsUp
PROPERTIES EverySubmittedSettles ImplementsLifecycle
