\* One job over up to three domains, with two restarts and two refused calls
\* at any points.
SPECIFICATION Spec
CONSTANTS
  Jobs = {j1}
  MaxDomains = 3
  MaxRestarts = 2
  MaxRefused = 2
CHECK_DEADLOCK FALSE
INVARIANTS RowIsTrue
PROPERTIES EverySyncSettles
