\* Two requests and two browsers race over a one-time code (codes are independent
\* rows: the theorem is for any number); two failed logins lock the account, and
\* a second in flight takes the counter to the bound the property states.
SPECIFICATION Spec
CONSTANTS
  Requests = {r1, r2}
  Browsers = {b1, b2}
  Threshold = 2
  MaxAttempts = 1
  MaxCodes = 1
  MaxFailed = 2
  None = None
SYMMETRY Symmetry
CHECK_DEADLOCK FALSE
INVARIANTS CodeOpensOneSession LockoutBounded
PROPERTIES StaleOnlyIfOvertaken
