\* One link, two browsers, two requests in flight; the window is shorter than
\* the redeem deadline and long enough for a session opened by a late claim; the
\* clock runs past both for the last mint.
SPECIFICATION Spec
CONSTANTS
  Links = {l1}
  Browsers = {b1, b2}
  Requests = {r1, r2}
  Window = 2
  Deadline = 3
  MaxMailboxes = 1
  MaxNow = 6
  LastMint = 0
  None = None
CHECK_DEADLOCK FALSE
INVARIANTS OneBrowser LimitsHold
PROPERTIES RetiredForGood EventuallyRetired
