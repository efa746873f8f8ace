\* Two edits over three values, one of them mail, and one operator sync, failing
\* call or restart.
SPECIFICATION RecordSpec
CONSTANTS
  Values = {1, 2, 3}
  MailValues = {2}
  MaxEdits = 2
  MaxEvents = 1
CHECK_DEADLOCK FALSE
INVARIANTS NothingMissed SyncConverges
PROPERTIES EditReachesSync MailNeverDeleted
