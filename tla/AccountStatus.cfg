\* One operation beside the purger, one request at a time; the clock runs past
\* the TTL and the retention; one failing call or restart.
SPECIFICATION AccountSpec
CONSTANTS
  Sites = {s1}
  Admins = {a1}
  Purger = Purger
  Calls = {r1}
  TTL = 2
  Retention = 1
  LastTrash = 1
  MaxNow = 3
  MaxFaults = 1
CHECK_DEADLOCK FALSE
INVARIANTS BoundedStaleness SitesFollowRow
PROPERTIES  TrashIsEmptied
