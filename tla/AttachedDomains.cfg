\* Three requests at a time and four in all, over two services and two domains;
\* a service may have two ports; one stop and one failing call.
SPECIFICATION Spec
CONSTANTS
  Calls = {c1, c2, c3}
  Services = {s1, s2}
  Domains = {d1, d2}
  None = None
  MaxCalls = 4
  MaxPorts = 2
  MaxStops = 1
  MaxErrors = 1
SYMMETRY Symmetry
INVARIANTS VhostFollowsLink DeadLinkOnlyIfMissed
CHECK_DEADLOCK FALSE
