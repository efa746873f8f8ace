\* Two passes over a vendor and the customer of its Linux user, one fault.
SPECIFICATION PanelSpec
CONSTANTS
  Passes = {p1, p2}
  Owner = owner
  v = v
  u = u
  Accounts = {v, u}
  Roots = {v}
  TenantOf <- MCTenantOf
  Picked = {v, u}
  Vendor = v
  Placeholder = u
  Attached = d1
  Alias = d2
  Nil = Nil
  MaxFailures = 1
SYMMETRY Symmetry
CHECK_DEADLOCK FALSE
INVARIANTS RosterConverges ProjectFiled
PROPERTY AttachmentsArrive
