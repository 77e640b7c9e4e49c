SPECIFICATION Spec
CONSTANTS
  Workflows = {w1, w2}
  Contents = {c1, c2}
  Runs = {run1}
  Bodies = {x, y}
  Projects = {p1}
  Names = {n1}
  Users = {u1, u2}
  Admin = admin
  Roles = {admin, viewer}
  Audits = {a1, a2, a3}
  None = None
  Torn = Torn
  Corrupt = Corrupt
  Refused = Refused
  Down = Down
  MaxRecords = 5
  MaxCrashes = 2
  MaxFailures = 1
SYMMETRY MCSymmetry
INVARIANT AlwaysOpens
CHECK_DEADLOCK FALSE
