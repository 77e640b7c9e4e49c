SPECIFICATION Spec
CONSTANTS
  u1 = u1
  u2 = u2
  c1 = c1
  c2 = c2
  c3 = c3
  Absent = Absent
  Clients = {c1, c2, c3}
  Tasks = {1, 2}
  Contents = {"x", "y"}
  Releases <- MCReleases
  Scenarios <- MCScenarios
  MaxFaults = 1
  Users = {u1, u2}
  Roles = {"member", "admin"}
  Names = {"o"}
  Times = {1, 2}
INVARIANTS StartupsDoNotCollide LoadsAreWhole AuditTellsState AcceptedIsStored
PROPERTIES ImplementsVersionedStore LastAdminLostOnlyInRace
SYMMETRY Symmetry
