\* Two requests at once, one crash, two tenants, either store, tenancy on or off.
SPECIFICATION MCSpec
CONSTANTS
  Handlers = {h1, h2}
  EmployeeIds = {alice}
  OrgIds = {o1, o2}
  Profiles = {p1}
  MaxCrashes = 1
  Unset = Unset
  Nil = Nil
SYMMETRY Symmetry
INVARIANTS CreatedOnce MovesStick
