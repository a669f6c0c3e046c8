\* Two requests at once, one crash, either store, permissions on or off.
SPECIFICATION MCSpec
CONSTANTS
  admin = admin
  guest = guest
  hire = hire
  bogus = bogus
  rbacManage = rbacManage
  Handlers = {h1, h2}
  ActorRoles = {admin}
  RoleIds = {admin, guest}
  Permissions = {rbacManage, hire}
  Needs = {hire}
  Defaults <- SomeDefaults
  Seed <- SomeSeed
  Lists <- SomeLists
  MaxCrashes = 1
  Nil = Nil
SYMMETRY Symmetry
INVARIANTS StoredIsExplained
PROPERTIES VerdictExplained LockoutIsFinal
