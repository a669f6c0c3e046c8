\* Two payroll requests at once, one crash, a profile written up to twice.
SPECIFICATION MCSpec
CONSTANTS
  alice = alice
  bob = bob
  Operators = {o1, o2}
  Employees = {alice, bob}
  RunIds = {x1}
  ProfileIds = {p1}
  Horizon = 1
  MinutePay = 1
  Contents <- SomeContents
  ManualInputs <- SomeInputs
  MaxVersion = 2
  MaxFailures = 1
  Nil = Nil
SYMMETRY Symmetry
INVARIANTS TypeOK NetSound TraceFaithful VersionsUnique
PROPERTY RunsFrozen
CHECK_DEADLOCK FALSE
