\* Two attendance requests and one payroll request at once.
SPECIFICATION PayPeriodSpec
CONSTANTS
  Operators = {o1}
  Clerks = {c1, c2}
  Employees = {alice}
  RecordIds = {r1}
  RunIds = {x1}
  ProfileIds = {}
  Horizon = 2
  Minutes = {1}
  MinutePay = 1
  Contents = {}
  ManualInputs = {}
  MaxVersion = 1
  MaxCrashes = 0
  MaxFailures = 0
  Nil = Nil
VIEW Untraced
SYMMETRY Symmetry
INVARIANT PaidIsBacked
PROPERTY OverwrittenOnlyLate
CHECK_DEADLOCK FALSE
