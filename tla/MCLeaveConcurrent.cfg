\* Two requests at once, one crash: what holds under every interleaving.
SPECIFICATION Spec
CONSTANTS
  Handlers = {h1, h2}
  Employees = {alice}
  RequestIds = {r1}
  Horizon = 0
  SlotsPerDay = 1
  SeoulOffset = 0
  Years = {1, 2}
  AnnualGrants = {2}
  CarryOverCaps = {1}
  DefaultGrantedDays = 1
  MaxCrashes = 1
  Nil = Nil
SYMMETRY Symmetry
INVARIANTS DecisionCoherent AccrualCoherent TrailOrdered UsageHasApproval
PROPERTIES DecisionSticks OnlySettlementWritesAccrual
