\* The first two readers of a balance that has no row yet; nothing crashes.
SPECIFICATION Spec
CONSTANTS
  Handlers = {h1, h2}
  Employees = {alice}
  RequestIds = {r1}
  Horizon = 0
  SlotsPerDay = 1
  SeoulOffset = 0
  Years = {1, 2}
  AnnualGrants = {2}
  CarryOverCaps = {1}
  DefaultGrantedDays = 1
  MaxCrashes = 0
  Nil = Nil
INVARIANT QuiescentTrail
