\* One request at a time: every promise of the leave contract.
SPECIFICATION FairSpec
CONSTANTS
  Handlers = {h1}
  Employees = {alice}
  RequestIds = {r1, r2}
  Horizon = 1
  SlotsPerDay = 2
  SeoulOffset = 1
  Years = {1, 2}
  AnnualGrants = {2}
  CarryOverCaps = {1}
  DefaultGrantedDays = 2
  MaxCrashes = 0
  Nil = Nil
INVARIANTS QuiescentTrail ActiveDisjoint DaysMatchDates BalanceContinuity
PROPERTIES DecisionFinal SettledOnce ImplementsLedger EveryDecisionAnnounced
