\* Two requests at once, one crash, one record: what holds under every interleaving.
SPECIFICATION FairSpec
CONSTANTS
  Clerks = {c1, c2}
  Employees = {alice}
  RecordIds = {r1}
  Horizon = 1
  Minutes = {1}
  MaxCrashes = 1
  Nil = Nil
INVARIANTS StampCoherent TrailOrdered
PROPERTIES DecisionSticks EveryDecisionAnnounced
