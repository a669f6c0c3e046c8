\* Two events, up to one retry, the environment changing under way.
SPECIFICATION FairSpec
CONSTANTS
  receiver = receiver
  Endpoints = {receiver}
  Calls = {c1, c2}
  Settings <- SomeSettings
  MaxSettings = 2
  Nil = Nil
INVARIANTS CopiesBounded FailurePolicy
PROPERTIES FreshOptions EveryCallEnds
CHECK_DEADLOCK FALSE
