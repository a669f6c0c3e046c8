\* Two requests at once, one crash, three schedules; then the ids run out.
SPECIFICATION Spec
CONSTANTS
  Handlers = {h1, h2}
  Employees = {alice, bob}
  Organizations = {o1}
  ScheduleIds = {s1, s2, s3}
  Horizon = 3
  MaxCrashes = 1
  Nil = Nil
SYMMETRY Symmetry
INVARIANTS BookingsBounded TrailOrdered
PROPERTY RefusedIffTaken
CHECK_DEADLOCK FALSE
