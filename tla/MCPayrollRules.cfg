\* Every phase of a day against the clock, one to three records.
SPECIFICATION Spec
CONSTANTS
  TicksPerMinute = 3
  MinutesPerHour = 1
  HourlyRate = 7
  Multipliers <- DefaultMultipliers
  Lists <- AllLists
  MaxLength = 90
  Breaks = {0, 2}
  Nil = Nil
INVARIANTS NightTrue MinutesAccounted
PROPERTY MoreWorkNeverPaysLess
CHECK_DEADLOCK FALSE
