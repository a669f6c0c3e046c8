\* The same with short single shifts: what counts are the combined records.
SPECIFICATION Spec
CONSTANTS
  TicksPerMinute = 3
  MinutesPerHour = 1
  HourlyRate = 7
  Multipliers <- DefaultMultipliers
  Lists <- AllLists
  MaxLength = 2
  Breaks = {0}
  Nil = Nil
INVARIANT CombinedRateForHolidays
CHECK_DEADLOCK FALSE
