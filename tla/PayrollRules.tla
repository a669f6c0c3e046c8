----------------------------- MODULE PayrollRules -----------------------------
(***************************************************************************)
(* How the approved records of a period become payable minutes by category *)
(* and a gross pay: payroll-rules.ts and the loop over the records in      *)
(* calculatePayrollComputation.  Instants are ticks of a clock that starts *)
(* at 00:00 UTC and has TicksPerMinute ticks to the minute; the hours of   *)
(* the rules keep their proportions when MinutesPerHour is not 60.         *)
(***************************************************************************)
EXTENDS Integers, Sequences, FiniteSets, FiniteSetsExt

CONSTANTS
  TicksPerMinute,   \* how finely a check-in can miss the full minute
  MinutesPerHour,   \* 60 in the code
  HourlyRate,       \* hourlyRateKrw
  Multipliers,      \* in percent
  Lists,            \* the answers listApprovedInPeriod can give
  Nil               \* a record without check-out

Category == {"regular", "overtime", "night", "holiday"}

Minutes == [Category -> Nat]

\* The schemas bound the breaks, not the order of the two instants.
Record ==
  [checkIn : Nat, checkOut : Nat \cup {Nil}, breaks : Nat, holiday : BOOLEAN]

ASSUME RulesAssumption ==
  /\ TicksPerMinute \in Nat \ {0}
  /\ MinutesPerHour \in Nat \ {0}
  /\ HourlyRate \in Nat \ {0}
  /\ Multipliers \in [Category -> Nat \ {0}]
  /\ Lists \subseteq Seq(Record)
  /\ Nil \notin Nat

VARIABLES
  records,   \* the answer of the store
  at,        \* "next" record, "scan" for night minutes, "done"
  index,     \* the record the loop is at
  cursor,    \* of overlapMinutesInWindow
  rawNight,  \* its count
  totals,    \* payable minutes of the records before index
  gross      \* grossPayKrw, once done

vars == <<records, at, index, cursor, rawNight, totals, gross>>

TicksPerHour == TicksPerMinute * MinutesPerHour

Standard == 8 * MinutesPerHour   \* 480 minutes

NightBase == 3 * MinutesPerHour  \* 180 minutes

-----------------------------------------------------------------------------
(* payroll-rules.ts *)

\* Seconds that do not fill a minute are dropped.
workedMinutes(r) ==
  IF r.checkOut <= r.checkIn THEN 0
  ELSE Max({0, (r.checkOut - r.checkIn) \div TicksPerMinute - r.breaks})

UtcMutant(t) == (t \div TicksPerHour) % 24 < 4

\* Seoul is nine hours ahead all year round; the window is 00:00 to 04:00.
inWindow(t) == (t \div TicksPerHour + 9) % 24 < 4

OvertimeOf(worked) == Max({0, worked - Standard})

holidayMinutes(worked) ==
  [regular |-> 0, overtime |-> OvertimeOf(worked), night |-> 0,
   holiday |-> Min({worked, Standard})]

TwiceMutant(worked, raw) ==
  [regular |-> Min({worked, Standard}), overtime |-> OvertimeOf(worked),
   night |-> Min({raw, worked, Standard}), holiday |-> 0]

\* Night minutes come out of the regular ones, never out of the overtime.
workdayMinutes(worked, raw) ==
  LET base == Min({worked, Standard})
      night == Min({raw, base})
  IN  [regular |-> base - night, overtime |-> OvertimeOf(worked),
       night |-> night, holiday |-> 0]

NoOvertimeMutant(m) ==
  IF m.holiday > 0 THEN 0 ELSE m.overtime * 100 * Multipliers.overtime

\* The overtime of a period with a holiday in it is all holiday overtime.
OvertimePay(m) ==
  IF m.holiday > 0
  THEN m.overtime * Multipliers.holiday * Multipliers.overtime
  ELSE m.overtime * 100 * Multipliers.overtime

\* Night minutes beyond the third hour carry the overtime premium as well.
NightPay(m) ==
  LET base == Min({m.night, NightBase})
  IN  base * 100 * Multipliers.night
        + (m.night - base) * 100 * (Multipliers.night + Multipliers.overtime - 100)

\* Math.round of an hourly rate for minutes weighed in hundredths of a percent.
\* The doubles' own rounding errors are left out.
Krw(weighed) ==
  LET whole == 10000 * MinutesPerHour
  IN  (2 * weighed * HourlyRate + whole) \div (2 * whole)

Weighed(m) ==
  100 * (m.regular * Multipliers.regular + m.holiday * Multipliers.holiday)
    + OvertimePay(m) + NightPay(m)

calculateGrossPay(m) == Krw(Weighed(m))

-----------------------------------------------------------------------------
(* The loop over the records *)

Current == records[index]

Take(m) ==
  /\ totals' = [k \in Category |-> totals[k] + m[k]]
  /\ index' = index + 1
  /\ at' = "next"

\* No check-out: the record is counted elsewhere and not paid.
Skip ==
  /\ at = "next" /\ index <= Len(records)
  /\ Current.checkOut = Nil
  /\ index' = index + 1
  /\ UNCHANGED <<records, at, cursor, rawNight, totals, gross>>

TakeHoliday ==
  /\ at = "next" /\ index <= Len(records)
  /\ Current.checkOut # Nil /\ Current.holiday
  /\ Take(holidayMinutes(workedMinutes(Current)))
  /\ UNCHANGED <<records, cursor, rawNight, gross>>

StartScan ==
  /\ at = "next" /\ index <= Len(records)
  /\ Current.checkOut # Nil /\ ~Current.holiday
  /\ at' = "scan"
  /\ cursor' = Current.checkIn
  /\ rawNight' = 0
  /\ UNCHANGED <<records, index, totals, gross>>

\* The loop of overlapMinutesInWindow goes on while a whole minute is left.
MinuteLeft == cursor + TicksPerMinute <= Current.checkOut

ScanMinute ==
  /\ at = "scan" /\ MinuteLeft
  /\ cursor' = cursor + TicksPerMinute
  /\ rawNight' = IF inWindow(cursor) THEN rawNight + 1 ELSE rawNight
  /\ UNCHANGED <<records, at, index, totals, gross>>

TakeWorkday ==
  /\ at = "scan" /\ ~MinuteLeft
  /\ Take(workdayMinutes(workedMinutes(Current), rawNight))
  /\ UNCHANGED <<records, cursor, rawNight, gross>>

Price ==
  /\ at = "next" /\ index > Len(records)
  /\ at' = "done"
  /\ gross' = calculateGrossPay(totals)
  /\ UNCHANGED <<records, index, cursor, rawNight, totals>>

Init ==
  /\ records \in Lists
  /\ at = "next"
  /\ index = 1
  /\ cursor = 0
  /\ rawNight = 0
  /\ totals = [k \in Category |-> 0]
  /\ gross = 0

Next == Skip \/ TakeHoliday \/ StartScan \/ ScanMinute \/ TakeWorkday \/ Price

Spec == Init /\ [][Next]_vars

-----------------------------------------------------------------------------
\* Whether a clock in Seoul shows less than four hours since midnight.
Night(t) == (t + 9 * TicksPerHour) % (24 * TicksPerHour) < 4 * TicksPerHour

\* The ticks from a up to b that are night.
NightTicks(a, b) == Cardinality({t \in a .. b - 1 : Night(t)})

\* The count of whole minutes from the check-in on, which samples the hour once
\* a minute and seldom on the minute, stays within a minute of the night that
\* has passed, over any number of nights; of nights that have passed entirely it
\* misses nothing.
NightTrue ==
  at = "scan" =>
    LET missed == NightTicks(Current.checkIn, cursor) - TicksPerMinute * rawNight
    IN  /\ - TicksPerMinute < missed /\ missed < TicksPerMinute
        /\ ~Night(Current.checkIn) /\ ~Night(cursor) => missed = 0

\* The minutes the code finds worked in the records taken so far, each by its
\* record and its place in the shift.
Taken ==
  UNION {{n} \X (1 .. IF records[n].checkOut = Nil THEN 0 ELSE workedMinutes(records[n])) :
           n \in 1 .. index - 1}

\* Whatever a shift is rounded to, each minute found worked is in one category and
\* in one only, although night and overtime are cut from the same shift by two
\* counts that know nothing of each other: beyond the eighth hour of a record it is
\* overtime, before that it is holiday or, on a workday, regular or night. No
\* category is ever negative, also where a check-out comes before its check-in, the
\* breaks are longer than the shift or the night is longer than what they leave.
MinutesAccounted ==
  LET late == {m \in Taken : m[2] > Standard}
      onHolidays == {m \in Taken : m[2] <= Standard /\ records[m[1]].holiday}
      onWorkdays == {m \in Taken : m[2] <= Standard /\ ~records[m[1]].holiday}
  IN  /\ totals \in Minutes
      /\ totals.overtime = Cardinality(late)
      /\ totals.holiday = Cardinality(onHolidays)
      /\ totals.regular + totals.night = Cardinality(onWorkdays)

\* With premiums that are no discounts, one more approved record never lowers
\* the pay of a period, also where it is the first holiday and moves all of the
\* period's overtime to another rate.
MoreWorkNeverPaysLess ==
  [][(\A k \in Category : Multipliers[k] >= 100) =>
       calculateGrossPay(totals') >= calculateGrossPay(totals)]_vars

HolidayOvertime(n) ==
  IF records[n].checkOut # Nil /\ records[n].holiday
  THEN OvertimeOf(workedMinutes(records[n])) ELSE 0

\* "Holiday minutes: first 480 minutes => holiday multiplier, beyond 480 minutes
\* => holiday * overtime combined multiplier" (time-and-payroll-rules.md): the
\* combined rate is for overtime of holidays, that of workdays has its own.
CombinedRateForHolidays ==
  LET late == MapThenSumSet(HolidayOvertime, 1 .. Len(records))
      weighed ==
        100 * (totals.regular * Multipliers.regular
                 + totals.holiday * Multipliers.holiday
                 + (totals.overtime - late) * Multipliers.overtime)
          + late * Multipliers.holiday * Multipliers.overtime + NightPay(totals)
  IN  at = "done" => gross = Krw(weighed)
=============================================================================
