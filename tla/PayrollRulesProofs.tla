------------------------- MODULE PayrollRulesProofs -------------------------
(***************************************************************************)
(* What the payroll rules do with the records of a period, for clocks and  *)
(* rates of any kind and periods of any length.                            *)
(***************************************************************************)
EXTENDS PayrollRules, FiniteSetTheorems, TLAPS

-----------------------------------------------------------------------------
(* Arithmetic *)

LEMMA MaxWithZero ==
  ASSUME NEW a \in Int
  PROVE  Max({0, a}) = IF a >= 0 THEN a ELSE 0
  BY DEF Max

LEMMA MinOfTwo ==
  ASSUME NEW a \in Int, NEW b \in Int
  PROVE  Min({a, b}) = IF a <= b THEN a ELSE b
  BY DEF Min

LEMMA Quotient ==
  ASSUME NEW n \in Nat, NEW s \in Nat \ {0}
  PROVE  /\ n \div s \in Nat
         /\ (n \div s) * s <= n /\ n < (n \div s) * s + s
  OBVIOUS

LEMMA QuotientIs ==
  ASSUME NEW n \in Nat, NEW s \in Nat \ {0}, NEW q \in Nat, q * s <= n, n < q * s + s
  PROVE  n \div s = q
  OBVIOUS

LEMMA RemainderIs ==
  ASSUME NEW n \in Nat, NEW s \in Nat \ {0}, NEW q \in Nat, NEW r \in 0 .. s - 1,
         n = q * s + r
  PROVE  n % s = r
  OBVIOUS

LEMMA ProductOrder ==
  ASSUME NEW a \in Int, NEW b \in Int, NEW s \in Nat, a <= b
  PROVE  a * s <= b * s
  OBVIOUS

LEMMA MultipleOrder ==
  ASSUME NEW a \in Int, NEW b \in Int, NEW s \in Nat \ {0}, a * s < b * s + s
  PROVE  a <= b
<1>1. (b + 1) * s = b * s + s
  OBVIOUS
<1>2. CASE b + 1 <= a
  <2>1. (b + 1) * s <= a * s
    BY <1>2, ProductOrder
  <2> QED
    BY <1>1, <2>1
<1> QED
  BY <1>2

\* What fits n times into a length is what its quotient says.
LEMMA Fitting ==
  ASSUME NEW n \in Nat, NEW s \in Nat \ {0}, NEW x \in Nat
  PROVE  x * s <= n <=> x <= n \div s
<1> PICK q \in Nat : q = n \div s
  BY Quotient
<1>1. q * s <= n /\ n < q * s + s
  BY Quotient
<1> PICK p \in Nat, y \in Nat : p = q * s /\ y = x * s
  OBVIOUS
<1>2. ASSUME y <= n PROVE x <= q
  <2>1. x * s < q * s + s
    BY <1>1, <1>2
  <2> QED
    BY <2>1, MultipleOrder
<1>3. ASSUME x <= q PROVE y <= n
  <2>1. y <= p
    BY <1>3, ProductOrder
  <2> QED
    BY <1>1, <2>1
<1> QED
  BY <1>2, <1>3

LEMMA DisjointUnion ==
  ASSUME NEW S, NEW U, IsFiniteSet(S), IsFiniteSet(U), S \cap U = {}
  PROVE  /\ IsFiniteSet(S \cup U)
         /\ Cardinality(S \cup U) = Cardinality(S) + Cardinality(U)
<1>1. /\ IsFiniteSet(S \cup U)
      /\ Cardinality(S \cup U) = Cardinality(S) + Cardinality(U) - Cardinality({})
  BY FS_Union
<1>2. Cardinality({}) = 0 /\ Cardinality(S) \in Nat /\ Cardinality(U) \in Nat
  BY FS_EmptySet, FS_CardinalityType
<1> QED
  BY <1>1, <1>2

-----------------------------------------------------------------------------
(* The clock *)

LEMMA HourLength == TicksPerHour \in Nat \ {0}
<1> PICK a \in Nat \ {0}, b \in Nat \ {0} : a = TicksPerMinute /\ b = MinutesPerHour
  BY RulesAssumption
<1>1. a * b \in Nat /\ a * b # 0
  OBVIOUS
<1> QED
  BY <1>1 DEF TicksPerHour

\* n is q times s and r more.
Splits(n, q, s, r) == q \in Nat /\ r \in 0 .. s - 1 /\ n = q * s + r

LEMMA SplitsSome ==
  ASSUME NEW n \in Nat, NEW s \in Nat \ {0}
  PROVE  \E r : Splits(n, n \div s, s, r)
<1> PICK q \in Nat : q = n \div s
  BY Quotient
<1>1. q * s \in Int /\ q * s <= n /\ n < q * s + s
  BY Quotient
<1> PICK r \in Int : r = n - q * s
  BY <1>1
<1>2. r \in 0 .. s - 1 /\ n = q * s + r
  BY <1>1
<1> QED
  BY <1>2 DEF Splits

LEMMA SplitsByDay ==
  ASSUME NEW n \in Nat
  PROVE  Splits(n, n \div 24, 24, n % 24)
  BY DEF Splits

\* The first four hours of a day, counted from its midnight in ticks.
LEMMA HoursSinceMidnight ==
  ASSUME NEW t \in Nat, NEW H \in Nat \ {0}, NEW q, NEW r, NEW d, NEW e,
         Splits(t, q, H, r), Splits(q + 9, d, 24, e)
  PROVE  (t + 9 * H) % (24 * H) < 4 * H <=> e < 4
<1>1. /\ q \in Nat /\ r \in 0 .. H - 1 /\ t = q * H + r
      /\ d \in Nat /\ e \in 0 .. 23 /\ q + 9 = d * 24 + e
  BY DEF Splits
<1> PICK p \in Int : p = e * H
  BY <1>1
<1>2. p >= 0 /\ p <= 23 * H
  <2>1. 0 * H <= e * H /\ e * H <= 23 * H
    BY <1>1, ProductOrder
  <2> QED
    BY <2>1
<1>3. p + r \in 0 .. 24 * H - 1
  BY <1>1, <1>2
<1>4. t + 9 * H = d * (24 * H) + (p + r)
  <2> PICK a \in Nat : a = (q + 9) * H
    BY <1>1
  <2>1. a = q * H + 9 * H
    BY <1>1
  <2>2. a = (d * 24 + e) * H
    BY <1>1
  <2>3. (d * 24 + e) * H = d * (24 * H) + e * H
    BY <1>1
  <2> QED
    BY <1>1, <2>1, <2>2, <2>3
<1>5. (t + 9 * H) % (24 * H) = p + r
  <2>1. t + 9 * H \in Nat /\ 24 * H \in Nat \ {0}
    OBVIOUS
  <2> QED
    BY <1>1, <1>3, <1>4, <2>1, RemainderIs
<1>6. CASE e <= 3
  <2>1. e * H <= 3 * H
    BY <1>1, <1>6, ProductOrder
  <2> QED
    BY <1>1, <1>5, <1>6, <2>1
<1>7. CASE 4 <= e
  <2>1. 4 * H <= e * H
    BY <1>1, <1>7, ProductOrder
  <2> QED
    BY <1>1, <1>5, <1>7, <2>1
<1> QED
  BY <1>1, <1>6, <1>7

\* The hour a clock in Seoul shows is in the window when less than four hours
\* have passed since its midnight.
LEMMA WindowIsNight ==
  ASSUME NEW t \in Nat
  PROVE  inWindow(t) <=> Night(t)
<1> PICK H \in Nat \ {0} : H = TicksPerHour
  BY HourLength
<1> PICK q \in Nat : q = t \div H
  BY Quotient
<1> PICK r : Splits(t, q, H, r)
  BY SplitsSome
<1>1. Splits(q + 9, (q + 9) \div 24, 24, (q + 9) % 24)
  BY SplitsByDay
<1>2. (t + 9 * H) % (24 * H) < 4 * H <=> (q + 9) % 24 < 4
  BY <1>1, HoursSinceMidnight
<1> QED
  BY <1>2 DEF inWindow, Night

\* Ticks of one minute are in one hour.
LEMMA HourOfMinute ==
  ASSUME NEW t \in Nat
  PROVE  t \div TicksPerHour = (t \div TicksPerMinute) \div MinutesPerHour
<1> PICK T \in Nat \ {0}, M \in Nat \ {0} : T = TicksPerMinute /\ M = MinutesPerHour
  BY RulesAssumption
<1> PICK q \in Nat : q = t \div T
  BY Quotient
<1> PICK h \in Nat : h = q \div M
  BY Quotient
<1>1. q * T <= t /\ t < q * T + T
  BY Quotient
<1>2. h * M <= q /\ q + 1 <= h * M + M
  <2>1. h * M <= q /\ q < h * M + M /\ h * M \in Int
    BY Quotient
  <2> QED
    BY <2>1
<1>3. (h * M) * T <= q * T /\ (q + 1) * T <= (h * M + M) * T
  BY <1>2, ProductOrder
<1>4. /\ (h * M) * T = h * (T * M) /\ (q + 1) * T = q * T + T
      /\ (h * M + M) * T = h * (T * M) + T * M
  OBVIOUS
<1>5. h * (T * M) <= t /\ t < h * (T * M) + T * M
  BY <1>1, <1>3, <1>4
<1>6. T * M \in Nat \ {0}
  BY HourLength DEF TicksPerHour
<1>7. t \div (T * M) = h
  BY <1>5, <1>6, QuotientIs
<1> QED
  BY <1>7 DEF TicksPerHour

LEMMA MinuteWindow ==
  ASSUME NEW t \in Nat, NEW u \in Nat, t \div TicksPerMinute = u \div TicksPerMinute
  PROVE  inWindow(t) <=> inWindow(u)
  BY HourOfMinute DEF inWindow

-----------------------------------------------------------------------------
(* Night ticks *)

LEMMA IntervalSize ==
  ASSUME NEW a \in Nat, NEW b \in Nat, a <= b
  PROVE  IsFiniteSet(a .. b - 1) /\ Cardinality(a .. b - 1) = b - a
<1> PICK c \in Int : c = b - 1
  OBVIOUS
<1>1. IsFiniteSet(a .. c) /\ Cardinality(a .. c) = IF a > c THEN 0 ELSE c - a + 1
  BY FS_Interval
<1>2. (IF a > c THEN 0 ELSE c - a + 1) = b - a
  OBVIOUS
<1> QED
  BY <1>1, <1>2

\* The minutes of one record after its first a.
LEMMA RowSize ==
  ASSUME NEW x, NEW a \in Nat, NEW w \in Nat
  PROVE  /\ IsFiniteSet({x} \X (a + 1 .. w))
         /\ Cardinality({x} \X (a + 1 .. w)) = IF w >= a THEN w - a ELSE 0
<1> PICK c \in Int : c = a + 1
  OBVIOUS
<1>1. IsFiniteSet(c .. w) /\ Cardinality(c .. w) = IF c > w THEN 0 ELSE w - c + 1
  BY FS_Interval
<1>2. (IF c > w THEN 0 ELSE w - c + 1) = IF w >= a THEN w - a ELSE 0
  OBVIOUS
<1>3. IsFiniteSet(a + 1 .. w) /\ Cardinality(a + 1 .. w) = IF w >= a THEN w - a ELSE 0
  BY <1>1, <1>2
<1> PICK S : S = a + 1 .. w
  OBVIOUS
<1>4. IsFiniteSet({x}) /\ Cardinality({x}) = 1
  BY FS_Singleton
<1>5. IsFiniteSet({x} \X S) /\ Cardinality({x} \X S) = Cardinality({x}) * Cardinality(S)
  BY <1>3, <1>4, FS_Product
<1> QED
  BY <1>3, <1>4, <1>5

LEMMA RowFromFirst ==
  ASSUME NEW x, NEW w \in Nat
  PROVE  /\ IsFiniteSet({x} \X (1 .. w)) /\ Cardinality({x} \X (1 .. w)) = w
<1> PICK a \in Nat : a = 0
  OBVIOUS
<1>1. /\ IsFiniteSet({x} \X (a + 1 .. w))
      /\ Cardinality({x} \X (a + 1 .. w)) = IF w >= a THEN w - a ELSE 0
  BY RowSize
<1>2. a + 1 = 1 /\ (IF w >= a THEN w - a ELSE 0) = w
  OBVIOUS
<1> QED
  BY <1>1, <1>2

LEMMA NightCount ==
  ASSUME NEW a \in Nat, NEW b \in Nat, a <= b
  PROVE  IsFiniteSet({t \in a .. b - 1 : Night(t)}) /\ NightTicks(a, b) \in Nat
<1>1. IsFiniteSet(a .. b - 1)
  BY IntervalSize
<1>2. {t \in a .. b - 1 : Night(t)} \subseteq a .. b - 1
  OBVIOUS
<1> QED
  BY <1>1, <1>2, FS_Subset, FS_CardinalityType DEF NightTicks

LEMMA NightSplit ==
  ASSUME NEW a \in Nat, NEW b \in Nat, NEW c \in Nat, a <= b, b <= c
  PROVE  NightTicks(a, c) = NightTicks(a, b) + NightTicks(b, c)
<1> DEFINE S == {t \in a .. b - 1 : Night(t)}
           U == {t \in b .. c - 1 : Night(t)}
<1>1. {t \in a .. c - 1 : Night(t)} = S \cup U /\ S \cap U = {}
  OBVIOUS
<1>2. /\ IsFiniteSet(S) /\ IsFiniteSet(U)
      /\ Cardinality(S) \in Nat /\ Cardinality(U) \in Nat
  BY NightCount DEF NightTicks
<1>3. NightTicks(a, c) = Cardinality(S \cup U) /\ NightTicks(a, b) = Cardinality(S)
        /\ NightTicks(b, c) = Cardinality(U)
  BY <1>1 DEF NightTicks
<1> HIDE DEF S, U
<1> QED
  BY <1>1, <1>2, <1>3, DisjointUnion

\* A stretch that is night throughout, or day throughout.
Share(t) == IF inWindow(t) THEN 1 ELSE 0

LEMMA NightUniform ==
  ASSUME NEW a \in Nat, NEW b \in Nat, a <= b, NEW u,
         \A t \in a .. b - 1 : inWindow(t) <=> inWindow(u)
  PROVE  NightTicks(a, b) = IF inWindow(u) THEN b - a ELSE 0
<1>1. \A t \in a .. b - 1 : Night(t) <=> inWindow(u)
  BY WindowIsNight
<1>2. CASE inWindow(u)
  <2>1. {t \in a .. b - 1 : Night(t)} = a .. b - 1
    BY <1>1, <1>2
  <2> QED
    BY <1>2, <2>1, IntervalSize DEF NightTicks
<1>3. CASE ~ inWindow(u)
  <2>1. {t \in a .. b - 1 : Night(t)} = {}
    BY <1>1, <1>3
  <2> QED
    BY <1>3, <2>1, FS_EmptySet DEF NightTicks
<1> QED
  BY <1>2, <1>3

\* How far an instant is into its minute.
Phase(t) == t - (t \div TicksPerMinute) * TicksPerMinute

\* A minute that begins within a minute of the clock ends within the next: its
\* first part is night as its start is, the rest as its end is.
LEMMA NightOfMinute ==
  ASSUME NEW c \in Nat
  PROVE  /\ c + TicksPerMinute \in Nat
         /\ Phase(c) \in 0 .. TicksPerMinute - 1
         /\ Phase(c + TicksPerMinute) = Phase(c)
         /\ NightTicks(c, c + TicksPerMinute) =
              TicksPerMinute * Share(c)
                + Phase(c) * (Share(c + TicksPerMinute) - Share(c))
<1> PICK T \in Nat \ {0} : T = TicksPerMinute
  BY RulesAssumption
<1> PICK q \in Nat : q = c \div T
  BY Quotient
<1> PICK p \in Nat : p = q * T
  OBVIOUS
<1>1. p <= c /\ c < p + T
  BY Quotient
<1> PICK f \in 0 .. T - 1 : f = c - p
  BY <1>1
<1>2. Phase(c) = f
  BY DEF Phase
<1>3. (q + 1) * T = p + T
  OBVIOUS
<1>4. \A t \in c .. p + T - 1 : t \div T = q
  <2> TAKE t \in c .. p + T - 1
  <2>1. t \in Nat /\ q * T <= t /\ t < q * T + T
    BY <1>1
  <2> QED
    BY <2>1, QuotientIs
<1>5. \A t \in p + T .. c + T : t \div T = q + 1
  <2> TAKE t \in p + T .. c + T
  <2> PICK k \in Nat : k = q + 1
    OBVIOUS
  <2>1. t \in Nat /\ k * T <= t /\ t < k * T + T
    BY <1>1, <1>3
  <2>2. t \div T = k
    BY <2>1, QuotientIs
  <2> QED
    BY <2>2
<1>6. (c + T) \div T = q + 1
  BY <1>1, <1>5
<1>7. Phase(c + T) = f
  BY <1>3, <1>6 DEF Phase
<1>8. NightTicks(c, p + T) = IF inWindow(c) THEN p + T - c ELSE 0
  <2>1. \A t \in c .. p + T - 1 : inWindow(t) <=> inWindow(c)
    BY <1>4, MinuteWindow
  <2> QED
    BY <1>1, <2>1, NightUniform
<1>9. NightTicks(p + T, c + T) = IF inWindow(c + T) THEN c - p ELSE 0
  <2>1. \A t \in p + T .. c + T - 1 : inWindow(t) <=> inWindow(c + T)
    BY <1>5, <1>6, MinuteWindow
  <2>2. (c + T) - (p + T) = c - p
    OBVIOUS
  <2> QED
    BY <1>1, <2>1, <2>2, NightUniform
<1>10. NightTicks(c, c + T) = NightTicks(c, p + T) + NightTicks(p + T, c + T)
  BY <1>1, NightSplit
<1>11. NightTicks(c, c + T) = T * Share(c) + f * (Share(c + T) - Share(c))
  BY <1>8, <1>9, <1>10 DEF Share
<1> QED
  BY <1>2, <1>7, <1>11

-----------------------------------------------------------------------------
(* The minutes of a record *)

LEMMA WorkedIs ==
  ASSUME NEW r \in Record, r.checkOut # Nil
  PROVE  workedMinutes(r) \in Nat
<1> PICK i \in Nat, o \in Nat, b \in Nat :
      i = r.checkIn /\ o = r.checkOut /\ b = r.breaks
  BY DEF Record
<1> PICK T \in Nat \ {0} : T = TicksPerMinute
  BY RulesAssumption
<1>1. CASE o <= i
  BY <1>1 DEF workedMinutes
<1>2. CASE i < o
  <2> PICK D \in Nat : D = o - i
    BY <1>2
  <2> PICK q \in Nat : q = D \div T
    BY Quotient
  <2>1. workedMinutes(r) = Max({0, q - b})
    BY <1>2 DEF workedMinutes
  <2> QED
    BY <2>1, MaxWithZero
<1> QED
  BY <1>1, <1>2

Sums(s, t, m) == s = [k \in Category |-> t[k] + m[k]]

LEMMA SumsIn ==
  ASSUME NEW s, NEW t \in Minutes, NEW m \in Minutes, Sums(s, t, m)
  PROVE  /\ s \in Minutes /\ \A k \in Category : s[k] = t[k] + m[k]
  BY DEF Sums, Minutes

LEMMA PartsOf ==
  ASSUME NEW m \in Minutes
  PROVE  /\ m.regular \in Nat /\ m.overtime \in Nat /\ m.night \in Nat
         /\ m.holiday \in Nat
  BY DEF Minutes, Category

LEMMA StandardLength == Standard \in Nat
  BY RulesAssumption DEF Standard

LEMMA OvertimeIs ==
  ASSUME NEW w \in Nat
  PROVE  OvertimeOf(w) = IF w >= Standard THEN w - Standard ELSE 0
  BY StandardLength, MaxWithZero DEF OvertimeOf

\* b of the w minutes of a record are within its first eight hours.
Within(b, w) == b \in Nat /\ b = IF w <= Standard THEN w ELSE Standard

\* The categories of the minutes of a holiday, or of a workday.
Portions(m, w, b, holiday) ==
  /\ m \in Minutes /\ Within(b, w)
  /\ m.overtime = OvertimeOf(w)
  /\ m.holiday = IF holiday THEN b ELSE 0
  /\ m.regular + m.night = IF holiday THEN 0 ELSE b

LEMMA HolidayParts ==
  ASSUME NEW w \in Nat
  PROVE  \E b : Portions(holidayMinutes(w), w, b, TRUE)
<1> PICK o \in Nat : o = OvertimeOf(w)
  BY OvertimeIs, StandardLength
<1> PICK d \in Nat : d = Min({w, Standard}) /\ Within(d, w)
  BY StandardLength, MinOfTwo DEF Within
<1>1. holidayMinutes(w) = [regular |-> 0, overtime |-> o, night |-> 0, holiday |-> d]
  BY DEF holidayMinutes
<1>2. Portions(holidayMinutes(w), w, d, TRUE)
  BY <1>1 DEF Minutes, Category, Portions
<1> QED
  BY <1>2

LEMMA WorkdayParts ==
  ASSUME NEW w \in Nat, NEW raw \in Nat
  PROVE  \E b : Portions(workdayMinutes(w, raw), w, b, FALSE)
<1> PICK o \in Nat : o = OvertimeOf(w)
  BY OvertimeIs, StandardLength
<1> PICK d \in Nat : d = Min({w, Standard}) /\ Within(d, w)
  BY StandardLength, MinOfTwo DEF Within
<1> PICK n \in 0 .. d : n = Min({raw, d})
  BY MinOfTwo
<1>1. workdayMinutes(w, raw) =
        [regular |-> d - n, overtime |-> o, night |-> n, holiday |-> 0]
  BY DEF workdayMinutes
<1>2. d - n \in Nat /\ (d - n) + n = d
  OBVIOUS
<1>3. Portions(workdayMinutes(w, raw), w, d, FALSE)
  BY <1>1, <1>2 DEF Minutes, Category, Portions
<1> QED
  BY <1>3

-----------------------------------------------------------------------------
(* The loops *)

\* The three kinds of minutes among some.
LateIn(S) == {m \in S : m[2] > Standard}

OnHolidaysIn(S) == {m \in S : m[2] <= Standard /\ records[m[1]].holiday}

OnWorkdaysIn(S) == {m \in S : m[2] <= Standard /\ ~records[m[1]].holiday}

Typing ==
  /\ records \in Seq(Record)
  /\ at \in {"next", "scan", "done"}
  /\ index \in 1 .. Len(records) + 1
  /\ cursor \in Nat /\ rawNight \in Nat
  /\ totals \in Minutes

\* What the scan has counted, and what it is short of.
Sampled ==
  at = "scan" =>
    /\ index <= Len(records) /\ Current.checkOut # Nil /\ Current.holiday = FALSE
    /\ Current.checkIn <= cursor /\ Phase(cursor) = Phase(Current.checkIn)
    /\ NightTicks(Current.checkIn, cursor) =
         TicksPerMinute * rawNight
           + Phase(Current.checkIn) * (Share(cursor) - Share(Current.checkIn))

Counted ==
  /\ IsFiniteSet(Taken)
  /\ totals.overtime = Cardinality(LateIn(Taken))
  /\ totals.holiday = Cardinality(OnHolidaysIn(Taken))
  /\ totals.regular + totals.night = Cardinality(OnWorkdaysIn(Taken))

RulesInv == Typing /\ Sampled /\ Counted

\* The w minutes of the n-th record.
RowOf(n, w) == {n} \X (1 .. w)

LEMMA RowKinds ==
  ASSUME NEW n, NEW w \in Nat, NEW b \in Nat, Within(b, w)
  PROVE  /\ LateIn(RowOf(n, w)) = {n} \X (Standard + 1 .. w)
         /\ records[n].holiday => /\ OnHolidaysIn(RowOf(n, w)) = RowOf(n, b)
                                  /\ OnWorkdaysIn(RowOf(n, w)) = {}
         /\ ~records[n].holiday => /\ OnHolidaysIn(RowOf(n, w)) = {}
                                   /\ OnWorkdaysIn(RowOf(n, w)) = RowOf(n, b)
<1>1. \A m \in RowOf(n, w) : m[1] = n
  BY DEF RowOf
<1>2. LateIn(RowOf(n, w)) = {n} \X (Standard + 1 .. w)
  BY StandardLength DEF LateIn, RowOf
<1>3. {m \in RowOf(n, w) : m[2] <= Standard} = RowOf(n, b)
  BY StandardLength DEF Within, RowOf
<1> QED
  BY <1>1, <1>2, <1>3 DEF OnHolidaysIn, OnWorkdaysIn

LEMMA RowCounts ==
  ASSUME NEW n, NEW w \in Nat, NEW m, NEW b, Portions(m, w, b, records[n].holiday)
  PROVE  /\ IsFiniteSet(RowOf(n, w))
         /\ Cardinality(LateIn(RowOf(n, w))) = m.overtime
         /\ Cardinality(OnHolidaysIn(RowOf(n, w))) = m.holiday
         /\ Cardinality(OnWorkdaysIn(RowOf(n, w))) = m.regular + m.night
<1>1. b \in Nat /\ Within(b, w)
  BY DEF Portions, Within
<1>2. Cardinality({n} \X (Standard + 1 .. w)) = OvertimeOf(w)
  BY RowSize, StandardLength, OvertimeIs
<1>3. IsFiniteSet(RowOf(n, w)) /\ Cardinality(RowOf(n, b)) = b
  BY <1>1, RowFromFirst DEF RowOf
<1>4. Cardinality({}) = 0
  BY FS_EmptySet
<1>5. Cardinality(LateIn(RowOf(n, w))) = m.overtime
  BY <1>1, <1>2, RowKinds DEF Portions
<1>6. CASE records[n].holiday
  <2>1. m.holiday = b /\ m.regular + m.night = 0
    BY <1>6 DEF Portions
  <2>2. OnHolidaysIn(RowOf(n, w)) = RowOf(n, b) /\ OnWorkdaysIn(RowOf(n, w)) = {}
    BY <1>1, <1>6, RowKinds
  <2>3. /\ Cardinality(OnHolidaysIn(RowOf(n, w))) = m.holiday
        /\ Cardinality(OnWorkdaysIn(RowOf(n, w))) = m.regular + m.night
    BY <1>3, <1>4, <2>1, <2>2
  <2> QED
    BY <1>3, <1>5, <2>3
<1>7. CASE ~records[n].holiday
  <2>1. m.holiday = 0 /\ m.regular + m.night = b
    BY <1>7 DEF Portions
  <2>2. OnHolidaysIn(RowOf(n, w)) = {} /\ OnWorkdaysIn(RowOf(n, w)) = RowOf(n, b)
    BY <1>1, <1>7, RowKinds
  <2>3. /\ Cardinality(OnHolidaysIn(RowOf(n, w))) = m.holiday
        /\ Cardinality(OnWorkdaysIn(RowOf(n, w))) = m.regular + m.night
    BY <1>3, <1>4, <2>1, <2>2
  <2> QED
    BY <1>3, <1>5, <2>3
<1> QED
  BY <1>6, <1>7

\* A record's minutes come on top.
LEMMA CountsAdd ==
  ASSUME NEW S, NEW R, IsFiniteSet(S), IsFiniteSet(R), S \cap R = {}
  PROVE  /\ IsFiniteSet(S \cup R)
         /\ Cardinality(LateIn(S \cup R)) = Cardinality(LateIn(S)) + Cardinality(LateIn(R))
         /\ Cardinality(OnHolidaysIn(S \cup R)) =
              Cardinality(OnHolidaysIn(S)) + Cardinality(OnHolidaysIn(R))
         /\ Cardinality(OnWorkdaysIn(S \cup R)) =
              Cardinality(OnWorkdaysIn(S)) + Cardinality(OnWorkdaysIn(R))
<1>1. ASSUME NEW A, NEW B, A \subseteq S, B \subseteq R
      PROVE  Cardinality(A \cup B) = Cardinality(A) + Cardinality(B)
  <2>1. IsFiniteSet(A) /\ IsFiniteSet(B) /\ A \cap B = {}
    BY <1>1, FS_Subset
  <2> QED
    BY <2>1, DisjointUnion
<1>2. /\ LateIn(S \cup R) = LateIn(S) \cup LateIn(R)
      /\ OnHolidaysIn(S \cup R) = OnHolidaysIn(S) \cup OnHolidaysIn(R)
      /\ OnWorkdaysIn(S \cup R) = OnWorkdaysIn(S) \cup OnWorkdaysIn(R)
  BY DEF LateIn, OnHolidaysIn, OnWorkdaysIn
<1>3. /\ LateIn(S) \subseteq S /\ OnHolidaysIn(S) \subseteq S /\ OnWorkdaysIn(S) \subseteq S
      /\ LateIn(R) \subseteq R /\ OnHolidaysIn(R) \subseteq R /\ OnWorkdaysIn(R) \subseteq R
  BY DEF LateIn, OnHolidaysIn, OnWorkdaysIn
<1> QED
  BY <1>1, <1>2, <1>3, DisjointUnion

\* A record whose minutes are added to the totals.
LEMMA TakeStep ==
  ASSUME RulesInv, index <= Len(records), Current.checkOut # Nil, UNCHANGED <<records>>,
         cursor' \in Nat, rawNight' \in Nat,
         NEW m, NEW b, Portions(m, workedMinutes(Current), b, Current.holiday), Take(m)
  PROVE  RulesInv'
<1>1. index \in Nat \ {0} /\ index' = index + 1 /\ index + 1 \in 1 .. Len(records) + 1
  BY DEF RulesInv, Typing, Take
<1>2. Current \in Record
  BY <1>1 DEF RulesInv, Typing, Current
<1> PICK w \in Nat : w = workedMinutes(Current)
  BY <1>2, WorkedIs
<1>3. m \in Minutes /\ totals \in Minutes /\ Sums(totals', totals, m)
  BY DEF Portions, Take, Sums, RulesInv, Typing
<1>4. Typing'
  BY <1>1, <1>3, SumsIn DEF RulesInv, Typing, Take
<1>5. Sampled'
  BY DEF Sampled, Take
<1>6. Taken' = Taken \cup RowOf(index, w)
  <2>1. 1 .. index' - 1 = (1 .. index - 1) \cup {index}
    BY <1>1
  <2>2. RowOf(index, w) = {index} \X (1 .. IF records[index].checkOut = Nil THEN 0
                                          ELSE workedMinutes(records[index]))
    BY DEF Current, RowOf
  <2>3. \A n : workedMinutes(records[n])' = workedMinutes(records[n])
    BY DEF workedMinutes
  <2> QED
    BY <2>1, <2>2, <2>3 DEF Taken
<1>7. Taken \cap RowOf(index, w) = {}
  BY <1>1 DEF Taken, RowOf
<1>8. /\ IsFiniteSet(RowOf(index, w)) /\ Cardinality(LateIn(RowOf(index, w))) = m.overtime
      /\ Cardinality(OnHolidaysIn(RowOf(index, w))) = m.holiday
      /\ Cardinality(OnWorkdaysIn(RowOf(index, w))) = m.regular + m.night
  <2>1. Portions(m, w, b, records[index].holiday)
    BY DEF Current
  <2> QED
    BY <2>1, RowCounts
<1>9. /\ IsFiniteSet(Taken) /\ totals.overtime = Cardinality(LateIn(Taken))
      /\ totals.holiday = Cardinality(OnHolidaysIn(Taken))
      /\ totals.regular + totals.night = Cardinality(OnWorkdaysIn(Taken))
  BY DEF RulesInv, Counted
<1>10. /\ LateIn(Taken)' = LateIn(Taken \cup RowOf(index, w))
       /\ OnHolidaysIn(Taken)' = OnHolidaysIn(Taken \cup RowOf(index, w))
       /\ OnWorkdaysIn(Taken)' = OnWorkdaysIn(Taken \cup RowOf(index, w))
  BY <1>6 DEF LateIn, OnHolidaysIn, OnWorkdaysIn
<1>11. /\ totals'.overtime = totals.overtime + m.overtime
       /\ totals'.holiday = totals.holiday + m.holiday
       /\ totals'.regular + totals'.night =
            (totals.regular + totals.night) + (m.regular + m.night)
  <2>1. \A k \in Category : totals'[k] = totals[k] + m[k]
    BY <1>3, SumsIn
  <2>2. /\ totals'.regular = totals.regular + m.regular
        /\ totals'.overtime = totals.overtime + m.overtime
        /\ totals'.night = totals.night + m.night
        /\ totals'.holiday = totals.holiday + m.holiday
    BY <2>1 DEF Category
  <2>3. /\ totals.regular \in Nat /\ totals.night \in Nat
        /\ m.regular \in Nat /\ m.night \in Nat
    BY <1>3, PartsOf
  <2> QED
    BY <2>2, <2>3
<1>12. /\ IsFiniteSet(Taken \cup RowOf(index, w))
       /\ Cardinality(LateIn(Taken \cup RowOf(index, w))) =
            Cardinality(LateIn(Taken)) + Cardinality(LateIn(RowOf(index, w)))
       /\ Cardinality(OnHolidaysIn(Taken \cup RowOf(index, w))) =
            Cardinality(OnHolidaysIn(Taken)) + Cardinality(OnHolidaysIn(RowOf(index, w)))
       /\ Cardinality(OnWorkdaysIn(Taken \cup RowOf(index, w))) =
            Cardinality(OnWorkdaysIn(Taken)) + Cardinality(OnWorkdaysIn(RowOf(index, w)))
  BY <1>7, <1>8, <1>9, CountsAdd
<1>13. /\ totals'.overtime = Cardinality(LateIn(Taken \cup RowOf(index, w)))
       /\ totals'.holiday = Cardinality(OnHolidaysIn(Taken \cup RowOf(index, w)))
       /\ totals'.regular + totals'.night =
            Cardinality(OnWorkdaysIn(Taken \cup RowOf(index, w)))
  BY <1>8, <1>9, <1>11, <1>12
<1>14. Counted'
  BY <1>6, <1>10, <1>12, <1>13 DEF Counted
<1> QED
  BY <1>4, <1>5, <1>14 DEF RulesInv

LEMMA SkipStep ==
  ASSUME RulesInv, Skip
  PROVE  RulesInv'
<1>1. index \in Nat \ {0} /\ index' = index + 1 /\ index + 1 \in 1 .. Len(records) + 1
  BY DEF RulesInv, Typing, Skip
<1>2. Typing' /\ Sampled'
  BY <1>1 DEF RulesInv, Typing, Sampled, Skip
<1>3. Taken' = Taken
  <2>1. 1 .. index' - 1 = (1 .. index - 1) \cup {index}
    BY <1>1
  <2>2. {index} \X (1 .. IF records[index].checkOut = Nil THEN 0
                         ELSE workedMinutes(records[index])) = {}
    BY DEF Skip, Current
  <2>3. \A n : workedMinutes(records[n])' = workedMinutes(records[n])
    BY DEF workedMinutes, Skip
  <2> QED
    BY <2>1, <2>2, <2>3 DEF Taken, Skip
<1> QED
  BY <1>2, <1>3 DEF RulesInv, Counted, Skip, LateIn, OnHolidaysIn, OnWorkdaysIn

\* Steps that leave the totals and the index alone.
LEMMA CountedStays ==
  ASSUME Counted, UNCHANGED <<records, index, totals>>
  PROVE  Counted'
<1>1. Taken' = Taken
  BY DEF Taken, workedMinutes
<1> QED
  BY <1>1 DEF Counted, LateIn, OnHolidaysIn, OnWorkdaysIn

LEMMA CurrentIn ==
  ASSUME RulesInv, index <= Len(records)
  PROVE  /\ Current \in Record /\ Current.checkIn \in Nat
         /\ Current.checkOut \in Nat \cup {Nil}
<1>1. Current \in Record
  BY DEF RulesInv, Typing, Current
<1> QED
  BY <1>1 DEF Record

LEMMA StartStep ==
  ASSUME RulesInv, StartScan
  PROVE  RulesInv'
<1> PICK a \in Nat : a = Current.checkIn
  BY CurrentIn DEF StartScan
<1>1. Current' = Current
  BY DEF Current, StartScan
<1>2. Typing'
  BY CurrentIn DEF RulesInv, Typing, StartScan
<1>3. NightTicks(a, a) = 0
  <2>1. {t \in a .. a - 1 : Night(t)} = {}
    OBVIOUS
  <2> QED
    BY <2>1, FS_EmptySet DEF NightTicks
<1>4. Phase(a) \in Nat /\ Share(a) \in Nat
  BY NightOfMinute DEF Share
<1>5. TicksPerMinute * 0 + Phase(a) * (Share(a) - Share(a)) = 0
  BY <1>4, RulesAssumption
<1>6. Sampled'
  BY <1>1, <1>3, <1>5, CurrentIn DEF Sampled, StartScan, Record
<1> QED
  BY <1>2, <1>6, CountedStays DEF RulesInv, StartScan

LEMMA ScanStep ==
  ASSUME RulesInv, ScanMinute
  PROVE  RulesInv'
<1> PICK T \in Nat \ {0} : T = TicksPerMinute
  BY RulesAssumption
<1>1. /\ index <= Len(records) /\ Current.checkOut # Nil /\ Current.holiday = FALSE
      /\ Current' = Current
  BY DEF RulesInv, Sampled, ScanMinute, Current
<1> PICK a \in Nat : a = Current.checkIn
  BY <1>1, CurrentIn
<1> PICK c \in Nat, n \in Nat : c = cursor /\ n = rawNight
  BY DEF RulesInv, Typing
<1>2. /\ a <= c /\ Phase(c) = Phase(a)
      /\ NightTicks(a, c) = T * n + Phase(a) * (Share(c) - Share(a))
  BY DEF RulesInv, Sampled, ScanMinute
<1>3. cursor' = c + T /\ rawNight' = n + Share(c)
  BY DEF ScanMinute, Share
<1>4. /\ Phase(c) \in Nat /\ Phase(c + T) = Phase(c)
      /\ NightTicks(c, c + T) = T * Share(c) + Phase(c) * (Share(c + T) - Share(c))
  BY NightOfMinute
<1>5. Typing'
  BY <1>3 DEF RulesInv, Typing, ScanMinute, Share
<1>6. NightTicks(a, c + T) = T * (n + Share(c)) + Phase(a) * (Share(c + T) - Share(a))
  <2> PICK f \in Nat, u \in 0 .. 1, v \in 0 .. 1, w \in 0 .. 1 :
        f = Phase(a) /\ u = Share(a) /\ v = Share(c) /\ w = Share(c + T)
    BY <1>2, <1>4 DEF Share
  <2>1. NightTicks(a, c + T) = NightTicks(a, c) + NightTicks(c, c + T)
    BY <1>2, NightSplit
  <2>2. NightTicks(a, c + T) = (T * n + f * (v - u)) + (T * v + f * (w - v))
    BY <1>2, <1>4, <2>1
  <2>3. (T * n + f * (v - u)) + (T * v + f * (w - v)) = T * (n + v) + f * (w - u)
    OBVIOUS
  <2> QED
    BY <2>2, <2>3
<1>7. Sampled'
  <2>1. index' = index /\ records' = records
    BY DEF ScanMinute
  <2>2. /\ index' <= Len(records') /\ (Current.checkOut)' # Nil
        /\ (Current.holiday)' = FALSE /\ (Current.checkIn)' = a
    BY <1>1, <2>1
  <2>3. /\ a <= c + T /\ Phase(c + T) = Phase(a)
        /\ NightTicks(a, cursor') =
             TicksPerMinute * rawNight' + Phase(a) * (Share(cursor') - Share(a))
    BY <1>2, <1>3, <1>4, <1>6
  <2> QED
    BY <1>3, <2>2, <2>3 DEF Sampled
<1> QED
  BY <1>5, <1>7, CountedStays DEF RulesInv, ScanMinute

LEMMA InvIsInductive == RulesInv /\ [Next]_vars => RulesInv'
<1> SUFFICES ASSUME RulesInv, [Next]_vars
             PROVE  RulesInv'
  OBVIOUS
<1>1. CASE Skip
  BY <1>1, SkipStep
<1>2. CASE TakeHoliday
  <2>1. workedMinutes(Current) \in Nat /\ Current.holiday = TRUE
    BY <1>2, CurrentIn, WorkedIs DEF TakeHoliday, Record
  <2> PICK m, b : /\ m = holidayMinutes(workedMinutes(Current))
                  /\ Portions(m, workedMinutes(Current), b, Current.holiday)
    BY <2>1, HolidayParts
  <2> QED
    BY <1>2, TakeStep DEF TakeHoliday, RulesInv, Typing
<1>3. CASE StartScan
  BY <1>3, StartStep
<1>4. CASE ScanMinute
  BY <1>4, ScanStep
<1>5. CASE TakeWorkday
  <2>1. index <= Len(records) /\ Current.checkOut # Nil /\ rawNight \in Nat
    BY <1>5 DEF TakeWorkday, RulesInv, Sampled, Typing
  <2>2. workedMinutes(Current) \in Nat /\ Current.holiday = FALSE
    BY <1>5, <2>1, CurrentIn, WorkedIs DEF RulesInv, Sampled, TakeWorkday
  <2> PICK m, b : /\ m = workdayMinutes(workedMinutes(Current), rawNight)
                  /\ Portions(m, workedMinutes(Current), b, Current.holiday)
    BY <2>1, <2>2, WorkdayParts
  <2> QED
    BY <1>5, <2>1, TakeStep DEF TakeWorkday, RulesInv, Typing
<1>6. CASE Price
  <2>1. Typing' /\ Sampled'
    BY <1>6 DEF Price, RulesInv, Typing, Sampled
  <2> QED
    BY <1>6, <2>1, CountedStays DEF Price, RulesInv
<1>7. CASE UNCHANGED vars
  <2>1. Typing' /\ Sampled'
    BY <1>7 DEF vars, RulesInv, Typing, Sampled, Current
  <2> QED
    BY <1>7, <2>1, CountedStays DEF vars, RulesInv
<1> QED
  BY <1>1, <1>2, <1>3, <1>4, <1>5, <1>6, <1>7 DEF Next

LEMMA InvAtStart == Init => RulesInv
<1> SUFFICES ASSUME Init
             PROVE  RulesInv
  OBVIOUS
<1>1. Typing /\ totals = [k \in Category |-> 0]
  BY RulesAssumption DEF Init, Typing, Minutes
<1>2. /\ Taken = {} /\ LateIn(Taken) = {} /\ OnHolidaysIn(Taken) = {}
      /\ OnWorkdaysIn(Taken) = {}
  BY DEF Init, Taken, LateIn, OnHolidaysIn, OnWorkdaysIn
<1>3. totals.overtime = 0 /\ totals.holiday = 0 /\ totals.regular + totals.night = 0
  BY <1>1 DEF Category
<1> QED
  BY <1>1, <1>2, <1>3, FS_EmptySet DEF RulesInv, Counted, Sampled, Init

LEMMA AlwaysRules == Spec => []RulesInv
  BY InvAtStart, InvIsInductive, PTL DEF Spec

-----------------------------------------------------------------------------
(* What the scan misses *)

LEMMA MissedIs ==
  ASSUME NEW f \in Nat, NEW T \in Nat, f < T, NEW u \in 0 .. 1, NEW w \in 0 .. 1
  PROVE  /\ - T < f * (w - u) /\ f * (w - u) < T
         /\ w = u => f * (w - u) = 0
<1>1. w - u \in {-1, 0, 1} /\ (w = u => w - u = 0)
  OBVIOUS
<1>2. f * (-1) = -f /\ f * 0 = 0 /\ f * 1 = f
  OBVIOUS
<1> QED
  BY <1>1, <1>2

\* Over a shift of any length, with a clock of any resolution: the count of night
\* minutes differs from the night that has passed by less than one minute, and by
\* nothing where the shift began and the scan stands outside the night.
THEOREM NightIsTrue == Spec => []NightTrue
<1>1. RulesInv => NightTrue
  <2> SUFFICES ASSUME RulesInv, at = "scan"
               PROVE  LET missed == NightTicks(Current.checkIn, cursor)
                                      - TicksPerMinute * rawNight
                      IN  /\ - TicksPerMinute < missed /\ missed < TicksPerMinute
                          /\ ~Night(Current.checkIn) /\ ~Night(cursor) => missed = 0
    BY DEF NightTrue
  <2> PICK T \in Nat \ {0} : T = TicksPerMinute
    BY RulesAssumption
  <2>1. index <= Len(records)
    BY DEF RulesInv, Sampled
  <2> PICK a \in Nat, c \in Nat, n \in Nat :
        a = Current.checkIn /\ c = cursor /\ n = rawNight
    BY <2>1, CurrentIn DEF RulesInv, Typing
  <2> PICK f \in Nat, u \in 0 .. 1, w \in 0 .. 1 :
        f = Phase(a) /\ f < T /\ u = Share(a) /\ w = Share(c)
    BY NightOfMinute DEF Share
  <2> PICK x \in Int : x = f * (w - u)
    OBVIOUS
  <2>2. - T < x /\ x < T /\ (w = u => x = 0)
    BY MissedIs
  <2>3. NightTicks(a, c) = T * n + x
    BY DEF RulesInv, Sampled
  <2>4. NightTicks(a, c) - T * n = x
    BY <2>3
  <2>5. ~Night(a) /\ ~Night(c) => w = u
    BY WindowIsNight DEF Share
  <2> QED
    BY <2>2, <2>4, <2>5
<1> QED
  BY <1>1, AlwaysRules, PTL

\* Whatever a shift is rounded to, each minute found worked in the records taken so
\* far is in one category and in one only, the one its place in the shift and the day
\* call for, with records of any length, any night and any holidays.
THEOREM MinutesAreAccounted == Spec => []MinutesAccounted
<1>1. RulesInv => MinutesAccounted
  BY DEF RulesInv, Typing, Counted, LateIn, OnHolidaysIn, OnWorkdaysIn, MinutesAccounted
<1> QED
  BY <1>1, AlwaysRules, PTL

-----------------------------------------------------------------------------
(* The pay grows with the minutes *)

LEMMA QuotientOrder ==
  ASSUME NEW a \in Nat, NEW b \in Nat, a <= b, NEW s \in Nat \ {0}
  PROVE  a \div s <= b \div s
<1> PICK q \in Nat : q = a \div s
  BY Quotient
<1>1. q * s <= a
  BY Quotient
<1>2. q * s <= b
  <2> PICK p \in Nat : p = q * s
    OBVIOUS
  <2> QED
    BY <1>1
<1> QED
  BY <1>2, Fitting

LEMMA KrwOrder ==
  ASSUME NEW v \in Nat, NEW w \in Nat, v <= w
  PROVE  Krw(v) <= Krw(w)
<1> PICK H \in Nat \ {0}, M \in Nat \ {0} : H = HourlyRate /\ M = MinutesPerHour
  BY RulesAssumption
<1> PICK whole \in Nat \ {0} : whole = 10000 * M
  OBVIOUS
<1> PICK a \in Nat, b \in Nat : a = (2 * v) * H /\ b = (2 * w) * H /\ a <= b
  <2>1. 2 * v <= 2 * w /\ 2 * v \in Nat /\ 2 * w \in Nat
    OBVIOUS
  <2>2. (2 * v) * H <= (2 * w) * H /\ (2 * v) * H \in Nat /\ (2 * w) * H \in Nat
    BY <2>1, ProductOrder
  <2> QED
    BY <2>2
<1>1. (a + whole) \div (2 * whole) <= (b + whole) \div (2 * whole)
  <2>1. a + whole \in Nat /\ b + whole \in Nat /\ a + whole <= b + whole
        /\ 2 * whole \in Nat \ {0}
    OBVIOUS
  <2> QED
    BY <2>1, QuotientOrder
<1> QED
  BY <1>1 DEF Krw

LEMMA Scaled ==
  ASSUME NEW a \in Nat, NEW b \in Nat, a <= b, NEW p \in Nat, NEW q \in Nat, p <= q
  PROVE  a * p \in Nat /\ b * q \in Nat /\ a * p <= b * q
<1>1. a * p <= b * p /\ p * b <= q * b
  BY ProductOrder
<1>2. p * b = b * p /\ q * b = b * q /\ a * p \in Nat /\ b * q \in Nat /\ b * p \in Nat
  OBVIOUS
<1> PICK x \in Nat, y \in Nat, z \in Nat : x = a * p /\ y = b * p /\ z = b * q
  BY <1>2
<1>3. x <= y /\ y <= z
  BY <1>1, <1>2
<1> QED
  BY <1>3

Premiums == \A k \in Category : Multipliers[k] >= 100

LEMMA MultipliersAre ==
  ASSUME Premiums
  PROVE  /\ Multipliers.regular \in Nat /\ Multipliers.regular >= 100
         /\ Multipliers.overtime \in Nat /\ Multipliers.overtime >= 100
         /\ Multipliers.night \in Nat /\ Multipliers.night >= 100
         /\ Multipliers.holiday \in Nat /\ Multipliers.holiday >= 100
  BY RulesAssumption DEF Premiums, Category

LEMMA OvertimePayOrder ==
  ASSUME Premiums, NEW s, NEW t \in Minutes, NEW m \in Minutes, Sums(s, t, m)
  PROVE  /\ OvertimePay(t) \in Nat /\ OvertimePay(s) \in Nat
         /\ OvertimePay(t) <= OvertimePay(s)
<1> PICK O \in Nat, D \in Nat :
      O = Multipliers.overtime /\ D = Multipliers.holiday /\ D >= 100
  BY MultipliersAre
<1> PICK a \in Nat, b \in Nat, g \in Nat, h \in Nat :
      /\ a = t.overtime /\ b = s.overtime /\ a <= b
      /\ g = t.holiday /\ h = s.holiday /\ g <= h
  <2>1. s.overtime = t.overtime + m.overtime /\ s.holiday = t.holiday + m.holiday
    BY SumsIn DEF Category
  <2> QED
    BY <2>1, PartsOf
<1> PICK p \in Nat, q \in Nat :
      p = (IF g > 0 THEN D ELSE 100) /\ q = (IF h > 0 THEN D ELSE 100) /\ p <= q
  OBVIOUS
<1>1. OvertimePay(t) = (a * p) * O /\ OvertimePay(s) = (b * q) * O
  BY DEF OvertimePay
<1>2. a * p \in Nat /\ b * q \in Nat /\ a * p <= b * q
  BY Scaled
<1>3. O <= O
  OBVIOUS
<1> QED
  BY <1>1, <1>2, <1>3, Scaled

LEMMA NightPayOrder ==
  ASSUME Premiums, NEW s, NEW t \in Minutes, NEW m \in Minutes, Sums(s, t, m)
  PROVE  /\ NightPay(t) \in Nat /\ NightPay(s) \in Nat /\ NightPay(t) <= NightPay(s)
<1> PICK P \in Nat, R \in Nat :
      P = Multipliers.night /\ R = Multipliers.night + Multipliers.overtime - 100
  <2>1. Multipliers.night + Multipliers.overtime - 100 \in Nat
    BY MultipliersAre
  <2> QED
    BY <2>1, MultipliersAre
<1> PICK N \in Nat : N = NightBase
  BY RulesAssumption DEF NightBase
<1> PICK a \in Nat, b \in Nat : a = t.night /\ b = s.night /\ a <= b
  <2>1. s.night = t.night + m.night
    BY SumsIn DEF Category
  <2> QED
    BY <2>1, PartsOf
<1> PICK c \in Nat, d \in Nat : c = Min({a, N}) /\ d = Min({b, N})
                               /\ c <= d /\ a - c \in Nat /\ b - d \in Nat
                               /\ a - c <= b - d
  BY MinOfTwo
<1> PICK x \in Nat, y \in Nat : x = a - c /\ y = b - d /\ x <= y
  OBVIOUS
<1>1. NightPay(t) = (c * 100) * P + (x * 100) * R
  BY DEF NightPay
<1>2. NightPay(s) = (d * 100) * P + (y * 100) * R
  BY DEF NightPay
<1>3. c * 100 \in Nat /\ d * 100 \in Nat /\ c * 100 <= d * 100
      /\ x * 100 \in Nat /\ y * 100 \in Nat /\ x * 100 <= y * 100 /\ P <= P /\ R <= R
  OBVIOUS
<1>4. /\ (c * 100) * P \in Nat /\ (d * 100) * P \in Nat /\ (c * 100) * P <= (d * 100) * P
  BY <1>3, Scaled
<1>5. /\ (x * 100) * R \in Nat /\ (y * 100) * R \in Nat /\ (x * 100) * R <= (y * 100) * R
  BY <1>3, Scaled
<1> PICK i \in Nat, j \in Nat, k \in Nat, l \in Nat :
      i = (c * 100) * P /\ j = (d * 100) * P /\ k = (x * 100) * R /\ l = (y * 100) * R
  BY <1>4, <1>5
<1>6. i <= j /\ k <= l /\ NightPay(t) = i + k /\ NightPay(s) = j + l
  BY <1>1, <1>2, <1>4, <1>5
<1> QED
  BY <1>6

LEMMA WeighedOrder ==
  ASSUME Premiums, NEW s, NEW t \in Minutes, NEW m \in Minutes, Sums(s, t, m)
  PROVE  Weighed(t) \in Nat /\ Weighed(s) \in Nat /\ Weighed(t) <= Weighed(s)
<1> PICK G \in Nat, D \in Nat : G = Multipliers.regular /\ D = Multipliers.holiday
  BY MultipliersAre
<1> PICK a \in Nat, b \in Nat, g \in Nat, h \in Nat :
      /\ a = t.regular /\ b = s.regular /\ a <= b
      /\ g = t.holiday /\ h = s.holiday /\ g <= h
  <2>1. s.regular = t.regular + m.regular /\ s.holiday = t.holiday + m.holiday
    BY SumsIn DEF Category
  <2> QED
    BY <2>1, PartsOf
<1> PICK w \in Nat, x \in Nat, y \in Nat, z \in Nat :
      w = a * G /\ x = b * G /\ y = g * D /\ z = h * D /\ w <= x /\ y <= z
  <2>1. G <= G /\ D <= D
    OBVIOUS
  <2>2. a * G \in Nat /\ b * G \in Nat /\ a * G <= b * G
    BY <2>1, Scaled
  <2>3. g * D \in Nat /\ h * D \in Nat /\ g * D <= h * D
    BY <2>1, Scaled
  <2> QED
    BY <2>2, <2>3
<1> PICK i \in Nat, j \in Nat, k \in Nat, l \in Nat :
      /\ i = OvertimePay(t) /\ j = OvertimePay(s) /\ i <= j
      /\ k = NightPay(t) /\ l = NightPay(s) /\ k <= l
  BY OvertimePayOrder, NightPayOrder
<1>1. Weighed(t) = 100 * (w + y) + i + k /\ Weighed(s) = 100 * (x + z) + j + l
  BY DEF Weighed
<1> QED
  BY <1>1

LEMMA KrwIn ==
  ASSUME NEW v \in Nat
  PROVE  Krw(v) \in Nat
<1> PICK H \in Nat \ {0}, M \in Nat \ {0} : H = HourlyRate /\ M = MinutesPerHour
  BY RulesAssumption
<1> PICK whole \in Nat \ {0} : whole = 10000 * M
  OBVIOUS
<1> PICK a \in Nat : a = (2 * v) * H
  OBVIOUS
<1>1. (a + whole) \div (2 * whole) \in Nat
  BY Quotient
<1> QED
  BY <1>1 DEF Krw

\* With premiums that are no discounts, no step of the loop lowers what the minutes
\* taken so far are worth, whatever the rate and the rounding.
THEOREM PayNeverFalls == Spec => MoreWorkNeverPaysLess
<1> DEFINE Grows == Premiums => calculateGrossPay(totals') >= calculateGrossPay(totals)
<1>1. RulesInv /\ [Next]_vars => [Grows]_vars
  <2> SUFFICES ASSUME RulesInv, Next, Premiums
               PROVE  calculateGrossPay(totals') >= calculateGrossPay(totals)
    OBVIOUS
  <2>1. totals \in Minutes
    BY DEF RulesInv, Typing
  <2>2. ASSUME totals' = totals
        PROVE  calculateGrossPay(totals') >= calculateGrossPay(totals)
    <3>1. Sums(totals, totals, [k \in Category |-> 0]) /\ [k \in Category |-> 0] \in Minutes
      BY <2>1 DEF Sums, Minutes
    <3>2. Weighed(totals) \in Nat
      BY <2>1, <3>1, WeighedOrder
    <3> QED
      BY <2>2, <3>2, KrwIn DEF calculateGrossPay
  <2>3. ASSUME NEW m \in Minutes, Take(m)
        PROVE  calculateGrossPay(totals') >= calculateGrossPay(totals)
    <3>1. Sums(totals', totals, m)
      BY <2>3 DEF Take, Sums
    <3>2. Weighed(totals) \in Nat /\ Weighed(totals') \in Nat
          /\ Weighed(totals) <= Weighed(totals')
      BY <2>1, <3>1, WeighedOrder
    <3> QED
      BY <3>2, KrwOrder, KrwIn DEF calculateGrossPay
  <2>4. CASE Skip \/ StartScan \/ ScanMinute \/ Price
    BY <2>2, <2>4 DEF Skip, StartScan, ScanMinute, Price
  <2>5. CASE TakeHoliday
    <3>1. workedMinutes(Current) \in Nat
      BY <2>5, CurrentIn, WorkedIs DEF TakeHoliday, Current
    <3> QED
      BY <2>3, <2>5, <3>1, HolidayParts DEF TakeHoliday, Portions
  <2>6. CASE TakeWorkday
    <3>1. index <= Len(records) /\ Current.checkOut # Nil /\ rawNight \in Nat
      BY <2>6 DEF TakeWorkday, RulesInv, Sampled, Typing
    <3>2. workedMinutes(Current) \in Nat
      BY <3>1, CurrentIn, WorkedIs DEF Current
    <3> QED
      BY <2>3, <2>6, <3>1, <3>2, WorkdayParts DEF TakeWorkday, Portions
  <2> QED
    BY <2>4, <2>5, <2>6 DEF Next
<1>2. Spec => [][Grows]_vars
  BY <1>1, AlwaysRules, PTL DEF Spec
<1> QED
  BY <1>2 DEF MoreWorkNeverPaysLess, Premiums
=============================================================================
