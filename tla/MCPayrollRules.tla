---------------------------- MODULE MCPayrollRules ----------------------------
(* Small instances of PayrollRules for TLC. *)
EXTENDS PayrollRules

CONSTANTS
  MaxLength,  \* bound on the length of a shift, in ticks
  Breaks      \* break minutes

\* A shift that ends before it begins, one that is empty, and all longer ones.
Lengths == -1 .. MaxLength

DefaultMultipliers ==
  [regular |-> 100, overtime |-> 150, night |-> 150, holiday |-> 150]

Shift(from, length, breaks, holiday) ==
  [checkIn |-> from, checkOut |-> from + length, breaks |-> breaks,
   holiday |-> holiday]

Day == 24 * TicksPerHour

\* Every phase of the day with every length.
Workdays ==
  {Shift(from, n, b, FALSE) : from \in 1 .. Day, n \in Lengths, b \in Breaks}

Holidays == {Shift(1, n, b, TRUE) : n \in Lengths, b \in Breaks}

\* Shifts to be combined with each other: short ones and ones with overtime, as
\* holiday or not, one that ends in the night and one that is still open.
Combined ==
  {Shift(0, n * TicksPerMinute, 0, h) :
     n \in {1, Standard - 1, Standard + 2}, h \in BOOLEAN}
    \cup {Shift(14 * TicksPerHour + 1, 6 * TicksPerHour, 1, FALSE),
          [Shift(0, 0, 0, FALSE) EXCEPT !.checkOut = Nil]}

AllLists ==
  {<<r>> : r \in Workdays \cup Holidays}
    \cup {<<a, b>> : a \in Combined, b \in Combined}
    \cup {<<a, b, c>> : a \in Combined, b \in Combined, c \in Combined}
=============================================================================
