------------------------------ MODULE PayPeriod ------------------------------
(***************************************************************************)
(* The attendance and the payroll service over one database: attendance    *)
(* writes the records that a payroll preview reads in a single query.      *)
(***************************************************************************)
EXTENDS PayrollRuns

CONSTANTS Clerks, RecordIds, Minutes, MaxCrashes

\* What the attendance service assumes of them.
ASSUME PayPeriodAssumption ==
  /\ Minutes \subseteq Nat
  /\ MaxCrashes \in Nat
  /\ Nil \notin RecordIds

VARIABLES
  audited, published, finals, frame, crashes,  \* of the attendance service
  overtaken,   \* history: clerks whose write comes after somebody else's decision
  overwritten  \* history: <<record, row>> of approved rows such a write replaced

Attendance == INSTANCE AttendanceRecords

vars == <<Attendance!attendance, payroll, overtaken, overwritten>>

-----------------------------------------------------------------------------
(* What the histories hold. *)

\* A clerk who has found the record pending and writes it next.
Writing(c) == frame[c].at \in {"edit", "decide"}

Decided(r) == r \in DOMAIN records /\ records[r].state \in Attendance!Finals

\* The record is written by a clerk who found it pending before it was decided.
WrittenLate(r) ==
  \E c \in overtaken : frame[c].record = r /\ Writing(c) /\ ~Writing(c)'

Remember ==
  /\ overtaken' = {c \in Clerks :
       /\ Writing(c)'
       /\ \/ c \in overtaken
          \/ Writing(c) /\ ~Decided(frame[c].record) /\ Decided(frame[c].record)'}
  /\ overwritten' = overwritten \cup
       {<<r, records[r]>> : r \in {r \in DOMAIN records :
          records[r].state = "APPROVED" /\ records'[r] # records[r] /\ WrittenLate(r)}}

-----------------------------------------------------------------------------
PayPeriodInit == Attendance!Init /\ Init /\ overtaken = {} /\ overwritten = {}

PayPeriodNext ==
  \/ Attendance!Next /\ Remember /\ UNCHANGED payroll
  \/ /\ Next
     /\ UNCHANGED <<audited, published, finals, frame, crashes, overtaken, overwritten>>

PayPeriodSpec == PayPeriodInit /\ [][PayPeriodNext]_vars

-----------------------------------------------------------------------------
\* The approved rows a run may rest on, by the record they are of.
Approvals ==
  {<<r, records[r]>> : r \in {r \in DOMAIN records : records[r].state = "APPROVED"}}
    \cup overwritten

\* One pair for each minute to pay.
MinutesOf(approved) ==
  UNION {{a[1]} \X (1 .. IF a[2].minutes = Nil THEN 0 ELSE a[2].minutes) : a \in approved}

\* What a run pays is what approved records of its period and employee amount to,
\* each counted once, although a run names no record and however corrections,
\* decisions and previews of several clerks and operators interleave: the records
\* are approved now, with the times that are paid, or were until a correction or
\* rejection that had found them pending replaced them. No run ever pays minutes
\* of a record that was pending or rejected when it was previewed.
PaidIsBacked ==
  \A x \in DOMAIN runs :
    \E paid \in SUBSET {a \in Approvals :
                        /\ a[2].checkIn \in runs[x].period[1] .. runs[x].period[2]
                        /\ runs[x].employee # Nil => a[2].employee = runs[x].employee} :
      /\ \A a, b \in paid : a[1] = b[1] => a = b
      /\ runs[x].count = Cardinality({a[1] : a \in paid})
      /\ runs[x].gross = MinutePay * Cardinality(MinutesOf(paid))

\* A decided record, which payroll reads, is overwritten only by a correction or
\* decision that was already past its check when somebody else decided the record:
\* nobody who finds it decided writes it, in whatever order the writes arrive.
OverwrittenOnlyLate ==
  [][\A r \in DOMAIN records :
       Decided(r) /\ records'[r] # records[r] => WrittenLate(r)]_vars

\* "An approved attendance record cannot be silently overwritten"
\* (src/specs/attendance/contract.yaml), nor a rejected one: so it is with one
\* attendance request at a time, since nobody can overtake it.
RecordsFinal == Attendance!DecisionFinal
=============================================================================
