-------------------------- MODULE AttendanceRecords --------------------------
(***************************************************************************)
(* The attendance service (src/src/features/attendance/service.ts): an     *)
(* employee's times are recorded, corrected while they are pending, and    *)
(* approved or rejected by a manager.  Handlers are the requests that are  *)
(* open; every awaited store call is an action, as in LeaveRequests.       *)
(***************************************************************************)
EXTENDS Integers, Sequences, FiniteSets

CONSTANTS
  Clerks,      \* attendance requests the API can have open at the same time
  Employees,   \* employees
  RecordIds,   \* ids the store can hand out to attendance records
  Horizon,     \* check-in instants are 0..Horizon
  Minutes,     \* payable minutes the times of a closed record can amount to
  MaxCrashes,  \* bound on handlers that die between two awaits
  Nil          \* no record, no employee, no check-out yet

ASSUME AttendanceAssumption ==
  /\ Horizon \in Nat
  /\ Minutes \subseteq Nat
  /\ MaxCrashes \in Nat
  /\ Nil \notin Employees \cup RecordIds \cup Minutes

VARIABLES
  records,    \* AttendanceRecord rows by id
  audited,    \* <<operation, record>> of the audit log entries
  published,  \* <<operation, record>> of the domain events sent
  finals,     \* per record the final state events, in the order sent
  frame,      \* each handler's local state
  crashes     \* handlers that died so far, at most MaxCrashes

trail == <<audited, published, finals>>
attendance == <<records, audited, published, finals, frame, crashes>>

Instants == 0 .. Horizon

Finals == {"APPROVED", "REJECTED"}

Ops == {"recorded", "corrected"} \cup Finals

\* minutes: what derivePayableMinutes makes of the times, Nil without a
\* check-out.  stamped: approvedAt and approvedBy are not null.
Row ==
  [employee : Employees, checkIn : Instants, minutes : Minutes \cup {Nil},
   state : Finals \cup {"PENDING"}, stamped : BOOLEAN]

Steps == {"idle", "find", "insert", "edit", "decide", "audit", "publish"}

\* patch: the times a correction names; it can set a check-out, never clear it.
Frame ==
  [at : Steps, op : Ops \cup {"none"}, record : RecordIds \cup {Nil},
   employee : Employees \cup {Nil}, patch : SUBSET {"checkIn", "minutes"},
   checkIn : Instants, minutes : Minutes \cup {Nil}]

Idle ==
  [at |-> "idle", op |-> "none", record |-> Nil, employee |-> Nil,
   patch |-> {}, checkIn |-> 0, minutes |-> Nil]

Continue(c, at) == frame' = [frame EXCEPT ![c].at = at]

\* A handler that is done, or throws.
Finish(c) == frame' = [frame EXCEPT ![c] = Idle]

-----------------------------------------------------------------------------
(* A client opens a request on a free handler. *)

Open(c, f) ==
  /\ frame[c].at = "idle"
  /\ frame' = [frame EXCEPT ![c] = f]
  /\ UNCHANGED <<records, trail, crashes>>

\* The id is the one the store will hand out: no row and no handler has it.
OpenCreate(c, r, e, t, m) ==
  /\ r \notin DOMAIN records
  /\ \A d \in Clerks : frame[d].record # r
  /\ Open(c, [Idle EXCEPT !.at = "insert", !.op = "recorded", !.record = r,
                          !.employee = e, !.checkIn = t, !.minutes = m])

OpenCorrect(c, r, p, t, m) ==
  Open(c, [Idle EXCEPT !.at = "find", !.op = "corrected", !.record = r,
                       !.patch = p, !.checkIn = t, !.minutes = m])

OpenDecide(c, r, d) ==
  Open(c, [Idle EXCEPT !.at = "find", !.op = d, !.record = r])

OpenSome(c) ==
  \/ \E r \in RecordIds, e \in Employees, t \in Instants, m \in Minutes \cup {Nil} :
       OpenCreate(c, r, e, t, m)
  \/ \E r \in RecordIds, p \in SUBSET {"checkIn", "minutes"}, t \in Instants, m \in Minutes :
       OpenCorrect(c, r, p, t, m)
  \/ \E r \in RecordIds, d \in Finals : OpenDecide(c, r, d)

-----------------------------------------------------------------------------
(* The steps of a handler. *)

\* 401, 403 and 404 across tenants, all before the first write.
Refuse(c) ==
  /\ frame[c].at \in {"find", "insert", "edit", "decide"}
  /\ Finish(c)
  /\ UNCHANGED <<records, trail, crashes>>

ChangeableMutant(row) == row.state # "REJECTED"

\* requireEditableRecord, and the same check in approve and reject.
Changeable(row) == row.state = "PENDING"

FindPending(c) ==
  LET f == frame[c]
      found == f.record \in DOMAIN records /\ Changeable(records[f.record])
  IN  /\ f.at = "find"
      /\ \/ ~found /\ Finish(c)
         \/ found /\ Continue(c, IF f.op \in Finals THEN "decide" ELSE "edit")
      /\ UNCHANGED <<records, trail, crashes>>

Insert(c) ==
  LET f == frame[c]
      row == [employee |-> f.employee, checkIn |-> f.checkIn, minutes |-> f.minutes,
              state |-> "PENDING", stamped |-> FALSE]
  IN  /\ f.at = "insert"
      /\ records' = [r \in DOMAIN records \cup {f.record} |->
                       IF r = f.record THEN row ELSE records[r]]
      /\ Continue(c, "audit")
      /\ UNCHANGED <<trail, crashes>>

ReopenedRowMutant(row, f) ==
  [row EXCEPT !.checkIn = f.checkIn, !.minutes = f.minutes, !.state = "PENDING",
              !.stamped = FALSE]

\* Only the columns a correction names are written.
CorrectedRow(row, f) ==
  [row EXCEPT !.checkIn = IF "checkIn" \in f.patch THEN f.checkIn ELSE @,
              !.minutes = IF "minutes" \in f.patch THEN f.minutes ELSE @]

Edit(c) ==
  LET f == frame[c]
  IN  /\ f.at = "edit"
      /\ records' = [records EXCEPT ![f.record] = CorrectedRow(@, f)]
      /\ Continue(c, "audit")
      /\ UNCHANGED <<trail, crashes>>

StampedRejectMutant(row, d) == [row EXCEPT !.state = d, !.stamped = @ \/ d = "APPROVED"]

\* A rejection nulls the columns an approval sets.
DecidedRow(row, d) == [row EXCEPT !.state = d, !.stamped = d = "APPROVED"]

\* The write names no state it expects.
Decide(c) ==
  LET f == frame[c]
  IN  /\ f.at = "decide"
      /\ records' = [records EXCEPT ![f.record] = DecidedRow(@, f.op)]
      /\ Continue(c, "audit")
      /\ UNCHANGED <<trail, crashes>>

UnauditedMutant(c) ==
  /\ frame[c].at = "audit"
  /\ audited' = IF frame[c].op = "REJECTED" THEN audited
                ELSE audited \cup {<<frame[c].op, frame[c].record>>}
  /\ Continue(c, "publish")
  /\ UNCHANGED <<records, published, finals, crashes>>

Audit(c) ==
  LET f == frame[c]
  IN  /\ f.at = "audit"
      /\ audited' = audited \cup {<<f.op, f.record>>}
      /\ Continue(c, "publish")
      /\ UNCHANGED <<records, published, finals, crashes>>

UnsentMutant(op) == op = "APPROVED"

\* The final state events.
IsFinal(op) == op \in Finals

Publish(c) ==
  LET f == frame[c]
  IN  /\ f.at = "publish"
      /\ published' = published \cup {<<f.op, f.record>>}
      /\ finals' = IF IsFinal(f.op)
                   THEN [finals EXCEPT ![f.record] = Append(@, f.op)] ELSE finals
      /\ Finish(c)
      /\ UNCHANGED <<records, audited, crashes>>

\* The process dies, or a store call or the publisher throws.
Crash(c) ==
  /\ frame[c].at # "idle"
  /\ crashes < MaxCrashes
  /\ crashes' = crashes + 1
  /\ Finish(c)
  /\ UNCHANGED <<records, trail>>

-----------------------------------------------------------------------------
Work(c) ==
  FindPending(c) \/ Insert(c) \/ Edit(c) \/ Decide(c) \/ Audit(c) \/ Publish(c)

Init ==
  /\ records = << >>
  /\ audited = {}
  /\ published = {}
  /\ finals = [r \in RecordIds |-> << >>]
  /\ frame = [c \in Clerks |-> Idle]
  /\ crashes = 0

Next == \E c \in Clerks : OpenSome(c) \/ Refuse(c) \/ Crash(c) \/ Work(c)

Spec == Init /\ [][Next]_attendance

\* An awaited call settles: the event loop and the database answer in the end.
FairSpec == Spec /\ \A c \in Clerks : WF_attendance(Work(c))

-----------------------------------------------------------------------------
TypeOK ==
  /\ DOMAIN records \subseteq RecordIds
  /\ \A r \in DOMAIN records : records[r] \in Row
  /\ audited \subseteq Ops \X RecordIds
  /\ published \subseteq Ops \X RecordIds
  /\ finals \in [RecordIds -> Seq(Finals)]
  /\ frame \in [Clerks -> Frame]
  /\ crashes \in 0 .. MaxCrashes

\* Whichever of approve, reject and correct race on a record, its approval
\* columns are set exactly when it shows APPROVED.
StampCoherent ==
  \A r \in DOMAIN records : records[r].stamped <=> records[r].state = "APPROVED"

\* An event is sent only for what the audit log holds, and a final state event
\* or audit entry is only of a record that has been decided.
TrailOrdered ==
  /\ published \subseteq audited
  /\ \A r \in RecordIds :
       /\ \A d \in Finals :
            <<d, r>> \in audited => r \in DOMAIN records /\ records[r].state \in Finals
       /\ \A i \in DOMAIN finals[r] : <<finals[r][i], r>> \in published

\* A decided record never becomes pending again, however late the write of a
\* correction that found it pending.
DecisionSticks ==
  [][\A r \in DOMAIN records :
       records[r].state \in Finals =>
         r \in DOMAIN records' /\ records'[r].state \in Finals]_attendance

\* A record seen approved or rejected is followed by the event that says so,
\* unless a handler dies.
EveryDecisionAnnounced ==
  \A r \in RecordIds, d \in Finals :
    (r \in DOMAIN records /\ records[r].state = d)
      ~> (crashes > 0 \/ \E i \in DOMAIN finals[r] : finals[r][i] = d)

\* "An approved attendance record cannot be silently overwritten", and "a
\* rejected attendance record cannot transition directly to approved"
\* (src/specs/attendance/contract.yaml).
DecisionFinal ==
  [][\A r \in DOMAIN records :
       records[r].state \in Finals => records'[r] = records[r]]_attendance
=============================================================================
