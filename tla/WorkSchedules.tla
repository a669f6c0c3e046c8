---------------------------- MODULE WorkSchedules ----------------------------
(***************************************************************************)
(* The scheduling service (src/src/features/scheduling/service.ts): a      *)
(* handler reads the employee, lists the schedules that the employee has   *)
(* in the organization it read around the window it was asked to assign,   *)
(* refuses the window on a strict overlap, and otherwise creates the row,  *)
(* appends the audit entry and sends the event, each an awaited call of    *)
(* its own outside any transaction.  The people service may move the       *)
(* employee to another organization in between.                            *)
(***************************************************************************)
EXTENDS Integers, FiniteSets

CONSTANTS
  Handlers,       \* requests the API can have open at the same time
  Employees,      \* employees
  Organizations,  \* tenants an employee can belong to
  ScheduleIds,    \* ids the store can hand out
  Horizon,        \* instants are 0..Horizon
  MaxCrashes,     \* bound on handlers that die between two awaits
  Nil             \* no schedule, no employee, no organization

ASSUME ScheduleAssumption ==
  /\ IsFiniteSet(Handlers)
  /\ IsFiniteSet(ScheduleIds)
  /\ Horizon \in Nat
  /\ MaxCrashes \in Nat
  /\ Nil \notin Employees \cup Organizations \cup ScheduleIds

VARIABLES
  organization,  \* organizationId of the Employee rows, written by the people service
  schedules,     \* WorkSchedule rows by id; no operation changes or deletes one
  audited,       \* ids with a scheduling.schedule.assigned audit entry
  published,     \* ids with a scheduling.schedule.assigned.v1 event
  frame,         \* each handler's local state: where it is, its input, what it read
  crashes,       \* handlers that died so far, at most MaxCrashes
  overtaken      \* history: ids whose employee had left when the schedules were listed

vars == <<organization, schedules, audited, published, frame, crashes, overtaken>>

Instants == 0 .. Horizon

Row == [employee : Employees, start : Instants, end : Instants]

Steps == {"idle", "find", "list", "insert", "audit", "publish"}

Homes == Organizations \cup {Nil}

Frame ==
  [at : Steps, id : ScheduleIds \cup {Nil}, employee : Employees \cup {Nil},
   organization : Homes, start : Instants, end : Instants]

Idle ==
  [at |-> "idle", id |-> Nil, employee |-> Nil, organization |-> Nil,
   start |-> 0, end |-> 0]

\* The database's filter: it also returns windows that only touch the input's.
\* With an organization the rows of employees who are not in it are left out.
listInPeriod(e, o, s, t) ==
  {i \in DOMAIN schedules :
     /\ schedules[i].employee = e
     /\ o # Nil => organization[e] = o
     /\ schedules[i].start <= t /\ schedules[i].end >= s}

StrictMutant(e, o, s, t) ==
  {i \in listInPeriod(e, o, s, t) : schedules[i].start < t /\ schedules[i].start > s}

TouchingMutant(e, o, s, t) == listInPeriod(e, o, s, t)

\* Back-to-back windows are allowed.
strictOverlaps(e, o, s, t) ==
  {i \in listInPeriod(e, o, s, t) : schedules[i].start < t /\ schedules[i].end > s}

Continue(h, at) == frame' = [frame EXCEPT ![h].at = at]

\* The same with the organization that the handler goes on with.
ContinueIn(h, at, o) ==
  LET f == frame[h]
  IN  frame' = [frame EXCEPT ![h] =
        [at |-> at, id |-> f.id, employee |-> f.employee, organization |-> o,
         start |-> f.start, end |-> f.end]]

Finish(h) == frame' = [frame EXCEPT ![h] = Idle]

-----------------------------------------------------------------------------
(* A request: permission and window are checked before any call that
   matters, so one refused for them is never opened. The id is the one the
   store will hand out: no row and no handler has it. *)
OpenCreate(h, i, e, s, t) ==
  /\ frame[h].at = "idle"
  /\ s < t
  /\ i \notin DOMAIN schedules
  /\ \A g \in Handlers : frame[g].id # i
  /\ frame' = [frame EXCEPT ![h] = [at |-> "find", id |-> i, employee |-> e,
                                    organization |-> Nil, start |-> s, end |-> t]]
  /\ UNCHANGED <<organization, schedules, audited, published, crashes, overtaken>>

\* requireEmployeeWithinTenant: 404 for the employees of other tenants. The
\* handler keeps the organization it read.
FindEmployee(h) ==
  LET f == frame[h]
      home == organization[f.employee]
  IN  /\ f.at = "find"
      /\ \E scope \in Homes :
           \/ scope \notin {Nil, home} /\ Finish(h)
           \/ scope \in {Nil, home} /\ ContinueIn(h, "list", home)
      /\ UNCHANGED <<organization, schedules, audited, published, crashes, overtaken>>

\* The employee has left the organization that the handler read.
Left(f) == f.organization \notin {Nil, organization[f.employee]}

\* Beyond this call the organization is used for the audit entry's column only.
List(h) ==
  LET f == frame[h]
      hits == strictOverlaps(f.employee, f.organization, f.start, f.end)
  IN  /\ f.at = "list"
      /\ \/ hits # {} /\ Finish(h)
         \/ hits = {} /\ ContinueIn(h, "insert", Nil)
      /\ overtaken' = IF Left(f) THEN overtaken \cup {f.id} ELSE overtaken \ {f.id}
      /\ UNCHANGED <<organization, schedules, audited, published, crashes>>

NewRow(f) == [employee |-> f.employee, start |-> f.start, end |-> f.end]

Insert(h) ==
  LET f == frame[h]
  IN  /\ f.at = "insert"
      /\ schedules' = [i \in DOMAIN schedules \cup {f.id} |->
                         IF i = f.id THEN NewRow(f) ELSE schedules[i]]
      /\ Continue(h, "audit")
      /\ UNCHANGED <<organization, audited, published, crashes, overtaken>>

LostAuditMutant(h) ==
  /\ frame[h].at = "audit"
  /\ Continue(h, "publish")
  /\ UNCHANGED <<organization, schedules, audited, published, crashes, overtaken>>

Audit(h) ==
  /\ frame[h].at = "audit"
  /\ audited' = audited \cup {frame[h].id}
  /\ Continue(h, "publish")
  /\ UNCHANGED <<organization, schedules, published, crashes, overtaken>>

Publish(h) ==
  /\ frame[h].at = "publish"
  /\ published' = published \cup {frame[h].id}
  /\ Finish(h)
  /\ UNCHANGED <<organization, schedules, audited, crashes, overtaken>>

\* The process dies, or a store call or the publisher throws.
Crash(h) ==
  /\ frame[h].at # "idle"
  /\ crashes < MaxCrashes
  /\ crashes' = crashes + 1
  /\ Finish(h)
  /\ UNCHANGED <<organization, schedules, audited, published, overtaken>>

\* The people service writes another organization, or none, into an employee's row.
Move(e, o) ==
  /\ o # organization[e]
  /\ organization' = [organization EXCEPT ![e] = o]
  /\ UNCHANGED <<schedules, audited, published, frame, crashes, overtaken>>

Open(h) ==
  \E i \in ScheduleIds, e \in Employees, s, t \in Instants : OpenCreate(h, i, e, s, t)

Work(h) == FindEmployee(h) \/ List(h) \/ Insert(h) \/ Audit(h) \/ Publish(h)

Init ==
  /\ organization \in [Employees -> Homes]
  /\ schedules = << >>
  /\ audited = {}
  /\ published = {}
  /\ frame = [h \in Handlers |-> Idle]
  /\ crashes = 0
  /\ overtaken = {}

Next ==
  \/ \E h \in Handlers : Open(h) \/ Work(h) \/ Crash(h)
  \/ \E e \in Employees, o \in Homes : Move(e, o)

Spec == Init /\ [][Next]_vars

-----------------------------------------------------------------------------
TypeOK ==
  /\ organization \in [Employees -> Homes]
  /\ DOMAIN schedules \subseteq ScheduleIds
  /\ \A i \in DOMAIN schedules : schedules[i] \in Row
  /\ audited \subseteq ScheduleIds
  /\ published \subseteq ScheduleIds
  /\ frame \in [Handlers -> Frame]
  /\ crashes \in 0 .. MaxCrashes
  /\ overtaken \subseteq ScheduleIds

\* The schedules of an employee that hold the slot from x to x + 1.
Covering(e, x) ==
  {i \in DOMAIN schedules :
     schedules[i].employee = e /\ schedules[i].start <= x /\ x < schedules[i].end}

\* The overlap check of createWorkSchedule is not atomic with the insert, nor
\* with the read of the employee, but it bounds the damage: however many
\* schedules are created and however employees are moved, no slot of an employee
\* is booked more often than requests can be open at once, not counting the
\* schedules whose own check looked for the employee in an organization left
\* since. With one request at a time and employees who stay it is the
\* contract's rule that schedules never overlap.
BookingsBounded ==
  \A e \in Employees, x \in Instants :
    Cardinality(Covering(e, x) \ overtaken) <= Cardinality(Handlers)

\* An event is sent only for an audited schedule, and only stored schedules
\* are audited, whichever handlers died on the way.
TrailOrdered == published \subseteq audited /\ audited \subseteq DOMAIN schedules

\* "WorkSchedule time windows must not overlap for the same employee
\* (back-to-back is allowed)" (src/specs/scheduling/contract.yaml).
NoOverlap ==
  \A e \in Employees, x \in Instants : Cardinality(Covering(e, x)) <= 1

\* A request is refused for taken slots only, and for any taken slot as long as
\* the employee is where the request read it to be: the database's filter, which
\* returns windows that merely touch, and the strict one in the service amount
\* to "back-to-back is allowed". Once the employee has left that organization,
\* no slot is refused.
RefusedIffTaken ==
  [][\A h \in Handlers :
       LET f == frame[h] IN
         List(h) =>
           (frame'[h].at = "idle" <=>
              /\ ~Left(f)
              /\ \E x \in f.start .. f.end - 1 : Covering(f.employee, x) # {})]_vars
=============================================================================
