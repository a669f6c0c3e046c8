---------------------------- MODULE LeaveRequests ----------------------------
(***************************************************************************)
(* The leave service (src/src/features/leave/service.ts) over the Prisma   *)
(* stores it calls (src/src/features/shared/prisma-data-access.ts).        *)
(*                                                                         *)
(* Several HTTP requests are open at once.  A handler runs one of them:    *)
(* it awaits one store call after the other, outside any transaction, and  *)
(* keeps what it read in local variables.  Every await is a point where    *)
(* another handler may run, so every store call is an action of its own    *)
(* and the code between two awaits belongs to the action before it.        *)
(***************************************************************************)
EXTENDS Integers, Sequences, FiniteSets

CONSTANTS
  Handlers,            \* requests the API can have open at the same time
  Employees,           \* employees
  RequestIds,          \* ids the store can hand out to leave requests
  Horizon,             \* instants are 0..Horizon
  SlotsPerDay,         \* instants per calendar day (DAY_MS)
  SeoulOffset,         \* instants Seoul is ahead of UTC (SEOUL_OFFSET_MS)
  Years,               \* accrual years a settlement can name
  AnnualGrants,        \* annualGrantDays a settlement can name
  CarryOverCaps,       \* carryOverCapDays a settlement can name
  DefaultGrantedDays,  \* DEFAULT_GRANTED_DAYS
  MaxCrashes,          \* bound on handlers that die between two awaits
  Nil                  \* no request, no employee

ASSUME LeaveAssumption ==
  /\ Horizon \in Nat
  /\ SlotsPerDay \in Nat \ {0}
  /\ SeoulOffset \in Nat
  /\ Years \subseteq Nat \ {0}
  /\ AnnualGrants \subseteq Nat \ {0}
  /\ CarryOverCaps \subseteq Nat
  /\ DefaultGrantedDays \in Nat
  /\ MaxCrashes \in Nat
  /\ Nil \notin Employees \cup RequestIds

VARIABLES
  requests,   \* LeaveRequest rows by id
  balances,   \* LeaveBalanceProjection rows by employee
  approvals,  \* LeaveApproval rows of each request, in the order appended
  audited,    \* <<operation, entity>> of the audit log entries
  published,  \* <<operation, entity>> of the domain events sent
  frame,      \* each handler's local state: where it is and what it read
  crashes     \* handlers that died so far, at most MaxCrashes

stores == <<requests, balances, approvals, audited, published>>
vars == <<requests, balances, approvals, audited, published, frame, crashes>>

-----------------------------------------------------------------------------
(* Rows.  A definition named ...Mutant is a bug the runs must detect in the
   definition that follows it; no other definition uses it. *)

Instants == 0 .. Horizon
Decisions == {"APPROVED", "REJECTED", "CANCELED"}
Active == {"PENDING", "APPROVED"}

\* stamps: the decisions whose ...At and ...By columns are not null.
LeaveRow ==
  [employee : Employees, start : Instants, end : Instants, days : Int,
   state : Decisions \cup {"PENDING"}, stamps : SUBSET Decisions]

\* lastAccrualYear is null until the first settlement.
NeverSettled == 0

BalanceRow ==
  [granted : Int, used : Int, remaining : Int, carryOver : Int,
   lastAccrualYear : Years \cup {NeverSettled}]

\* What leaveBalance.ensure creates for an employee without a row.
FreshBalance ==
  [granted |-> DefaultGrantedDays, used |-> 0,
   remaining |-> DefaultGrantedDays, carryOver |-> 0,
   lastAccrualYear |-> NeverSettled]

toSeoulDayIndex(t) == (t + SeoulOffset) \div SlotsPerDay

calculateLeaveDays(s, t) == toSeoulDayIndex(t) - toSeoulDayIndex(s) + 1

OverlapMutant(s1, t1, s2, t2) == s1 < t2 /\ t1 > s2

\* Windows are closed intervals of instants.
Overlap(s1, t1, s2, t2) == s1 <= t2 /\ t1 >= s2

ActiveMutant(e, s, t, excluded) ==
  {r \in DOMAIN requests \ {excluded} :
     /\ requests[r].employee = e
     /\ requests[r].state = "PENDING"
     /\ Overlap(requests[r].start, requests[r].end, s, t)}

findOverlappingActiveRequests(e, s, t, excluded) ==
  {r \in DOMAIN requests \ {excluded} :
     /\ requests[r].employee = e
     /\ requests[r].state \in Active
     /\ Overlap(requests[r].start, requests[r].end, s, t)}

-----------------------------------------------------------------------------
(* Handlers *)

Ops == {"create", "update", "readBalance", "settle"} \cup Decisions

Steps == {"idle", "find", "checkOverlap", "insert", "edit", "decide",
          "appendDecision", "ensure", "ensureCreate", "charge", "reread",
          "settle", "audit", "publish"}

\* patch: the dates an update names.  start and end: the input's dates, then
\* the dates after the update.  seen: the balance row last read.
Frame ==
  [at : Steps, op : Ops \cup {"none"},
   request : RequestIds \cup {Nil}, employee : Employees \cup {Nil},
   patch : SUBSET {"start", "end"}, start : Instants, end : Instants,
   days : Int, year : Years \cup {NeverSettled}, annual : Nat, cap : Nat,
   seen : BalanceRow]

Idle ==
  [at |-> "idle", op |-> "none", request |-> Nil, employee |-> Nil,
   patch |-> {}, start |-> 0, end |-> 0, days |-> 0,
   year |-> NeverSettled, annual |-> 0, cap |-> 0, seen |-> FreshBalance]

SilentRejectMutant(op) == IF op = "APPROVED" THEN "ensure" ELSE "publish"
ChargedCancelMutant(op) == IF op = "REJECTED" THEN "audit" ELSE "ensure"

\* An approval goes on to leaveBalance.applyUsage, the other decisions do not.
AfterDecision(op) == IF op = "APPROVED" THEN "ensure" ELSE "audit"

UnsentCancelMutant(op) == op \in {"create", "settle", "APPROVED", "REJECTED"}

\* The operations that send a domain event.
Announced(op) == op \in {"create", "settle"} \cup Decisions

\* The store call that follows one that writes, by operation.
After(op, at) ==
  CASE at = "decide" -> "appendDecision"
    [] at = "appendDecision" -> AfterDecision(op)
    [] at = "audit" -> IF Announced(op) THEN "publish" ELSE "idle"
    [] at = "publish" -> "idle"
    [] OTHER -> "audit"

Continue(h, f) ==
  frame' = [frame EXCEPT ![h] = IF f.at = "idle" THEN Idle ELSE f]

\* An early return: the handler throws a ServiceError.
Fail(h) == frame' = [frame EXCEPT ![h] = Idle]

\* What the audit log and the events are about.
Entity(f) == IF f.op \in {"readBalance", "settle"} THEN f.employee ELSE f.request

-----------------------------------------------------------------------------
(* A client opens a request on a free handler. *)

Open(h, f) ==
  /\ frame[h].at = "idle"
  /\ Continue(h, f)
  /\ UNCHANGED <<stores, crashes>>

\* The id is the one the store will hand out: no row and no handler has it.
OpenCreate(h, r, e, s, t) ==
  /\ r \notin DOMAIN requests
  /\ \A g \in Handlers : frame[g].request # r
  /\ Open(h, [Idle EXCEPT !.at = "checkOverlap", !.op = "create",
                          !.request = r, !.employee = e,
                          !.patch = {"start", "end"},
                          !.start = s, !.end = t])

OpenUpdate(h, r, p, s, t) ==
  Open(h, [Idle EXCEPT !.at = "find", !.op = "update", !.request = r,
                       !.patch = p, !.start = s, !.end = t])

OpenDecide(h, r, d) ==
  Open(h, [Idle EXCEPT !.at = "find", !.op = d, !.request = r])

OpenReadBalance(h, e) ==
  Open(h, [Idle EXCEPT !.at = "ensure", !.op = "readBalance", !.employee = e])

OpenSettle(h, e, y, g, c) ==
  Open(h, [Idle EXCEPT !.at = "ensure", !.op = "settle", !.employee = e,
                       !.year = y, !.annual = g, !.cap = c])

OpenSome(h) ==
  \/ \E r \in RequestIds, e \in Employees, s, t \in Instants :
       OpenCreate(h, r, e, s, t)
  \/ \E r \in RequestIds, p \in SUBSET {"start", "end"}, s, t \in Instants :
       OpenUpdate(h, r, p, s, t)
  \/ \E r \in RequestIds, d \in Decisions : OpenDecide(h, r, d)
  \/ \E e \in Employees : OpenReadBalance(h, e)
  \/ \E e \in Employees, y \in Years, g \in AnnualGrants, c \in CarryOverCaps :
       OpenSettle(h, e, y, g, c)

-----------------------------------------------------------------------------
(* The steps of a handler *)

\* 401, 403, 404 across tenants and 400: permission, tenant and input checks
\* all come before the first write, and the handler ends without effect.
Refuse(h) ==
  /\ \/ frame[h].at \in {"find", "checkOverlap", "decide"}
     \/ frame[h].at = "ensure" /\ frame[h].op \notin Decisions
  /\ Fail(h)
  /\ UNCHANGED <<stores, crashes>>

ChangeableMutant(row) == row.state \in Active

\* The check of requirePendingRequest on the row it found.
Changeable(row) == row.state = "PENDING"

\* requirePendingRequest, then for an update the dates it would lead to.
FindPending(h) ==
  LET f == frame[h]
      row == requests[f.request]
  IN  /\ f.at = "find"
      /\ \/ /\ f.request \notin DOMAIN requests
            /\ Fail(h)
         \/ /\ f.request \in DOMAIN requests
            /\ ~Changeable(row)
            /\ Fail(h)
         \/ /\ f.request \in DOMAIN requests
            /\ Changeable(row)
            /\ f.op = "update"
            /\ Continue(h, [f EXCEPT
                 !.at = "checkOverlap", !.employee = row.employee,
                 !.start = IF "start" \in f.patch THEN f.start ELSE row.start,
                 !.end = IF "end" \in f.patch THEN f.end ELSE row.end])
         \/ /\ f.request \in DOMAIN requests
            /\ Changeable(row)
            /\ f.op \in Decisions
            /\ Continue(h, [f EXCEPT !.at = "decide", !.employee = row.employee])
      /\ UNCHANGED <<stores, crashes>>

\* calculateLeaveDays throws on inverted dates, ensureNoOverlap on a hit.
CheckOverlap(h) ==
  LET f == frame[h]
      hits == findOverlappingActiveRequests(f.employee, f.start, f.end, f.request)
  IN  /\ f.at = "checkOverlap"
      /\ \/ /\ f.end < f.start \/ hits # {}
            /\ Fail(h)
         \/ /\ f.start <= f.end /\ hits = {}
            /\ Continue(h, [f EXCEPT
                 !.at = IF f.op = "create" THEN "insert" ELSE "edit",
                 !.days = calculateLeaveDays(f.start, f.end)])
      /\ UNCHANGED <<stores, crashes>>

Insert(h) ==
  LET f == frame[h]
      row == [employee |-> f.employee, start |-> f.start, end |-> f.end,
              days |-> f.days, state |-> "PENDING", stamps |-> {}]
  IN  /\ f.at = "insert"
      /\ requests' = [r \in DOMAIN requests \cup {f.request} |->
                        IF r = f.request THEN row ELSE requests[r]]
      /\ approvals' = [approvals EXCEPT ![f.request] = << >>]
      /\ Continue(h, [f EXCEPT !.at = After(f.op, "insert")])
      /\ UNCHANGED <<balances, audited, published, crashes>>

WholeRowMutant(row, f) ==
  [row EXCEPT !.start = f.start, !.end = f.end, !.days = f.days,
              !.state = "PENDING", !.stamps = {}]

StaleDaysMutant(row, f) ==
  [row EXCEPT !.start = IF "start" \in f.patch THEN f.start ELSE @,
              !.end = IF "end" \in f.patch THEN f.end ELSE @]

\* The columns an update names are written, with the days computed before.
EditedRow(row, f) ==
  [row EXCEPT !.start = IF "start" \in f.patch THEN f.start ELSE @,
              !.end = IF "end" \in f.patch THEN f.end ELSE @,
              !.days = f.days]

Edit(h) ==
  LET f == frame[h]
  IN  /\ f.at = "edit"
      /\ requests' = [requests EXCEPT ![f.request] = EditedRow(@, f)]
      /\ Continue(h, [f EXCEPT !.at = After(f.op, "edit")])
      /\ UNCHANGED <<balances, approvals, audited, published, crashes>>

DecidedRowMutant(row, d) == [row EXCEPT !.state = d, !.stamps = @ \cup {d}]

\* The decision's columns are set and those of the two others nulled.
DecidedRow(row, d) == [row EXCEPT !.state = d, !.stamps = {d}]

\* The write names no state it expects; it returns the row's days.
Decide(h) ==
  LET f == frame[h]
  IN  /\ f.at = "decide"
      /\ requests' = [requests EXCEPT ![f.request] = DecidedRow(@, f.op)]
      /\ Continue(h, [f EXCEPT !.at = After(f.op, "decide"),
                               !.days = requests[f.request].days])
      /\ UNCHANGED <<balances, approvals, audited, published, crashes>>

AppendDecision(h) ==
  LET f == frame[h]
  IN  /\ f.at = "appendDecision"
      /\ approvals' = [approvals EXCEPT ![f.request] = Append(@, f.op)]
      /\ Continue(h, [f EXCEPT !.at = After(f.op, "appendDecision")])
      /\ UNCHANGED <<requests, balances, audited, published, crashes>>

AlreadySettledMutant(row, year) == row.lastAccrualYear > year

\* The duplicate check of settleLeaveAccrual; null is before every year.
AlreadySettled(row, year) == row.lastAccrualYear >= year

\* What a handler does with the row leaveBalance.ensure gave it.
UseBalance(h, f, row) ==
  \/ /\ f.op \in Decisions
     /\ Continue(h, [f EXCEPT !.at = "charge", !.seen = row])
  \/ /\ f.op = "readBalance"
     /\ Continue(h, [f EXCEPT !.at = "audit", !.seen = row])
  \/ /\ f.op = "settle"
     /\ ~AlreadySettled(row, f.year)
     /\ Continue(h, [f EXCEPT !.at = "reread"])
  \/ /\ f.op = "settle"
     /\ AlreadySettled(row, f.year)
     /\ Fail(h)

Ensure(h) ==
  LET f == frame[h]
  IN  /\ f.at = "ensure"
      /\ \/ /\ f.employee \in DOMAIN balances
            /\ UseBalance(h, f, balances[f.employee])
         \/ /\ f.employee \notin DOMAIN balances
            /\ Continue(h, [f EXCEPT !.at = "ensureCreate"])
      /\ UNCHANGED <<stores, crashes>>

\* employeeId is unique: a second create throws.
EnsureCreate(h) ==
  LET f == frame[h]
  IN  /\ f.at = "ensureCreate"
      /\ \/ /\ f.employee \in DOMAIN balances
            /\ Fail(h)
            /\ UNCHANGED balances
         \/ /\ f.employee \notin DOMAIN balances
            /\ balances' = [e \in DOMAIN balances \cup {f.employee} |->
                              IF e = f.employee THEN FreshBalance ELSE balances[e]]
            /\ UseBalance(h, f, FreshBalance)
      /\ UNCHANGED <<requests, approvals, audited, published, crashes>>

ChargedRowMutant(row, seen, days) ==
  [seen EXCEPT !.used = seen.used + days,
               !.remaining = seen.granted - (seen.used + days)]

\* The second half of applyUsage: two columns, from the row read before.
ChargedRow(row, seen, days) ==
  [row EXCEPT !.used = seen.used + days,
              !.remaining = seen.granted - (seen.used + days)]

Charge(h) ==
  LET f == frame[h]
  IN  /\ f.at = "charge"
      /\ balances' = [balances EXCEPT ![f.employee] = ChargedRow(@, f.seen, f.days)]
      /\ Continue(h, [f EXCEPT !.at = After(f.op, "charge")])
      /\ UNCHANGED <<requests, approvals, audited, published, crashes>>

\* settleAccrual calls ensure again; rows are never deleted, so it finds one.
Reread(h) ==
  LET f == frame[h]
  IN  /\ f.at = "reread"
      /\ Continue(h, [f EXCEPT !.at = "settle", !.seen = balances[f.employee]])
      /\ UNCHANGED <<stores, crashes>>

CarryOverMutant(remaining, cap) == IF remaining < cap THEN remaining ELSE cap

CarryOver(remaining, cap) ==
  LET left == IF remaining > 0 THEN remaining ELSE 0
  IN  IF left < cap THEN left ELSE cap

SettledRowMutant(f) ==
  LET carry == CarryOver(f.seen.remaining, f.cap)
  IN  [granted |-> f.annual + carry, used |-> 0, remaining |-> f.annual,
       carryOver |-> carry, lastAccrualYear |-> f.year]

\* The update writes every column.
SettledRow(f) ==
  LET carry == CarryOver(f.seen.remaining, f.cap)
  IN  [granted |-> f.annual + carry, used |-> 0, remaining |-> f.annual + carry,
       carryOver |-> carry, lastAccrualYear |-> f.year]

Settle(h) ==
  LET f == frame[h]
  IN  /\ f.at = "settle"
      /\ balances' = [balances EXCEPT ![f.employee] = SettledRow(f)]
      /\ Continue(h, [f EXCEPT !.at = After(f.op, "settle")])
      /\ UNCHANGED <<requests, approvals, audited, published, crashes>>

Audit(h) ==
  LET f == frame[h]
  IN  /\ f.at = "audit"
      /\ audited' = audited \cup {<<f.op, Entity(f)>>}
      /\ Continue(h, [f EXCEPT !.at = After(f.op, "audit")])
      /\ UNCHANGED <<requests, balances, approvals, published, crashes>>

Publish(h) ==
  LET f == frame[h]
  IN  /\ f.at = "publish"
      /\ published' = published \cup {<<f.op, Entity(f)>>}
      /\ Continue(h, [f EXCEPT !.at = After(f.op, "publish")])
      /\ UNCHANGED <<requests, balances, approvals, audited, crashes>>

\* The process dies, or a store call or the publisher throws.
Crash(h) ==
  /\ frame[h].at # "idle"
  /\ crashes < MaxCrashes
  /\ crashes' = crashes + 1
  /\ Fail(h)
  /\ UNCHANGED stores

-----------------------------------------------------------------------------
Work(h) ==
  \/ FindPending(h) \/ CheckOverlap(h) \/ Insert(h) \/ Edit(h) \/ Decide(h)
  \/ AppendDecision(h) \/ Ensure(h) \/ EnsureCreate(h) \/ Charge(h)
  \/ Reread(h) \/ Settle(h) \/ Audit(h) \/ Publish(h)

Init ==
  /\ requests = << >>
  /\ balances = << >>
  /\ approvals = [r \in RequestIds |-> << >>]
  /\ audited = {}
  /\ published = {}
  /\ frame = [h \in Handlers |-> Idle]
  /\ crashes = 0

Next ==
  \E h \in Handlers : OpenSome(h) \/ Refuse(h) \/ Crash(h) \/ Work(h)

Spec == Init /\ [][Next]_vars

\* An awaited call settles: the event loop and the database answer in the end.
FairSpec == Spec /\ \A h \in Handlers : WF_vars(Work(h))

-----------------------------------------------------------------------------
(* Properties of any number of handlers, crashes included *)

TypeOK ==
  /\ DOMAIN requests \subseteq RequestIds
  /\ \A r \in DOMAIN requests : requests[r] \in LeaveRow
  /\ DOMAIN balances \subseteq Employees
  /\ \A e \in DOMAIN balances : balances[e] \in BalanceRow
  /\ approvals \in [RequestIds -> Seq(Decisions)]
  /\ audited \subseteq Ops \X (RequestIds \cup Employees)
  /\ published \subseteq Ops \X (RequestIds \cup Employees)
  /\ frame \in [Handlers -> Frame]
  /\ crashes \in 0 .. MaxCrashes

\* Whatever decisions and edits race on a request, its row names one decision
\* and carries the timestamp and actor of that decision alone: the nulls each
\* of approve, reject and cancel writes undo a decision it overtook.
DecisionCoherent ==
  \A r \in DOMAIN requests :
    requests[r].stamps =
      IF requests[r].state = "PENDING" THEN {} ELSE {requests[r].state}

\* Carry-over is capped and never negative, the grant of a settled employee is
\* an annual grant plus the carry-over, and an employee without settlement has
\* the default grant: charges that overdraw a balance or race a settlement
\* never show in the accrual columns (applyUsage, settleAccrual).
AccrualCoherent ==
  \A e \in DOMAIN balances :
    LET row == balances[e] IN
      IF row.lastAccrualYear = NeverSettled
      THEN row.carryOver = 0 /\ row.granted = DefaultGrantedDays
      ELSE /\ row.carryOver >= 0
           /\ \E c \in CarryOverCaps : row.carryOver <= c
           /\ row.granted - row.carryOver \in AnnualGrants

Recorded(r, d) == \E i \in DOMAIN approvals[r] : approvals[r][i] = d

\* An event is sent only for what the audit log holds, the audit log holds a
\* decision only if its LeaveApproval row is there, and such a row only exists
\* for a decided request: a consumer of leave.approved.v1 always finds the
\* trail behind it, whichever handlers died on the way.
TrailOrdered ==
  /\ published \subseteq audited
  /\ \A r \in RequestIds, d \in Decisions :
       /\ <<d, r>> \in audited => Recorded(r, d)
       /\ Recorded(r, d) =>
            r \in DOMAIN requests /\ requests[r].state \in Decisions

\* Days are used up only by a recorded approval of a request of the employee:
\* no rejection, cancellation, edit or settlement charges a balance.
UsageHasApproval ==
  \A e \in DOMAIN balances :
    balances[e].used # 0 =>
      \E r \in DOMAIN requests :
        requests[r].employee = e /\ Recorded(r, "APPROVED")

\* A decided request never becomes pending again, however late the write of an
\* edit that found it pending (leave.update names no state then).
DecisionSticks ==
  [][\A r \in DOMAIN requests :
       requests[r].state \in Decisions =>
         r \in DOMAIN requests' /\ requests'[r].state \in Decisions]_vars

\* A charge that read the balance before a settlement and writes it after
\* leaves the settlement's columns alone: only settleAccrual writes them.
OnlySettlementWritesAccrual ==
  [][\A e \in DOMAIN balances :
       \/ /\ balances'[e].granted = balances[e].granted
          /\ balances'[e].carryOver = balances[e].carryOver
          /\ balances'[e].lastAccrualYear = balances[e].lastAccrualYear
       \/ \E h \in Handlers :
            frame[h].at = "settle" /\ frame[h].employee = e]_vars

-----------------------------------------------------------------------------
(* Properties of one handler at a time, and of no schedule in general *)

\* "Overlapping leave requests for same employee are rejected"
\* (src/specs/leave/test-cases.md): no instant is in two active requests.
ActiveDisjoint ==
  \A r1, r2 \in DOMAIN requests :
    /\ r1 # r2
    /\ requests[r1].employee = requests[r2].employee
    /\ {requests[r1].state, requests[r2].state} \subseteq Active
    => ~ \E i \in Instants :
           /\ requests[r1].start <= i /\ i <= requests[r1].end
           /\ requests[r2].start <= i /\ i <= requests[r2].end

\* The days of a request are the Seoul calendar days its dates touch, also
\* after updates that name only one of the dates.
DaysMatchDates ==
  \A r \in DOMAIN requests :
    requests[r].days =
      Cardinality({toSeoulDayIndex(i) : i \in requests[r].start .. requests[r].end})

\* "Final leave decisions are immutable" (src/specs/leave/contract.yaml): no
\* later decision, edit or failure changes the row of a decided request.
DecisionFinal ==
  [][\A r \in DOMAIN requests :
       requests[r].state \in Decisions => requests'[r] = requests[r]]_vars

\* A request is decided once: it never has two LeaveApproval rows.
OneDecision == \A r \in RequestIds : Len(approvals[r]) <= 1

\* "Leave balance continuity" (src/specs/leave/test-cases.md): what remains is
\* what was granted less what was used, across charges and settlements.
BalanceContinuity ==
  \A e \in DOMAIN balances :
    balances[e].remaining = balances[e].granted - balances[e].used

\* "Same employee/year accrual settlement cannot be applied more than once"
\* (src/specs/leave/contract.yaml), nor an older year after a newer one.
SettledOnce ==
  [][\A h \in Handlers :
       Settle(h) =>
         balances[frame[h].employee].lastAccrualYear < frame[h].year]_vars

\* "Manager approves request and audit trail is appended"
\* (src/specs/leave/test-cases.md): once no handler is at work, every decided
\* request is in the audit log under the decision it shows.
QuiescentTrail ==
  (\A h \in Handlers : frame[h].at = "idle") =>
    \A r \in DOMAIN requests :
      requests[r].state \in Decisions => <<requests[r].state, r>> \in audited

\* A decision that was written is announced by its domain event in the end.
EveryDecisionAnnounced ==
  \A r \in RequestIds, d \in Decisions :
    (r \in DOMAIN requests /\ requests[r].state = d) ~> <<d, r>> \in published
=============================================================================
