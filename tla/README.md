# FlowHR in TLA+

FlowHR is a Next.js application for leave, attendance, schedules and payroll.
A request reaches an API route, the route calls one function of a feature
service (`src/src/features/*/service.ts`), and that function awaits store calls
(`shared/prisma-data-access.ts`), an audit entry and a domain event, one after
the other and **without a transaction**. Nothing serialises the requests. That
shape is what this project models: a handler is a request that is open, every
awaited call is an action, and other handlers act in between.

## 1. Inventory

### Components, their state and their operations

| Component | State | Operations that change it | Module |
|---|---|---|---|
| Leave service, `features/leave/service.ts` | `LeaveRequest`, `LeaveApproval`, `LeaveBalanceProjection` rows | create, update, approve, reject, cancel, read balance (creates the row and an audit entry), settle accrual | `LeaveRequests`, `LeaveLedger`, `LeaveRefinement` |
| Scheduling service, `features/scheduling/service.ts` | `WorkSchedule` rows | create | `WorkSchedules` |
| Attendance service, `features/attendance/service.ts` | `AttendanceRecord` rows | create, correct, approve, reject | `AttendanceRecords` |
| Payroll service, `features/payroll/service.ts` | `PayrollRun`, `DeductionProfile` rows | preview (gross), preview with manual or profile deductions, confirm, upsert profile, read profile (audited) | `PayrollRuns` |
| Attendance feeding payroll | both of the above | all of the above | `PayPeriod` |
| Payroll rules, `lib/payroll-rules.ts` and the loop that applies them | none: functions from times to minutes to KRW | - | `PayrollRules` |
| Domain event transport, `shared/*-domain-event-publisher.ts` | cached publisher and its key, in-memory events; per call the attempt | publish, over no-op, memory or HTTP | `EventTransport` |
| People service, `features/people/service.ts` | `Organization`, `Employee` rows | create organization, create and update employee | `People` |
| RBAC service, `features/rbac/service.ts` | `Role`, `RolePermission` rows | upsert role (delete all permissions, create the new ones) | `Roles` |
| Tenancy, permissions, actors, `lib/{permissions,tenancy,actor}.ts` | none: reads roles and employees | - | `Roles`, `People`; action `Refuse` of the other services |
| Audit log, `lib/audit.ts`, `audit.append` | `AuditLog` rows | append | action `Audit` of each service |
| Memory data access, `shared/memory-data-access.ts` | maps, for tests and `FLOWHR_DATA_ACCESS=memory` | the same stores | its role and employee stores in `Roles`, `People` |
| API routes, request schemas, `app/api/**` | none | - | no; the schemas bound the inputs |
| Console UI, `app/page.tsx` | form state | - | no |
| Schema, migrations, row level security, `prisma/` | declarative | - | defaults and keys only |
| CI, operation and test scripts, `scripts/` | none at run time | - | no |

### How they interact

* Services share one database and nothing else. Payroll reads attendance rows
  in a single query and never writes them; every service reads employees, which
  the people service creates and moves between organizations. The queries of
  scheduling and payroll go further and filter rows by the organization that the
  employee has when they run.
* Every write operation ends with `audit.append` and then (leave updates,
  balance reads, profile reads and role upserts excepted) with
  `getEventPublisher().publish`. Both are awaited: if either throws, the API
  call fails although the write stays.
* Permission and tenant checks come before the first write and read the role
  and the employee.

### What is hard

* **Check, then write by id.** `requirePendingRequest`,
  `requireEditableRecord`, the state checks of approve, reject and confirm, the
  overlap checks of leave and scheduling and the duplicate check of accrual
  settlement all read in one await and write in a later one; no write names the
  state it expects.
* **Read, compute, write.** `leaveBalance.applyUsage` and `settleAccrual` add
  to a row they read before; a correction writes only the columns it names.
* **Find, then create.** `leaveBalance.ensure` and `createEmployee`.
* **Delete, then create.** A role upsert deletes the role's permissions and
  creates the new ones in a later statement; every permission check reads them.
* **A tenant check that ages.** `updateEmployee` checks the organization it read
  and then writes its own; the employee may have been moved in between.
  `createWorkSchedule` lists overlaps in the organization it read before
  (`service.ts:66`, `:71`): if the employee has left it by then, the query
  returns nothing and any slot is free.
* **Partial failure.** A handler that dies between two awaits leaves a decided
  request that no retry can finish, since it is no longer pending.
* **Unreliable delivery.** Timeouts abort the wait and not the request; retries
  duplicate; fail-open hides a loss.
* **Numeric edges.** Closed windows of days and periods, open ones of
  schedules, Seoul calendar days, separately rounded shares of a pay.

### What makes each component correct

* *Leave*: one decision that never changes; decision columns, decision row,
  charge, audit entry and event in that order and of the same decision;
  remaining = granted - used; one settlement per year with a capped carry-over;
  active requests that do not overlap; days that are the calendar days touched.
* *Scheduling*: windows of an employee do not overlap, back-to-back is allowed.
* *Attendance*: what is decided stays; approval columns agree with the state;
  one final state event.
* *Payroll*: net = gross - deductions >= 0; a run's profile version explains
  its deductions; versions are unique; what is paid is backed by approved
  records; each minute found worked is in one category; night minutes are the
  night of Seoul; more work never pays less; a run never changes but for its
  confirmation.
* *Roles*: what a role can do was asked for and is in the audit log; a check
  grants nothing else, and refuses nothing else but while a role is rewritten.
* *People*: an id is created once; an employee is where it was put last.
* *Transport*: bounded duplicates, a report of delivery is true, the failure
  policy is the configured one, a publish ends.

## 2. Modules

`LeaveRequests`. `requests`, `balances` and `approvals` are the tables, keyed
by id. `frame[h]` is a handler's local state: `at` is the store call it is
about to make, `op` the service function it runs, the rest its inputs and what
it read. `OpenX` actions are API calls with inputs the schemas admit; `Refuse`
is every 4xx that depends on actor, tenant or input; `FindPending` is
`requirePendingRequest`, `CheckOverlap` is `calculateLeaveDays` and
`ensureNoOverlap`, `Insert`, `Edit`, `Decide`, `AppendDecision` the writes of
the leave store; `Ensure` and `EnsureCreate` the two awaits of
`leaveBalance.ensure`, `Charge` the second half of `applyUsage`, `Reread` and
`Settle` the two halves of `settleAccrual`; `Audit`, `Publish` the trail;
`Crash` a process that dies or a call that throws. `After` is the order of the
calls. Instants are integers, a day is `SlotsPerDay` of them and Seoul is
`SeoulOffset` ahead.

`LeaveLedger` is the abstract specification: submitting, editing, deciding and
settling are one step each, on a ledger and an account of days.
`LeaveRefinement` maps the service to it: an approval counts as charged from
the moment its decision is written (`Owed` counts the days open handlers still
have to charge). `leave_serial` checks the mapping and `SerialRefinement`
proves it.

`WorkSchedules`. `FindEmployee` is `requireEmployeeWithinTenant` and keeps the
organization it read; `List` is the query with the database's inclusive filter,
its filter by that organization, and the service's strict one; `Insert`, `Audit`,
`Publish` are the calls that follow. `Move` is the people service writing another
organization, or none, into an employee's row at any time, whatever checks it
makes. `overtaken` is a history: the ids whose employee had left the organization
when their overlaps were listed.

`AttendanceRecords`. As leave, smaller: `FindPending`, `Insert`, `Edit`,
`Decide`, `Audit`, `Publish`. `minutes` stands for what
`derivePayableMinutes` makes of a record's times, breaks and holiday flag, or
`Nil` while it has no check-out.

`PayrollRuns`. `List` is `calculatePayrollComputation`, one query and the sum
in memory; its `members` are the employees who are in the operator's tenant when
the query runs, any of them, since the people service moves employees; `FindProfile` reads the deduction profile, checks it and computes
the shares with `Math.round`; `Insert` writes the run, `FindRun` and `Confirm`
confirm it, `Upsert` writes a profile and increments its version in the same
statement (Prisma 6 turns this upsert, a single unique key without nested
writes, into `INSERT ... ON CONFLICT`, so it is one action). Gross pay is
`MinutePay` for every payable minute of the answer, counted one by one
(`PayableMinutes`), and rates are whole percents, computed exactly:
binary floating point is not modelled, categories of minutes are in `PayrollRules`.

`PayPeriod` EXTENDS `PayrollRuns` and INSTANCEs `AttendanceRecords` on the same
`records`: a step is one of either service. `PayPeriodAssumption` is
what both need: minutes are natural numbers and `Nil` is no record. Two
histories, written by `Remember`, tell what a state no longer shows: `overtaken`,
the clerks whose next write is to a record that somebody else has decided since
they found it pending, and `overwritten`, the approved rows that such writes
replaced. `Approvals` are the rows a run may rest on: those approved now and
those.

`PayrollRules`. The loop over the records of a period and, inside it, the loop
of `overlapMinutesInWindow` over the minutes of a shift, one step each; the
functions of `payroll-rules.ts` are operators of their names
(`splitPayableMinutes` and `derivePayableMinutes` are `holidayMinutes` and
`workdayMinutes`, for their two cases). Time is in ticks, several to a minute,
and the lengths of the rules are multiples of `MinutesPerHour`: with 60 they
are those of the code. The pay is computed in integers and rounded once, as
`Math.round` does; errors of binary floating point are left out. The attendance
aggregates sum the same minutes with the same function. The properties speak of
time and not of the functions: `Night` is a stretch of each day in ticks,
`NightTicks` what of it lies between two instants, `Taken` the minutes that
`workedMinutes` finds in the records taken, whatever it does with a part of one.

`EventTransport`. `PublishLocally` and `PublishOverHttp` are
`getRuntimeDomainEventPublisher` and `getHttpDomainEventPublisher` with its
cache; `Receive`, `ConnectionFails` and `Timeout` are the three ways an attempt
of `HttpDomainEventPublisher.publish` ends, `AttemptFailed` its catch block,
`Retry` the end of the back-off. `Arrive`, `Lose` and `Configure` are the
receiver, the network and the environment, which are not code of the
repository. A 2xx answer means the receiver has taken the event. The cache key
joins its parts with `|`; the model takes it as injective.

`Roles`. `Check` is `requirePermission`, the first thing every service function
does: with `rbac_v1` on it reads the role's permissions, else the defaults of
`lib/rbac.ts`. `OpenRequest` is a request of any other service, reduced to the
permission it needs; `OpenUpsert` goes on to `FindRole` and the store:
`UpsertInMemory` is the in-memory store's single step, `UpsertRow`, `Clear`,
`Grant` and `ReadBack` are the four statements of the Prisma store, then
`Audit`. `deployed` says which store the process has and whether `rbac_v1` is
on. The database and the in-memory store start with different permissions
(`Seed`, `Defaults`): `src/src/lib/rbac.ts:45` asks that the two stay aligned,
but the migration `202602150001_rbac_foundation` leaves
`attendance.record.write.own` and `leave.request.write.own` out for `admin` and
`system`. Both roles have the permission to write any record, which is looked
at first, so no request fares differently; the model only needs that the two
may differ. `lost` is a history: the lists of upserts that died writing.

`People`. `OpenCreateEmployee` and its like check what needs no store (tenant
scope, `MayName`), `FindEmployee` is the read with the checks that follow it
(409, 404, 403), `Insert` and `Update` the writes, with the primary and foreign
keys where the store is Prisma (`KeyIsFree`, `OrgIsKnown`), `Audit` and
`Publish` the trail. An actor is what the tenant check sees of it: the role
`system`, an organization, or neither. `placed` and `overtaken` are histories:
where a creation or the platform put an employee last, and the tenants that
were just then between their check and their write.

Definitions named `...Mutant` (and `PendingToo`) are plausible bugs of the
definition below them, kept to show that a property can fail; nothing else
uses them.

The modules that have proofs, `...Proofs`, extend the modules they are about.
`MC...` modules give small instances.

`PayrollRuns` has two next-state relations: `Next`, in which nothing writes the
attendance table, for its own run; and `Spec` with `Serve`, in which anything
may, for the proofs and for the composition `PayPeriod`.

## 3. Runs

| Run | Instance | Shows |
|---|---|---|
| `leave_concurrent` | 2 handlers, 1 request, 2 years, 1 crash | what survives every interleaving: `DecisionCoherent`, `AccrualCoherent`, `TrailOrdered`, `UsageHasApproval`, `DecisionSticks`, `OnlySettlementWritesAccrual` |
| `leave_serial` | 1 handler, 2 requests, 2 instants with a Seoul midnight between them, 2 years | the contract, served one at a time: refinement of `LeaveLedger`, `QuiescentTrail`, `ActiveDisjoint`, `DaysMatchDates`, `DecisionFinal`, `BalanceContinuity`, `SettledOnce`, and that decisions are announced |
| `leave_race_first_balance` | 2 handlers, no crash | **violated**: an approval fails half way because somebody else created the balance row |
| `schedules` | 2 handlers, 3 schedules, 2 employees who are moved in and out of 1 organization, 4 instants, 1 crash | `BookingsBounded`, `RefusedIffTaken`, `TrailOrdered` |
| `attendance` | 2 handlers, 1 record, 2 instants, 1 crash | `StampCoherent`, `TrailOrdered`, `DecisionSticks`, `EveryDecisionAnnounced` |
| `payroll` | 2 handlers, 1 run, 1 profile of up to 2 versions, 3 attendance rows, 1 crash | `TypeOK`, `NetSound`, `TraceFaithful`, `VersionsUnique`, `RunsFrozen` |
| `payroll_rules` | one shift of any length up to 90 ticks (30 hours) at any tick of a day, and every sequence of two and three out of eight chosen records | `NightTrue`, `MinutesAccounted`, `MoreWorkNeverPaysLess` |
| `payroll_mix` | the same sequences | **violated**: overtime of a workday paid at the rate of holiday overtime |
| `payday` | 2 attendance handlers and 1 payroll handler, 1 record, 3 instants | `PaidIsBacked`, `OverwrittenOnlyLate` |
| `transport` | 2 events, up to 1 retry, 5 environments, 2 changes | `CopiesBounded`, `FailurePolicy`, `FreshOptions`, `EveryCallEnds` |
| `roles` | 2 handlers, 1 actor role and 1 other, 4 lists, both stores, `rbac_v1` on and off, 1 crash | `StoredIsExplained`, `VerdictExplained`, `LockoutIsFinal` |
| `people` | 2 handlers, 1 employee id, 2 tenants and the platform, both stores, tenancy on and off, 1 crash | `CreatedOnce`, `MovesStick` |

The violated runs are disagreements between what `src/specs/` says (test cases
and shared rules) and the code, listed as findings in `PROJECT.json` with the
lines they quote. `leave_race_first_balance` is find-then-create met by two
requests that are open together. `payroll_mix` is of another kind:
`calculateGrossPay` sees the totals of a period and no longer the records they
come from.

Check-then-write by id has four more consequences, each a property that holds
with one handler and fails with two; no run of their own repeats them:

* a decided leave request can be decided again or edited: `DecisionFinal` is
  checked by `leave_serial` and proved for one handler, while
  `src/specs/leave/contract.yaml:80` says "Final leave decisions are immutable
  and auditable.";
* overlapping schedules can be booked: `NoOverlap` is proved for one handler and
  employees who are not moved between its two reads (the move alone, with one
  handler, is enough to break it), `BookingsBounded` says what is left with
  several, while `src/specs/scheduling/contract.yaml:44` says that windows must
  not overlap;
* an accrual year can be settled twice (`SettledOnce`);
* a decided attendance record can be decided again, with an event each, or
  corrected after payroll has read it, while
  `src/specs/attendance/contract.yaml:72` says "An approved attendance record
  cannot be silently overwritten." `RecordsFinal` is proved for one attendance
  handler; `OverwrittenOnlyLate` says what is left with several, and
  `PaidIsBacked` what that leaves of a run: the rows it paid were approved, but
  need not be any more.

One disagreement has no run and no property. `workedMinutes`
(`src/src/lib/payroll-rules.ts:27`) floors a shift to whole minutes, while
`src/specs/common/time-and-payroll-rules.md:29` says "Round to nearest minute,
with 30 seconds rounding up." The model floors as the code does, on shifts that
do end inside a minute, and a property that asked for rounding would fail on any
of them. A unit test of the one line shows as much. `MinutesAccounted` takes the
minutes as `workedMinutes` finds them and would hold of rounded ones too.

What `roles` and `people` show is what remains true without transactions. Two
overlapping upserts can leave a role with the union of their lists, which no
single audit entry holds; `StoredIsExplained` says that it is never anything
else, and empty only during a rewrite or after a crash. An upsert may take
`rbac.manage` from the last role that has it, or die before giving it back:
`LockoutIsFinal` says that no request can undo that. `MovesStick` says how far
a tenant check reaches: the old tenant of a moved employee can pull it back
with an update that was under way, nobody else can.

### Bounds, and why they are enough

* *Two handlers.* Every race of the code is between one call's read and another
  call's write of the same row; two handlers give all orders of the two. What
  is true of any number of handlers is proved, for every service (section 4).
* *One request, record or run under contention.* Rows of different ids meet
  only in the overlap queries (`leave_serial` and `schedules` have two and
  three rows) and in a payroll sum (`payroll` has three attendance rows).
* *Instants.* Two instants give an instant, an interval and disjoint windows;
  `leave_serial` puts the Seoul midnight between them while both are in one UTC
  day; `schedules` has four, for nested, touching, partly overlapping and
  disjoint windows; `payday` has three, for adjacent periods and a record on
  the instant they share.
* *Organizations.* `schedules` has one: an employee is in it, or in none, which
  to a query for the one is the same as being in another.
* *Years, caps, grants.* Two years give repeated, late and out-of-order
  settlements; a cap of one below the possible remainder makes it bite; default
  grants of one and two days let requests overdraw the balance.
* *Crashes.* One crash at every possible place; liveness of attendance is
  conditional on none. `payday` has none, to keep its two clerks and an operator
  small: a handler that dies stops writing, which one that is never scheduled
  again does as well, and the proofs of both its properties have crashes at will.
* *View.* `payday` takes states that differ only in the audit entries, events
  and inputs of a request that has nothing but its trail left to write as one
  (`Untraced`). No property reads those, and the one guard that does, of the id a
  new row gets, refuses the ids of stored rows anyway.
* *Profiles.* Two versions, three contents: rates that add up to everything
  (with a gross pay of one, each half rounds up), a fixed amount, and one that
  is switched off.
* *Payroll rules.* A minute of three ticks gives check-ins on the minute and at
  two places inside it; an hour of one minute keeps a day at 72 ticks, so that
  every check-in is combined with every length up to more than a day, which
  crosses two nights, and with breaks longer than the shift. A night of four
  minutes exceeds the three that are paid without overtime premium.
* *Transport.* Budgets of one and two attempts under either failure policy,
  and two changes of the environment, so one may fall between two calls and
  one inside a call. `MaxSettings` also bounds `Reset`.

* *Roles and people.* Two lists whose union neither is, an empty one and one
  with an unknown permission; a role no actor has, which an upsert creates. One
  employee id, since creations and updates of different ids never meet. Where
  the switch under test is off (`rbac_v1`, `tenancy_v1`), no check reads the
  tables, so `MCInit` then keeps one of the two stores.

`MaxCrashes`, `MaxFailures`, `MaxVersion`, `MaxSettings` and the finite sets of
ids are the only bounds the code does not have. Runs where the ids or the calls
run out do not check deadlock; in `leave_*` and `attendance*` a free handler
can always open a request, and deadlock is checked.

### Fairness

`FairSpec` of leave and attendance has weak fairness of each handler's `Work`:
an awaited call settles, because the event loop and the database answer in the
end. Clients are not fair, neither are crashes and refusals. `FairSpec` of the
transport has weak fairness of the two timers, the abort timer and the back-off,
which Node fires; nothing is assumed of the network, so `EveryCallEnds` holds
against a receiver that never answers.

## 4. What is proved

All theorems hold for every value of the constants under the modules' named
assumptions and, where a theorem has one, its own hypothesis: `Alone`, `Lasting`,
`OneClerk` (of `RecordsAreFinal` only) and `AttendanceTable`, each explained
below.

* `LeaveRequestsProofs`: for any number of handlers, requests, employees and
  crashes. The properties are not inductive by themselves: `TrailOrdered`, for
  one, needs that a handler about to write an audit entry has its decision row
  behind it. `Inv` therefore conjoins them with `Placed` for every frame, which
  says what a handler at each call may rely on *whatever the others do since* -
  rows exist and stay, a decided request stays decided, a recorded decision
  stays recorded. `PlacedStable` shows that stores that only grow in this sense
  (`Grows`) keep every other handler's `Placed`; `FrameStep`, `LocalStep` and
  `StoreStep` reduce each action to its own handler and its own table. From
  `Invariance`: `TypeCorrect`, `DecisionsAreCoherent`, `AccrualsAreCoherent`,
  `TrailsAreOrdered`, `UsageIsApproved`, and the action properties
  `DecisionsStick` and `SettlementsStand`.
  The second half of the module is about a lone handler (`Alone`), which may
  still die between any two calls. `SerialInv` adds `Ready`: what the handler
  read is still what the stores hold, so its check is as good as one made at
  the write. From it `SerialDisjoint`, `SerialContinuity`, `SerialDecidedOnce`,
  `SerialFinal`, `SerialSettledOnce`. `DatesInv` says that rows, and handlers
  about to write one, hold the days of their dates; an edit keeps that because
  the dates it does not write are, by `Ready`, those it computed with. That
  gives `SerialDays`. Two results also need that no handler dies (`Lasting`,
  `MaxCrashes = 0`), since a crash between the decision and the charge does
  lose the charge: `SerialTrail` (`TrailInv`: a decision is in the audit log,
  or a handler is on its way to put it there and cannot fail, as nobody else
  creates the balance row it is about to create) and `SerialRefinement`. The
  latter shows for each store call that it is a step of `LeaveLedger` or none:
  a request, an edit and a settlement happen at their own write, an approval
  and its charge at `Decide`, and `Charge` changes nothing since the days move
  from `Owed` to the row. `Alone` is exactly what the violated run lacks.
* `WorkSchedulesProofs`: `Charged` counts a window that passed its check as if
  it were booked, one per handler; that bounds bookings of a slot by the number
  of handlers. Employees may be moved at any moment: a window that was checked in
  an organization its employee had left is not counted, and `overtaken` says
  which those are from their check on (`BookingsAreBounded`).
  `SerialSchedulesDisjoint` is the case of one handler whom no move overtook.
  `RefusalsAreExact` shows that the database's inclusive filter and the service's
  strict one together find a window exactly where a slot is taken, and that a
  request whose employee has left finds none; it needs that no stored window is
  empty (`Windows`).
* `AttendanceProofs`: for any number of handlers, records and crashes. `Placed`
  says of a handler before its audit entry or its event that the row is there
  and decided, `Reserved` that two open insertions have different ids. From
  them `StampsAreCoherent`, `TrailIsOrdered` and `DecisionsStick`.
* `PayrollProofs`: over an attendance table that anybody may write in between.
  Three things say which content a version of a profile has (`Sayings`): the
  profile itself, the audit entries, and handlers about to write theirs.
  `Consistent` says that they agree, `Bounded` that none is ahead of the
  profile, `RunsExplained` that the deductions of runs follow from them. From these
  `TracesAreFaithful` and `VersionsAreUnique`; `RunsAreFrozen` from `Placed` of
  a confirming handler. `PayrollTypes` and `NetIsSound` have a hypothesis on the
  table, `AttendanceTable`: finitely many records, of which none has negative
  minutes. `PaydayTable` proves it of the attendance service, and `PaydayIsPayroll`
  carries all of the above over to `PayPeriod` (`PaydayTypes`).
  The rest is about any number of clerks and operators. `Late` is the invariant
  of the clerks: one about to write a record that is not pending is in
  `overtaken`. Hence `OverwritesAreLate`, and `RecordsAreFinal` for one clerk
  (`OneClerk`), whom nobody can overtake (`NobodyOvertaken`). `Backing` says of
  every run, and of every handler on its way to insert one, that the records it
  counted are in `Approvals` with the times it read (`Owed`). It holds across
  an attendance step because `Approvals` only grows: a row that is approved stays
  as it is or is replaced by a late write, which `Remember` keeps. That gives
  `PaidIsAlwaysBacked`, which is not true of the approved rows alone.
* `PayrollRulesProofs`: for any clock, rate, multipliers and lists of records.
  `Sampled` is the invariant of the minute loop. `NightOfMinute` is its heart: a
  minute that begins inside a minute of the clock is night for its first part if
  its start is, and for the rest if its end is, and how far a start is into its
  minute (`Phase`) never changes. So the errors telescope: however long the
  shift, what is missed is `Phase` times the difference between the cursor's hour
  and the check-in's (`NightIsTrue`). That sampling may use any instant of a
  minute rests on hours being whole minutes (`HourOfMinute`), and that the hour of
  day in Seoul is the night on `HoursSinceMidnight`. `Counted` ties each category
  to a set of minutes of the records taken (`MinutesAreAccounted`); `PayNeverFalls` shows
  each summand of the pay, and the rounding of their sum, to be monotone.
* `EventTransportProofs`: for any budget of retries, any network and any changes
  of the environment. `Copies` bounds what arrived and what is on its way by
  the attempts made, `Honest` says that a call that reports delivery was
  received. From them `CopiesAreBounded`, `FailuresFollowPolicy` and
  `OptionsAreFresh`.
* `RolesProofs`: for any roles, lists and number of upserts. What explains a
  role's permissions is never lost (`ExplainedGrows`): a list goes from the
  handler to the audit log or, in a crash, to the history. From it
  `PermissionsAreExplained` and `VerdictsAreExplained`; `LockoutsAreFinal` needs
  that an open upsert requires `rbac.manage`.
* `PeopleProofs`: `Counted` ties audit entries and open creations to the one row
  there is; `Entitled` says of every tenant about to write an employee that it
  has it, or was overtaken by its last move. From them `BirthsAreUnique` and
  `PlacementsHold`.

The type invariants are proved in every proof module, and no run repeats them
but `payroll`, whose `TypeOK` also says which columns of a run belong together.

Every invariant and action property of the passing runs, and the refinement, is
stated by one of these theorems. Model-checked only is liveness:
`EveryDecisionAnnounced` of leave and of attendance, and `EveryCallEnds` of the
transport. The provers installed do not deal with `ENABLED`, on which weak
fairness rests. The two violated properties are TLC's alone, of course.

Counting does what a sum over a set would do: `Gross`, `Owed` and
`MinutesAccounted` are sizes of sets of pairs (a record and one of its minutes),
not folds, so that the theorems on finite sets apply; what a fold computes would
take an induction over data.

## 5. What is not modelled, and why

* List and aggregate queries read and return; they change nothing.
* `MoreWorkNeverPaysLess` is stated for multipliers of at least 100 percent: the
  request schema admits any positive ones, and with a holiday multiplier below
  one the first holiday of a period can lower the pay of its overtime.
* Which permission an operation needs and which tenant it is for, outside
  `Roles` and `People`: `Refuse` of the other services lets any check fail, so
  their properties hold whatever the permissions. How a token becomes an actor
  is left out.
* Reasons, names, notes and timestamps, except whether the decision columns are
  null.
* The in-memory stores of leave, attendance, schedules and payroll, which do in
  one step what the modelled Prisma stores do in several. Two differences are
  worth knowing: `employees.create` replaces a row with the same id (which
  `People` has), and `leaveBalance` writes the whole row it read before its own
  await.
* What the audit entries say beyond who was meant: the `before` of an employee
  update is the row as it was read and need not be the row that was replaced.
* API parsing, the console, migrations, policies and scripts: I/O or
  declarative text without behaviour of its own.

## 6. Plan

Done, in this order: `LeaveRequests` with `LeaveLedger` and `LeaveRefinement`, `WorkSchedules`,
`AttendanceRecords`, `PayrollRuns`, `PayPeriod`, `EventTransport`,
`PayrollRules`, `Roles`, `People`, with the proofs above.

Next, modelling: the permission and tenant checks of `Roles` and `People` in
front of a leave handler, in place of `Refuse`; and `PayPeriod` with two
adjacent periods and confirmations, which asks how often a record is paid.

Next, proofs: how many copies of an event a receiver can have across several
calls; an abstract specification of schedules, booked in one step, that a lone
handler implements.
