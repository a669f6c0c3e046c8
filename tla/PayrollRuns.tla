----------------------------- MODULE PayrollRuns -----------------------------
(***************************************************************************)
(* The payroll service (src/src/features/payroll/service.ts): runs are     *)
(* previewed from the approved attendance of a period, gross only or with  *)
(* deductions given by the caller or by a versioned profile, and then      *)
(* confirmed.  It reads the attendance table and never writes it.          *)
(***************************************************************************)
EXTENDS Integers, FiniteSets

CONSTANTS
  Operators,     \* payroll requests the API can have open at the same time
  Employees,     \* employees
  RunIds,        \* ids the store can hand out to payroll runs
  ProfileIds,    \* ids of deduction profiles
  Horizon,       \* instants are 0..Horizon
  MinutePay,     \* gross pay of a payable minute, in KRW
  Contents,      \* what a profile can be written with
  ManualInputs,  \* deductions a caller can give
  MaxVersion,    \* bound on the times a profile is written
  MaxFailures,   \* bound on handlers that die between two awaits
  Nil            \* a null column, an input that was not given

\* Rates in percent, the other deductions in KRW.
Content ==
  [withholding : 0 .. 100, insurance : 0 .. 100, other : Nat,
   active : BOOLEAN, mode : {"manual", "profile"}]

Deductions == [withholding : Nat, insurance : Nat, other : Nat]

ASSUME PayrollAssumption ==
  /\ Horizon \in Nat
  /\ MinutePay \in Nat
  /\ Contents \subseteq Content
  /\ ManualInputs \subseteq Deductions
  /\ MaxVersion \in Nat
  /\ MaxFailures \in Nat
  /\ Nil \notin Employees \cup RunIds \cup ProfileIds \cup Int

VARIABLES
  records,    \* AttendanceRecord rows by id, written by the attendance service
  runs,       \* PayrollRun rows by id
  profiles,   \* DeductionProfile rows by id
  books,      \* audit log entries of the payroll service
  notices,    \* <<operation, run or profile>> of the domain events sent
  desk,       \* each handler's local state
  failures    \* handlers that died so far, at most MaxFailures

payroll == <<runs, profiles, books, notices, desk, failures>>

Periods == {p \in (0 .. Horizon) \X (0 .. Horizon) : p[1] < p[2]}

Total(d) == d.withholding + d.insurance + d.other

Run ==
  [employee : Employees \cup {Nil}, period : Periods, count : Nat, gross : Nat,
   deductions : Deductions \cup {Nil}, net : Int \cup {Nil},
   profile : ProfileIds \cup {Nil}, version : (1 .. MaxVersion) \cup {Nil},
   state : {"PREVIEWED", "CONFIRMED"}]

-----------------------------------------------------------------------------
(* What a run is computed from. *)

PendingToo(e, p, members) ==
  {r \in DOMAIN records :
     /\ e \in {records[r].employee, Nil} /\ records[r].employee \in members
     /\ p[1] <= records[r].checkIn /\ records[r].checkIn <= p[2]}

\* Both ends of the period count; no employee means all of the members, the
\* employees who belong to the operator's tenant when the query runs.
listApprovedInPeriod(e, p, members) ==
  {r \in DOMAIN records :
     /\ records[r].state = "APPROVED"
     /\ e \in {records[r].employee, Nil} /\ records[r].employee \in members
     /\ p[1] <= records[r].checkIn /\ records[r].checkIn <= p[2]}

\* Records without a check-out are counted but not paid.
Payable(r) == IF records[r].minutes = Nil THEN 0 ELSE records[r].minutes

\* One pair for each minute to pay.
PayableMinutes(rs) == UNION {{r} \X (1 .. Payable(r)) : r \in rs}

Gross(rs) == MinutePay * Cardinality(PayableMinutes(rs))

\* Math.round(amount * rate)
Share(amount, percent) == (2 * amount * percent + 100) \div 200

ByProfile(gross, c) ==
  [withholding |-> Share(gross, c.withholding),
   insurance |-> Share(gross, c.insurance), other |-> c.other]

-----------------------------------------------------------------------------
(* Handlers *)

Idle ==
  [at |-> "idle", op |-> "none", run |-> Nil, employee |-> Nil, period |-> Nil,
   deductions |-> Nil, id |-> Nil, expected |-> Nil, version |-> Nil,
   content |-> Nil, count |-> 0, gross |-> 0]

Resume(h, f) == desk' = [desk EXCEPT ![h] = f]

Finish(h) == Resume(h, Idle)

Receive(h, f) ==
  /\ desk[h].at = "idle"
  /\ Resume(h, f)
  /\ UNCHANGED <<runs, profiles, books, notices, failures>>

\* The id is the one the store will hand out: no row and no handler has it.
OpenPreview(h, op, x, e, p, d, id, v) ==
  /\ x \notin DOMAIN runs
  /\ \A g \in Operators : desk[g].run # x
  /\ Receive(h, [Idle EXCEPT !.at = "list", !.op = op, !.run = x, !.employee = e,
                             !.period = p, !.deductions = d, !.id = id,
                             !.expected = v])

OpenConfirm(h, x) == Receive(h, [Idle EXCEPT !.at = "findRun", !.op = "confirm", !.run = x])

OpenUpsert(h, id, c) ==
  Receive(h, [Idle EXCEPT !.at = "upsert", !.op = "upsert", !.id = id, !.content = c])

OpenRead(h, id) ==
  Receive(h, [Idle EXCEPT !.at = "readProfile", !.op = "read", !.id = id])

OpenSome(h) ==
  \/ \E x \in RunIds, e \in Employees \cup {Nil}, p \in Periods :
       \/ OpenPreview(h, "gross", x, e, p, Nil, Nil, Nil)
       \/ \E d \in ManualInputs : OpenPreview(h, "manual", x, e, p, d, Nil, Nil)
       \/ \E id \in ProfileIds, v \in (1 .. MaxVersion) \cup {Nil} :
            OpenPreview(h, "profile", x, e, p, Nil, id, v)
  \/ \E x \in RunIds : OpenConfirm(h, x)
  \/ \E id \in ProfileIds, c \in Contents : OpenUpsert(h, id, c)
  \/ \E id \in ProfileIds : OpenRead(h, id)

\* 401, 403, 404 across tenants, and 409 for a feature that is switched off.
Refuse(h) ==
  /\ desk[h].at \in {"list", "findProfile", "insert", "findRun", "confirm",
                     "upsert", "readProfile"}
  /\ Finish(h)
  /\ UNCHANGED <<runs, profiles, books, notices, failures>>

UncheckedMutant(gross, d) == TRUE

\* 409: netPayKrw cannot be negative.
Affordable(gross, d) == Total(d) <= gross

\* calculatePayrollComputation, in memory after one query. The people service
\* moves employees between tenants at any time, so any of them may be members.
List(h) ==
  \E members \in SUBSET Employees :
    LET f == desk[h]
        found == listApprovedInPeriod(f.employee, f.period, members)
        g == [f EXCEPT !.count = Cardinality(found), !.gross = Gross(found)]
    IN  /\ f.at = "list"
        /\ \/ f.op = "gross" /\ Resume(h, [g EXCEPT !.at = "insert"])
           \/ /\ f.op = "manual" /\ Affordable(g.gross, f.deductions)
              /\ Resume(h, [g EXCEPT !.at = "insert"])
           \/ /\ f.op = "manual" /\ ~Affordable(g.gross, f.deductions)
              /\ Finish(h)
           \/ f.op = "profile" /\ Resume(h, [g EXCEPT !.at = "findProfile"])
        /\ UNCHANGED <<runs, profiles, books, notices, failures>>

\* The profile must be there, active, of mode profile and of the version asked.
Usable(f) ==
  /\ f.id \in DOMAIN profiles
  /\ profiles[f.id].content.active
  /\ profiles[f.id].content.mode = "profile"
  /\ f.expected \in {Nil, profiles[f.id].version}

FindProfile(h) ==
  LET f == desk[h]
      d == ByProfile(f.gross, profiles[f.id].content)
  IN  /\ f.at = "findProfile"
      /\ \/ ~Usable(f) /\ Finish(h)
         \/ Usable(f) /\ ~Affordable(f.gross, d) /\ Finish(h)
         \/ /\ Usable(f) /\ Affordable(f.gross, d)
            /\ Resume(h, [f EXCEPT !.at = "insert", !.deductions = d,
                                   !.version = profiles[f.id].version])
      /\ UNCHANGED <<runs, profiles, books, notices, failures>>

LateVersionMutant(f) ==
  [employee |-> f.employee, period |-> f.period, count |-> f.count, gross |-> f.gross,
   deductions |-> f.deductions,
   net |-> IF f.deductions = Nil THEN Nil ELSE f.gross - Total(f.deductions),
   profile |-> f.id, version |-> IF f.id = Nil THEN Nil ELSE profiles[f.id].version,
   state |-> "PREVIEWED"]

NewRun(f) ==
  [employee |-> f.employee, period |-> f.period, count |-> f.count, gross |-> f.gross,
   deductions |-> f.deductions,
   net |-> IF f.deductions = Nil THEN Nil ELSE f.gross - Total(f.deductions),
   profile |-> f.id, version |-> f.version, state |-> "PREVIEWED"]

Insert(h) ==
  LET f == desk[h]
  IN  /\ f.at = "insert"
      /\ runs' = [x \in DOMAIN runs \cup {f.run} |-> IF x = f.run THEN NewRun(f) ELSE runs[x]]
      /\ Resume(h, [f EXCEPT !.at = "audit"])
      /\ UNCHANGED <<profiles, books, notices, failures>>

FindRun(h) ==
  LET f == desk[h]
      found == f.run \in DOMAIN runs /\ runs[f.run].state = "PREVIEWED"
  IN  /\ f.at = "findRun"
      /\ \/ ~found /\ Finish(h)
         \/ found /\ Resume(h, [f EXCEPT !.at = "confirm"])
      /\ UNCHANGED <<runs, profiles, books, notices, failures>>

GrossOnlyMutant(row) ==
  [row EXCEPT !.state = "CONFIRMED", !.deductions = Nil, !.net = Nil]

\* payroll.update writes state, confirmedAt and confirmedBy, whatever the state.
ConfirmedRow(row) == [row EXCEPT !.state = "CONFIRMED"]

Confirm(h) ==
  LET f == desk[h]
  IN  /\ f.at = "confirm"
      /\ runs' = [runs EXCEPT ![f.run] = ConfirmedRow(@)]
      /\ Resume(h, [f EXCEPT !.at = "audit"])
      /\ UNCHANGED <<profiles, books, notices, failures>>

SameVersionMutant(id) ==
  IF id \in DOMAIN profiles /\ profiles[id].content.active THEN profiles[id].version ELSE 1

FromZeroMutant(id) == IF id \in DOMAIN profiles THEN profiles[id].version + 1 ELSE 0

\* The database increments the version in the statement that writes the row.
NextVersion(id) == IF id \in DOMAIN profiles THEN profiles[id].version + 1 ELSE 1

Upsert(h) ==
  LET f == desk[h]
      row == [version |-> NextVersion(f.id), content |-> f.content]
  IN  /\ f.at = "upsert"
      /\ NextVersion(f.id) <= MaxVersion
      /\ profiles' = [id \in DOMAIN profiles \cup {f.id} |->
                        IF id = f.id THEN row ELSE profiles[id]]
      /\ Resume(h, [f EXCEPT !.at = "audit", !.version = row.version])
      /\ UNCHANGED <<runs, books, notices, failures>>

ReadProfile(h) ==
  LET f == desk[h]
  IN  /\ f.at = "readProfile"
      /\ \/ f.id \notin DOMAIN profiles /\ Finish(h)
         \/ f.id \in DOMAIN profiles /\ Resume(h, [f EXCEPT !.at = "audit"])
      /\ UNCHANGED <<runs, profiles, books, notices, failures>>

\* What the entry's payload holds of the profile or of the run.
Entry(f) ==
  IF f.op \in {"upsert", "read"}
  THEN [op |-> f.op, of |-> f.id, version |-> f.version, content |-> f.content]
  ELSE [op |-> f.op, of |-> f.run]

Audit(h) ==
  LET f == desk[h]
  IN  /\ f.at = "audit"
      /\ books' = books \cup {Entry(f)}
      /\ IF f.op = "read" THEN Finish(h) ELSE Resume(h, [f EXCEPT !.at = "publish"])
      /\ UNCHANGED <<runs, profiles, notices, failures>>

Publish(h) ==
  LET f == desk[h]
  IN  /\ f.at = "publish"
      /\ notices' = notices \cup {Entry(f)}
      /\ Finish(h)
      /\ UNCHANGED <<runs, profiles, books, failures>>

\* The process dies, or a store call or the publisher throws.
Crash(h) ==
  /\ desk[h].at # "idle"
  /\ failures < MaxFailures
  /\ failures' = failures + 1
  /\ Finish(h)
  /\ UNCHANGED <<runs, profiles, books, notices>>

Work(h) ==
  \/ List(h) \/ FindProfile(h) \/ Insert(h) \/ FindRun(h) \/ Confirm(h)
  \/ Upsert(h) \/ ReadProfile(h) \/ Audit(h) \/ Publish(h)

Init ==
  /\ runs = << >>
  /\ profiles = << >>
  /\ books = {}
  /\ notices = {}
  /\ desk = [h \in Operators |-> Idle]
  /\ failures = 0

Serve == \E h \in Operators : OpenSome(h) \/ Refuse(h) \/ Crash(h) \/ Work(h)

Next == Serve /\ UNCHANGED records

\* Whatever else happens to the attendance table.
Spec == Init /\ [][Serve]_payroll

-----------------------------------------------------------------------------
\* With the columns that belong together: a run has a net pay exactly when it
\* has deductions, a version exactly when it has a profile, and no gross pay
\* without a record.
TypeOK ==
  /\ DOMAIN runs \subseteq RunIds
  /\ \A x \in DOMAIN runs :
       /\ runs[x] \in Run
       /\ runs[x].net = Nil <=> runs[x].deductions = Nil
       /\ runs[x].version = Nil <=> runs[x].profile = Nil
       /\ runs[x].count = 0 => runs[x].gross = 0
  /\ DOMAIN profiles \subseteq ProfileIds
  /\ \A id \in DOMAIN profiles :
       profiles[id] \in [version : 1 .. MaxVersion, content : Contents]
  /\ \A h \in Operators :
       /\ desk[h].run \in RunIds \cup {Nil}
       /\ desk[h].version \in (1 .. MaxVersion) \cup {Nil}
  /\ failures \in 0 .. MaxFailures

\* What a run pays is settled when it is previewed, and what its audit entries
\* and events say stays true: however many confirmations found it PREVIEWED and
\* whenever each of them writes, is audited or dies, the run keeps its amounts
\* and deductions (only who confirmed it last, and when, can change), once
\* confirmed it stays so, and a confirmation is recorded or announced only of a
\* run that was confirmed before.
RunsFrozen ==
  [][/\ \A x \in DOMAIN runs :
          x \in DOMAIN runs' /\ runs'[x] \in {runs[x], [runs[x] EXCEPT !.state = "CONFIRMED"]}
     /\ \A b \in (books' \ books) \cup (notices' \ notices) :
          b.op = "confirm" => b.of \in DOMAIN runs /\ runs[b.of].state = "CONFIRMED"
     /\ notices' \subseteq books']_<<records, payroll>>

\* Net pay is gross pay less the deductions and never negative, also where the
\* rates of a profile add up to all of it and each share is rounded up.
NetSound ==
  \A x \in DOMAIN runs :
    runs[x].deductions # Nil =>
      /\ runs[x].net = runs[x].gross - Total(runs[x].deductions)
      /\ runs[x].net >= 0

ProfileEntries == {b \in books : b.op = "upsert"}

\* "Profile-mode preview must persist profile ID and version trace"
\* (src/specs/payroll/contract.yaml): whatever the audit log holds of that
\* version explains the deductions of the run, also when the profile is
\* written while the run is being computed.
TraceFaithful ==
  \A x \in DOMAIN runs, b \in ProfileEntries :
    runs[x].profile = b.of /\ runs[x].version = b.version =>
      runs[x].deductions = ByProfile(runs[x].gross, b.content)

\* A version of a profile is one content for good: two operators who write it
\* at the same time get two versions, and a lost audit entry leaves a gap but
\* never lets a later entry contradict an earlier one or the profile.
VersionsUnique ==
  \A b \in ProfileEntries :
    /\ b.of \in DOMAIN profiles /\ b.version <= profiles[b.of].version
    /\ b.version = profiles[b.of].version => b.content = profiles[b.of].content
    /\ \A c \in ProfileEntries : b.of = c.of /\ b.version = c.version => b = c
=============================================================================
