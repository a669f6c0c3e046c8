------------------------- MODULE LeaveRequestsProofs -------------------------
(***************************************************************************)
(* What holds of LeaveRequests for any number of handlers, employees,      *)
(* requests and crashes, and what holds when requests are served one at a  *)
(* time.                                                                   *)
(***************************************************************************)
EXTENDS LeaveRefinement, SequenceTheorems, FiniteSetTheorems, TLAPS

\* What a handler relies on at each step, given the stores.
Placed(f) ==
  /\ f.at = "find" =>
       f.op \in {"update"} \cup Decisions /\ f.request \in RequestIds
  /\ f.at = "checkOverlap" =>
       /\ f.op \in {"create", "update"}
       /\ f.request \in RequestIds /\ f.employee \in Employees
       /\ f.op = "update" => f.request \in DOMAIN requests
  /\ f.at = "insert" =>
       f.op = "create" /\ f.request \in RequestIds /\ f.employee \in Employees
  /\ f.at = "edit" => f.op = "update" /\ f.request \in DOMAIN requests
  /\ f.at \in {"decide", "appendDecision"} =>
       /\ f.op \in Decisions /\ f.request \in DOMAIN requests
       /\ f.employee \in Employees
       /\ requests[f.request].employee = f.employee
  /\ f.at = "appendDecision" => requests[f.request].state \in Decisions
  /\ f.at \in {"ensure", "ensureCreate"} =>
       f.op \in {"APPROVED", "readBalance", "settle"} /\ f.employee \in Employees
  /\ f.at = "charge" => f.op = "APPROVED"
  /\ f.at \in {"charge", "reread", "settle"} => f.employee \in DOMAIN balances
  /\ f.at \in {"ensure", "ensureCreate", "charge"} /\ f.op = "APPROVED" =>
       /\ f.request \in DOMAIN requests
       /\ requests[f.request].employee = f.employee
       /\ Recorded(f.request, "APPROVED")
  /\ f.at \in {"reread", "settle"} => f.op = "settle"
  /\ f.op = "settle" =>
       /\ f.employee \in Employees /\ f.year \in Years
       /\ f.annual \in AnnualGrants /\ f.cap \in CarryOverCaps
  /\ f.at \in {"audit", "publish"} =>
       <<f.op, Entity(f)>> \in Ops \X (RequestIds \cup Employees)
  /\ f.at = "audit" /\ f.op \in Decisions =>
       f.request \in RequestIds /\ Recorded(f.request, f.op)
  /\ f.at = "publish" => <<f.op, Entity(f)>> \in audited

\* The rows handlers create are new, each to one handler.
Creating(h) ==
  frame[h].op = "create" /\ frame[h].at \in {"checkOverlap", "insert"}

Reserved ==
  \A g, h \in Handlers :
    Creating(h) =>
      /\ frame[h].request \notin DOMAIN requests
      /\ g # h /\ Creating(g) => frame[g].request # frame[h].request

\* What no step undoes.
Grows ==
  /\ DOMAIN requests \subseteq DOMAIN requests'
  /\ \A r \in DOMAIN requests :
       /\ requests'[r].employee = requests[r].employee
       /\ requests[r].state \in Decisions => requests'[r].state \in Decisions
  /\ DOMAIN balances \subseteq DOMAIN balances'
  /\ \A r \in RequestIds, d \in Decisions : Recorded(r, d) => Recorded(r, d)'
  /\ audited \subseteq audited'

LEMMA FrameUpdate ==
  ASSUME TypeOK, NEW h \in Handlers, NEW f \in Frame, Continue(h, f)
  PROVE  /\ frame' \in [Handlers -> Frame]
         /\ f.at # "idle" => frame'[h] = f
         /\ f.at = "idle" => frame'[h] = Idle
         /\ \A g \in Handlers : g # h => frame'[g] = frame[g]
<1>1. Idle \in Frame
  BY LeaveAssumption DEF Idle, Frame, Steps, Instants, FreshBalance, BalanceRow, NeverSettled
<1> QED
  BY <1>1 DEF Continue, TypeOK

LEMMA PlacedIdle == Placed(Idle)
  BY DEF Placed, Idle

LEMMA PlacedStable ==
  ASSUME TypeOK, Grows, NEW f, Placed(f)
  PROVE  Placed(f)'
<1>1. \A r \in RequestIds, d \in Decisions :
        Recorded(r, d) => (\E i \in DOMAIN approvals'[r] : approvals'[r][i] = d)
  BY DEF Grows, Recorded
<1>2. "APPROVED" \in Decisions
  BY DEF Decisions
<1> QED
  BY <1>1, <1>2 DEF Placed, Grows, TypeOK, Entity, Recorded


\* The inductive invariant.
Inv ==
  /\ TypeOK
  /\ \A h \in Handlers : Placed(frame[h])
  /\ Reserved
  /\ DecisionCoherent
  /\ AccrualCoherent
  /\ TrailOrdered
  /\ UsageHasApproval

\* A frame about to create a row names a new one.
NewRow(h, f) ==
  f.op = "create" /\ f.at \in {"checkOverlap", "insert"} =>
    /\ f.request \notin DOMAIN requests'
    /\ \A g \in Handlers \ {h} : Creating(g) => frame[g].request # f.request

LEMMA FrameStep ==
  ASSUME TypeOK, \A g \in Handlers : Placed(frame[g]), Reserved, Grows,
         NEW h \in Handlers, NEW f \in Frame, Continue(h, f),
         Placed(f)', NewRow(h, f),
         \A g \in Handlers \ {h} :
           Creating(g) => frame[g].request \notin DOMAIN requests'
  PROVE  /\ frame' \in [Handlers -> Frame]
         /\ \A g \in Handlers : Placed(frame[g])'
         /\ Reserved'
<1>1. /\ frame' \in [Handlers -> Frame]
      /\ f.at # "idle" => frame'[h] = f
      /\ f.at = "idle" => frame'[h] = Idle
      /\ \A g \in Handlers : g # h => frame'[g] = frame[g]
  BY FrameUpdate
<1>2. ASSUME NEW g \in Handlers
      PROVE  Placed(frame[g])'
  <2>1. PICK k : k = frame'[g]
    OBVIOUS
  <2>2. Placed(k)'
    <3>1. CASE g # h
      <4>1. k = frame[g] /\ Placed(frame[g])
        BY <1>1, <2>1, <3>1
      <4>2. Placed(k)
        BY <4>1
      <4> QED
        BY <4>2, PlacedStable
    <3>2. CASE g = h /\ f.at = "idle"
      <4>1. k = Idle
        BY <1>1, <2>1, <3>2
      <4> QED
        BY <4>1 DEF Placed, Idle
    <3>3. CASE g = h /\ f.at # "idle"
      <4>1. k = f
        BY <1>1, <2>1, <3>3
      <4> QED
        BY <4>1
    <3> QED
      BY <3>1, <3>2, <3>3
  <2> QED
    BY <2>1, <2>2 DEF Placed, Entity, Recorded
<1>3. Reserved'
  BY <1>1 DEF Reserved, Creating, NewRow, Idle
<1> QED
  BY <1>1, <1>2, <1>3

\* A step that only changes a handler's frame.
LEMMA LocalStep ==
  ASSUME Inv, NEW h \in Handlers, NEW f \in Frame, Continue(h, f),
         UNCHANGED stores, crashes' \in 0 .. MaxCrashes,
         Placed(f), NewRow(h, f)
  PROVE  Inv' /\ Grows
<1>1. Grows
  BY DEF Grows, stores, Recorded
<1>2. Placed(f)'
  BY DEF Placed, stores, Recorded
<1>3. /\ frame' \in [Handlers -> Frame]
      /\ \A g \in Handlers : Placed(frame[g])'
      /\ Reserved'
  <2>1. \A g \in Handlers \ {h} :
          Creating(g) => frame[g].request \notin DOMAIN requests'
    BY DEF Inv, Reserved, stores
  <2>2. TypeOK /\ Reserved /\ \A g \in Handlers : Placed(frame[g])
    BY DEF Inv
  <2> QED
    BY <1>1, <1>2, <2>1, <2>2, FrameStep
<1>4. TypeOK'
  BY <1>3 DEF Inv, TypeOK, stores
<1>5. DecisionCoherent'
  BY DEF Inv, DecisionCoherent, stores
<1>6. AccrualCoherent'
  BY DEF Inv, AccrualCoherent, stores
<1>7. TrailOrdered'
  BY DEF Inv, TrailOrdered, Recorded, stores
<1>8. UsageHasApproval'
  BY DEF Inv, UsageHasApproval, Recorded, stores
<1> QED
  BY <1>1, <1>3, <1>4, <1>5, <1>6, <1>7, <1>8 DEF Inv

LEMMA IdleFrame == Idle \in Frame
  BY LeaveAssumption
  DEF Idle, Frame, Steps, Instants, FreshBalance, BalanceRow, NeverSettled

LEMMA FailStep ==
  ASSUME Inv, NEW h \in Handlers, Fail(h), UNCHANGED stores,
         crashes' \in 0 .. MaxCrashes
  PROVE  Inv' /\ Grows
<1>1. Continue(h, Idle)
  BY DEF Fail, Continue, Idle
<1>2. NewRow(h, Idle)
  BY DEF NewRow, Idle
<1> QED
  BY <1>1, <1>2, IdleFrame, PlacedIdle, LocalStep

LEMMA CrashesType == ASSUME Inv, UNCHANGED crashes PROVE crashes' \in 0 .. MaxCrashes
  BY DEF Inv, TypeOK

LEMMA OpenStep ==
  ASSUME Inv, NEW h \in Handlers, OpenSome(h)
  PROVE  Inv' /\ Grows
<1>1. SUFFICES ASSUME NEW f \in Frame, Open(h, f), Placed(f), NewRow(h, f)
               PROVE  Inv' /\ Grows
  <2>1. ASSUME NEW r \in RequestIds, NEW e \in Employees,
               NEW s \in Instants, NEW t \in Instants, OpenCreate(h, r, e, s, t)
        PROVE  \E f \in Frame : Open(h, f) /\ Placed(f) /\ NewRow(h, f)
    <3> DEFINE f == [Idle EXCEPT !.at = "checkOverlap", !.op = "create",
                       !.request = r, !.employee = e, !.patch = {"start", "end"},
                       !.start = s, !.end = t]
    <3>1. f \in Frame
      BY IdleFrame DEF Frame, Idle, Steps, Ops
    <3>2. f.at = "checkOverlap" /\ f.op = "create" /\ f.request = r /\ f.employee = e
      BY DEF Idle
    <3>3. Placed(f)
      BY <3>2 DEF Placed
    <3>4. Open(h, f)
      BY <2>1 DEF OpenCreate
    <3>5. NewRow(h, f)
      <4>1. UNCHANGED requests
        BY <3>4 DEF Open, stores
      <4> QED
        BY <2>1, <3>2, <4>1 DEF NewRow, OpenCreate
    <3> QED
      BY <3>1, <3>3, <3>4, <3>5
  <2>2. ASSUME NEW r \in RequestIds, NEW p \in SUBSET {"start", "end"},
               NEW s \in Instants, NEW t \in Instants, OpenUpdate(h, r, p, s, t)
        PROVE  \E f \in Frame : Open(h, f) /\ Placed(f) /\ NewRow(h, f)
    <3> DEFINE f == [Idle EXCEPT !.at = "find", !.op = "update", !.request = r,
                       !.patch = p, !.start = s, !.end = t]
    <3>1. f \in Frame
      BY IdleFrame DEF Frame, Idle, Steps, Ops
    <3>2. f.at = "find" /\ f.op = "update" /\ f.request = r
      BY DEF Idle
    <3> QED
      BY <2>2, <3>1, <3>2 DEF Placed, OpenUpdate, NewRow
  <2>3. ASSUME NEW r \in RequestIds, NEW d \in Decisions, OpenDecide(h, r, d)
        PROVE  \E f \in Frame : Open(h, f) /\ Placed(f) /\ NewRow(h, f)
    <3> DEFINE f == [Idle EXCEPT !.at = "find", !.op = d, !.request = r]
    <3>1. f \in Frame
      BY IdleFrame DEF Frame, Idle, Steps, Ops
    <3>2. f.at = "find" /\ f.op = d /\ f.request = r
      BY DEF Idle
    <3> QED
      BY <2>3, <3>1, <3>2 DEF Placed, OpenDecide, NewRow, Decisions
  <2>4. ASSUME NEW e \in Employees, OpenReadBalance(h, e)
        PROVE  \E f \in Frame : Open(h, f) /\ Placed(f) /\ NewRow(h, f)
    <3> DEFINE f == [Idle EXCEPT !.at = "ensure", !.op = "readBalance", !.employee = e]
    <3>1. f \in Frame
      BY IdleFrame DEF Frame, Idle, Steps, Ops
    <3>2. f.at = "ensure" /\ f.op = "readBalance" /\ f.employee = e
      BY DEF Idle
    <3> QED
      BY <2>4, <3>1, <3>2 DEF Placed, OpenReadBalance, NewRow
  <2>5. ASSUME NEW e \in Employees, NEW y \in Years, NEW g \in AnnualGrants,
               NEW c \in CarryOverCaps, OpenSettle(h, e, y, g, c)
        PROVE  \E f \in Frame : Open(h, f) /\ Placed(f) /\ NewRow(h, f)
    <3> DEFINE f == [Idle EXCEPT !.at = "ensure", !.op = "settle", !.employee = e,
                       !.year = y, !.annual = g, !.cap = c]
    <3>1. f \in Frame
      BY IdleFrame, LeaveAssumption DEF Frame, Idle, Steps, Ops
    <3>2. /\ f.at = "ensure" /\ f.op = "settle" /\ f.employee = e
          /\ f.year = y /\ f.annual = g /\ f.cap = c
      BY DEF Idle
    <3> QED
      BY <2>5, <3>1, <3>2 DEF Placed, OpenSettle, NewRow
  <2> QED
    BY <2>1, <2>2, <2>3, <2>4, <2>5 DEF OpenSome
<1>2. Continue(h, f) /\ UNCHANGED stores /\ crashes' \in 0 .. MaxCrashes
  BY <1>1, CrashesType DEF Open
<1> QED
  BY <1>1, <1>2, LocalStep

LEMMA RefuseStep ==
  ASSUME Inv, NEW h \in Handlers, Refuse(h)
  PROVE  Inv' /\ Grows
  BY FailStep, CrashesType DEF Refuse

LEMMA CrashStep ==
  ASSUME Inv, NEW h \in Handlers, Crash(h)
  PROVE  Inv' /\ Grows
<1>1. crashes' \in 0 .. MaxCrashes
  BY LeaveAssumption DEF Crash, Inv, TypeOK
<1> QED
  BY <1>1, FailStep DEF Crash

\* The steps that only read.

LEMMA FindPendingStep ==
  ASSUME Inv, NEW h \in Handlers, FindPending(h)
  PROVE  Inv' /\ Grows
<1> PICK f : f = frame[h]
  OBVIOUS
<1>1. /\ f \in Frame /\ Placed(f) /\ f.at = "find"
      /\ UNCHANGED stores /\ crashes' \in 0 .. MaxCrashes
  BY CrashesType DEF FindPending, Inv, TypeOK, Placed, Recorded, Entity
<1>2. CASE Fail(h)
  BY <1>1, <1>2, FailStep
<1>3. ASSUME f.request \in DOMAIN requests, f.op = "update",
             Continue(h, [f EXCEPT
               !.at = "checkOverlap", !.employee = requests[f.request].employee,
               !.start = IF "start" \in f.patch THEN f.start ELSE requests[f.request].start,
               !.end = IF "end" \in f.patch THEN f.end ELSE requests[f.request].end])
      PROVE  Inv' /\ Grows
  <2> PICK n : n = [f EXCEPT
        !.at = "checkOverlap", !.employee = requests[f.request].employee,
        !.start = IF "start" \in f.patch THEN f.start ELSE requests[f.request].start,
        !.end = IF "end" \in f.patch THEN f.end ELSE requests[f.request].end]
    OBVIOUS
  <2>1. requests[f.request] \in LeaveRow
    BY <1>3 DEF Inv, TypeOK
  <2>2. n \in Frame
    <3>1. /\ requests[f.request].employee \in Employees
          /\ (IF "start" \in f.patch THEN f.start ELSE requests[f.request].start) \in Instants
          /\ (IF "end" \in f.patch THEN f.end ELSE requests[f.request].end) \in Instants
      BY <1>1, <2>1 DEF Frame, LeaveRow
    <3> DEFINE s == IF "start" \in f.patch THEN f.start ELSE requests[f.request].start
               t == IF "end" \in f.patch THEN f.end ELSE requests[f.request].end
               e == requests[f.request].employee
    <3>2. s \in Instants /\ t \in Instants /\ e \in Employees
      BY <3>1
    <3>3. n = [f EXCEPT !.at = "checkOverlap", !.employee = e, !.start = s, !.end = t]
      OBVIOUS
    <3> HIDE DEF s, t, e
    <3>4. PICK m \in Frame : m = [f EXCEPT !.at = "checkOverlap", !.employee = e]
      BY <1>1, <3>2 DEF Frame, Steps
    <3>5. PICK k \in Frame : k = [m EXCEPT !.start = s, !.end = t]
      BY <3>2 DEF Frame
    <3>6. n = k
      BY <3>3, <3>4, <3>5
    <3> QED
      BY <3>6
  <2>3. /\ n.at = "checkOverlap" /\ n.op = "update" /\ n.request = f.request
        /\ n.employee \in Employees
    BY <1>1, <1>3, <2>1 DEF Frame, LeaveRow
  <2>4. Placed(n) /\ NewRow(h, n)
    BY <1>1, <1>3, <2>3 DEF Placed, NewRow
  <2> QED
    BY <1>1, <1>3, <2>2, <2>4, LocalStep
<1>4. ASSUME f.request \in DOMAIN requests, f.op \in Decisions,
             Continue(h, [f EXCEPT !.at = "decide",
                                   !.employee = requests[f.request].employee])
      PROVE  Inv' /\ Grows
  <2> PICK n : n = [f EXCEPT !.at = "decide", !.employee = requests[f.request].employee]
    OBVIOUS
  <2>1. requests[f.request] \in LeaveRow
    BY <1>4 DEF Inv, TypeOK
  <2>2. n \in Frame
    BY <1>1, <2>1 DEF Frame, LeaveRow, Steps
  <2>3. /\ n.at = "decide" /\ n.op = f.op /\ n.request = f.request
        /\ n.employee \in Employees /\ n.employee = requests[f.request].employee
    BY <1>1, <2>1 DEF Frame, LeaveRow
  <2>4. Placed(n) /\ NewRow(h, n)
    BY <1>1, <1>4, <2>3 DEF Placed, NewRow, Decisions
  <2> QED
    BY <1>1, <1>4, <2>2, <2>4, LocalStep
<1> QED
  BY <1>2, <1>3, <1>4 DEF FindPending

LEMMA CheckOverlapStep ==
  ASSUME Inv, NEW h \in Handlers, CheckOverlap(h)
  PROVE  Inv' /\ Grows
<1> PICK f : f = frame[h]
  OBVIOUS
<1>1. /\ f \in Frame /\ Placed(f) /\ f.at = "checkOverlap"
      /\ UNCHANGED stores /\ crashes' \in 0 .. MaxCrashes
  BY CrashesType DEF CheckOverlap, Inv, TypeOK, Placed, Recorded, Entity
<1>2. CASE Fail(h)
  BY <1>1, <1>2, FailStep
<1>3. CASE Continue(h, [f EXCEPT
                 !.at = IF f.op = "create" THEN "insert" ELSE "edit",
                 !.days = calculateLeaveDays(f.start, f.end)])
  <2> PICK n : n = [f EXCEPT !.at = IF f.op = "create" THEN "insert" ELSE "edit",
                             !.days = calculateLeaveDays(f.start, f.end)]
    OBVIOUS
  <2>1. calculateLeaveDays(f.start, f.end) \in Int
    <3>1. f.start \in Int /\ f.end \in Int
      BY <1>1 DEF Frame, Instants
    <3>2. \A t \in Int : (t + SeoulOffset) \div SlotsPerDay \in Int
      BY LeaveAssumption
    <3> QED
      BY <3>1, <3>2 DEF calculateLeaveDays, toSeoulDayIndex
  <2>2. n \in Frame
    BY <1>1, <2>1 DEF Frame, Steps
  <2>3. /\ n.at = IF f.op = "create" THEN "insert" ELSE "edit"
        /\ n.op = f.op /\ n.request = f.request /\ n.employee = f.employee
    BY <1>1 DEF Frame
  <2>4. Placed(n)
    BY <1>1, <2>3 DEF Placed
  <2>5. NewRow(h, n)
    BY <1>1, <2>3 DEF NewRow, Inv, Reserved, Creating, stores
  <2> QED
    BY <1>1, <1>3, <2>2, <2>4, <2>5, LocalStep
<1> QED
  BY <1>2, <1>3 DEF CheckOverlap

\* The frames that leaveBalance.ensure leads to.
LEMMA UseBalanceFrame ==
  ASSUME Inv, NEW h \in Handlers, NEW f \in Frame, Placed(f),
         f.at \in {"ensure", "ensureCreate"}, NEW row \in BalanceRow,
         UseBalance(h, f, row), ~(f.op = "settle" /\ AlreadySettled(row, f.year))
  PROVE  \E n \in Frame :
           /\ Continue(h, n)
           /\ n.op = f.op /\ n.request = f.request /\ n.employee = f.employee
           /\ n.year = f.year /\ n.annual = f.annual /\ n.cap = f.cap
           /\ \/ n.at = "charge" /\ f.op = "APPROVED"
              \/ n.at = "audit" /\ f.op = "readBalance"
              \/ n.at = "reread" /\ f.op = "settle"
<1>1. CASE f.op \in Decisions
  <2> DEFINE n == [f EXCEPT !.at = "charge", !.seen = row]
  <2>1. n \in Frame
    BY DEF Frame, Steps
  <2>2. f.op = "APPROVED" /\ Continue(h, n)
    BY <1>1 DEF UseBalance, Placed, Decisions
  <2> QED
    BY <2>1, <2>2 DEF Frame
<1>2. CASE f.op = "readBalance"
  <2> DEFINE n == [f EXCEPT !.at = "audit", !.seen = row]
  <2>1. n \in Frame
    BY DEF Frame, Steps
  <2>2. Continue(h, n)
    BY <1>2 DEF UseBalance, Decisions
  <2> QED
    BY <1>2, <2>1, <2>2 DEF Frame
<1>3. CASE f.op = "settle"
  <2> DEFINE n == [f EXCEPT !.at = "reread"]
  <2>1. n \in Frame
    BY DEF Frame, Steps
  <2>2. Continue(h, n)
    BY <1>3 DEF UseBalance, Decisions
  <2> QED
    BY <1>3, <2>1, <2>2 DEF Frame
<1> QED
  BY <1>1, <1>2, <1>3 DEF UseBalance

LEMMA EnsureStep ==
  ASSUME Inv, NEW h \in Handlers, Ensure(h)
  PROVE  Inv' /\ Grows
<1> PICK f : f = frame[h]
  OBVIOUS
<1>1. /\ f \in Frame /\ Placed(f) /\ f.at = "ensure"
      /\ UNCHANGED stores /\ crashes' \in 0 .. MaxCrashes
  BY CrashesType DEF Ensure, Inv, TypeOK, Placed, Recorded, Entity
<1>2. CASE Fail(h)
  BY <1>1, <1>2, FailStep
<1>3. ASSUME f.employee \in DOMAIN balances, UseBalance(h, f, balances[f.employee]),
             ~(f.op = "settle" /\ AlreadySettled(balances[f.employee], f.year))
      PROVE  Inv' /\ Grows
  <2>1. balances[f.employee] \in BalanceRow
    BY <1>3 DEF Inv, TypeOK
  <2>2. PICK n \in Frame :
           /\ Continue(h, n)
           /\ n.op = f.op /\ n.request = f.request /\ n.employee = f.employee
           /\ n.year = f.year /\ n.annual = f.annual /\ n.cap = f.cap
           /\ \/ n.at = "charge" /\ f.op = "APPROVED"
              \/ n.at = "audit" /\ f.op = "readBalance"
              \/ n.at = "reread" /\ f.op = "settle"
    BY <1>1, <1>3, <2>1, UseBalanceFrame
  <2>3. Placed(n)
    BY <1>1, <1>3, <2>2 DEF Placed, Entity, Ops, Decisions
  <2>4. NewRow(h, n)
    BY <2>2 DEF NewRow
  <2> QED
    BY <1>1, <2>2, <2>3, <2>4, LocalStep
<1>4. CASE Continue(h, [f EXCEPT !.at = "ensureCreate"])
  <2> PICK n : n = [f EXCEPT !.at = "ensureCreate"]
    OBVIOUS
  <2>1. n \in Frame
    BY <1>1 DEF Frame, Steps
  <2>2. /\ n.at = "ensureCreate" /\ n.op = f.op /\ n.request = f.request
        /\ n.employee = f.employee /\ n.year = f.year /\ n.annual = f.annual
        /\ n.cap = f.cap
    BY <1>1 DEF Frame
  <2>3. Placed(n)
    BY <1>1, <2>2 DEF Placed
  <2>4. NewRow(h, n)
    BY <2>2 DEF NewRow
  <2> QED
    BY <1>1, <1>4, <2>1, <2>3, <2>4, LocalStep
<1> QED
  BY <1>2, <1>3, <1>4 DEF Ensure, UseBalance, Decisions

LEMMA RereadStep ==
  ASSUME Inv, NEW h \in Handlers, Reread(h)
  PROVE  Inv' /\ Grows
<1> PICK f : f = frame[h]
  OBVIOUS
<1>1. /\ f \in Frame /\ Placed(f) /\ f.at = "reread"
      /\ UNCHANGED stores /\ crashes' \in 0 .. MaxCrashes
  BY CrashesType DEF Reread, Inv, TypeOK, Placed, Recorded, Entity
<1> PICK n : n = [f EXCEPT !.at = "settle", !.seen = balances[f.employee]]
  OBVIOUS
<1>2. balances[f.employee] \in BalanceRow
  BY <1>1 DEF Inv, TypeOK, Placed
<1>3. n \in Frame
  BY <1>1, <1>2 DEF Frame, Steps
<1>4. /\ n.at = "settle" /\ n.op = f.op /\ n.request = f.request
      /\ n.employee = f.employee /\ n.year = f.year /\ n.annual = f.annual
      /\ n.cap = f.cap
  BY <1>1 DEF Frame
<1>5. Placed(n) /\ NewRow(h, n)
  BY <1>1, <1>4 DEF Placed, NewRow
<1> QED
  BY <1>1, <1>3, <1>5, LocalStep DEF Reread

-----------------------------------------------------------------------------
(* The steps that write *)

StoresOK ==
  /\ DOMAIN requests \subseteq RequestIds
  /\ \A r \in DOMAIN requests : requests[r] \in LeaveRow
  /\ DOMAIN balances \subseteq Employees
  /\ \A e \in DOMAIN balances : balances[e] \in BalanceRow
  /\ approvals \in [RequestIds -> Seq(Decisions)]
  /\ audited \subseteq Ops \X (RequestIds \cup Employees)
  /\ published \subseteq Ops \X (RequestIds \cup Employees)

\* The handler goes on to a step that creates no request.
LEMMA StoreStep ==
  ASSUME Inv, NEW h \in Handlers, NEW n \in Frame, Continue(h, n), Grows,
         Placed(n)', n.at \notin {"checkOverlap", "insert"},
         \A g \in Handlers \ {h} :
           Creating(g) => frame[g].request \notin DOMAIN requests',
         StoresOK', UNCHANGED crashes, DecisionCoherent', AccrualCoherent',
         TrailOrdered', UsageHasApproval'
  PROVE  Inv' /\ Grows
<1>1. NewRow(h, n)
  BY DEF NewRow
<1>2. TypeOK /\ Reserved /\ \A g \in Handlers : Placed(frame[g])
  BY DEF Inv
<1>3. /\ frame' \in [Handlers -> Frame]
      /\ \A g \in Handlers : Placed(frame[g])'
      /\ Reserved'
  BY <1>1, <1>2, FrameStep
<1>4. TypeOK'
  BY <1>2, <1>3 DEF StoresOK, TypeOK
<1> QED
  BY <1>3, <1>4 DEF Inv

\* The handler writes a balance, the audit log or the event log only.
LEMMA SideStep ==
  ASSUME Inv, NEW h \in Handlers, NEW n \in Frame, Continue(h, n),
         UNCHANGED <<requests, approvals, crashes>>,
         DOMAIN balances \subseteq DOMAIN balances', audited \subseteq audited',
         Placed(n)', n.at \notin {"checkOverlap", "insert"},
         StoresOK', AccrualCoherent', TrailOrdered', UsageHasApproval'
  PROVE  Inv' /\ Grows
<1>1. Grows
  BY DEF Grows, Recorded
<1>2. \A g \in Handlers \ {h} :
        Creating(g) => frame[g].request \notin DOMAIN requests'
  BY DEF Inv, Reserved
<1>3. DecisionCoherent'
  BY DEF Inv, DecisionCoherent
<1> QED
  BY <1>1, <1>2, <1>3, StoreStep

LEMMA AuditStep ==
  ASSUME Inv, NEW h \in Handlers, Audit(h)
  PROVE  Inv' /\ Grows
<1> PICK f : f = frame[h]
  OBVIOUS
<1>1. f \in Frame /\ Placed(f) /\ f.at = "audit"
  BY DEF Audit, Inv, TypeOK, Placed, Recorded, Entity
<1> PICK n : n = [f EXCEPT !.at = After(f.op, "audit")]
  OBVIOUS
<1>2. n \in Frame /\ n.at \in {"publish", "idle"} /\ n.op = f.op /\ Entity(n) = Entity(f)
  BY <1>1 DEF Frame, Steps, After, Entity
<1>3. <<f.op, Entity(f)>> \in Ops \X (RequestIds \cup Employees)
  BY <1>1 DEF Placed
<1>4. audited' = audited \cup {<<f.op, Entity(f)>>} /\ Continue(h, n)
      /\ UNCHANGED <<requests, balances, approvals, published, crashes>>
  BY DEF Audit
<1>5. Placed(n)'
  <2>1. Entity(n) = IF n.op \in {"readBalance", "settle"} THEN n.employee ELSE n.request
    BY DEF Entity
  <2>2. n.op = "settle" => /\ n.employee \in Employees /\ n.year \in Years
                           /\ n.annual \in AnnualGrants /\ n.cap \in CarryOverCaps
    BY <1>1, <1>2 DEF Placed, Frame
  <2> QED
    BY <1>2, <1>3, <1>4, <2>1, <2>2 DEF Placed, Entity
<1>6. StoresOK'
  BY <1>3, <1>4 DEF Inv, TypeOK, StoresOK
<1>7. TrailOrdered'
  <2>1. \A r \in RequestIds, d \in Decisions :
          <<d, r>> = <<f.op, Entity(f)>> => Recorded(r, d)
    BY <1>1 DEF Placed, Entity, Decisions
  <2> QED
    BY <1>4, <2>1 DEF Inv, TrailOrdered, Recorded
<1>8. AccrualCoherent' /\ UsageHasApproval'
  BY <1>4 DEF Inv, AccrualCoherent, UsageHasApproval, Recorded
<1> QED
  BY <1>2, <1>4, <1>5, <1>6, <1>7, <1>8, SideStep

LEMMA PublishStep ==
  ASSUME Inv, NEW h \in Handlers, Publish(h)
  PROVE  Inv' /\ Grows
<1> PICK f : f = frame[h]
  OBVIOUS
<1>1. f \in Frame /\ Placed(f) /\ f.at = "publish"
  BY DEF Publish, Inv, TypeOK, Placed, Recorded, Entity
<1> PICK n : n = [f EXCEPT !.at = "idle"]
  OBVIOUS
<1>2. n \in Frame /\ n.at = "idle"
  BY <1>1 DEF Frame, Steps
<1>3. <<f.op, Entity(f)>> \in Ops \X (RequestIds \cup Employees)
      /\ <<f.op, Entity(f)>> \in audited
  BY <1>1 DEF Placed
<1>4. published' = published \cup {<<f.op, Entity(f)>>} /\ Continue(h, n)
      /\ UNCHANGED <<requests, balances, approvals, audited, crashes>>
  BY <1>1 DEF Publish, After
<1>5. Placed(n)'
  <2>1. n.op = "settle" => /\ n.employee \in Employees /\ n.year \in Years
                           /\ n.annual \in AnnualGrants /\ n.cap \in CarryOverCaps
    BY <1>1 DEF Placed, Frame
  <2> QED
    BY <1>2, <2>1 DEF Placed
<1>6. StoresOK'
  BY <1>3, <1>4 DEF Inv, TypeOK, StoresOK
<1>7. TrailOrdered'
  BY <1>3, <1>4 DEF Inv, TrailOrdered, Recorded
<1>8. AccrualCoherent' /\ UsageHasApproval'
  BY <1>4 DEF Inv, AccrualCoherent, UsageHasApproval, Recorded
<1> QED
  BY <1>2, <1>4, <1>5, <1>6, <1>7, <1>8, SideStep

LEMMA FreshBalanceRow == FreshBalance \in BalanceRow
  BY LeaveAssumption DEF FreshBalance, BalanceRow, NeverSettled

LEMMA EnsureCreateStep ==
  ASSUME Inv, NEW h \in Handlers, EnsureCreate(h)
  PROVE  Inv' /\ Grows
<1> PICK f : f = frame[h]
  OBVIOUS
<1>1. f \in Frame /\ Placed(f) /\ f.at = "ensureCreate"
  BY DEF EnsureCreate, Inv, TypeOK, Placed, Recorded, Entity
<1>2. CASE Fail(h) /\ UNCHANGED balances
  BY <1>2, FailStep, CrashesType DEF EnsureCreate, stores
<1>3. ASSUME f.employee \notin DOMAIN balances,
             balances' = [e \in DOMAIN balances \cup {f.employee} |->
                            IF e = f.employee THEN FreshBalance ELSE balances[e]],
             UseBalance(h, f, FreshBalance), UNCHANGED <<requests, approvals, crashes>>,
             UNCHANGED <<audited, published>>
      PROVE  Inv' /\ Grows
  <2>1. ~(f.op = "settle" /\ AlreadySettled(FreshBalance, f.year))
    <3>1. FreshBalance.lastAccrualYear = 0
      BY DEF FreshBalance, NeverSettled
    <3>2. f.op = "settle" => f.year \in Nat /\ f.year # 0
      BY <1>1, LeaveAssumption DEF Placed
    <3>3. f.op = "settle" => ~(0 >= f.year)
      BY <3>2
    <3> QED
      BY <3>1, <3>3 DEF AlreadySettled
  <2>3. PICK n \in Frame :
           /\ Continue(h, n)
           /\ n.op = f.op /\ n.request = f.request /\ n.employee = f.employee
           /\ n.year = f.year /\ n.annual = f.annual /\ n.cap = f.cap
           /\ \/ n.at = "charge" /\ f.op = "APPROVED"
              \/ n.at = "audit" /\ f.op = "readBalance"
              \/ n.at = "reread" /\ f.op = "settle"
    BY <1>1, <1>3, <2>1, FreshBalanceRow, UseBalanceFrame
  <2>4. DOMAIN balances' = DOMAIN balances \cup {f.employee} /\ f.employee \in Employees
    BY <1>1, <1>3 DEF Placed
  <2>5. Placed(n)'
    BY <1>1, <1>3, <2>3, <2>4 DEF Placed, Entity, Ops, Decisions, Recorded
  <2>6. StoresOK'
    BY <1>3, <2>4, FreshBalanceRow DEF Inv, TypeOK, StoresOK
  <2>7. AccrualCoherent'
    BY <1>3, <2>4 DEF Inv, AccrualCoherent, FreshBalance
  <2>8. UsageHasApproval' /\ TrailOrdered'
    BY <1>3, <2>4 DEF Inv, UsageHasApproval, TrailOrdered, FreshBalance, Recorded
  <2> QED
    BY <1>3, <2>3, <2>4, <2>5, <2>6, <2>7, <2>8, SideStep
<1> QED
  BY <1>2, <1>3 DEF EnsureCreate

\* "min(max(remainingDays, 0), carryOverCapDays)" is capped and not negative.
LEMMA CarryOverBounds ==
  ASSUME NEW remaining \in Int, NEW cap \in Nat
  PROVE  CarryOver(remaining, cap) \in 0 .. cap
  BY DEF CarryOver

LEMMA ChargeStep ==
  ASSUME Inv, NEW h \in Handlers, Charge(h)
  PROVE  Inv' /\ Grows
<1> PICK f : f = frame[h]
  OBVIOUS
<1>1. f \in Frame /\ Placed(f) /\ f.at = "charge"
  BY DEF Charge, Inv, TypeOK, Placed, Recorded, Entity
<1>2. /\ f.op = "APPROVED" /\ f.request \in DOMAIN requests
      /\ f.employee \in DOMAIN balances /\ f.request \in RequestIds
      /\ requests[f.request].employee = f.employee
      /\ Recorded(f.request, "APPROVED")
  BY <1>1 DEF Placed, Inv, TypeOK
<1> PICK n : n = [f EXCEPT !.at = "audit"]
  OBVIOUS
<1>3. n \in Frame /\ n.at = "audit" /\ n.op = f.op /\ n.request = f.request
  BY <1>1 DEF Frame, Steps
<1> PICK row : row = ChargedRow(balances[f.employee], f.seen, f.days)
  OBVIOUS
<1>4. /\ balances[f.employee] \in BalanceRow /\ f.seen \in BalanceRow /\ f.days \in Int
  BY <1>1, <1>2 DEF Inv, TypeOK, Frame
<1>5. /\ row \in BalanceRow
      /\ row.granted = balances[f.employee].granted
      /\ row.carryOver = balances[f.employee].carryOver
      /\ row.lastAccrualYear = balances[f.employee].lastAccrualYear
  <2>1. PICK u \in Int : u = f.seen.used + f.days
    BY <1>4 DEF BalanceRow
  <2>2. PICK m \in Int : m = f.seen.granted - (f.seen.used + f.days)
    BY <1>4 DEF BalanceRow
  <2>3. row = [balances[f.employee] EXCEPT !.used = u, !.remaining = m]
    BY <2>1, <2>2 DEF ChargedRow
  <2> QED
    BY <1>4, <2>3 DEF BalanceRow
<1>6. /\ Continue(h, n) /\ balances' = [balances EXCEPT ![f.employee] = row]
      /\ UNCHANGED <<requests, approvals, audited, published, crashes>>
  BY <1>1 DEF Charge, After
<1>7. Placed(n)'
  BY <1>2, <1>3, <1>6 DEF Placed, Entity, Ops, Decisions, Recorded
<1>8. StoresOK'
  BY <1>5, <1>6 DEF Inv, TypeOK, StoresOK
<1>9. AccrualCoherent'
  BY <1>2, <1>5, <1>6 DEF Inv, AccrualCoherent
<1>10. UsageHasApproval' /\ TrailOrdered'
  BY <1>2, <1>6 DEF Inv, UsageHasApproval, TrailOrdered, Recorded
<1> QED
  BY <1>3, <1>6, <1>7, <1>8, <1>9, <1>10, SideStep

LEMMA SettleStep ==
  ASSUME Inv, NEW h \in Handlers, Settle(h)
  PROVE  Inv' /\ Grows
<1> PICK f : f = frame[h]
  OBVIOUS
<1>1. f \in Frame /\ Placed(f) /\ f.at = "settle"
  BY DEF Settle, Inv, TypeOK, Placed, Recorded, Entity
<1>2. /\ f.op = "settle" /\ f.employee \in DOMAIN balances /\ f.employee \in Employees
      /\ f.year \in Years /\ f.annual \in AnnualGrants /\ f.cap \in CarryOverCaps
  BY <1>1 DEF Placed
<1> PICK n : n = [f EXCEPT !.at = "audit"]
  OBVIOUS
<1>3. /\ n \in Frame /\ n.at = "audit" /\ n.op = f.op /\ n.employee = f.employee
      /\ n.year = f.year /\ n.annual = f.annual /\ n.cap = f.cap
  BY <1>1 DEF Frame, Steps
<1> PICK row : row = SettledRow(f)
  OBVIOUS
<1>4. PICK carry : carry = CarryOver(f.seen.remaining, f.cap)
  OBVIOUS
<1>5. carry \in 0 .. f.cap /\ f.cap \in Nat /\ f.annual \in Nat
  BY <1>1, <1>2, <1>4, LeaveAssumption, CarryOverBounds DEF Frame, BalanceRow
<1>6. row = [granted |-> f.annual + carry, used |-> 0, remaining |-> f.annual + carry,
             carryOver |-> carry, lastAccrualYear |-> f.year]
  BY <1>4 DEF SettledRow
<1>7. row \in BalanceRow
  BY <1>2, <1>5, <1>6 DEF BalanceRow
<1>8. /\ row.lastAccrualYear # NeverSettled /\ row.carryOver >= 0
      /\ row.carryOver <= f.cap /\ row.granted - row.carryOver = f.annual
      /\ row.used = 0
  BY <1>2, <1>5, <1>6, LeaveAssumption DEF NeverSettled
<1>9. /\ Continue(h, n) /\ balances' = [balances EXCEPT ![f.employee] = row]
      /\ UNCHANGED <<requests, approvals, audited, published, crashes>>
  BY <1>1 DEF Settle, After
<1>10. Placed(n)'
  BY <1>2, <1>3, <1>9 DEF Placed, Entity, Ops, Decisions
<1>11. StoresOK'
  BY <1>7, <1>9 DEF Inv, TypeOK, StoresOK
<1>12. AccrualCoherent'
  <2>1. ASSUME NEW e \in DOMAIN balances', e = f.employee
        PROVE  /\ balances'[e].lastAccrualYear # NeverSettled
               /\ balances'[e].carryOver >= 0
               /\ \E c \in CarryOverCaps : balances'[e].carryOver <= c
               /\ balances'[e].granted - balances'[e].carryOver \in AnnualGrants
    BY <1>2, <1>8, <1>9, <2>1
  <2>2. ASSUME NEW e \in DOMAIN balances', e # f.employee
        PROVE  e \in DOMAIN balances /\ balances'[e] = balances[e]
    BY <1>9, <2>2
  <2> QED
    BY <2>1, <2>2 DEF Inv, AccrualCoherent
<1>13. UsageHasApproval' /\ TrailOrdered'
  BY <1>2, <1>8, <1>9 DEF Inv, UsageHasApproval, TrailOrdered, Recorded
<1> QED
  BY <1>3, <1>9, <1>10, <1>11, <1>12, <1>13, SideStep

LEMMA InsertStep ==
  ASSUME Inv, NEW h \in Handlers, Insert(h)
  PROVE  Inv' /\ Grows
<1> PICK f : f = frame[h]
  OBVIOUS
<1>1. f \in Frame /\ Placed(f) /\ f.at = "insert"
  BY DEF Insert, Inv, TypeOK, Placed, Recorded, Entity
<1>2. /\ f.op = "create" /\ f.request \in RequestIds /\ f.employee \in Employees
      /\ f.request \notin DOMAIN requests
      /\ \A g \in Handlers \ {h} : Creating(g) => frame[g].request # f.request
  BY <1>1 DEF Placed, Inv, Reserved, Creating
<1> PICK n : n = [f EXCEPT !.at = "audit"]
  OBVIOUS
<1>3. n \in Frame /\ n.at = "audit" /\ n.op = f.op /\ n.request = f.request
  BY <1>1 DEF Frame, Steps
<1> PICK row : row = [employee |-> f.employee, start |-> f.start, end |-> f.end,
                      days |-> f.days, state |-> "PENDING", stamps |-> {}]
  OBVIOUS
<1>4. row \in LeaveRow /\ row.state = "PENDING" /\ row.stamps = {}
  BY <1>1, <1>2 DEF LeaveRow, Frame
<1>5. /\ requests' = [r \in DOMAIN requests \cup {f.request} |->
                        IF r = f.request THEN row ELSE requests[r]]
      /\ approvals' = [approvals EXCEPT ![f.request] = << >>]
      /\ Continue(h, n) /\ UNCHANGED <<balances, audited, published, crashes>>
  BY <1>1 DEF Insert, After
<1>6. DOMAIN requests' = DOMAIN requests \cup {f.request}
  BY <1>5
<1>7. \A r \in RequestIds, d \in Decisions :
        Recorded(r, d) => r # f.request /\ Recorded(r, d)'
  <2>1. \A r \in RequestIds, d \in Decisions : Recorded(r, d) => r # f.request
    BY <1>2 DEF Inv, TrailOrdered
  <2>2. \A r \in RequestIds : r # f.request => approvals'[r] = approvals[r]
    BY <1>5 DEF Inv, TypeOK
  <2>3. \A r \in RequestIds, d \in Decisions :
          approvals'[r] = approvals[r] => (Recorded(r, d) => Recorded(r, d)')
    BY DEF Recorded
  <2> QED
    BY <2>1, <2>2, <2>3
<1>8. Grows
  BY <1>2, <1>5, <1>6, <1>7 DEF Grows
<1>9. Placed(n)'
  BY <1>2, <1>3, <1>5 DEF Placed, Entity, Ops, Decisions
<1>10. StoresOK'
  BY <1>2, <1>4, <1>5, <1>6 DEF Inv, TypeOK, StoresOK
<1>11. \A g \in Handlers \ {h} :
         Creating(g) => frame[g].request \notin DOMAIN requests'
  BY <1>2, <1>6 DEF Inv, Reserved
<1>12. DecisionCoherent' /\ AccrualCoherent'
  BY <1>4, <1>5 DEF Inv, DecisionCoherent, AccrualCoherent
<1>13. \A r \in RequestIds, d \in Decisions : Recorded(r, d)' => Recorded(r, d)
  BY <1>2, <1>5 DEF Inv, TypeOK, Recorded
<1>14. TrailOrdered'
  BY <1>5, <1>6, <1>7, <1>13 DEF Inv, TrailOrdered
<1>15. UsageHasApproval'
  BY <1>2, <1>5, <1>6, <1>7 DEF Inv, TypeOK, UsageHasApproval, Decisions
<1> QED
  BY <1>3, <1>5, <1>8, <1>9, <1>10, <1>11, <1>12, <1>14, <1>15, StoreStep

\* A handler rewrites the row of a request, keeping its employee.
LEMMA RewriteStep ==
  ASSUME Inv, NEW h \in Handlers, NEW n \in Frame, Continue(h, n),
         NEW r \in DOMAIN requests, NEW row \in LeaveRow,
         row.employee = requests[r].employee,
         requests[r].state \in Decisions => row.state \in Decisions,
         row.stamps = IF row.state = "PENDING" THEN {} ELSE {row.state},
         requests' = [requests EXCEPT ![r] = row],
         UNCHANGED <<balances, approvals, audited, published, crashes>>,
         Placed(n)', n.at \notin {"checkOverlap", "insert"}
  PROVE  Inv' /\ Grows
<1>1. DOMAIN requests' = DOMAIN requests
  OBVIOUS
<1>2. Grows
  BY <1>1 DEF Grows, Recorded
<1>3. StoresOK'
  BY <1>1 DEF Inv, TypeOK, StoresOK
<1>4. \A g \in Handlers \ {h} :
        Creating(g) => frame[g].request \notin DOMAIN requests'
  BY <1>1 DEF Inv, Reserved
<1>5. DecisionCoherent' /\ AccrualCoherent'
  BY <1>1 DEF Inv, DecisionCoherent, AccrualCoherent
<1>6. TrailOrdered' /\ UsageHasApproval'
  <2>1. \A q, d : Recorded(q, d)' <=> Recorded(q, d)
    BY DEF Recorded
  <2>2. TrailOrdered'
    BY <1>1, <2>1 DEF Inv, TypeOK, TrailOrdered
  <2>3. UsageHasApproval'
    BY <1>1, <2>1 DEF Inv, TypeOK, UsageHasApproval
  <2> QED
    BY <2>2, <2>3
<1> QED
  BY <1>2, <1>3, <1>4, <1>5, <1>6, StoreStep

LEMMA EditStep ==
  ASSUME Inv, NEW h \in Handlers, Edit(h)
  PROVE  Inv' /\ Grows
<1> PICK f : f = frame[h]
  OBVIOUS
<1>1. f \in Frame /\ Placed(f) /\ f.at = "edit"
  BY DEF Edit, Inv, TypeOK, Placed, Recorded, Entity
<1>2. f.op = "update" /\ f.request \in DOMAIN requests /\ f.request \in RequestIds
  BY <1>1 DEF Placed, Inv, TypeOK
<1> PICK n : n = [f EXCEPT !.at = "audit"]
  OBVIOUS
<1>3. n \in Frame /\ n.at = "audit" /\ n.op = f.op /\ n.request = f.request
  BY <1>1 DEF Frame, Steps
<1> PICK row : row = EditedRow(requests[f.request], f)
  OBVIOUS
<1>4. /\ row \in LeaveRow /\ row.employee = requests[f.request].employee
      /\ row.state = requests[f.request].state
      /\ row.stamps = requests[f.request].stamps
  <2> DEFINE old == requests[f.request]
             s == IF "start" \in f.patch THEN f.start ELSE old.start
             t == IF "end" \in f.patch THEN f.end ELSE old.end
  <2>1. old \in LeaveRow
    BY <1>2 DEF Inv, TypeOK
  <2>2. s \in Instants /\ t \in Instants /\ f.days \in Int
    BY <1>1, <2>1 DEF Frame, LeaveRow
  <2>3. row = [old EXCEPT !.start = s, !.end = t, !.days = f.days]
    BY DEF EditedRow
  <2> HIDE DEF old, s, t
  <2>4. /\ row \in LeaveRow /\ row.employee = old.employee
        /\ row.state = old.state /\ row.stamps = old.stamps
    BY <2>1, <2>2, <2>3 DEF LeaveRow
  <2> QED
    BY <2>4 DEF old
<1>5. /\ Continue(h, n) /\ requests' = [requests EXCEPT ![f.request] = row]
      /\ UNCHANGED <<balances, approvals, audited, published, crashes>>
  BY <1>1 DEF Edit, After
<1>6. Placed(n)'
  BY <1>2, <1>3, <1>5 DEF Placed, Entity, Ops, Decisions
<1>7. row.stamps = IF row.state = "PENDING" THEN {} ELSE {row.state}
  BY <1>2, <1>4 DEF Inv, DecisionCoherent
<1> QED
  BY <1>2, <1>3, <1>4, <1>5, <1>6, <1>7, RewriteStep

LEMMA DecideStep ==
  ASSUME Inv, NEW h \in Handlers, Decide(h)
  PROVE  Inv' /\ Grows
<1> PICK f : f = frame[h]
  OBVIOUS
<1>1. f \in Frame /\ Placed(f) /\ f.at = "decide"
  BY DEF Decide, Inv, TypeOK, Placed, Recorded, Entity
<1>2. /\ f.op \in Decisions /\ f.request \in DOMAIN requests
      /\ f.employee \in Employees /\ requests[f.request].employee = f.employee
      /\ requests[f.request] \in LeaveRow
  BY <1>1 DEF Placed, Inv, TypeOK
<1> PICK n : n = [f EXCEPT !.at = "appendDecision", !.days = requests[f.request].days]
  OBVIOUS
<1>3. /\ n \in Frame /\ n.at = "appendDecision" /\ n.op = f.op
      /\ n.request = f.request /\ n.employee = f.employee
  BY <1>1, <1>2 DEF Frame, LeaveRow, Steps
<1> PICK row : row = DecidedRow(requests[f.request], f.op)
  OBVIOUS
<1>4. /\ row \in LeaveRow /\ row.employee = requests[f.request].employee
      /\ row.state = f.op /\ row.stamps = {f.op}
  BY <1>2 DEF DecidedRow, LeaveRow
<1>5. /\ Continue(h, n) /\ requests' = [requests EXCEPT ![f.request] = row]
      /\ UNCHANGED <<balances, approvals, audited, published, crashes>>
  BY <1>1 DEF Decide, After
<1>6. Placed(n)'
  BY <1>2, <1>3, <1>4, <1>5 DEF Placed, Decisions
<1>7. row.stamps = IF row.state = "PENDING" THEN {} ELSE {row.state}
  BY <1>2, <1>4 DEF Decisions
<1> QED
  BY <1>2, <1>3, <1>4, <1>5, <1>6, <1>7, RewriteStep

LEMMA AppendDecisionStep ==
  ASSUME Inv, NEW h \in Handlers, AppendDecision(h)
  PROVE  Inv' /\ Grows
<1> PICK f : f = frame[h]
  OBVIOUS
<1>1. f \in Frame /\ Placed(f) /\ f.at = "appendDecision"
  BY DEF AppendDecision, Inv, TypeOK, Placed, Recorded, Entity
<1>2. /\ f.op \in Decisions /\ f.request \in DOMAIN requests /\ f.request \in RequestIds
      /\ f.employee \in Employees /\ requests[f.request].employee = f.employee
      /\ requests[f.request].state \in Decisions
  BY <1>1 DEF Placed, Inv, TypeOK
<1> PICK n : n = [f EXCEPT !.at = AfterDecision(f.op)]
  OBVIOUS
<1>3. /\ n \in Frame /\ n.op = f.op /\ n.request = f.request /\ n.employee = f.employee
      /\ n.at = IF f.op = "APPROVED" THEN "ensure" ELSE "audit"
  BY <1>1 DEF Frame, Steps, AfterDecision
<1>4. /\ Continue(h, n) /\ UNCHANGED <<requests, balances, audited, published, crashes>>
      /\ approvals' = [approvals EXCEPT ![f.request] = Append(@, f.op)]
  BY <1>1 DEF AppendDecision, After
<1>5. /\ approvals'[f.request] = Append(approvals[f.request], f.op)
      /\ approvals[f.request] \in Seq(Decisions)
      /\ approvals' \in [RequestIds -> Seq(Decisions)]
      /\ \A r \in RequestIds : r # f.request => approvals'[r] = approvals[r]
  BY <1>2, <1>4 DEF Inv, TypeOK
<1>6. \A d : Recorded(f.request, d)' <=> Recorded(f.request, d) \/ d = f.op
  <2> PICK s \in Seq(Decisions) : s = approvals[f.request]
    BY <1>5
  <2> PICK t : t = Append(s, f.op)
    OBVIOUS
  <2>1. /\ Len(s) \in Nat /\ DOMAIN s = 1 .. Len(s)
        /\ DOMAIN t = 1 .. (Len(s) + 1)
        /\ \A i \in 1 .. Len(s) : t[i] = s[i]
        /\ t[Len(s) + 1] = f.op
    <3>1. /\ t \in Seq(Decisions) /\ Len(t) = Len(s) + 1
          /\ \A i \in 1 .. Len(s) : t[i] = s[i]
          /\ t[Len(s) + 1] = f.op
      BY <1>2, AppendProperties
    <3>2. /\ Len(s) \in Nat /\ DOMAIN s = 1 .. Len(s) /\ DOMAIN t = 1 .. Len(t)
      BY <3>1, LenProperties
    <3> QED
      BY <3>1, <3>2
  <2>2. \A d : (\E i \in DOMAIN t : t[i] = d) <=> (\E i \in DOMAIN s : s[i] = d) \/ d = f.op
    <3>1. \A i : i \in DOMAIN t <=> i \in DOMAIN s \/ i = Len(s) + 1
      BY <2>1
    <3> QED
      BY <2>1, <3>1
  <2>3. t = approvals'[f.request] /\ s = approvals[f.request]
    BY <1>5
  <2>4. ASSUME NEW d PROVE Recorded(f.request, d)' <=> (\E i \in DOMAIN t : t[i] = d)
    BY <2>3 DEF Recorded
  <2>5. ASSUME NEW d PROVE Recorded(f.request, d) <=> (\E i \in DOMAIN s : s[i] = d)
    BY <2>3 DEF Recorded
  <2> QED
    BY <2>2, <2>4, <2>5
<1>7. \A r \in RequestIds, d \in Decisions :
        Recorded(r, d)' <=> Recorded(r, d) \/ (r = f.request /\ d = f.op)
  <2>1. ASSUME NEW r \in RequestIds, NEW d \in Decisions, r # f.request
        PROVE  Recorded(r, d)' <=> Recorded(r, d)
    BY <1>5, <2>1 DEF Recorded
  <2> QED
    BY <1>6, <2>1
<1>8. Grows
  BY <1>4, <1>7 DEF Grows
<1>9. Placed(n)'
  BY <1>2, <1>3, <1>4, <1>6 DEF Placed, Entity, Ops, Decisions
<1>10. StoresOK'
  BY <1>4, <1>5 DEF Inv, TypeOK, StoresOK
<1>11. \A g \in Handlers \ {h} :
         Creating(g) => frame[g].request \notin DOMAIN requests'
  BY <1>4 DEF Inv, Reserved
<1>12. DecisionCoherent' /\ AccrualCoherent'
  BY <1>4 DEF Inv, DecisionCoherent, AccrualCoherent
<1>13. TrailOrdered'
  BY <1>2, <1>4, <1>7 DEF Inv, TrailOrdered
<1>14. UsageHasApproval'
  BY <1>4, <1>7 DEF Inv, TypeOK, UsageHasApproval, Decisions
<1>15. n.at \notin {"checkOverlap", "insert"}
  BY <1>3
<1> QED
  BY <1>3, <1>4, <1>8, <1>9, <1>10, <1>11, <1>12, <1>13, <1>14, <1>15, StoreStep

-----------------------------------------------------------------------------
(* The theorems *)

LEMMA InitInv == Init => Inv
<1> SUFFICES ASSUME Init PROVE Inv
  OBVIOUS
<1>1. /\ DOMAIN requests = {} /\ DOMAIN balances = {}
      /\ audited = {} /\ published = {} /\ crashes = 0
      /\ \A r \in RequestIds : approvals[r] = << >>
      /\ \A h \in Handlers : frame[h] = Idle
  BY DEF Init
<1>2. TypeOK
  BY <1>1, IdleFrame, LeaveAssumption DEF Init, TypeOK
<1>3. \A h \in Handlers : Placed(frame[h])
  BY <1>1, PlacedIdle DEF Placed, Entity, Recorded
<1>4. Reserved
  BY <1>1 DEF Reserved, Creating, Idle
<1>5. TrailOrdered
  BY <1>1 DEF TrailOrdered, Recorded
<1>6. DecisionCoherent /\ AccrualCoherent /\ UsageHasApproval
  BY <1>1 DEF DecisionCoherent, AccrualCoherent, UsageHasApproval
<1> QED
  BY <1>2, <1>3, <1>4, <1>5, <1>6 DEF Inv

LEMMA NextInv == Inv /\ Next => Inv' /\ Grows
<1> SUFFICES ASSUME Inv, NEW h \in Handlers,
                    OpenSome(h) \/ Refuse(h) \/ Crash(h) \/ Work(h)
             PROVE  Inv' /\ Grows
  BY DEF Next
<1>1. CASE OpenSome(h)
  BY <1>1, OpenStep
<1>2. CASE Refuse(h)
  BY <1>2, RefuseStep
<1>3. CASE Crash(h)
  BY <1>3, CrashStep
<1>4. CASE Work(h)
  BY <1>4, FindPendingStep, CheckOverlapStep, InsertStep, EditStep, DecideStep,
     AppendDecisionStep, EnsureStep, EnsureCreateStep, ChargeStep, RereadStep,
     SettleStep, AuditStep, PublishStep
     DEF Work
<1> QED
  BY <1>1, <1>2, <1>3, <1>4

LEMMA StutterInv == Inv /\ UNCHANGED vars => Inv'
<1> SUFFICES ASSUME Inv, UNCHANGED vars PROVE Inv'
  OBVIOUS
<1> USE DEF vars
<1>1. TypeOK'
  BY DEF Inv, TypeOK
<1>2. (\A h \in Handlers : Placed(frame[h]))'
  BY DEF Inv, Placed, Entity, Recorded
<1>3. Reserved'
  BY DEF Inv, Reserved, Creating
<1>4. DecisionCoherent' /\ AccrualCoherent'
  BY DEF Inv, DecisionCoherent, AccrualCoherent
<1>5. TrailOrdered'
  BY DEF Inv, TrailOrdered, Recorded
<1>6. UsageHasApproval'
  BY DEF Inv, UsageHasApproval, Recorded
<1> QED
  BY <1>1, <1>2, <1>3, <1>4, <1>5, <1>6 DEF Inv

\* Whatever the requests and their interleaving, Inv holds.
THEOREM Invariance == Spec => []Inv
<1>1. Inv /\ [Next]_vars => Inv'
  BY NextInv, StutterInv
<1> QED
  BY InitInv, <1>1, PTL DEF Spec

\* The stores and the handlers' local state keep their types.
THEOREM TypeCorrect == Spec => []TypeOK
<1>1. Inv => TypeOK
  BY DEF Inv
<1> QED
  BY <1>1, Invariance, PTL

\* The columns of a decided request always tell one decision.
THEOREM DecisionsAreCoherent == Spec => []DecisionCoherent
<1>1. Inv => DecisionCoherent
  BY DEF Inv
<1> QED
  BY <1>1, Invariance, PTL

\* Grant and carry-over are always those of one settlement, or the defaults.
THEOREM AccrualsAreCoherent == Spec => []AccrualCoherent
<1>1. Inv => AccrualCoherent
  BY DEF Inv
<1> QED
  BY <1>1, Invariance, PTL

\* An event has its audit entry, a decision's audit entry its LeaveApproval
\* row, and the row a decided request.
THEOREM TrailsAreOrdered == Spec => []TrailOrdered
<1>1. Inv => TrailOrdered
  BY DEF Inv
<1> QED
  BY <1>1, Invariance, PTL

\* Only recorded approvals use up days.
THEOREM UsageIsApproved == Spec => []UsageHasApproval
<1>1. Inv => UsageHasApproval
  BY DEF Inv
<1> QED
  BY <1>1, Invariance, PTL

\* No step makes a decided request pending.
THEOREM DecisionsStick == Spec => DecisionSticks
<1>1. Grows => \A r \in DOMAIN requests :
        requests[r].state \in Decisions =>
          r \in DOMAIN requests' /\ requests'[r].state \in Decisions
  BY DEF Grows
<1>2. Inv /\ [Next]_vars =>
        [\A r \in DOMAIN requests :
           requests[r].state \in Decisions =>
             r \in DOMAIN requests' /\ requests'[r].state \in Decisions]_vars
  BY <1>1, NextInv
<1> QED
  BY <1>2, Invariance, PTL DEF Spec, DecisionSticks

SettlesOrKeeps ==
  \A e \in DOMAIN balances :
    \/ /\ balances'[e].granted = balances[e].granted
       /\ balances'[e].carryOver = balances[e].carryOver
       /\ balances'[e].lastAccrualYear = balances[e].lastAccrualYear
    \/ \E h \in Handlers :
         frame[h].at = "settle" /\ frame[h].employee = e

LEMMA NextSettlesOrKeeps == Inv /\ Next => SettlesOrKeeps
<1> SUFFICES ASSUME Inv, NEW h \in Handlers,
                    OpenSome(h) \/ Refuse(h) \/ Crash(h) \/ Work(h)
             PROVE  SettlesOrKeeps
  BY DEF Next
<1>1. CASE UNCHANGED balances
  BY <1>1 DEF SettlesOrKeeps
<1>2. CASE EnsureCreate(h)
  BY <1>2 DEF EnsureCreate, SettlesOrKeeps
<1>3. CASE Charge(h)
  <2>1. \A e \in DOMAIN balances : balances[e] \in BalanceRow
    BY DEF Inv, TypeOK
  <2>2. balances' = [balances EXCEPT ![frame[h].employee] =
                       ChargedRow(@, frame[h].seen, frame[h].days)]
    BY <1>3 DEF Charge
  <2>3. ASSUME NEW row \in BalanceRow, NEW seen, NEW days
        PROVE  LET c == ChargedRow(row, seen, days)
               IN  /\ c.granted = row.granted /\ c.carryOver = row.carryOver
                   /\ c.lastAccrualYear = row.lastAccrualYear
    BY DEF ChargedRow, BalanceRow
  <2> QED
    BY <2>1, <2>2, <2>3 DEF SettlesOrKeeps
<1>4. CASE Settle(h)
  BY <1>4 DEF Settle, SettlesOrKeeps
<1> QED
  BY <1>1, <1>2, <1>3, <1>4
  DEF OpenSome, OpenCreate, OpenUpdate, OpenDecide, OpenReadBalance, OpenSettle,
      Open, Refuse, Crash, Work, FindPending, CheckOverlap, Insert, Edit, Decide,
      AppendDecision, Ensure, Reread, Audit, Publish, stores

\* A charge never overwrites what a settlement wrote since the charge's read.
THEOREM SettlementsStand == Spec => OnlySettlementWritesAccrual
<1>1. Inv /\ [Next]_vars => [SettlesOrKeeps]_vars
  BY NextSettlesOrKeeps
<1> QED
  BY <1>1, Invariance, PTL DEF Spec, OnlySettlementWritesAccrual, SettlesOrKeeps

-----------------------------------------------------------------------------
(***************************************************************************)
(* One request at a time: what the leave contract promises and the code    *)
(* keeps then, for any data, and although a handler may die between any    *)
(* two store calls.                                                        *)
(***************************************************************************)

\* One request is open at a time.
Alone == \A g, h \in Handlers : g = h

\* What a handler read is still what the stores hold.
Ready(f) ==
  /\ f.at \in {"insert", "edit"} =>
       findOverlappingActiveRequests(f.employee, f.start, f.end, f.request) = {}
  /\ f.at \in {"checkOverlap", "edit"} /\ f.op = "update" =>
       /\ requests[f.request].state = "PENDING"
       /\ requests[f.request].employee = f.employee
       /\ "start" \notin f.patch => f.start = requests[f.request].start
       /\ "end" \notin f.patch => f.end = requests[f.request].end
  /\ f.at = "decide" => requests[f.request].state = "PENDING"
  /\ f.at = "appendDecision" => approvals[f.request] = << >>
  /\ f.at = "charge" => f.seen = balances[f.employee]
  /\ f.at \in {"reread", "settle"} =>
       balances[f.employee].lastAccrualYear < f.year

NoClash ==
  \A r1, r2 \in DOMAIN requests :
    /\ r1 # r2
    /\ requests[r1].employee = requests[r2].employee
    /\ {requests[r1].state, requests[r2].state} \subseteq Active
    => ~ Overlap(requests[r1].start, requests[r1].end,
                 requests[r2].start, requests[r2].end)

Undecided ==
  \A r \in RequestIds :
    (r \in DOMAIN requests => requests[r].state = "PENDING") => approvals[r] = << >>

SerialInv ==
  /\ \A h \in Handlers : Ready(frame[h])
  /\ NoClash
  /\ BalanceContinuity
  /\ Undecided
  /\ OneDecision

LEMMA ReadyFrame ==
  ASSUME Alone, Inv, NEW h \in Handlers, NEW n \in Frame, Continue(h, n), Ready(n)'
  PROVE  (\A g \in Handlers : Ready(frame[g]))'
<1>1. /\ n.at # "idle" => frame'[h] = n
      /\ n.at = "idle" => frame'[h] = Idle
  BY FrameUpdate DEF Inv
<1> SUFFICES ASSUME NEW g \in Handlers PROVE Ready(frame[g])'
  OBVIOUS
<1> PICK k : k = frame'[g]
  OBVIOUS
<1>2. g = h
  BY DEF Alone
<1>3. Ready(k)'
  <2>1. CASE n.at # "idle"
    <3>1. k = n
      BY <1>1, <1>2, <2>1
    <3> QED
      BY <3>1
  <2>2. CASE n.at = "idle"
    <3>1. k = Idle
      BY <1>1, <1>2, <2>2
    <3> QED
      BY <3>1 DEF Ready, Idle
  <2> QED
    BY <2>1, <2>2
<1> QED
  BY <1>3 DEF Ready, findOverlappingActiveRequests

\* A step that only reads keeps SerialInv when its frame is ready.
LEMMA SerialLocal ==
  ASSUME Alone, Inv, SerialInv, NEW h \in Handlers, NEW n \in Frame,
         Continue(h, n), Ready(n), UNCHANGED stores
  PROVE  SerialInv'
<1>1. Ready(n)'
  BY DEF Ready, findOverlappingActiveRequests, stores
<1>2. (\A g \in Handlers : Ready(frame[g]))'
  BY <1>1, ReadyFrame
<1>3. NoClash' /\ Undecided' /\ OneDecision'
  BY DEF SerialInv, NoClash, Undecided, OneDecision, stores
<1>4. BalanceContinuity'
  BY DEF SerialInv, BalanceContinuity, stores
<1> QED
  BY <1>2, <1>3, <1>4 DEF SerialInv

LEMMA SerialFail ==
  ASSUME Alone, Inv, SerialInv, NEW h \in Handlers, Fail(h), UNCHANGED stores
  PROVE  SerialInv'
<1>1. Continue(h, Idle)
  BY DEF Fail, Continue, Idle
<1>2. Ready(Idle)
  BY DEF Ready, Idle
<1> QED
  BY <1>1, <1>2, IdleFrame, SerialLocal

LEMMA SerialOpen ==
  ASSUME Alone, Inv, SerialInv, NEW h \in Handlers, OpenSome(h)
  PROVE  SerialInv'
<1>1. ASSUME NEW n \in Frame, Open(h, n), n.at \in {"checkOverlap", "find", "ensure"},
             n.at = "checkOverlap" => n.op = "create"
      PROVE  SerialInv'
  <2>1. Ready(n)
    BY <1>1 DEF Ready
  <2> QED
    BY <1>1, <2>1, SerialLocal DEF Open
<1>2. ASSUME NEW r \in RequestIds, NEW e \in Employees,
             NEW s \in Instants, NEW t \in Instants, OpenCreate(h, r, e, s, t)
      PROVE  SerialInv'
  <2> DEFINE n == [Idle EXCEPT !.at = "checkOverlap", !.op = "create",
                     !.request = r, !.employee = e, !.patch = {"start", "end"},
                     !.start = s, !.end = t]
  <2>1. n \in Frame
    BY IdleFrame DEF Frame, Idle, Steps, Ops
  <2>2. n.at = "checkOverlap" /\ n.op = "create"
    BY DEF Idle
  <2> QED
    BY <1>1, <1>2, <2>1, <2>2 DEF OpenCreate
<1>3. ASSUME NEW r \in RequestIds, NEW p \in SUBSET {"start", "end"},
             NEW s \in Instants, NEW t \in Instants, OpenUpdate(h, r, p, s, t)
      PROVE  SerialInv'
  <2> DEFINE n == [Idle EXCEPT !.at = "find", !.op = "update", !.request = r,
                     !.patch = p, !.start = s, !.end = t]
  <2>1. n \in Frame /\ n.at = "find"
    BY IdleFrame DEF Frame, Idle, Steps, Ops
  <2> QED
    BY <1>1, <1>3, <2>1 DEF OpenUpdate
<1>4. ASSUME NEW r \in RequestIds, NEW d \in Decisions, OpenDecide(h, r, d)
      PROVE  SerialInv'
  <2> DEFINE n == [Idle EXCEPT !.at = "find", !.op = d, !.request = r]
  <2>1. n \in Frame /\ n.at = "find"
    BY IdleFrame DEF Frame, Idle, Steps, Ops
  <2> QED
    BY <1>1, <1>4, <2>1 DEF OpenDecide
<1>5. ASSUME NEW e \in Employees, OpenReadBalance(h, e)
      PROVE  SerialInv'
  <2> DEFINE n == [Idle EXCEPT !.at = "ensure", !.op = "readBalance", !.employee = e]
  <2>1. n \in Frame /\ n.at = "ensure"
    BY IdleFrame DEF Frame, Idle, Steps, Ops
  <2> QED
    BY <1>1, <1>5, <2>1 DEF OpenReadBalance
<1>6. ASSUME NEW e \in Employees, NEW y \in Years, NEW g \in AnnualGrants,
             NEW c \in CarryOverCaps, OpenSettle(h, e, y, g, c)
      PROVE  SerialInv'
  <2> DEFINE n == [Idle EXCEPT !.at = "ensure", !.op = "settle", !.employee = e,
                     !.year = y, !.annual = g, !.cap = c]
  <2>1. n \in Frame /\ n.at = "ensure"
    BY IdleFrame, LeaveAssumption DEF Frame, Idle, Steps, Ops
  <2> QED
    BY <1>1, <1>6, <2>1 DEF OpenSettle
<1> QED
  BY <1>2, <1>3, <1>4, <1>5, <1>6 DEF OpenSome

LEMMA SerialFindPending ==
  ASSUME Alone, Inv, SerialInv, NEW h \in Handlers, FindPending(h)
  PROVE  SerialInv'
<1> PICK f : f = frame[h]
  OBVIOUS
<1>1. f \in Frame /\ f.at = "find" /\ UNCHANGED stores
  BY DEF FindPending, Inv, TypeOK
<1>2. CASE Fail(h)
  BY <1>1, <1>2, SerialFail
<1>3. ASSUME ~Fail(h)
      PROVE  SerialInv'
  <2> DEFINE row == requests[f.request]
             s == IF "start" \in f.patch THEN f.start ELSE row.start
             t == IF "end" \in f.patch THEN f.end ELSE row.end
  <2>1. f.request \in DOMAIN requests /\ row.state = "PENDING" /\ row \in LeaveRow
    BY <1>1, <1>3 DEF FindPending, Changeable, Inv, TypeOK
  <2>2. s \in Instants /\ t \in Instants /\ row.employee \in Employees
    BY <1>1, <2>1 DEF Frame, LeaveRow
  <2>3. CASE f.op = "update"
    <3> PICK n : n = [f EXCEPT !.at = "checkOverlap", !.employee = row.employee,
                               !.start = s, !.end = t]
      OBVIOUS
    <3>1. Continue(h, n)
      BY <1>3, <2>1, <2>3 DEF FindPending, Decisions
    <3> HIDE DEF s, t
    <3>2. PICK m \in Frame : m = [f EXCEPT !.at = "checkOverlap", !.employee = row.employee]
      BY <1>1, <2>2 DEF Frame, Steps
    <3>3. [m EXCEPT !.start = s, !.end = t] \in Frame
      BY <2>2, <3>2 DEF Frame
    <3>4. n = [m EXCEPT !.start = s, !.end = t]
      BY <3>2
    <3>5. n \in Frame
      BY <3>3, <3>4
    <3>6. /\ n.at = "checkOverlap" /\ n.request = f.request /\ n.patch = f.patch
          /\ n.employee = row.employee /\ n.start = s /\ n.end = t
      BY <1>1 DEF Frame
    <3>7. /\ "start" \notin f.patch => s = row.start
          /\ "end" \notin f.patch => t = row.end
      BY DEF s, t
    <3>8. Ready(n)
      BY <2>1, <3>6, <3>7 DEF Ready
    <3> QED
      BY <1>1, <3>1, <3>5, <3>8, SerialLocal
  <2>4. CASE f.op \in Decisions
    <3> PICK n : n = [f EXCEPT !.at = "decide", !.employee = row.employee]
      OBVIOUS
    <3>1. Continue(h, n)
      BY <1>3, <2>1, <2>4 DEF FindPending, Decisions
    <3>2. n \in Frame /\ n.at = "decide" /\ n.request = f.request
      BY <1>1, <2>2 DEF Frame, Steps
    <3>3. Ready(n)
      BY <2>1, <3>2 DEF Ready
    <3> QED
      BY <1>1, <3>1, <3>2, <3>3, SerialLocal
  <2> QED
    BY <1>3, <2>3, <2>4 DEF FindPending
<1> QED
  BY <1>2, <1>3

LEMMA SerialCheckOverlap ==
  ASSUME Alone, Inv, SerialInv, NEW h \in Handlers, CheckOverlap(h)
  PROVE  SerialInv'
<1> PICK f : f = frame[h]
  OBVIOUS
<1>1. f \in Frame /\ f.at = "checkOverlap" /\ UNCHANGED stores
  BY DEF CheckOverlap, Inv, TypeOK
<1>2. CASE Fail(h)
  BY <1>1, <1>2, SerialFail
<1>3. ASSUME ~Fail(h)
      PROVE  SerialInv'
  <2> PICK n : n = [f EXCEPT !.at = IF f.op = "create" THEN "insert" ELSE "edit",
                             !.days = calculateLeaveDays(f.start, f.end)]
    OBVIOUS
  <2>1. /\ Continue(h, n)
        /\ findOverlappingActiveRequests(f.employee, f.start, f.end, f.request) = {}
    BY <1>3 DEF CheckOverlap
  <2>2. calculateLeaveDays(f.start, f.end) \in Int
    <3>1. f.start \in Int /\ f.end \in Int
      BY <1>1 DEF Frame, Instants
    <3>2. \A t \in Int : (t + SeoulOffset) \div SlotsPerDay \in Int
      BY LeaveAssumption
    <3> QED
      BY <3>1, <3>2 DEF calculateLeaveDays, toSeoulDayIndex
  <2>3. n \in Frame
    BY <1>1, <2>2 DEF Frame, Steps
  <2>4. /\ n.at = IF f.op = "create" THEN "insert" ELSE "edit"
        /\ n.op = f.op /\ n.request = f.request /\ n.employee = f.employee
        /\ n.start = f.start /\ n.end = f.end /\ n.patch = f.patch
    BY <1>1 DEF Frame
  <2>5. Ready(f)
    BY DEF SerialInv, Ready, findOverlappingActiveRequests
  <2>6. Ready(n)
    BY <1>1, <2>1, <2>4, <2>5 DEF Ready
  <2> QED
    BY <1>1, <2>1, <2>3, <2>6, SerialLocal
<1> QED
  BY <1>2, <1>3

LEMMA SerialEnsure ==
  ASSUME Alone, Inv, SerialInv, NEW h \in Handlers, Ensure(h)
  PROVE  SerialInv'
<1> PICK f : f = frame[h]
  OBVIOUS
<1>1. f \in Frame /\ f.at = "ensure" /\ UNCHANGED stores
  BY DEF Ensure, Inv, TypeOK
<1>2. CASE Fail(h)
  BY <1>1, <1>2, SerialFail
<1>3. CASE Continue(h, [f EXCEPT !.at = "ensureCreate"])
  <2> PICK n : n = [f EXCEPT !.at = "ensureCreate"]
    OBVIOUS
  <2>1. n \in Frame /\ n.at = "ensureCreate"
    BY <1>1 DEF Frame, Steps
  <2>2. Ready(n)
    BY <2>1 DEF Ready
  <2> QED
    BY <1>1, <1>3, <2>1, <2>2, SerialLocal
<1>4. ASSUME f.employee \in DOMAIN balances, UseBalance(h, f, balances[f.employee]),
             ~Fail(h)
      PROVE  SerialInv'
  <2>1. balances[f.employee] \in BalanceRow
    BY <1>4 DEF Inv, TypeOK
  <2>2. CASE f.op \in Decisions
    <3> PICK n : n = [f EXCEPT !.at = "charge", !.seen = balances[f.employee]]
      OBVIOUS
    <3>1. /\ n \in Frame /\ n.at = "charge" /\ n.employee = f.employee
          /\ n.seen = balances[f.employee]
      BY <1>1, <2>1 DEF Frame, Steps
    <3>2. Ready(n)
      BY <3>1 DEF Ready
    <3>3. Continue(h, n)
      BY <1>4, <2>2 DEF UseBalance, Decisions
    <3> QED
      BY <1>1, <3>1, <3>2, <3>3, SerialLocal
  <2>3. CASE f.op = "readBalance"
    <3> PICK n : n = [f EXCEPT !.at = "audit", !.seen = balances[f.employee]]
      OBVIOUS
    <3>1. n \in Frame /\ n.at = "audit"
      BY <1>1, <2>1 DEF Frame, Steps
    <3>2. Ready(n)
      BY <3>1 DEF Ready
    <3>3. Continue(h, n)
      BY <1>4, <2>3 DEF UseBalance, Decisions
    <3> QED
      BY <1>1, <3>1, <3>2, <3>3, SerialLocal
  <2>4. CASE f.op = "settle"
    <3> PICK n : n = [f EXCEPT !.at = "reread"]
      OBVIOUS
    <3>1. /\ n \in Frame /\ n.at = "reread" /\ n.employee = f.employee
          /\ n.year = f.year
      BY <1>1 DEF Frame, Steps
    <3>2. Continue(h, n) /\ ~AlreadySettled(balances[f.employee], f.year)
      BY <1>4, <2>4 DEF UseBalance, Decisions
    <3>3. balances[f.employee].lastAccrualYear < f.year
      <4>1. /\ balances[f.employee].lastAccrualYear \in Int
            /\ f.year \in Int
        BY <1>1, <2>1, LeaveAssumption DEF BalanceRow, Frame, NeverSettled
      <4> QED
        BY <3>2, <4>1 DEF AlreadySettled
    <3>4. Ready(n)
      BY <3>1, <3>3 DEF Ready
    <3> QED
      BY <1>1, <3>1, <3>2, <3>4, SerialLocal
  <2> QED
    BY <1>4, <2>2, <2>3, <2>4 DEF UseBalance
<1> QED
  BY <1>2, <1>3, <1>4 DEF Ensure

LEMMA SerialReread ==
  ASSUME Alone, Inv, SerialInv, NEW h \in Handlers, Reread(h)
  PROVE  SerialInv'
<1> PICK f : f = frame[h]
  OBVIOUS
<1>1. f \in Frame /\ f.at = "reread" /\ Placed(f) /\ Ready(f) /\ UNCHANGED stores
  BY DEF Reread, Inv, TypeOK, Placed, Entity, Recorded, SerialInv, Ready,
         findOverlappingActiveRequests
<1> PICK n : n = [f EXCEPT !.at = "settle", !.seen = balances[f.employee]]
  OBVIOUS
<1>2. balances[f.employee] \in BalanceRow
  BY <1>1 DEF Inv, TypeOK, Placed
<1>3. /\ n \in Frame /\ n.at = "settle" /\ n.employee = f.employee /\ n.year = f.year
  BY <1>1, <1>2 DEF Frame, Steps
<1>4. Ready(n)
  BY <1>1, <1>3 DEF Ready
<1> QED
  BY <1>1, <1>3, <1>4, SerialLocal DEF Reread

-----------------------------------------------------------------------------
(* The steps that write *)

LEMMA SerialStore ==
  ASSUME Alone, Inv, NEW h \in Handlers, NEW n \in Frame, Continue(h, n),
         Ready(n)', NoClash', BalanceContinuity', Undecided', OneDecision'
  PROVE  SerialInv'
  BY ReadyFrame DEF SerialInv

\* Rows whose windows are seen not to overlap from one side do not clash.
LEMMA OverlapSymmetric ==
  ASSUME NEW a \in Instants, NEW b \in Instants, NEW c \in Instants, NEW d \in Instants
  PROVE  Overlap(a, b, c, d) <=> Overlap(c, d, a, b)
  BY DEF Overlap, Instants

LEMMA SerialInsert ==
  ASSUME Alone, Inv, SerialInv, NEW h \in Handlers, Insert(h)
  PROVE  SerialInv'
<1> PICK f : f = frame[h]
  OBVIOUS
<1>1. f \in Frame /\ f.at = "insert" /\ Placed(f) /\ Ready(f)
  BY DEF Insert, Inv, TypeOK, Placed, Entity, Recorded, SerialInv, Ready,
         findOverlappingActiveRequests
<1>2. f.request \in RequestIds /\ f.request \notin DOMAIN requests
  BY <1>1 DEF Placed, Inv, Reserved, Creating
<1> PICK n : n = [f EXCEPT !.at = "audit"]
  OBVIOUS
<1>3. n \in Frame /\ n.at = "audit"
  BY <1>1 DEF Frame, Steps
<1> PICK row : row = [employee |-> f.employee, start |-> f.start, end |-> f.end,
                      days |-> f.days, state |-> "PENDING", stamps |-> {}]
  OBVIOUS
<1>4. /\ requests' = [r \in DOMAIN requests \cup {f.request} |->
                        IF r = f.request THEN row ELSE requests[r]]
      /\ approvals' = [approvals EXCEPT ![f.request] = << >>]
      /\ Continue(h, n) /\ UNCHANGED balances
  BY <1>1 DEF Insert, After
<1>5. NoClash'
  <2>1. \A q \in DOMAIN requests :
          requests[q].employee = f.employee /\ requests[q].state \in Active =>
            ~ Overlap(requests[q].start, requests[q].end, f.start, f.end)
    BY <1>1, <1>2 DEF Ready, findOverlappingActiveRequests
  <2>2. \A q \in DOMAIN requests :
          /\ requests[q].start \in Instants /\ requests[q].end \in Instants
    BY DEF Inv, TypeOK, LeaveRow
  <2>3. f.start \in Instants /\ f.end \in Instants
    BY <1>1 DEF Frame
  <2>4. \A q \in DOMAIN requests :
          requests[q].employee = f.employee /\ requests[q].state \in Active =>
            ~ Overlap(f.start, f.end, requests[q].start, requests[q].end)
    BY <2>1, <2>2, <2>3, OverlapSymmetric
  <2>5. row.employee = f.employee /\ row.start = f.start /\ row.end = f.end
    OBVIOUS
  <2> QED
    BY <1>4, <2>1, <2>4, <2>5 DEF SerialInv, NoClash
<1>6. BalanceContinuity'
  BY <1>4 DEF SerialInv, BalanceContinuity
<1>7. Undecided' /\ OneDecision'
  <2>1. \A r \in RequestIds :
          approvals'[r] = IF r = f.request THEN << >> ELSE approvals[r]
    BY <1>4 DEF Inv, TypeOK
  <2>2. Len(<< >>) <= 1
    OBVIOUS
  <2> QED
    BY <1>4, <2>1, <2>2 DEF SerialInv, Undecided, OneDecision
<1>8. Ready(n)'
  BY <1>3 DEF Ready
<1> QED
  BY <1>3, <1>4, <1>5, <1>6, <1>7, <1>8, SerialStore

LEMMA SerialEdit ==
  ASSUME Alone, Inv, SerialInv, NEW h \in Handlers, Edit(h)
  PROVE  SerialInv'
<1> PICK f : f = frame[h]
  OBVIOUS
<1>1. f \in Frame /\ f.at = "edit" /\ Placed(f) /\ Ready(f)
  BY DEF Edit, Inv, TypeOK, Placed, Entity, Recorded, SerialInv, Ready,
         findOverlappingActiveRequests
<1>2. f.request \in DOMAIN requests /\ f.op = "update"
  BY <1>1 DEF Placed
<1> PICK n : n = [f EXCEPT !.at = "audit"]
  OBVIOUS
<1>3. n \in Frame /\ n.at = "audit"
  BY <1>1 DEF Frame, Steps
<1> PICK row : row = EditedRow(requests[f.request], f)
  OBVIOUS
<1>4. /\ requests' = [requests EXCEPT ![f.request] = row]
      /\ Continue(h, n) /\ UNCHANGED <<balances, approvals>>
  BY <1>1 DEF Edit, After
<1>5. /\ row.employee = f.employee /\ row.start = f.start /\ row.end = f.end
      /\ row.state = requests[f.request].state
  <2>1. requests[f.request] \in LeaveRow
    BY <1>2 DEF Inv, TypeOK
  <2>2. /\ requests[f.request].employee = f.employee
        /\ "start" \notin f.patch => f.start = requests[f.request].start
        /\ "end" \notin f.patch => f.end = requests[f.request].end
    BY <1>1, <1>2 DEF Ready
  <2> DEFINE old == requests[f.request]
             s == IF "start" \in f.patch THEN f.start ELSE old.start
             t == IF "end" \in f.patch THEN f.end ELSE old.end
  <2>3. s = f.start /\ t = f.end
    BY <2>2
  <2>4. row = [old EXCEPT !.start = s, !.end = t, !.days = f.days]
    BY DEF EditedRow
  <2>5. old \in LeaveRow
    BY <2>1
  <2> HIDE DEF s, t, old
  <2>6. /\ row.employee = old.employee /\ row.start = s /\ row.end = t
        /\ row.state = old.state
    BY <2>4, <2>5 DEF LeaveRow
  <2> QED
    BY <2>2, <2>3, <2>6 DEF old
<1>6. NoClash'
  <2>1. \A q \in DOMAIN requests :
          (/\ q # f.request /\ requests[q].employee = f.employee
           /\ requests[q].state \in Active) =>
               ~ Overlap(requests[q].start, requests[q].end, f.start, f.end)
    BY <1>1, <1>2 DEF Ready, findOverlappingActiveRequests
  <2>2. \A q \in DOMAIN requests :
          /\ requests[q].start \in Instants /\ requests[q].end \in Instants
    BY DEF Inv, TypeOK, LeaveRow
  <2>3. f.start \in Instants /\ f.end \in Instants
    BY <1>1 DEF Frame
  <2>4. \A q \in DOMAIN requests :
          (/\ q # f.request /\ requests[q].employee = f.employee
           /\ requests[q].state \in Active) =>
               ~ Overlap(f.start, f.end, requests[q].start, requests[q].end)
    BY <2>1, <2>2, <2>3, OverlapSymmetric
  <2> QED
    BY <1>2, <1>4, <1>5, <2>1, <2>4 DEF SerialInv, NoClash
<1>7. BalanceContinuity'
  BY <1>4 DEF SerialInv, BalanceContinuity
<1>8. Undecided' /\ OneDecision'
  BY <1>2, <1>4, <1>5 DEF SerialInv, Undecided, OneDecision
<1>9. Ready(n)'
  BY <1>3 DEF Ready
<1> QED
  BY <1>3, <1>4, <1>6, <1>7, <1>8, <1>9, SerialStore

LEMMA SerialDecide ==
  ASSUME Alone, Inv, SerialInv, NEW h \in Handlers, Decide(h)
  PROVE  SerialInv'
<1> PICK f : f = frame[h]
  OBVIOUS
<1>1. f \in Frame /\ f.at = "decide" /\ Placed(f) /\ Ready(f)
  BY DEF Decide, Inv, TypeOK, Placed, Entity, Recorded, SerialInv, Ready,
         findOverlappingActiveRequests
<1>2. /\ f.op \in Decisions /\ f.request \in DOMAIN requests
      /\ f.request \in RequestIds /\ requests[f.request] \in LeaveRow
      /\ requests[f.request].state = "PENDING"
  BY <1>1 DEF Placed, Ready, Inv, TypeOK
<1> PICK n : n = [f EXCEPT !.at = "appendDecision", !.days = requests[f.request].days]
  OBVIOUS
<1>3. n \in Frame /\ n.at = "appendDecision" /\ n.request = f.request
  BY <1>1, <1>2 DEF Frame, LeaveRow, Steps
<1> PICK row : row = DecidedRow(requests[f.request], f.op)
  OBVIOUS
<1>4. /\ row.employee = requests[f.request].employee /\ row.state = f.op
      /\ row.start = requests[f.request].start /\ row.end = requests[f.request].end
  BY <1>2 DEF DecidedRow, LeaveRow
<1>5. /\ requests' = [requests EXCEPT ![f.request] = row]
      /\ Continue(h, n) /\ UNCHANGED <<balances, approvals>>
  BY <1>1 DEF Decide, After
<1>6. Ready(n)'
  <2>1. approvals'[f.request] = << >>
    BY <1>2, <1>5 DEF SerialInv, Undecided
  <2> QED
    BY <1>3, <2>1 DEF Ready
<1>7. NoClash'
  BY <1>2, <1>4, <1>5 DEF SerialInv, NoClash, Active
<1>8. BalanceContinuity' /\ OneDecision'
  BY <1>5 DEF SerialInv, BalanceContinuity, OneDecision
<1>9. Undecided'
  BY <1>2, <1>4, <1>5 DEF SerialInv, Undecided, Decisions
<1> QED
  BY <1>3, <1>5, <1>6, <1>7, <1>8, <1>9, SerialStore

LEMMA SerialAppendDecision ==
  ASSUME Alone, Inv, SerialInv, NEW h \in Handlers, AppendDecision(h)
  PROVE  SerialInv'
<1> PICK f : f = frame[h]
  OBVIOUS
<1>1. f \in Frame /\ f.at = "appendDecision" /\ Placed(f) /\ Ready(f)
  BY DEF AppendDecision, Inv, TypeOK, Placed, Entity, Recorded, SerialInv, Ready,
         findOverlappingActiveRequests
<1>2. /\ f.op \in Decisions /\ f.request \in DOMAIN requests
      /\ f.request \in RequestIds /\ requests[f.request].state \in Decisions
      /\ approvals[f.request] = << >>
  BY <1>1 DEF Placed, Ready, Inv, TypeOK
<1> PICK n : n = [f EXCEPT !.at = AfterDecision(f.op)]
  OBVIOUS
<1>3. n \in Frame /\ n.at \in {"ensure", "audit"}
  BY <1>1 DEF Frame, Steps, AfterDecision
<1>4. /\ approvals' = [approvals EXCEPT ![f.request] = Append(@, f.op)]
      /\ Continue(h, n) /\ UNCHANGED <<requests, balances>>
  BY <1>1 DEF AppendDecision, After
<1>5. \A r \in RequestIds :
        approvals'[r] = IF r = f.request THEN Append(<< >>, f.op) ELSE approvals[r]
  BY <1>2, <1>4 DEF Inv, TypeOK
<1>6. OneDecision'
  <2>1. Len(Append(<< >>, f.op)) <= 1
    OBVIOUS
  <2> QED
    BY <1>5, <2>1 DEF SerialInv, OneDecision
<1>7. Undecided'
  BY <1>2, <1>4, <1>5 DEF SerialInv, Undecided, Decisions
<1>8. NoClash' /\ BalanceContinuity'
  BY <1>4 DEF SerialInv, NoClash, BalanceContinuity
<1>9. Ready(n)'
  BY <1>3 DEF Ready
<1> QED
  BY <1>3, <1>4, <1>6, <1>7, <1>8, <1>9, SerialStore

\* A step of the balance store alone.
LEMMA SerialBalance ==
  ASSUME Alone, Inv, SerialInv, NEW h \in Handlers, NEW n \in Frame,
         Continue(h, n), Ready(n)', UNCHANGED <<requests, approvals>>,
         BalanceContinuity'
  PROVE  SerialInv'
<1>1. NoClash' /\ Undecided' /\ OneDecision'
  BY DEF SerialInv, NoClash, Undecided, OneDecision
<1> QED
  BY <1>1, SerialStore

LEMMA SerialEnsureCreate ==
  ASSUME Alone, Inv, SerialInv, NEW h \in Handlers, EnsureCreate(h)
  PROVE  SerialInv'
<1> PICK f : f = frame[h]
  OBVIOUS
<1>1. f \in Frame /\ f.at = "ensureCreate" /\ Placed(f)
      /\ UNCHANGED <<requests, approvals, audited, published>>
  BY DEF EnsureCreate, Inv, TypeOK, Placed, Entity, Recorded
<1>2. CASE Fail(h) /\ UNCHANGED balances
  BY <1>1, <1>2, SerialFail DEF stores
<1>3. ASSUME f.employee \notin DOMAIN balances,
             balances' = [e \in DOMAIN balances \cup {f.employee} |->
                            IF e = f.employee THEN FreshBalance ELSE balances[e]],
             UseBalance(h, f, FreshBalance)
      PROVE  SerialInv'
  <2>1. BalanceContinuity'
    <3>1. FreshBalance.remaining = FreshBalance.granted - FreshBalance.used
      BY LeaveAssumption DEF FreshBalance
    <3> QED
      BY <1>3, <3>1 DEF SerialInv, BalanceContinuity
  <2>2. balances'[f.employee] = FreshBalance
    BY <1>3
  <2>3. f.op = "settle" => ~AlreadySettled(FreshBalance, f.year)
                           /\ FreshBalance.lastAccrualYear < f.year
    <3>1. FreshBalance.lastAccrualYear = 0
      BY DEF FreshBalance, NeverSettled
    <3>2. f.op = "settle" => f.year \in Nat /\ f.year # 0
      BY <1>1, LeaveAssumption DEF Placed
    <3>3. f.op = "settle" => 0 < f.year /\ ~(0 >= f.year)
      BY <3>2
    <3> QED
      BY <3>1, <3>3 DEF AlreadySettled
  <2>4. CASE f.op \in Decisions
    <3> PICK n : n = [f EXCEPT !.at = "charge", !.seen = FreshBalance]
      OBVIOUS
    <3>1. /\ n \in Frame /\ n.at = "charge" /\ n.employee = f.employee
          /\ n.seen = FreshBalance
      BY <1>1, FreshBalanceRow DEF Frame, Steps
    <3>2. Ready(n)'
      BY <2>2, <3>1 DEF Ready
    <3>3. Continue(h, n)
      BY <1>3, <2>4 DEF UseBalance, Decisions
    <3> QED
      BY <1>1, <2>1, <3>1, <3>2, <3>3, SerialBalance
  <2>5. CASE f.op = "readBalance"
    <3> PICK n : n = [f EXCEPT !.at = "audit", !.seen = FreshBalance]
      OBVIOUS
    <3>1. n \in Frame /\ n.at = "audit"
      BY <1>1, FreshBalanceRow DEF Frame, Steps
    <3>2. Continue(h, n)
      BY <1>3, <2>5 DEF UseBalance, Decisions
    <3>3. Ready(n)'
      BY <3>1 DEF Ready
    <3> QED
      BY <1>1, <2>1, <3>1, <3>2, <3>3, SerialBalance
  <2>6. CASE f.op = "settle"
    <3> PICK n : n = [f EXCEPT !.at = "reread"]
      OBVIOUS
    <3>1. /\ n \in Frame /\ n.at = "reread" /\ n.employee = f.employee
          /\ n.year = f.year
      BY <1>1 DEF Frame, Steps
    <3>2. Continue(h, n)
      BY <1>3, <2>3, <2>6 DEF UseBalance, Decisions
    <3>3. Ready(n)'
      BY <2>2, <2>3, <2>6, <3>1 DEF Ready
    <3> QED
      BY <1>1, <2>1, <3>1, <3>2, <3>3, SerialBalance
  <2> QED
    BY <1>3, <2>4, <2>5, <2>6 DEF UseBalance
<1> QED
  BY <1>2, <1>3 DEF EnsureCreate

LEMMA SerialCharge ==
  ASSUME Alone, Inv, SerialInv, NEW h \in Handlers, Charge(h)
  PROVE  SerialInv'
<1> PICK f : f = frame[h]
  OBVIOUS
<1>1. f \in Frame /\ f.at = "charge" /\ Placed(f) /\ Ready(f)
  BY DEF Charge, Inv, TypeOK, Placed, Entity, Recorded, SerialInv, Ready,
         findOverlappingActiveRequests
<1>2. /\ f.employee \in DOMAIN balances /\ f.seen = balances[f.employee]
      /\ f.seen \in BalanceRow /\ f.days \in Int
  BY <1>1 DEF Placed, Ready, Frame
<1> PICK n : n = [f EXCEPT !.at = "audit"]
  OBVIOUS
<1>3. n \in Frame /\ n.at = "audit"
  BY <1>1 DEF Frame, Steps
<1> PICK row : row = ChargedRow(f.seen, f.seen, f.days)
  OBVIOUS
<1>4. /\ balances' = [balances EXCEPT ![f.employee] = row]
      /\ Continue(h, n) /\ UNCHANGED <<requests, approvals>>
  BY <1>1, <1>2 DEF Charge, After
<1>5. row.remaining = row.granted - row.used
  <2>1. PICK u \in Int : u = f.seen.used + f.days
    BY <1>2 DEF BalanceRow
  <2>2. row = [f.seen EXCEPT !.used = u, !.remaining = f.seen.granted - u]
    BY <2>1 DEF ChargedRow
  <2> QED
    BY <1>2, <2>1, <2>2 DEF BalanceRow
<1>6. BalanceContinuity'
  BY <1>4, <1>5 DEF SerialInv, BalanceContinuity
<1>7. Ready(n)'
  BY <1>3 DEF Ready
<1> QED
  BY <1>3, <1>4, <1>6, <1>7, SerialBalance

LEMMA SerialSettle ==
  ASSUME Alone, Inv, SerialInv, NEW h \in Handlers, Settle(h)
  PROVE  SerialInv' /\ balances[frame[h].employee].lastAccrualYear < frame[h].year
<1> PICK f : f = frame[h]
  OBVIOUS
<1>1. f \in Frame /\ f.at = "settle" /\ Placed(f) /\ Ready(f)
  BY DEF Settle, Inv, TypeOK, Placed, Entity, Recorded, SerialInv, Ready,
         findOverlappingActiveRequests
<1> PICK n : n = [f EXCEPT !.at = "audit"]
  OBVIOUS
<1>2. n \in Frame /\ n.at = "audit"
  BY <1>1 DEF Frame, Steps
<1> PICK row : row = SettledRow(f)
  OBVIOUS
<1>3. /\ balances' = [balances EXCEPT ![f.employee] = row]
      /\ Continue(h, n) /\ UNCHANGED <<requests, approvals>>
  BY <1>1 DEF Settle, After
<1>4. row.remaining = row.granted - row.used
  <2>1. f.cap \in Nat /\ f.annual \in Nat /\ f.seen.remaining \in Int
    BY <1>1 DEF Frame, BalanceRow
  <2>2. PICK carry \in Int : carry = CarryOver(f.seen.remaining, f.cap)
    BY <2>1, CarryOverBounds
  <2>3. PICK g \in Int : g = f.annual + carry
    BY <2>1
  <2>4. row = [granted |-> g, used |-> 0, remaining |-> g,
               carryOver |-> carry, lastAccrualYear |-> f.year]
    BY <2>2, <2>3 DEF SettledRow
  <2> QED
    BY <2>4
<1>5. BalanceContinuity'
  BY <1>3, <1>4 DEF SerialInv, BalanceContinuity
<1>6. balances[f.employee].lastAccrualYear < f.year
  BY <1>1 DEF Ready
<1>7. Ready(n)'
  BY <1>2 DEF Ready
<1> QED
  BY <1>2, <1>3, <1>5, <1>6, <1>7, SerialBalance

LEMMA SerialAudit ==
  ASSUME Alone, Inv, SerialInv, NEW h \in Handlers, Audit(h) \/ Publish(h)
  PROVE  SerialInv'
<1> PICK f : f = frame[h]
  OBVIOUS
<1>1. f \in Frame /\ UNCHANGED <<requests, balances, approvals>>
  BY DEF Audit, Publish, Inv, TypeOK
<1> PICK n : n = [f EXCEPT !.at = After(f.op, f.at)]
  OBVIOUS
<1>2. Continue(h, n) /\ f.at \in {"audit", "publish"}
  BY DEF Audit, Publish
<1>3. After(f.op, f.at) \in {"idle", "publish"}
  BY <1>2 DEF After
<1>4. n \in Frame /\ n.at \in {"idle", "publish"}
  BY <1>1, <1>3 DEF Frame, Steps
<1>5. BalanceContinuity'
  BY <1>1 DEF SerialInv, BalanceContinuity
<1>6. Ready(n)'
  BY <1>4 DEF Ready
<1> QED
  BY <1>1, <1>2, <1>4, <1>5, <1>6, SerialBalance

-----------------------------------------------------------------------------
(* The theorems *)

LEMMA SerialInit == Init => SerialInv
<1> SUFFICES ASSUME Init PROVE SerialInv
  OBVIOUS
<1>1. /\ DOMAIN requests = {} /\ DOMAIN balances = {}
      /\ \A r \in RequestIds : approvals[r] = << >>
      /\ \A h \in Handlers : frame[h] = Idle
  BY DEF Init
<1>2. \A h \in Handlers : Ready(frame[h])
  BY <1>1 DEF Ready, Idle
<1>3. NoClash /\ BalanceContinuity /\ Undecided
  BY <1>1 DEF NoClash, BalanceContinuity, Undecided
<1>4. OneDecision
  <2>1. Len(<< >>) <= 1
    OBVIOUS
  <2> QED
    BY <1>1, <2>1 DEF OneDecision
<1> QED
  BY <1>2, <1>3, <1>4 DEF SerialInv

LEMMA SerialNext ==
  ASSUME Alone
  PROVE  Inv /\ SerialInv /\ [Next]_vars => SerialInv'
<1>1. ASSUME Inv, SerialInv, UNCHANGED vars
      PROVE  SerialInv'
  <2>1. (\A h \in Handlers : Ready(frame[h]))'
    BY <1>1 DEF SerialInv, Ready, findOverlappingActiveRequests, vars
  <2>2. NoClash' /\ BalanceContinuity' /\ Undecided' /\ OneDecision'
    BY <1>1 DEF SerialInv, NoClash, BalanceContinuity, Undecided, OneDecision, vars
  <2> QED
    BY <2>1, <2>2 DEF SerialInv
<1>2. ASSUME Inv, SerialInv, NEW h \in Handlers,
             OpenSome(h) \/ Refuse(h) \/ Crash(h)
      PROVE  SerialInv'
  BY <1>2, SerialOpen, SerialFail DEF Refuse, Crash
<1>3. ASSUME Inv, SerialInv, NEW h \in Handlers, Work(h)
      PROVE  SerialInv'
  BY <1>3, SerialFindPending, SerialCheckOverlap, SerialInsert, SerialEdit,
     SerialDecide, SerialAppendDecision, SerialEnsure, SerialEnsureCreate,
     SerialCharge, SerialReread, SerialSettle, SerialAudit
     DEF Work
<1> QED
  BY <1>1, <1>2, <1>3 DEF Next

\* With one request at a time, a handler's reads stay true until it writes.
THEOREM SerialInvariance ==
  ASSUME Alone
  PROVE  Spec => []SerialInv
<1>1. Inv /\ SerialInv /\ [Next]_vars => SerialInv'
  BY SerialNext
<1> QED
  BY <1>1, SerialInit, Invariance, PTL DEF Spec

\* With one request at a time, active requests of an employee never share an
\* instant.
THEOREM SerialDisjoint ==
  ASSUME Alone
  PROVE  Spec => []ActiveDisjoint
<1>1. ASSUME Inv, SerialInv
      PROVE  ActiveDisjoint
  <2> SUFFICES ASSUME NEW r1 \in DOMAIN requests, NEW r2 \in DOMAIN requests,
                      r1 # r2, requests[r1].employee = requests[r2].employee,
                      {requests[r1].state, requests[r2].state} \subseteq Active,
                      NEW i \in Instants,
                      requests[r1].start <= i, i <= requests[r1].end,
                      requests[r2].start <= i, i <= requests[r2].end
               PROVE  FALSE
    BY DEF ActiveDisjoint
  <2>1. ~ Overlap(requests[r1].start, requests[r1].end,
                  requests[r2].start, requests[r2].end)
    BY <1>1 DEF SerialInv, NoClash
  <2>2. /\ requests[r1].start \in Int /\ requests[r1].end \in Int
        /\ requests[r2].start \in Int /\ requests[r2].end \in Int /\ i \in Int
    BY <1>1 DEF Inv, TypeOK, LeaveRow, Instants
  <2> QED
    BY <2>1, <2>2 DEF Overlap
<1>2. Inv /\ SerialInv => ActiveDisjoint
  BY <1>1
<1> QED
  BY <1>2, Invariance, SerialInvariance, PTL

\* With one request at a time, what remains is what was granted less what was
\* used, although a handler may die before it charges an approval.
THEOREM SerialContinuity ==
  ASSUME Alone
  PROVE  Spec => []BalanceContinuity
<1>1. SerialInv => BalanceContinuity
  BY DEF SerialInv
<1> QED
  BY <1>1, SerialInvariance, PTL

\* With one request at a time, a request gets at most one LeaveApproval row.
THEOREM SerialDecidedOnce ==
  ASSUME Alone
  PROVE  Spec => []OneDecision
<1>1. SerialInv => OneDecision
  BY DEF SerialInv
<1> QED
  BY <1>1, SerialInvariance, PTL

KeepsDecided ==
  \A r \in DOMAIN requests :
    requests[r].state \in Decisions => requests'[r] = requests[r]

LEMMA SerialKeepsDecided == Inv /\ SerialInv /\ Next => KeepsDecided
<1> SUFFICES ASSUME Inv, SerialInv, NEW h \in Handlers,
                    OpenSome(h) \/ Refuse(h) \/ Crash(h) \/ Work(h)
             PROVE  KeepsDecided
  BY DEF Next
<1>1. CASE UNCHANGED requests
  BY <1>1 DEF KeepsDecided
<1>2. CASE Insert(h)
  <2>1. frame[h].request \notin DOMAIN requests
    BY <1>2 DEF Insert, Inv, Placed, Reserved, Creating
  <2> QED
    BY <1>2, <2>1 DEF Insert, KeepsDecided
<1>3. CASE Edit(h) \/ Decide(h)
  <2>1. requests[frame[h].request].state = "PENDING"
    BY <1>3 DEF Edit, Decide, SerialInv, Ready, Inv, Placed
  <2>2. "PENDING" \notin Decisions
    BY DEF Decisions
  <2>3. \A r \in DOMAIN requests :
          r # frame[h].request => requests'[r] = requests[r]
    BY <1>3 DEF Edit, Decide
  <2> QED
    BY <2>1, <2>2, <2>3 DEF KeepsDecided
<1> QED
  BY <1>1, <1>2, <1>3
  DEF OpenSome, OpenCreate, OpenUpdate, OpenDecide, OpenReadBalance, OpenSettle,
      Open, Refuse, Crash, Work, FindPending, CheckOverlap, AppendDecision,
      Ensure, EnsureCreate, Charge, Reread, Settle, Audit, Publish, stores

\* With one request at a time, a decided request never changes.
THEOREM SerialFinal ==
  ASSUME Alone
  PROVE  Spec => DecisionFinal
<1>1. Inv /\ SerialInv /\ [Next]_vars => [KeepsDecided]_vars
  BY SerialKeepsDecided
<1>2. [KeepsDecided]_vars <=>
        [\A r \in DOMAIN requests :
           requests[r].state \in Decisions => requests'[r] = requests[r]]_vars
  BY DEF KeepsDecided
<1> QED
  BY <1>1, <1>2, Invariance, SerialInvariance, PTL DEF Spec, DecisionFinal

SettlesLater ==
  \A h \in Handlers :
    Settle(h) => balances[frame[h].employee].lastAccrualYear < frame[h].year

\* With one request at a time, a year is settled once and never after a later
\* one.
THEOREM SerialSettledOnce ==
  ASSUME Alone
  PROVE  Spec => SettledOnce
<1>1. Inv /\ SerialInv /\ [Next]_vars => [SettlesLater]_vars
  BY SerialSettle DEF SettlesLater
<1>2. [SettlesLater]_vars <=>
        [\A h \in Handlers :
           Settle(h) =>
             balances[frame[h].employee].lastAccrualYear < frame[h].year]_vars
  BY DEF SettlesLater
<1> QED
  BY <1>1, <1>2, Invariance, SerialInvariance, PTL DEF Spec, SettledOnce

-----------------------------------------------------------------------------
(* The days of a request. *)

LEMMA DayIndex ==
  ASSUME NEW i \in Nat
  PROVE  /\ toSeoulDayIndex(i) \in Nat
         /\ toSeoulDayIndex(i) * SlotsPerDay <= i + SeoulOffset
         /\ i + SeoulOffset < toSeoulDayIndex(i) * SlotsPerDay + SlotsPerDay
<1> PICK n : n = i + SeoulOffset
  OBVIOUS
<1>1. n \in Nat /\ SlotsPerDay \in Nat \ {0}
  BY LeaveAssumption
<1>2. n \div SlotsPerDay \in Nat
  BY <1>1
<1>3. (n \div SlotsPerDay) * SlotsPerDay <= n
  BY <1>1
<1>4. n < (n \div SlotsPerDay) * SlotsPerDay + SlotsPerDay
  BY <1>1
<1> QED
  BY <1>2, <1>3, <1>4 DEF toSeoulDayIndex

LEMMA DayIndexUnique ==
  ASSUME NEW i \in Nat, NEW d \in Int,
         d * SlotsPerDay <= i + SeoulOffset, i + SeoulOffset < d * SlotsPerDay + SlotsPerDay
  PROVE  toSeoulDayIndex(i) = d
<1> PICK n : n = i + SeoulOffset
  OBVIOUS
<1>1. n \in Nat /\ SlotsPerDay \in Nat \ {0}
  BY LeaveAssumption
<1>2. d * SlotsPerDay <= n /\ n < d * SlotsPerDay + SlotsPerDay
  OBVIOUS
<1>3. d = n \div SlotsPerDay
  BY <1>1, <1>2
<1> QED
  BY <1>3 DEF toSeoulDayIndex

LEMMA MultipleOrder ==
  ASSUME NEW a \in Int, NEW b \in Int, a * SlotsPerDay < b * SlotsPerDay + SlotsPerDay
  PROVE  a <= b
<1>1. SlotsPerDay \in Nat \ {0}
  BY LeaveAssumption
<1> QED
  BY <1>1

\* The Seoul days touched are all days from the first to the last.
LEMMA TouchedDays ==
  ASSUME NEW s \in Nat, NEW t \in Nat, s <= t
  PROVE  {toSeoulDayIndex(i) : i \in s .. t} = toSeoulDayIndex(s) .. toSeoulDayIndex(t)
<1> PICK a : a = toSeoulDayIndex(s)
  OBVIOUS
<1> PICK b : b = toSeoulDayIndex(t)
  OBVIOUS
<1>1. /\ a \in Nat /\ a * SlotsPerDay <= s + SeoulOffset
      /\ s + SeoulOffset < a * SlotsPerDay + SlotsPerDay
  BY DayIndex
<1>2. /\ b \in Nat /\ b * SlotsPerDay <= t + SeoulOffset
      /\ t + SeoulOffset < b * SlotsPerDay + SlotsPerDay
  BY DayIndex
<1>3. ASSUME NEW i \in s .. t
      PROVE  toSeoulDayIndex(i) \in a .. b
  <2> PICK d : d = toSeoulDayIndex(i)
    OBVIOUS
  <2>1. /\ d \in Nat /\ d * SlotsPerDay <= i + SeoulOffset
        /\ i + SeoulOffset < d * SlotsPerDay + SlotsPerDay
    BY DayIndex
  <2>2. a * SlotsPerDay < d * SlotsPerDay + SlotsPerDay
    BY <1>1, <2>1, LeaveAssumption
  <2>3. d * SlotsPerDay < b * SlotsPerDay + SlotsPerDay
    BY <1>2, <2>1, LeaveAssumption
  <2> QED
    BY <1>1, <1>2, <2>1, <2>2, <2>3, MultipleOrder
<1>4. ASSUME NEW d \in a .. b
      PROVE  \E i \in s .. t : toSeoulDayIndex(i) = d
  <2>1. CASE d = a
    BY <2>1
  <2>2. CASE d # a
    <3> PICK m : m = d * SlotsPerDay
      OBVIOUS
    <3>1. m \in Int /\ m <= b * SlotsPerDay /\ a * SlotsPerDay + SlotsPerDay <= m
      BY <1>1, <1>2, <2>2, LeaveAssumption
    <3> PICK i : i = m - SeoulOffset
      OBVIOUS
    <3>2. i \in s .. t /\ i \in Nat /\ i + SeoulOffset = m
      BY <1>1, <1>2, <3>1, LeaveAssumption
    <3>3. toSeoulDayIndex(i) = d
      BY <3>2, DayIndexUnique, LeaveAssumption
    <3> QED
      BY <3>2, <3>3
  <2> QED
    BY <2>1, <2>2
<1> QED
  BY <1>3, <1>4

LEMMA DaysCounted ==
  ASSUME NEW s \in Nat, NEW t \in Nat, s <= t
  PROVE  /\ calculateLeaveDays(s, t) = Cardinality({toSeoulDayIndex(i) : i \in s .. t})
         /\ calculateLeaveDays(s, t) \in Nat
<1> PICK a : a = toSeoulDayIndex(s)
  OBVIOUS
<1> PICK b : b = toSeoulDayIndex(t)
  OBVIOUS
<1>1. a \in Nat /\ b \in Nat
  BY DayIndex
<1>2. {toSeoulDayIndex(i) : i \in s .. t} = a .. b
  BY TouchedDays
<1>3. a <= b
  <2>1. toSeoulDayIndex(s) \in {toSeoulDayIndex(i) : i \in s .. t}
    OBVIOUS
  <2> QED
    BY <1>1, <1>2, <2>1
<1>4. Cardinality(a .. b) = b - a + 1
  BY <1>1, <1>3, FS_Interval
<1>5. Cardinality({toSeoulDayIndex(i) : i \in s .. t}) = b - a + 1
  BY <1>2, <1>4
<1>6. calculateLeaveDays(s, t) = b - a + 1
  BY DEF calculateLeaveDays
<1> QED
  BY <1>1, <1>3, <1>5, <1>6

Dated(row) ==
  row.start <= row.end /\ row.days = calculateLeaveDays(row.start, row.end)

\* What is stored as the days of a request, and about to be, is counted from its
\* dates.
DatesInv ==
  /\ \A r \in DOMAIN requests : Dated(requests[r])
  /\ \A h \in Handlers : frame[h].at \in {"insert", "edit"} => Dated(frame[h])

LEMMA DatesStep ==
  ASSUME Alone, Inv, SerialInv, DatesInv, NEW h \in Handlers, NEW n,
         Continue(h, n), n.at \in {"insert", "edit"} => Dated(n),
         \A r \in DOMAIN requests' : \E row : row = requests'[r] /\ Dated(row)
  PROVE  DatesInv'
<1>1. frame'[h] = IF n.at = "idle" THEN Idle ELSE n
  BY DEF Continue, Inv, TypeOK
<1>2. ASSUME NEW g \in Handlers, frame'[g].at \in {"insert", "edit"}
      PROVE  Dated(frame[g])'
  <2>1. frame'[g] = n
    BY <1>1, <1>2 DEF Alone, Idle
  <2> QED
    BY <1>2, <2>1 DEF Dated, calculateLeaveDays, toSeoulDayIndex
<1>3. ASSUME NEW r \in DOMAIN requests'
      PROVE  Dated(requests[r])'
  BY <1>3 DEF Dated, calculateLeaveDays, toSeoulDayIndex
<1> QED
  BY <1>2, <1>3 DEF DatesInv

LEMMA DatesKept ==
  ASSUME DatesInv, UNCHANGED requests
  PROVE  \A r \in DOMAIN requests' : \E row : row = requests'[r] /\ Dated(row)
  BY DEF DatesInv

LEMMA DatesFail ==
  ASSUME Alone, Inv, SerialInv, DatesInv, NEW h \in Handlers, Fail(h), UNCHANGED requests
  PROVE  DatesInv'
<1>1. Continue(h, Idle) /\ (Idle).at \notin {"insert", "edit"}
  BY DEF Fail, Continue, Idle
<1> QED
  BY <1>1, DatesKept, DatesStep

\* A handler that is not about to write dates.
LEMMA DatesLocal ==
  ASSUME Alone, Inv, SerialInv, DatesInv, NEW h \in Handlers, NEW n,
         Continue(h, n), n.at \notin {"insert", "edit"}, UNCHANGED requests
  PROVE  DatesInv'
  BY DatesKept, DatesStep

LEMMA DatesCheck ==
  ASSUME Alone, Inv, SerialInv, DatesInv, NEW h \in Handlers, CheckOverlap(h)
  PROVE  DatesInv'
<1> PICK f \in Frame : f = frame[h]
  BY DEF Inv, TypeOK
<1>1. UNCHANGED requests
  BY DEF CheckOverlap, stores
<1>2. CASE Fail(h)
  BY <1>1, <1>2, DatesFail
<1> PICK d : d = calculateLeaveDays(f.start, f.end)
  OBVIOUS
<1>3. ASSUME NEW at \in {"insert", "edit"}, f.start <= f.end,
             Continue(h, [f EXCEPT !.at = at, !.days = d])
      PROVE  DatesInv'
  <2> PICK n : n = [f EXCEPT !.at = at, !.days = d]
    OBVIOUS
  <2>1. f.start \in Nat /\ f.end \in Nat
    BY LeaveAssumption DEF Frame, Instants
  <2>2. d \in Int
    BY <2>1, DayIndex DEF calculateLeaveDays
  <2>3. n \in Frame /\ n.start = f.start /\ n.end = f.end /\ n.days = d
    BY <2>2 DEF Frame, Steps
  <2>4. Dated(n)
    BY <1>3, <2>3 DEF Dated
  <2> QED
    BY <1>1, <1>3, <2>3, <2>4, DatesKept, DatesStep
<1> QED
  BY <1>2, <1>3 DEF CheckOverlap

LEMMA DatesInsert ==
  ASSUME Alone, Inv, SerialInv, DatesInv, NEW h \in Handlers, Insert(h)
  PROVE  DatesInv'
<1> PICK f \in Frame : f = frame[h]
  BY DEF Inv, TypeOK
<1> PICK row : row = [employee |-> f.employee, start |-> f.start, end |-> f.end,
                      days |-> f.days, state |-> "PENDING", stamps |-> {}]
  OBVIOUS
<1>1. Dated(f)
  BY DEF Insert, DatesInv
<1>2. Dated(row)
  BY <1>1 DEF Dated
<1> PICK n : n = [f EXCEPT !.at = "audit"]
  OBVIOUS
<1>3. n \in Frame /\ n.at = "audit" /\ Continue(h, n)
  BY DEF Insert, After, Frame, Steps
<1>4. \A r \in DOMAIN requests' : requests'[r] = row \/ (r \in DOMAIN requests /\ requests'[r] = requests[r])
  BY DEF Insert
<1> QED
  BY <1>2, <1>3, <1>4, DatesStep DEF DatesInv

\* Dates an update leaves alone are those it found.
LEMMA DatesEdit ==
  ASSUME Alone, Inv, SerialInv, DatesInv, NEW h \in Handlers, Edit(h)
  PROVE  DatesInv'
<1> PICK f \in Frame : f = frame[h]
  BY DEF Inv, TypeOK
<1> PICK old : old = requests[f.request]
  OBVIOUS
<1> PICK row : row = EditedRow(old, f)
  OBVIOUS
<1>1. Dated(f) /\ f.at = "edit" /\ f.op = "update" /\ f.request \in DOMAIN requests
  BY DEF Edit, DatesInv, Inv, Placed
<1>2. /\ "start" \notin f.patch => f.start = old.start
      /\ "end" \notin f.patch => f.end = old.end
  BY <1>1 DEF SerialInv, Ready
<1>3. old \in LeaveRow
  BY <1>1 DEF Inv, TypeOK
<1>4. row.start = f.start /\ row.end = f.end /\ row.days = f.days
  BY <1>2, <1>3 DEF EditedRow, LeaveRow
<1>5. Dated(row)
  BY <1>1, <1>4 DEF Dated
<1> PICK n : n = [f EXCEPT !.at = "audit"]
  OBVIOUS
<1>6. n \in Frame /\ n.at = "audit" /\ Continue(h, n)
  BY DEF Edit, After, Frame, Steps
<1>7. \A r \in DOMAIN requests' : requests'[r] = row \/ (r \in DOMAIN requests /\ requests'[r] = requests[r])
  BY DEF Edit
<1> QED
  BY <1>5, <1>6, <1>7, DatesStep DEF DatesInv

LEMMA DatesDecide ==
  ASSUME Alone, Inv, SerialInv, DatesInv, NEW h \in Handlers, Decide(h)
  PROVE  DatesInv'
<1> PICK f \in Frame : f = frame[h]
  BY DEF Inv, TypeOK
<1> PICK old : old = requests[f.request]
  OBVIOUS
<1> PICK row : row = DecidedRow(old, f.op)
  OBVIOUS
<1>1. f.request \in DOMAIN requests
  BY DEF Decide, Inv, Placed
<1>2. old \in LeaveRow /\ Dated(old)
  BY <1>1 DEF Inv, TypeOK, DatesInv
<1>3. row.start = old.start /\ row.end = old.end /\ row.days = old.days
  BY <1>2 DEF DecidedRow, LeaveRow
<1>4. Dated(row)
  BY <1>2, <1>3 DEF Dated
<1> PICK n : n = [f EXCEPT !.at = "appendDecision", !.days = old.days]
  OBVIOUS
<1>5. n \in Frame /\ n.at = "appendDecision" /\ Continue(h, n)
  BY <1>2 DEF Decide, After, Frame, Steps, LeaveRow
<1>6. \A r \in DOMAIN requests' : requests'[r] = row \/ (r \in DOMAIN requests /\ requests'[r] = requests[r])
  BY DEF Decide
<1> QED
  BY <1>4, <1>5, <1>6, DatesStep DEF DatesInv

LEMMA DatesOthers ==
  ASSUME Alone, Inv, SerialInv, DatesInv, NEW h \in Handlers,
         OpenSome(h) \/ Refuse(h) \/ Crash(h) \/ FindPending(h) \/ AppendDecision(h)
         \/ Ensure(h) \/ EnsureCreate(h) \/ Charge(h) \/ Reread(h) \/ Settle(h)
         \/ Audit(h) \/ Publish(h)
  PROVE  DatesInv'
<1> PICK f \in Frame : f = frame[h]
  BY DEF Inv, TypeOK
<1>1. UNCHANGED requests
  BY DEF OpenSome, OpenCreate, OpenUpdate, OpenDecide, OpenReadBalance, OpenSettle, Open,
         Refuse, Crash, FindPending, AppendDecision, Ensure, EnsureCreate, Charge, Reread,
         Settle, Audit, Publish, stores
<1>2. ASSUME NEW n, Continue(h, n), n.at \notin {"insert", "edit"}
      PROVE  DatesInv'
  BY <1>1, <1>2, DatesLocal
<1>3. CASE Fail(h)
  BY <1>1, <1>3, DatesFail
<1>4. CASE OpenSome(h)
  <2>1. ASSUME NEW r, NEW e, NEW s, NEW t, OpenCreate(h, r, e, s, t)
        PROVE  DatesInv'
    BY <1>2, <2>1 DEF OpenCreate, Open, Idle
  <2>2. ASSUME NEW r, NEW p, NEW s, NEW t, OpenUpdate(h, r, p, s, t)
        PROVE  DatesInv'
    BY <1>2, <2>2 DEF OpenUpdate, Open, Idle
  <2>3. ASSUME NEW r, NEW d, OpenDecide(h, r, d)
        PROVE  DatesInv'
    BY <1>2, <2>3 DEF OpenDecide, Open, Idle
  <2>4. ASSUME NEW e, OpenReadBalance(h, e)
        PROVE  DatesInv'
    BY <1>2, <2>4 DEF OpenReadBalance, Open, Idle
  <2>5. ASSUME NEW e, NEW y, NEW g, NEW c, OpenSettle(h, e, y, g, c)
        PROVE  DatesInv'
    BY <1>2, <2>5 DEF OpenSettle, Open, Idle
  <2> QED
    BY <1>4, <2>1, <2>2, <2>3, <2>4, <2>5 DEF OpenSome
<1>5. ASSUME NEW at, at \notin {"insert", "edit"}, Continue(h, [f EXCEPT !.at = at])
      PROVE  DatesInv'
  <2>1. [f EXCEPT !.at = at].at = at
    BY DEF Frame
  <2> QED
    BY <1>2, <1>5, <2>1
<1>6. ASSUME NEW at, at \notin {"insert", "edit"}, NEW b,
             Continue(h, [f EXCEPT !.at = at, !.seen = b])
      PROVE  DatesInv'
  <2>1. [f EXCEPT !.at = at, !.seen = b].at = at
    BY DEF Frame
  <2> QED
    BY <1>2, <1>6, <2>1
<1>7. CASE FindPending(h)
  <2>1. ASSUME NEW e, NEW s, NEW t, Continue(h, [f EXCEPT !.at = "checkOverlap",
                                         !.employee = e, !.start = s, !.end = t])
        PROVE  DatesInv'
    <3> PICK n : n = [f EXCEPT !.at = "checkOverlap", !.employee = e, !.start = s, !.end = t]
      OBVIOUS
    <3>1. n.at = "checkOverlap"
      BY DEF Frame
    <3> QED
      BY <1>2, <2>1, <3>1
  <2>2. ASSUME NEW e, Continue(h, [f EXCEPT !.at = "decide", !.employee = e])
        PROVE  DatesInv'
    <3> PICK n : n = [f EXCEPT !.at = "decide", !.employee = e]
      OBVIOUS
    <3>1. n.at = "decide"
      BY DEF Frame
    <3> QED
      BY <1>2, <2>2, <3>1
  <2> QED
    BY <1>3, <1>7, <2>1, <2>2 DEF FindPending
<1>8. CASE Ensure(h) \/ EnsureCreate(h)
  <2>1. ASSUME NEW row, UseBalance(h, f, row)
        PROVE  DatesInv'
    BY <1>3, <1>5, <1>6, <2>1 DEF UseBalance
  <2> QED
    BY <1>3, <1>5, <1>8, <2>1 DEF Ensure, EnsureCreate
<1>9. \A at \in {"appendDecision", "charge", "settle", "audit", "publish"} :
        After(f.op, at) \notin {"insert", "edit"}
  BY DEF After, AfterDecision
<1> QED
  BY <1>3, <1>4, <1>5, <1>6, <1>7, <1>8, <1>9
  DEF Refuse, Crash, AppendDecision, Charge, Reread, Settle, Audit, Publish

LEMMA DatesNext ==
  ASSUME Alone
  PROVE  Inv /\ SerialInv /\ DatesInv /\ [Next]_vars => DatesInv'
<1>1. ASSUME UNCHANGED vars, DatesInv
      PROVE  DatesInv'
  BY <1>1 DEF vars, DatesInv, Dated, calculateLeaveDays, toSeoulDayIndex
<1>2. ASSUME Inv, SerialInv, DatesInv, NEW h \in Handlers,
             OpenSome(h) \/ Refuse(h) \/ Crash(h) \/ Work(h)
      PROVE  DatesInv'
  BY <1>2, DatesCheck, DatesInsert, DatesEdit, DatesDecide, DatesOthers DEF Work
<1> QED
  BY <1>1, <1>2 DEF Next

LEMMA DatesInvariance ==
  ASSUME Alone
  PROVE  Spec => []DatesInv
<1>1. Init => DatesInv
  BY DEF Init, DatesInv, Idle
<1>2. Inv /\ SerialInv /\ DatesInv /\ [Next]_vars => DatesInv'
  BY DatesNext
<1> QED
  BY <1>1, <1>2, Invariance, SerialInvariance, PTL DEF Spec

\* With one request at a time, the days of a request are the Seoul calendar days
\* its dates touch, for days and offsets of any length.
THEOREM SerialDays ==
  ASSUME Alone
  PROVE  Spec => []DaysMatchDates
<1>1. ASSUME Inv, DatesInv, NEW r \in DOMAIN requests
      PROVE  requests[r].days =
               Cardinality({toSeoulDayIndex(i) : i \in requests[r].start .. requests[r].end})
  <2>1. requests[r].start \in Nat /\ requests[r].end \in Nat
    BY <1>1, LeaveAssumption DEF Inv, TypeOK, LeaveRow, Instants
  <2>2. /\ requests[r].start <= requests[r].end
        /\ requests[r].days = calculateLeaveDays(requests[r].start, requests[r].end)
    BY <1>1 DEF DatesInv, Dated
  <2> QED
    BY <2>1, <2>2, DaysCounted
<1>2. Inv /\ DatesInv => DaysMatchDates
  BY <1>1 DEF DaysMatchDates
<1> QED
  BY <1>2, Invariance, DatesInvariance, PTL

-----------------------------------------------------------------------------
(* The trail of a decision. *)

\* No handler dies.
Lasting == MaxCrashes = 0

\* Handler state f has written decision d of r and has yet to audit it.
Announcing(f, r, d) ==
  /\ f.request = r /\ f.op = d
  /\ f.at \in {"appendDecision", "ensure", "ensureCreate", "charge", "audit"}

TrailInv ==
  /\ \A r \in DOMAIN requests :
       requests[r].state \in Decisions =>
         \/ <<requests[r].state, r>> \in audited
         \/ \E h \in Handlers : Announcing(frame[h], r, requests[r].state)
  /\ \A h \in Handlers :
       frame[h].at = "ensureCreate" => frame[h].employee \notin DOMAIN balances

\* A handler that moves on to n keeps what it has to announce, or has done so.
LEMMA TrailStep ==
  ASSUME Alone, Inv, TrailInv, NEW h \in Handlers, NEW n, Continue(h, n),
         audited \subseteq audited',
         \A r \in DOMAIN requests', d \in Decisions :
           requests'[r].state = d =>
             \/ Announcing(n, r, d)
             \/ <<d, r>> \in audited'
             \/ /\ r \in DOMAIN requests /\ requests[r].state = d
                /\ ~ Announcing(frame[h], r, d),
         n.at = "ensureCreate" => n.employee \notin DOMAIN balances'
  PROVE  TrailInv'
<1>1. frame'[h] = IF n.at = "idle" THEN Idle ELSE n
  BY DEF Continue, Inv, TypeOK
<1>2. \A g \in Handlers : g = h
  BY DEF Alone
<1>3. ASSUME NEW r \in DOMAIN requests', NEW d \in Decisions, requests'[r].state = d
      PROVE  <<d, r>> \in audited' \/ \E g \in Handlers : Announcing(frame'[g], r, d)
  <2>1. CASE Announcing(n, r, d)
    BY <1>1, <2>1 DEF Announcing
  <2>2. CASE /\ r \in DOMAIN requests /\ requests[r].state = d
             /\ ~ Announcing(frame[h], r, d)
    BY <1>2, <2>2 DEF TrailInv
  <2> QED
    BY <1>3, <2>1, <2>2
<1>4. \A g \in Handlers :
        frame'[g].at = "ensureCreate" => frame'[g].employee \notin DOMAIN balances'
  BY <1>1, <1>2 DEF Idle
<1> QED
  BY <1>3, <1>4 DEF TrailInv, Announcing

\* A handler that has nothing to announce, and changes no decision.
LEMMA TrailQuiet ==
  ASSUME Alone, Inv, TrailInv, NEW h \in Handlers, NEW n, Continue(h, n),
         audited \subseteq audited',
         \A r \in DOMAIN requests', d \in Decisions :
           requests'[r].state = d => r \in DOMAIN requests /\ requests[r].state = d,
         \A r : \A d \in Decisions : ~ Announcing(frame[h], r, d),
         n.at # "ensureCreate"
  PROVE  TrailInv'
  BY TrailStep

LEMMA TrailFail ==
  ASSUME Alone, Inv, TrailInv, NEW h \in Handlers, Fail(h), UNCHANGED <<requests, audited>>,
         \A r : \A d \in Decisions : ~ Announcing(frame[h], r, d)
  PROVE  TrailInv'
<1>1. Continue(h, Idle) /\ (Idle).at = "idle"
  BY DEF Fail, Continue, Idle
<1> QED
  BY <1>1, TrailQuiet

\* Handlers before the write of a decision, or of other operations.
LEMMA TrailBefore ==
  ASSUME Alone, Inv, TrailInv, NEW h \in Handlers,
         OpenSome(h) \/ Refuse(h) \/ FindPending(h) \/ CheckOverlap(h) \/ Insert(h)
         \/ Edit(h) \/ Reread(h) \/ Settle(h) \/ Publish(h)
  PROVE  TrailInv'
<1> PICK f \in Frame : f = frame[h]
  BY DEF Inv, TypeOK
<1>1. \A r : \A d \in Decisions : ~ Announcing(f, r, d)
  <2>1. \/ f.at \in {"idle", "find", "checkOverlap", "decide", "insert", "edit", "reread",
                     "settle", "publish"}
        \/ f.op \notin Decisions
    BY DEF OpenSome, OpenCreate, OpenUpdate, OpenDecide, OpenReadBalance, OpenSettle, Open,
           Refuse, FindPending, CheckOverlap, Insert, Edit, Reread, Settle, Publish
  <2> QED
    BY <2>1 DEF Announcing
<1>2. UNCHANGED audited
  BY DEF OpenSome, OpenCreate, OpenUpdate, OpenDecide, OpenReadBalance, OpenSettle, Open,
         Refuse, FindPending, CheckOverlap, Insert, Edit, Reread, Settle, Publish, stores
<1>3. \A r \in DOMAIN requests', d \in Decisions :
        requests'[r].state = d => r \in DOMAIN requests /\ requests[r].state = d
  <2>1. CASE UNCHANGED requests
    BY <2>1
  <2>2. CASE Insert(h)
    <3>1. "PENDING" \notin Decisions
      BY DEF Decisions
    <3> QED
      BY <2>2, <3>1 DEF Insert
  <2>3. CASE Edit(h)
    <3> PICK old : old = requests[f.request]
      OBVIOUS
    <3>1. f.request \in DOMAIN requests
      BY <2>3 DEF Edit, Inv, Placed
    <3>2. old \in LeaveRow
      BY <3>1 DEF Inv, TypeOK
    <3>3. (EditedRow(old, f)).state = old.state
      BY <3>2 DEF EditedRow, LeaveRow
    <3> QED
      BY <2>3, <3>1, <3>3 DEF Edit
  <2> QED
    BY <2>1, <2>2, <2>3
    DEF OpenSome, OpenCreate, OpenUpdate, OpenDecide, OpenReadBalance, OpenSettle, Open,
        Refuse, FindPending, CheckOverlap, Reread, Settle, Publish, stores
<1>4. ASSUME NEW n, Continue(h, n), n.at # "ensureCreate"
      PROVE  TrailInv'
  BY <1>1, <1>2, <1>3, <1>4, TrailQuiet
<1>5. CASE Fail(h)
  <2>1. Continue(h, Idle) /\ (Idle).at = "idle"
    BY <1>5 DEF Fail, Continue, Idle
  <2> QED
    BY <1>4, <2>1
<1>6. CASE OpenSome(h)
  <2>1. ASSUME NEW r, NEW e, NEW s, NEW t, OpenCreate(h, r, e, s, t)
        PROVE  TrailInv'
    BY <1>4, <2>1 DEF OpenCreate, Open, Idle
  <2>2. ASSUME NEW r, NEW p, NEW s, NEW t, OpenUpdate(h, r, p, s, t)
        PROVE  TrailInv'
    BY <1>4, <2>2 DEF OpenUpdate, Open, Idle
  <2>3. ASSUME NEW r, NEW d, OpenDecide(h, r, d)
        PROVE  TrailInv'
    BY <1>4, <2>3 DEF OpenDecide, Open, Idle
  <2>4. ASSUME NEW e, OpenReadBalance(h, e)
        PROVE  TrailInv'
    BY <1>4, <2>4 DEF OpenReadBalance, Open, Idle
  <2>5. ASSUME NEW e, NEW y, NEW g, NEW c, OpenSettle(h, e, y, g, c)
        PROVE  TrailInv'
    BY <1>4, <2>5 DEF OpenSettle, Open, Idle
  <2> QED
    BY <1>6, <2>1, <2>2, <2>3, <2>4, <2>5 DEF OpenSome
<1>7. CASE FindPending(h)
  <2>1. ASSUME NEW e, NEW s, NEW t, Continue(h, [f EXCEPT !.at = "checkOverlap",
                                         !.employee = e, !.start = s, !.end = t])
        PROVE  TrailInv'
    <3> PICK n : n = [f EXCEPT !.at = "checkOverlap", !.employee = e, !.start = s, !.end = t]
      OBVIOUS
    <3>1. n.at = "checkOverlap"
      BY DEF Frame
    <3> QED
      BY <1>4, <2>1, <3>1
  <2>2. ASSUME NEW e, Continue(h, [f EXCEPT !.at = "decide", !.employee = e])
        PROVE  TrailInv'
    <3> PICK n : n = [f EXCEPT !.at = "decide", !.employee = e]
      OBVIOUS
    <3>1. n.at = "decide"
      BY DEF Frame
    <3> QED
      BY <1>4, <2>2, <3>1
  <2> QED
    BY <1>5, <1>7, <2>1, <2>2 DEF FindPending
<1>8. CASE CheckOverlap(h)
  <2>1. ASSUME NEW at \in {"insert", "edit"}, NEW d, Continue(h, [f EXCEPT !.at = at, !.days = d])
        PROVE  TrailInv'
    <3> PICK n : n = [f EXCEPT !.at = at, !.days = d]
      OBVIOUS
    <3>1. n.at = at
      BY DEF Frame
    <3> QED
      BY <1>4, <2>1, <3>1
  <2> QED
    BY <1>5, <1>8, <2>1 DEF CheckOverlap
<1>9. CASE Insert(h) \/ Edit(h) \/ Settle(h) \/ Publish(h)
  <2>1. ASSUME NEW at, at # "ensureCreate", Continue(h, [f EXCEPT !.at = at])
        PROVE  TrailInv'
    <3> PICK n : n = [f EXCEPT !.at = at]
      OBVIOUS
    <3>1. n.at = at
      BY DEF Frame
    <3> QED
      BY <1>4, <2>1, <3>1
  <2>2. \A at \in {"insert", "edit", "settle", "publish"} : After(f.op, at) # "ensureCreate"
    BY DEF After
  <2> QED
    BY <1>9, <2>1, <2>2 DEF Insert, Edit, Settle, Publish
<1>10. CASE Reread(h)
  <2> PICK n : n = [f EXCEPT !.at = "settle", !.seen = balances[f.employee]]
    OBVIOUS
  <2>1. n.at = "settle"
    BY DEF Frame
  <2> QED
    BY <1>4, <1>10, <2>1 DEF Reread
<1> QED
  BY <1>5, <1>6, <1>7, <1>8, <1>9, <1>10 DEF Refuse

\* Handlers from the write of a decision to its audit entry.
LEMMA TrailAfter ==
  ASSUME Alone, Inv, TrailInv, NEW h \in Handlers,
         Decide(h) \/ AppendDecision(h) \/ Ensure(h) \/ EnsureCreate(h) \/ Charge(h)
         \/ Audit(h)
  PROVE  TrailInv'
<1> PICK f \in Frame : f = frame[h]
  BY DEF Inv, TypeOK
<1>1. Placed(f)
  BY DEF Inv, Placed, Recorded, Entity
\* The handler goes on to announce what it did.
<1>2. ASSUME UNCHANGED requests, audited \subseteq audited', NEW n, Continue(h, n),
             n.request = f.request, n.op = f.op,
             n.at \in {"ensure", "ensureCreate", "charge", "audit"},
             n.at = "ensureCreate" => n.employee \notin DOMAIN balances'
      PROVE  TrailInv'
  <2>1. \A r : \A d : Announcing(f, r, d) => Announcing(n, r, d)
    BY <1>2 DEF Announcing
  <2> QED
    BY <1>2, <2>1, TrailStep
<1>3. CASE Decide(h)
  <2> PICK n : n = [f EXCEPT !.at = "appendDecision", !.days = requests[f.request].days]
    OBVIOUS
  <2>1. n.at = "appendDecision" /\ n.request = f.request /\ n.op = f.op
    BY DEF Frame
  <2>2. Continue(h, n) /\ audited' = audited
    BY <1>3 DEF Decide, After
  <2>3. f.at = "decide" /\ f.request \in DOMAIN requests /\ f.op \in Decisions
    BY <1>1, <1>3 DEF Decide, Placed
  <2>4. requests[f.request] \in LeaveRow
    BY <2>3 DEF Inv, TypeOK
  <2>5. (DecidedRow(requests[f.request], f.op)).state = f.op
    BY <2>4 DEF DecidedRow, LeaveRow
  <2>6. /\ DOMAIN requests' = DOMAIN requests /\ requests'[f.request].state = f.op
        /\ \A r \in DOMAIN requests : r # f.request => requests'[r] = requests[r]
    BY <1>3, <2>3, <2>5 DEF Decide
  <2>7. \A r : \A d : ~ Announcing(f, r, d)
    BY <2>3 DEF Announcing
  <2>8. ASSUME NEW r \in DOMAIN requests', NEW d \in Decisions, requests'[r].state = d
        PROVE  \/ Announcing(n, r, d)
               \/ r \in DOMAIN requests /\ requests[r].state = d
    <3>1. CASE r = f.request
      BY <2>1, <2>6, <2>8, <3>1 DEF Announcing
    <3>2. CASE r # f.request
      BY <2>6, <2>8, <3>2
    <3> QED
      BY <3>1, <3>2
  <2> QED
    BY <2>1, <2>2, <2>7, <2>8, TrailStep
<1>4. CASE AppendDecision(h)
  <2> PICK at : at = AfterDecision(f.op)
    OBVIOUS
  <2> PICK n : n = [f EXCEPT !.at = at]
    OBVIOUS
  <2>1. n.at \in {"ensure", "audit"} /\ n.request = f.request /\ n.op = f.op
    BY DEF Frame, AfterDecision
  <2>2. Continue(h, n) /\ UNCHANGED <<requests, audited>>
    BY <1>4 DEF AppendDecision, After
  <2> QED
    BY <1>2, <2>1, <2>2
<1>5. CASE Charge(h)
  <2> PICK n : n = [f EXCEPT !.at = "audit"]
    OBVIOUS
  <2>1. n.at = "audit" /\ n.request = f.request /\ n.op = f.op
    BY DEF Frame
  <2>2. Continue(h, n) /\ UNCHANGED <<requests, audited>>
    BY <1>5 DEF Charge, After
  <2> QED
    BY <1>2, <2>1, <2>2
\* A handler that settles has no decision to announce.
<1>6. ASSUME NEW row, UseBalance(h, f, row), UNCHANGED <<requests, audited>>
      PROVE  TrailInv'
  <2>1. ASSUME NEW at \in {"charge", "audit"}, Continue(h, [f EXCEPT !.at = at, !.seen = row])
        PROVE  TrailInv'
    <3> PICK n : n = [f EXCEPT !.at = at, !.seen = row]
      OBVIOUS
    <3>1. n.at = at /\ n.request = f.request /\ n.op = f.op
      BY DEF Frame
    <3> QED
      BY <1>2, <1>6, <2>1, <3>1
  <2>2. CASE f.op = "settle"
    <3>1. \A r : \A d \in Decisions : ~ Announcing(f, r, d)
      BY <2>2 DEF Announcing, Decisions
    <3>2. CASE Continue(h, [f EXCEPT !.at = "reread"])
      <4>1. [f EXCEPT !.at = "reread"].at = "reread"
        BY DEF Frame
      <4> QED
        BY <1>6, <3>1, <3>2, <4>1, TrailQuiet
    <3>3. CASE Fail(h)
      BY <1>6, <3>1, <3>3, TrailFail
    <3> QED
      BY <1>6, <2>1, <2>2, <3>2, <3>3 DEF UseBalance, Decisions
  <2> QED
    BY <1>6, <2>1, <2>2 DEF UseBalance
<1>7. CASE Ensure(h)
  <2>1. CASE /\ f.employee \notin DOMAIN balances
             /\ Continue(h, [f EXCEPT !.at = "ensureCreate"])
    <3> PICK n : n = [f EXCEPT !.at = "ensureCreate"]
      OBVIOUS
    <3>1. /\ n.at = "ensureCreate" /\ n.request = f.request /\ n.op = f.op
          /\ n.employee = f.employee
      BY DEF Frame
    <3> QED
      BY <1>2, <1>7, <2>1, <3>1 DEF Ensure, stores
  <2> QED
    BY <1>6, <1>7, <2>1 DEF Ensure, stores
<1>8. CASE EnsureCreate(h)
  <2>1. f.employee \notin DOMAIN balances
    BY <1>8 DEF EnsureCreate, TrailInv
  <2> QED
    BY <1>6, <1>8, <2>1 DEF EnsureCreate
<1>9. CASE Audit(h)
  <2> PICK at : at = After(f.op, "audit")
    OBVIOUS
  <2> PICK n : n = [f EXCEPT !.at = at]
    OBVIOUS
  <2>1. n.at = at /\ at \in {"publish", "idle"} /\ Continue(h, n)
    BY <1>9 DEF Audit, Frame, After
  <2>2. audited' = audited \cup {<<f.op, Entity(f)>>} /\ UNCHANGED requests
    BY <1>9 DEF Audit
  <2>3. \A r : \A d \in Decisions : Announcing(f, r, d) => <<d, r>> \in audited'
    BY <2>2 DEF Announcing, Entity, Decisions
  <2> QED
    BY <2>1, <2>2, <2>3, TrailStep
<1> QED
  BY <1>3, <1>4, <1>5, <1>7, <1>8, <1>9

LEMMA TrailNext ==
  ASSUME Alone, Lasting, Inv, TrailInv, [Next]_vars
  PROVE  TrailInv'
<1>1. CASE UNCHANGED vars
  BY <1>1 DEF vars, TrailInv, Announcing
<1>2. ASSUME NEW h \in Handlers, OpenSome(h) \/ Refuse(h) \/ Crash(h) \/ Work(h)
      PROVE  TrailInv'
  <2>1. ~ Crash(h)
    <3>1. crashes \in 0 .. 0
      BY DEF Inv, TypeOK, Lasting
    <3> QED
      BY <3>1 DEF Crash, Lasting
  <2> QED
    BY <1>2, <2>1, TrailBefore, TrailAfter DEF Work
<1> QED
  BY <1>1, <1>2 DEF Next

LEMMA TrailInvariance ==
  ASSUME Alone, Lasting
  PROVE  Spec => []TrailInv
<1>1. Init => TrailInv
  BY DEF Init, TrailInv, Idle
<1>2. Inv /\ TrailInv /\ [Next]_vars => TrailInv'
  BY TrailNext
<1> QED
  BY <1>1, <1>2, Invariance, PTL DEF Spec

\* "Manager approves request and audit trail is appended": with one handler at
\* work and none dying, a request that shows a decision when all are idle has
\* that decision in the audit log, however many calls were refused or failed.
THEOREM SerialTrail ==
  ASSUME Alone, Lasting
  PROVE  Spec => []QuiescentTrail
<1>1. TrailInv => QuiescentTrail
  <2> SUFFICES ASSUME TrailInv, \A h \in Handlers : frame[h].at = "idle",
                      NEW r \in DOMAIN requests, requests[r].state \in Decisions
               PROVE  <<requests[r].state, r>> \in audited
    BY DEF QuiescentTrail
  <2> QED
    BY DEF TrailInv, Announcing
<1> QED
  BY <1>1, TrailInvariance, PTL

-----------------------------------------------------------------------------
(* One handler's steps as steps of the ledger. *)

OwesTo(f, e) ==
  /\ f.op = "APPROVED" /\ f.employee = e
  /\ f.at \in {"appendDecision", "ensure", "ensureCreate", "charge"}

Due(f, e) == IF OwesTo(f, e) THEN f.days ELSE 0

\* Days that are owed are some, and a settlement starts from the row as it is.
SettledInv ==
  \A h \in Handlers :
    /\ \A e \in Employees : OwesTo(frame[h], e) => frame[h].days \in Nat
    /\ frame[h].at = "settle" => frame[h].seen = balances[frame[h].employee]

LEMMA CountTo ==
  ASSUME NEW n \in Nat
  PROVE  IsFiniteSet(1 .. n) /\ Cardinality(1 .. n) = n
<1> PICK one \in Int : one = 1
  OBVIOUS
<1>1. IsFiniteSet(one .. n) /\ Cardinality(one .. n) = IF one > n THEN 0 ELSE n - one + 1
  BY FS_Interval
<1>2. (IF one > n THEN 0 ELSE n - one + 1) = n
  OBVIOUS
<1> QED
  BY <1>1, <1>2

\* The days of no handler but one.
LEMMA OwedOf ==
  ASSUME Alone, NEW F, NEW h \in Handlers, NEW e, OwesTo(F[h], e) => F[h].days \in Nat
  PROVE  Cardinality(UNION {{g} \X (1 .. F[g].days) :
                              g \in {k \in Handlers : OwesTo(F[k], e)}})
           = Due(F[h], e)
<1> DEFINE S == {k \in Handlers : OwesTo(F[k], e)}
           U == UNION {{g} \X (1 .. F[g].days) : g \in S}
<1>1. CASE ~ OwesTo(F[h], e)
  <2>1. U = {}
    BY <1>1 DEF Alone
  <2> QED
    BY <1>1, <2>1, FS_EmptySet DEF Due
<1>2. CASE OwesTo(F[h], e)
  <2> PICK n \in Nat : n = F[h].days
    BY <1>2
  <2>1. S = {h}
    BY <1>2 DEF Alone
  <2>2. U = {h} \X (1 .. n)
    BY <2>1
  <2>3. IsFiniteSet(1 .. n) /\ Cardinality(1 .. n) = n
    BY CountTo
  <2>4. IsFiniteSet({h}) /\ Cardinality({h}) = 1
    BY FS_Singleton
  <2>5. Cardinality(U) = n
    <3> HIDE DEF U
    <3>1. Cardinality({h} \X (1 .. n)) = Cardinality({h}) * Cardinality(1 .. n)
      BY <2>3, <2>4, FS_Product
    <3> QED
      BY <2>2, <2>3, <2>4, <3>1
  <2> QED
    BY <1>2, <2>5 DEF Due
<1> QED
  BY <1>1, <1>2

LEMMA AccountOf ==
  ASSUME Alone, NEW h \in Handlers, SettledInv
  PROVE  account = [e \in Employees |-> Charged(Balance(e), Due(frame[h], e))]
<1>1. ASSUME NEW e \in Employees
      PROVE  Owed(e) = Due(frame[h], e)
  <2>1. Owing(e) = {k \in Handlers : OwesTo(frame[k], e)}
    BY DEF Owing, OwesTo
  <2> QED
    BY <2>1, OwedOf DEF SettledInv, Owed
<1> QED
  BY <1>1 DEF account

LEMMA AccountAfter ==
  ASSUME Alone, NEW h \in Handlers, SettledInv'
  PROVE  account' = [e \in Employees |-> Charged(Balance(e)', Due(frame'[h], e))]
<1>1. ASSUME NEW e \in Employees
      PROVE  Owed(e)' = Due(frame'[h], e)
  <2>1. Owing(e)' = {k \in Handlers : OwesTo(frame'[k], e)}
    BY DEF Owing, OwesTo
  <2>2. Owed(e)' = Cardinality(UNION {{g} \X (1 .. frame'[g].days) : g \in Owing(e)'})
    BY DEF Owed
  <2>3. OwesTo(frame'[h], e) => frame'[h].days \in Nat
    BY DEF SettledInv, OwesTo
  <2> QED
    BY <2>1, <2>2, <2>3, OwedOf
<1> QED
  BY <1>1 DEF account

LEMMA ChargedFields ==
  ASSUME NEW row \in BalanceRow, NEW d \in Int
  PROVE  Charged(row, d) =
           [granted |-> row.granted, used |-> row.used + d,
            remaining |-> row.remaining - d, carryOver |-> row.carryOver,
            lastAccrualYear |-> row.lastAccrualYear]
<1> PICK used : used = [row EXCEPT !.used = row.used + d]
  OBVIOUS
<1>1. used = [granted |-> row.granted, used |-> row.used + d, remaining |-> row.remaining,
              carryOver |-> row.carryOver, lastAccrualYear |-> row.lastAccrualYear]
  BY DEF BalanceRow
<1>2. Charged(row, d) = [used EXCEPT !.remaining = row.remaining - d]
  BY Zenon DEF Charged
<1> QED
  BY <1>1, <1>2

LEMMA ChargedTwice ==
  ASSUME NEW row \in BalanceRow, NEW d \in Int, NEW c \in Int
  PROVE  Charged(Charged(row, d), c) = Charged(row, d + c)
<1> PICK twice : twice = Charged(row, d)
  OBVIOUS
<1>1. /\ row.granted \in Int /\ row.used \in Int /\ row.remaining \in Int
      /\ row.carryOver \in Int /\ row.lastAccrualYear \in Years \cup {NeverSettled}
  BY DEF BalanceRow
<1>2. twice = [granted |-> row.granted, used |-> row.used + d,
               remaining |-> row.remaining - d, carryOver |-> row.carryOver,
               lastAccrualYear |-> row.lastAccrualYear]
  BY ChargedFields
<1>3. twice \in BalanceRow
  BY <1>1, <1>2 DEF BalanceRow
<1>4. Charged(twice, c) =
        [granted |-> twice.granted, used |-> twice.used + c,
         remaining |-> twice.remaining - c, carryOver |-> twice.carryOver,
         lastAccrualYear |-> twice.lastAccrualYear]
  BY <1>3, ChargedFields
<1>5. d + c \in Int
  OBVIOUS
<1>6. Charged(row, d + c) =
        [granted |-> row.granted, used |-> row.used + (d + c),
         remaining |-> row.remaining - (d + c), carryOver |-> row.carryOver,
         lastAccrualYear |-> row.lastAccrualYear]
  BY <1>5, ChargedFields
<1> QED
  BY <1>1, <1>2, <1>4, <1>6

LEMMA BalanceType ==
  ASSUME Inv, NEW e \in Employees
  PROVE  Balance(e) \in BalanceRow
  BY LeaveAssumption DEF Inv, TypeOK, Balance, FreshBalance, BalanceRow, NeverSettled

\* A step of the ledger, or none that it shows, keeping what the mapping needs.
Simulates == SettledInv' /\ [Ledger!Next]_<<ledger, account>>

LEMMA SettledStep ==
  ASSUME Alone, Inv, NEW h \in Handlers, NEW n, Continue(h, n),
         \A e \in Employees : OwesTo(n, e) => n.days \in Nat,
         n.at = "settle" => n.seen = balances'[n.employee]
  PROVE  SettledInv'
<1>1. frame'[h] = IF n.at = "idle" THEN Idle ELSE n
  BY DEF Continue, Inv, TypeOK
<1> SUFFICES ASSUME NEW g \in Handlers
             PROVE  /\ \A e \in Employees : OwesTo(frame'[g], e) => frame'[g].days \in Nat
                    /\ frame'[g].at = "settle" =>
                         frame'[g].seen = balances'[frame'[g].employee]
  BY DEF SettledInv, OwesTo
<1>2. g = h
  BY DEF Alone
<1>3. \A e : ~ OwesTo(Idle, e)
  BY DEF OwesTo, Idle
<1>4. Idle.at # "settle"
  BY DEF Idle
<1> QED
  BY <1>1, <1>2, <1>3, <1>4

\* Handlers that leave every debt and every balance as it was.
LEMMA SimQuiet ==
  ASSUME Alone, Inv, SettledInv, NEW h \in Handlers, NEW n, Continue(h, n),
         UNCHANGED requests, \A e \in Employees : Balance(e)' = Balance(e),
         n.at = "settle" => n.seen = balances'[n.employee],
         \A e \in Employees :
           /\ OwesTo(n, e) <=> OwesTo(frame[h], e)
           /\ OwesTo(n, e) => n.days = frame[h].days
  PROVE  Simulates
<1>1. SettledInv'
  BY SettledStep DEF SettledInv
<1>2. frame'[h] = IF n.at = "idle" THEN Idle ELSE n
  BY DEF Continue, Inv, TypeOK
<1>3. ASSUME NEW e \in Employees
      PROVE  Due(frame'[h], e) = Due(frame[h], e)
  <2>1. ~ OwesTo(Idle, e)
    BY DEF OwesTo, Idle
  <2>2. n.at = "idle" => ~ OwesTo(n, e)
    BY DEF OwesTo
  <2> QED
    BY <1>2, <2>1, <2>2 DEF Due
<1>4. UNCHANGED account
  BY <1>1, <1>3, AccountOf, AccountAfter
<1>5. UNCHANGED ledger
  BY DEF ledger
<1> QED
  BY <1>1, <1>4, <1>5 DEF Simulates

\* Handlers that owe nothing before or after.
LEMMA SimFree ==
  ASSUME Alone, Inv, SettledInv, NEW h \in Handlers, NEW n, Continue(h, n),
         UNCHANGED <<requests, balances>>, n.at # "settle",
         \A e : ~ OwesTo(frame[h], e) /\ ~ OwesTo(n, e)
  PROVE  Simulates
<1>1. \A e \in Employees : Balance(e)' = Balance(e)
  BY DEF Balance
<1> QED
  BY <1>1, SimQuiet

LEMMA SimFail ==
  ASSUME Alone, Inv, SettledInv, NEW h \in Handlers, Fail(h),
         UNCHANGED <<requests, balances>>, \A e : ~ OwesTo(frame[h], e)
  PROVE  Simulates
<1>1. Continue(h, Idle) /\ Idle.at # "settle"
  BY DEF Fail, Continue, Idle
<1>2. \A e : ~ OwesTo(Idle, e)
  BY DEF OwesTo, Idle
<1> QED
  BY <1>1, <1>2, SimFree

\* Handlers before their first write, and after their last.
LEMMA SimBefore ==
  ASSUME Alone, Inv, SettledInv, NEW h \in Handlers,
         OpenSome(h) \/ Refuse(h) \/ FindPending(h) \/ CheckOverlap(h) \/ Audit(h)
         \/ Publish(h)
  PROVE  Simulates
<1> PICK f \in Frame : f = frame[h]
  BY DEF Inv, TypeOK
<1>1. UNCHANGED <<requests, balances>>
  BY DEF OpenSome, OpenCreate, OpenUpdate, OpenDecide, OpenReadBalance, OpenSettle, Open,
         Refuse, FindPending, CheckOverlap, Audit, Publish, stores
<1>2. \A e : ~ OwesTo(f, e)
  BY DEF OpenSome, OpenCreate, OpenUpdate, OpenDecide, OpenReadBalance, OpenSettle, Open,
         Refuse, FindPending, CheckOverlap, Audit, Publish, OwesTo, Decisions
<1>3. ASSUME NEW n, Continue(h, n), n.at # "settle", \A e : ~ OwesTo(n, e)
      PROVE  Simulates
  BY <1>1, <1>2, <1>3, SimFree
<1>4. Fail(h) => Simulates
  BY <1>1, <1>2, SimFail
<1>5. ASSUME NEW n, Continue(h, n), n.at \in {"checkOverlap", "find", "decide", "insert",
                                              "edit", "publish", "idle"}
      PROVE  Simulates
  BY <1>3, <1>5 DEF OwesTo
<1>6. CASE OpenSome(h)
  <2>1. ASSUME NEW r, NEW e, NEW s, NEW t, OpenCreate(h, r, e, s, t)
        PROVE  Simulates
    BY <1>5, <2>1 DEF OpenCreate, Open, Idle
  <2>2. ASSUME NEW r, NEW p, NEW s, NEW t, OpenUpdate(h, r, p, s, t)
        PROVE  Simulates
    BY <1>5, <2>2 DEF OpenUpdate, Open, Idle
  <2>3. ASSUME NEW r, NEW d, OpenDecide(h, r, d)
        PROVE  Simulates
    BY <1>5, <2>3 DEF OpenDecide, Open, Idle
  <2>4. ASSUME NEW e, OpenReadBalance(h, e)
        PROVE  Simulates
    BY <1>3, <2>4 DEF OpenReadBalance, Open, Idle, OwesTo
  <2>5. ASSUME NEW e, NEW y, NEW g, NEW c, OpenSettle(h, e, y, g, c)
        PROVE  Simulates
    BY <1>3, <2>5 DEF OpenSettle, Open, Idle, OwesTo
  <2> QED
    BY <1>6, <2>1, <2>2, <2>3, <2>4, <2>5 DEF OpenSome
<1>7. CASE FindPending(h)
  <2>1. ASSUME NEW e, NEW s, NEW t, Continue(h, [f EXCEPT !.at = "checkOverlap",
                                         !.employee = e, !.start = s, !.end = t])
        PROVE  Simulates
    <3> PICK n : n = [f EXCEPT !.at = "checkOverlap", !.employee = e, !.start = s, !.end = t]
      OBVIOUS
    <3>1. n.at = "checkOverlap"
      BY DEF Frame
    <3> QED
      BY <1>5, <2>1, <3>1
  <2>2. ASSUME NEW e, Continue(h, [f EXCEPT !.at = "decide", !.employee = e])
        PROVE  Simulates
    <3> PICK n : n = [f EXCEPT !.at = "decide", !.employee = e]
      OBVIOUS
    <3>1. n.at = "decide"
      BY DEF Frame
    <3> QED
      BY <1>5, <2>2, <3>1
  <2> QED
    BY <1>4, <1>7, <2>1, <2>2 DEF FindPending
<1>8. CASE CheckOverlap(h)
  <2>1. ASSUME NEW at \in {"insert", "edit"}, NEW d, Continue(h, [f EXCEPT !.at = at, !.days = d])
        PROVE  Simulates
    <3> PICK n : n = [f EXCEPT !.at = at, !.days = d]
      OBVIOUS
    <3>1. n.at = at
      BY DEF Frame
    <3> QED
      BY <1>5, <2>1, <3>1
  <2> QED
    BY <1>4, <1>8, <2>1 DEF CheckOverlap
<1>9. CASE Audit(h) \/ Publish(h)
  <2>1. ASSUME NEW at \in {"publish", "idle"}, Continue(h, [f EXCEPT !.at = at])
        PROVE  Simulates
    <3> PICK n : n = [f EXCEPT !.at = at]
      OBVIOUS
    <3>1. n.at = at
      BY DEF Frame
    <3> QED
      BY <1>5, <2>1, <3>1
  <2>2. After(f.op, "audit") \in {"publish", "idle"} /\ After(f.op, "publish") = "idle"
    BY DEF After
  <2> QED
    BY <1>9, <2>1, <2>2 DEF Audit, Publish
<1> QED
  BY <1>4, <1>6, <1>7, <1>8, <1>9 DEF Refuse

\* Handlers between a decision and its charge, and those about to settle.
LEMMA SimAfter ==
  ASSUME Alone, Inv, SettledInv, TrailInv, NEW h \in Handlers,
         AppendDecision(h) \/ Ensure(h) \/ EnsureCreate(h) \/ Reread(h)
  PROVE  Simulates
<1> PICK f \in Frame : f = frame[h]
  BY DEF Inv, TypeOK
<1>1. Placed(f)
  BY DEF Inv, Placed, Recorded, Entity
<1>2. f.at \in {"appendDecision", "ensure", "ensureCreate", "reread"}
  BY DEF AppendDecision, Ensure, EnsureCreate, Reread
<1>3. UNCHANGED requests /\ \A e \in Employees : Balance(e)' = Balance(e)
  <2>1. CASE EnsureCreate(h)
    <3>1. f.employee \notin DOMAIN balances
      BY <2>1 DEF EnsureCreate, TrailInv
    <3> QED
      BY <2>1, <3>1 DEF EnsureCreate, Balance
  <2>2. CASE AppendDecision(h) \/ Ensure(h) \/ Reread(h)
    BY <2>2 DEF AppendDecision, Ensure, Reread, stores, Balance
  <2> QED
    BY <2>1, <2>2
\* The handler goes on, its debt as it was.
<1>4. ASSUME NEW n, Continue(h, n), n.op = f.op, n.employee = f.employee, n.days = f.days,
             IF f.op = "APPROVED" THEN n.at \in {"ensure", "ensureCreate", "charge"}
             ELSE n.at # "settle"
      PROVE  Simulates
  <2>1. f.op = "APPROVED" => f.at # "reread"
    BY <1>1 DEF Placed
  <2>2. \A e \in Employees : OwesTo(n, e) <=> OwesTo(f, e)
    BY <1>2, <1>4, <2>1 DEF OwesTo
  <2> QED
    BY <1>3, <1>4, <2>2, SimQuiet
<1>5. CASE AppendDecision(h)
  <2> PICK n : n = [f EXCEPT !.at = AfterDecision(f.op)]
    OBVIOUS
  <2>1. /\ n.at = AfterDecision(f.op)
        /\ n.op = f.op /\ n.employee = f.employee /\ n.days = f.days
    BY DEF Frame
  <2>2. Continue(h, n)
    BY <1>5 DEF AppendDecision, After
  <2>3. IF f.op = "APPROVED" THEN n.at \in {"ensure", "ensureCreate", "charge"}
        ELSE n.at # "settle"
    BY <2>1 DEF AfterDecision
  <2> QED
    BY <1>4, <2>1, <2>2, <2>3
<1>6. CASE Reread(h)
  <2> PICK n : n = [f EXCEPT !.at = "settle", !.seen = balances[f.employee]]
    OBVIOUS
  <2>1. n.at = "settle" /\ n.seen = balances[n.employee] /\ n.op = f.op
    BY DEF Frame
  <2>2. Continue(h, n) /\ UNCHANGED balances
    BY <1>6 DEF Reread, stores
  <2>3. \A e : ~ OwesTo(n, e) /\ ~ OwesTo(f, e)
    BY <1>6, <2>1 DEF Reread, OwesTo
  <2> QED
    BY <1>3, <2>1, <2>2, <2>3, SimQuiet
<1>7. ASSUME NEW row, UseBalance(h, f, row), f.at \in {"ensure", "ensureCreate"}
      PROVE  Simulates
  <2>1. ASSUME NEW at \in {"charge", "audit"}, Continue(h, [f EXCEPT !.at = at, !.seen = row]),
               f.op = "APPROVED" => at = "charge"
        PROVE  Simulates
    <3> PICK n : n = [f EXCEPT !.at = at, !.seen = row]
      OBVIOUS
    <3>1. n.at = at /\ n.op = f.op /\ n.employee = f.employee /\ n.days = f.days
      BY DEF Frame
    <3> QED
      BY <1>4, <2>1, <3>1
  <2>2. ASSUME f.op = "settle", Continue(h, [f EXCEPT !.at = "reread"])
        PROVE  Simulates
    <3> PICK n : n = [f EXCEPT !.at = "reread"]
      OBVIOUS
    <3>1. n.at = "reread" /\ n.op = f.op /\ n.employee = f.employee /\ n.days = f.days
      BY DEF Frame
    <3> QED
      BY <1>4, <2>2, <3>1
  <2>3. ASSUME f.op = "settle", Fail(h)
        PROVE  Simulates
    <3>1. Continue(h, Idle) /\ Idle.at # "settle"
      BY <2>3 DEF Fail, Continue, Idle
    <3>2. \A e : ~ OwesTo(Idle, e) /\ ~ OwesTo(f, e)
      BY <2>3 DEF OwesTo, Idle
    <3> QED
      BY <1>3, <3>1, <3>2, SimQuiet
  <2> QED
    BY <1>1, <1>7, <2>1, <2>2, <2>3 DEF UseBalance, Placed, Decisions
<1>8. CASE Ensure(h)
  <2>1. ASSUME Continue(h, [f EXCEPT !.at = "ensureCreate"])
        PROVE  Simulates
    <3> PICK n : n = [f EXCEPT !.at = "ensureCreate"]
      OBVIOUS
    <3>1. n.at = "ensureCreate" /\ n.op = f.op /\ n.employee = f.employee /\ n.days = f.days
      BY DEF Frame
    <3> QED
      BY <1>4, <2>1, <3>1
  <2> QED
    BY <1>7, <1>8, <2>1 DEF Ensure
<1>9. CASE EnsureCreate(h)
  <2>1. f.employee \notin DOMAIN balances
    BY <1>9 DEF EnsureCreate, TrailInv
  <2> QED
    BY <1>7, <1>9, <2>1 DEF EnsureCreate
<1> QED
  BY <1>5, <1>6, <1>8, <1>9

\* What the ledger shows of a row that a handler writes.
LEMMA ListedAfter ==
  ASSUME NEW r, NEW row, requests' = [requests EXCEPT ![r] = row], r \in DOMAIN requests
  PROVE  ledger' = [ledger EXCEPT ![r] = Listed(row)]
  BY DEF ledger, Listed

\* The check of the service is the check of the ledger.
LEMMA FreeWhenNoHit ==
  ASSUME Inv, NEW e, NEW r, NEW s \in Instants, NEW t \in Instants,
         findOverlappingActiveRequests(e, s, t, r) = {}
  PROVE  Ledger!Free(e, r, s, t)
<1>1. \A q \in DOMAIN requests :
        requests[q].start \in Instants /\ requests[q].end \in Instants
  BY DEF Inv, TypeOK, LeaveRow
<1>2. ASSUME NEW q \in Ledger!Standing(e, r)
      PROVE  t < ledger[q].start \/ ledger[q].end < s
  <2>1. /\ q \in DOMAIN requests \ {r} /\ requests[q].employee = e
        /\ requests[q].state \in Active
        /\ ledger[q].start = requests[q].start /\ ledger[q].end = requests[q].end
    BY <1>2 DEF Ledger!Standing, ledger, Listed, Active
  <2>2. ~ Overlap(requests[q].start, requests[q].end, s, t)
    BY <2>1 DEF findOverlappingActiveRequests
  <2> QED
    BY <1>1, <2>1, <2>2 DEF Overlap, Instants
<1> QED
  BY <1>2 DEF Ledger!Free

\* A write of a request by a handler that owes nothing touches no account.
LEMMA DebtFree ==
  ASSUME Alone, Inv, SettledInv, NEW h \in Handlers, NEW n, Continue(h, n),
         UNCHANGED balances, n.at # "settle",
         \A e : ~ OwesTo(frame[h], e) /\ ~ OwesTo(n, e)
  PROVE  SettledInv' /\ UNCHANGED account
<1>1. SettledInv'
  BY SettledStep
<1>2. frame'[h] = IF n.at = "idle" THEN Idle ELSE n
  BY DEF Continue, Inv, TypeOK
<1>3. \A e : ~ OwesTo(Idle, e)
  BY DEF OwesTo, Idle
<1>4. \A e \in Employees : Balance(e)' = Balance(e)
  BY DEF Balance
<1>5. \A e \in Employees : Due(frame'[h], e) = Due(frame[h], e)
  BY <1>2, <1>3 DEF Due
<1> QED
  BY <1>1, <1>4, <1>5, AccountOf, AccountAfter

LEMMA SimInsert ==
  ASSUME Alone, Inv, SerialInv, DatesInv, SettledInv, NEW h \in Handlers, Insert(h)
  PROVE  Simulates
<1> PICK f \in Frame : f = frame[h]
  BY DEF Inv, TypeOK
<1>1. f.at = "insert" /\ Placed(f) /\ Ready(f) /\ Dated(f)
  BY DEF Insert, Inv, Placed, Recorded, Entity, SerialInv, Ready,
         findOverlappingActiveRequests, DatesInv
<1>2. /\ f.request \in RequestIds /\ f.employee \in Employees /\ f.op = "create"
      /\ f.start \in Instants /\ f.end \in Instants /\ f.start <= f.end
  BY <1>1 DEF Placed, Frame, Dated
<1>3. f.request \notin DOMAIN requests
  BY <1>1, <1>2 DEF Inv, Reserved, Creating
<1> PICK row : row = [employee |-> f.employee, start |-> f.start, end |-> f.end,
                      days |-> f.days, state |-> "PENDING", stamps |-> {}]
  OBVIOUS
<1>4. requests' = [r \in DOMAIN requests \cup {f.request} |->
                     IF r = f.request THEN row ELSE requests[r]]
  BY DEF Insert
<1>5. ledger' = [r \in DOMAIN ledger \cup {f.request} |->
                   IF r = f.request THEN Ledger!Entry(f.employee, f.start, f.end)
                   ELSE ledger[r]]
  <2>1. Listed(row) = Ledger!Entry(f.employee, f.start, f.end)
    BY DEF Listed, Ledger!Entry
  <2> QED
    BY <1>3, <1>4, <2>1 DEF ledger, Listed
<1>6. Ledger!Free(f.employee, f.request, f.start, f.end)
  <2>1. findOverlappingActiveRequests(f.employee, f.start, f.end, f.request) = {}
    BY <1>1 DEF Ready
  <2> QED
    BY <1>2, <2>1, FreeWhenNoHit
<1> PICK n : n = [f EXCEPT !.at = "audit"]
  OBVIOUS
<1>7. n.at = "audit" /\ Continue(h, n)
  BY DEF Frame, Insert, After
<1>8. SettledInv' /\ UNCHANGED account
  <2>1. \A e : ~ OwesTo(f, e) /\ ~ OwesTo(n, e)
    BY <1>1, <1>7 DEF OwesTo
  <2> QED
    BY <1>7, <2>1, DebtFree DEF Insert
<1>9. Ledger!Submit(f.request, f.employee, f.start, f.end)
  BY <1>2, <1>3, <1>5, <1>6, <1>8 DEF Ledger!Submit, ledger
<1> QED
  BY <1>2, <1>8, <1>9 DEF Simulates, Ledger!Next

Moved(row, s, t) == [row EXCEPT !.start = s, !.end = t]

LEMMA ListedMoved ==
  ASSUME NEW row, NEW old, NEW s, NEW t, row.employee = old.employee, row.start = s,
         row.end = t, row.state = old.state
  PROVE  Listed(row) = Moved(Listed(old), s, t)
<1> PICK e, b, c, p : Listed(old) = [employee |-> e, start |-> b, end |-> c, state |-> p]
                        /\ e = old.employee /\ p = old.state
  BY DEF Listed
<1> PICK moved : moved = [employee |-> e, start |-> s, end |-> c, state |-> p]
  OBVIOUS
<1>1. [[employee |-> e, start |-> b, end |-> c, state |-> p] EXCEPT !.start = s] = moved
  OBVIOUS
<1>2. [moved EXCEPT !.end = t] = [employee |-> e, start |-> s, end |-> t, state |-> p]
  OBVIOUS
<1>3. Moved(Listed(old), s, t) = [[Listed(old) EXCEPT !.start = s] EXCEPT !.end = t]
  BY Zenon DEF Moved
<1>4. Listed(row) = [employee |-> e, start |-> s, end |-> t, state |-> p]
  BY DEF Listed
<1> QED
  BY <1>1, <1>2, <1>3, <1>4, Zenon

LEMMA SimEdit ==
  ASSUME Alone, Inv, SerialInv, DatesInv, SettledInv, NEW h \in Handlers, Edit(h)
  PROVE  Simulates
<1> PICK f \in Frame : f = frame[h]
  BY DEF Inv, TypeOK
<1>1. f.at = "edit" /\ Placed(f) /\ Ready(f) /\ Dated(f)
  BY DEF Edit, Inv, Placed, Recorded, Entity, SerialInv, Ready,
         findOverlappingActiveRequests, DatesInv
<1>2. /\ f.request \in DOMAIN requests /\ f.request \in RequestIds /\ f.op = "update"
      /\ f.start \in Instants /\ f.end \in Instants /\ f.start <= f.end
  BY <1>1 DEF Placed, Frame, Dated, Inv, TypeOK
<1> PICK old \in LeaveRow : old = requests[f.request]
  BY <1>2 DEF Inv, TypeOK
<1>3. /\ old.state = "PENDING" /\ old.employee = f.employee
      /\ "start" \notin f.patch => f.start = old.start
      /\ "end" \notin f.patch => f.end = old.end
  BY <1>1, <1>2 DEF Ready
<1> PICK row : row = EditedRow(old, f)
  OBVIOUS
<1>4. requests' = [requests EXCEPT ![f.request] = row]
  BY DEF Edit
<1>5. Listed(row) = Moved(Listed(old), f.start, f.end)
  <2> DEFINE s == IF "start" \in f.patch THEN f.start ELSE old.start
             t == IF "end" \in f.patch THEN f.end ELSE old.end
  <2>1. s = f.start /\ t = f.end
    BY <1>3
  <2>2. row = [old EXCEPT !.start = s, !.end = t, !.days = f.days]
    BY DEF EditedRow
  <2> HIDE DEF s, t
  <2>3. /\ row.employee = old.employee /\ row.start = s /\ row.end = t
        /\ row.state = old.state
    BY <2>2 DEF LeaveRow
  <2> QED
    BY <2>1, <2>3, ListedMoved
<1>6. ledger' = [ledger EXCEPT ![f.request] = Listed(row)]
  BY <1>2, <1>4, ListedAfter
<1>7. /\ f.request \in DOMAIN ledger /\ ledger[f.request] = Listed(old)
      /\ ledger[f.request].state = "PENDING" /\ ledger[f.request].employee = f.employee
  BY <1>2, <1>3 DEF ledger, Listed
<1>8. Ledger!Free(f.employee, f.request, f.start, f.end)
  <2>1. findOverlappingActiveRequests(f.employee, f.start, f.end, f.request) = {}
    BY <1>1 DEF Ready
  <2> QED
    BY <1>2, <2>1, FreeWhenNoHit
<1> PICK n : n = [f EXCEPT !.at = "audit"]
  OBVIOUS
<1>9. n.at = "audit" /\ Continue(h, n)
  BY DEF Frame, Edit, After
<1>10. SettledInv' /\ UNCHANGED account
  <2>1. \A e : ~ OwesTo(f, e) /\ ~ OwesTo(n, e)
    BY <1>1, <1>9 DEF OwesTo
  <2> QED
    BY <1>9, <2>1, DebtFree DEF Edit
<1>11. ledger' = [ledger EXCEPT ![f.request] = [@ EXCEPT !.start = f.start, !.end = f.end]]
  BY <1>5, <1>6, <1>7, Zenon DEF Moved
<1>12. Ledger!Edit(f.request, f.start, f.end)
  BY <1>2, <1>7, <1>8, <1>10, <1>11 DEF Ledger!Edit
<1> QED
  BY <1>2, <1>10, <1>12 DEF Simulates, Ledger!Next

\* A decision charges the account at once, whenever the balance follows.
LEMMA SimDecide ==
  ASSUME Alone, Inv, SerialInv, DatesInv, SettledInv, NEW h \in Handlers, Decide(h)
  PROVE  Simulates
<1> PICK f \in Frame : f = frame[h]
  BY DEF Inv, TypeOK
<1>1. f.at = "decide" /\ Placed(f) /\ Ready(f)
  BY DEF Decide, Inv, Placed, Recorded, Entity, SerialInv, Ready,
         findOverlappingActiveRequests
<1>2. /\ f.request \in DOMAIN requests /\ f.request \in RequestIds
      /\ f.op \in Decisions /\ f.employee \in Employees
  BY <1>1 DEF Placed, Inv, TypeOK
<1> PICK old \in LeaveRow : old = requests[f.request]
  BY <1>2 DEF Inv, TypeOK
<1>3. /\ old.state = "PENDING" /\ old.employee = f.employee
      /\ old.days = calculateLeaveDays(old.start, old.end) /\ old.days \in Nat
  <2>1. old.state = "PENDING" /\ old.employee = f.employee
    BY <1>1, <1>2 DEF Ready, Placed
  <2>2. old.start <= old.end /\ old.days = calculateLeaveDays(old.start, old.end)
    BY <1>2 DEF DatesInv, Dated
  <2>3. old.start \in Nat /\ old.end \in Nat
    BY LeaveAssumption DEF LeaveRow, Instants
  <2> QED
    BY <2>1, <2>2, <2>3, DaysCounted
<1> PICK row : row = DecidedRow(old, f.op)
  OBVIOUS
<1>4. requests' = [requests EXCEPT ![f.request] = row] /\ UNCHANGED balances
  BY DEF Decide
<1>5. Listed(row) = [Listed(old) EXCEPT !.state = f.op]
  <2> PICK decided : decided = [old EXCEPT !.state = f.op]
    OBVIOUS
  <2>1. /\ decided.employee = old.employee /\ decided.start = old.start
        /\ decided.end = old.end /\ decided.state = f.op
    BY DEF LeaveRow
  <2>2. row.employee = old.employee /\ row.start = old.start /\ row.end = old.end
        /\ row.state = f.op
    BY DEF DecidedRow, LeaveRow
  <2> QED
    BY <2>2 DEF Listed
<1>6. ledger' = [ledger EXCEPT ![f.request] = Listed(row)]
  BY <1>2, <1>4, ListedAfter
<1>7. /\ f.request \in DOMAIN ledger /\ ledger[f.request] = Listed(old)
      /\ ledger[f.request].state = "PENDING" /\ ledger[f.request].employee = f.employee
      /\ ledger[f.request].start = old.start /\ ledger[f.request].end = old.end
  BY <1>2, <1>3 DEF ledger, Listed
<1>8. ledger' = [ledger EXCEPT ![f.request].state = f.op]
  BY <1>5, <1>6, <1>7
<1> PICK n : n = [f EXCEPT !.at = "appendDecision", !.days = old.days]
  OBVIOUS
<1>9. /\ n.at = "appendDecision" /\ n.days = old.days
      /\ n.op = f.op /\ n.employee = f.employee
  BY DEF Frame
<1>10. Continue(h, n)
  BY DEF Decide, After
<1>11. SettledInv'
  BY <1>3, <1>9, <1>10, SettledStep
<1>12. frame'[h] = n
  BY <1>9, <1>10 DEF Continue, Inv, TypeOK
<1> PICK charge \in Int : charge = IF f.op = "APPROVED" THEN old.days ELSE 0
  BY <1>3
<1>13. ASSUME NEW e \in Employees
       PROVE  /\ Due(f, e) = 0
              /\ Due(n, e) = IF e = f.employee THEN charge ELSE 0
  BY <1>1, <1>9 DEF Due, OwesTo
<1>14. account' = [account EXCEPT ![f.employee] = Ledger!Charge(@, charge)]
  <2> PICK b \in BalanceRow : b = Balance(f.employee)
    BY <1>2, BalanceType
  <2>1. account = [e \in Employees |-> Charged(Balance(e), 0)]
    BY <1>13, AccountOf
  <2>2. account' = [e \in Employees |->
                      Charged(Balance(e), IF e = f.employee THEN charge ELSE 0)]
    <3>1. \A e \in Employees : Balance(e)' = Balance(e)
      BY <1>4 DEF Balance
    <3> QED
      BY <1>11, <1>12, <1>13, <3>1, AccountAfter
  <2>3. account' = [account EXCEPT ![f.employee] = Charged(b, charge)]
    BY <1>2, <2>1, <2>2
  <2>4. Charged(Charged(b, 0), charge) = Charged(b, charge)
    BY ChargedTwice
  <2>5. account[f.employee] = Charged(b, 0)
    BY <1>2, <2>1
  <2>6. \A row1 : Ledger!Charge(row1, charge) = Charged(row1, charge)
    BY Zenon DEF Ledger!Charge, Charged
  <2> QED
    BY <2>3, <2>4, <2>5, <2>6
<1>15. Ledger!Decide(f.request, f.op)
  BY <1>3, <1>7, <1>8, <1>14 DEF Ledger!Decide
<1> QED
  BY <1>2, <1>11, <1>15 DEF Simulates, Ledger!Next, Ledger!Decided, Decisions

LEMMA ChargedNothing ==
  ASSUME NEW row \in BalanceRow
  PROVE  Charged(row, 0) = row
<1>1. row.used \in Int /\ row.remaining \in Int
  BY DEF BalanceRow
<1>2. row = [granted |-> row.granted, used |-> row.used, remaining |-> row.remaining,
             carryOver |-> row.carryOver, lastAccrualYear |-> row.lastAccrualYear]
  BY DEF BalanceRow
<1> QED
  BY <1>1, <1>2, ChargedFields

\* The account was charged when the decision was written.
LEMMA SimCharge ==
  ASSUME Alone, Inv, SerialInv, SettledInv, NEW h \in Handlers, Charge(h)
  PROVE  Simulates
<1> PICK f \in Frame : f = frame[h]
  BY DEF Inv, TypeOK
<1>1. f.at = "charge" /\ Placed(f) /\ Ready(f)
  BY DEF Charge, Inv, Placed, Recorded, Entity, SerialInv, Ready,
         findOverlappingActiveRequests
<1>2. f.op = "APPROVED" /\ f.employee \in DOMAIN balances /\ f.employee \in Employees
  BY <1>1 DEF Placed, Inv, TypeOK
<1> PICK days \in Nat : days = f.days
  BY <1>1, <1>2 DEF SettledInv, OwesTo
<1> PICK b \in BalanceRow : b = balances[f.employee]
  BY <1>2 DEF Inv, TypeOK
<1>3. balances' = [balances EXCEPT ![f.employee] = Charged(b, days)]
  <2>1. b.granted - (b.used + days) = b.remaining - days
    <3>1. b.granted \in Int /\ b.used \in Int /\ b.remaining \in Int
      BY DEF BalanceRow
    <3>2. b.remaining = b.granted - b.used
      BY <1>2 DEF SerialInv, BalanceContinuity
    <3> QED
      BY <3>1, <3>2
  <2>2. ChargedRow(b, b, days) = Charged(b, days)
    BY <2>1, Zenon DEF ChargedRow, Charged
  <2>3. f.seen = b
    BY <1>1 DEF Ready
  <2> QED
    BY <2>2, <2>3 DEF Charge
<1> PICK n : n = [f EXCEPT !.at = "audit"]
  OBVIOUS
<1>4. n.at = "audit" /\ Continue(h, n) /\ UNCHANGED requests
  BY DEF Frame, Charge, After
<1>5. SettledInv'
  BY <1>4, SettledStep DEF OwesTo
<1>6. frame'[h] = n
  BY <1>4 DEF Continue, Inv, TypeOK
<1>7. ASSUME NEW e \in Employees
      PROVE  Charged(Balance(e)', Due(frame'[h], e)) = Charged(Balance(e), Due(frame[h], e))
  <2>1. Due(frame'[h], e) = 0
    BY <1>4, <1>6 DEF Due, OwesTo
  <2>2. CASE e = f.employee
    <3>1. Due(frame[h], e) = days
      BY <1>1, <1>2, <2>2 DEF Due, OwesTo
    <3>2. Balance(e) = b /\ Balance(e)' = Charged(b, days)
      BY <1>2, <1>3, <2>2 DEF Balance
    <3>3. Charged(Charged(b, days), 0) = Charged(b, days + 0)
      BY ChargedTwice
    <3> QED
      BY <2>1, <3>1, <3>2, <3>3
  <2>3. CASE e # f.employee
    <3>1. Due(frame[h], e) = 0
      BY <2>3 DEF Due, OwesTo
    <3>2. Balance(e)' = Balance(e)
      BY <1>3, <2>3 DEF Balance
    <3> QED
      BY <2>1, <3>1, <3>2
  <2> QED
    BY <2>2, <2>3
<1>8. UNCHANGED account
  BY <1>5, <1>7, AccountOf, AccountAfter
<1>9. UNCHANGED ledger
  BY <1>4 DEF ledger
<1> QED
  BY <1>5, <1>8, <1>9 DEF Simulates

LEMMA SimSettle ==
  ASSUME Alone, Inv, SerialInv, SettledInv, NEW h \in Handlers, Settle(h)
  PROVE  Simulates
<1> PICK f \in Frame : f = frame[h]
  BY DEF Inv, TypeOK
<1>1. f.at = "settle" /\ Placed(f) /\ Ready(f)
  BY DEF Settle, Inv, Placed, Recorded, Entity, SerialInv, Ready,
         findOverlappingActiveRequests
<1>2. /\ f.op = "settle" /\ f.employee \in DOMAIN balances /\ f.employee \in Employees
      /\ f.year \in Years /\ f.annual \in AnnualGrants /\ f.cap \in CarryOverCaps
  BY <1>1 DEF Placed
<1>3. f.annual \in Nat /\ f.cap \in Nat
  BY <1>2, LeaveAssumption
<1> PICK b \in BalanceRow : b = balances[f.employee]
  BY <1>2 DEF Inv, TypeOK
<1>4. f.seen = b /\ b.lastAccrualYear < f.year
  BY <1>1 DEF SettledInv, Ready
<1> PICK carry : carry = CarryOver(b.remaining, f.cap)
  OBVIOUS
<1>5. /\ carry \in 0 .. f.cap
      /\ carry > 0 => carry <= b.remaining
      /\ carry < f.cap => carry >= b.remaining
  <2>1. b.remaining \in Int
    BY DEF BalanceRow
  <2> QED
    BY <1>3, <2>1 DEF CarryOver
<1> PICK row : row = [granted |-> f.annual + carry, used |-> 0,
                      remaining |-> f.annual + carry, carryOver |-> carry,
                      lastAccrualYear |-> f.year]
  OBVIOUS
<1>6. row \in BalanceRow
  BY <1>2, <1>3, <1>5 DEF BalanceRow
<1>7. balances' = [balances EXCEPT ![f.employee] = row]
  BY <1>4 DEF Settle, SettledRow
<1> PICK n : n = [f EXCEPT !.at = "audit"]
  OBVIOUS
<1>8. n.at = "audit" /\ Continue(h, n) /\ UNCHANGED requests
  BY DEF Frame, Settle, After
<1>9. SettledInv'
  BY <1>8, SettledStep DEF OwesTo
<1>10. frame'[h] = n
  BY <1>8 DEF Continue, Inv, TypeOK
<1>11. \A e \in Employees : Due(frame[h], e) = 0 /\ Due(frame'[h], e) = 0
  BY <1>2, <1>8, <1>10 DEF Due, OwesTo
<1>12. account = [e \in Employees |-> Balance(e)]
  BY <1>11, AccountOf, BalanceType, ChargedNothing
<1>13. account' = [account EXCEPT ![f.employee] = row]
  <2>1. account' = [e \in Employees |-> Charged(Balance(e)', 0)]
    BY <1>9, <1>11, AccountAfter
  <2>2. ASSUME NEW e \in Employees
        PROVE  Charged(Balance(e)', 0) = IF e = f.employee THEN row ELSE account[e]
    <3>1. CASE e = f.employee
      <4>1. Balance(e)' = row
        BY <1>2, <1>7, <3>1 DEF Balance
      <4> QED
        BY <1>6, <3>1, <4>1, ChargedNothing
    <3>2. CASE e # f.employee
      <4>1. Balance(e)' = Balance(e)
        BY <1>7, <3>2 DEF Balance
      <4> QED
        BY <1>12, <3>2, <4>1, BalanceType, ChargedNothing
    <3> QED
      BY <3>1, <3>2
  <2>3. account' = [e \in Employees |-> IF e = f.employee THEN row ELSE account[e]]
    BY <2>1, <2>2
  <2> QED
    BY <1>12, <2>3
<1>14. account[f.employee] = b
  BY <1>2, <1>12 DEF Balance
<1>15. UNCHANGED ledger
  BY <1>8 DEF ledger
<1>16. Ledger!Settle(f.employee, f.year, f.annual, f.cap)
  BY <1>4, <1>5, <1>13, <1>14, <1>15 DEF Ledger!Settle
<1> QED
  BY <1>2, <1>9, <1>16 DEF Simulates, Ledger!Next

LEMMA SimInit == Init => SettledInv /\ Ledger!Init
<1> SUFFICES ASSUME Init PROVE SettledInv /\ Ledger!Init
  OBVIOUS
<1>1. \A e : Owing(e) = {}
  BY DEF Init, Idle, Owing
<1>2. \A e : Owed(e) = 0
  BY <1>1, FS_EmptySet DEF Owed
<1>3. \A e : Balance(e) = FreshBalance
  BY DEF Init, Balance
<1>4. FreshBalance \in BalanceRow
  BY LeaveAssumption DEF FreshBalance, BalanceRow, NeverSettled
<1>5. account = [e \in Employees |-> FreshBalance]
  BY <1>2, <1>3, <1>4, ChargedNothing DEF account
<1>6. ledger = << >>
  BY DEF ledger, Init
<1>7. SettledInv
  BY DEF Init, SettledInv, OwesTo, Idle
<1> QED
  BY <1>5, <1>6, <1>7 DEF Ledger!Init, FreshBalance, NeverSettled

LEMMA SimNext ==
  ASSUME Alone, Lasting, Inv, SerialInv, DatesInv, TrailInv, SettledInv, [Next]_vars
  PROVE  Simulates
<1>1. CASE UNCHANGED vars
  <2>1. SettledInv'
    BY <1>1 DEF vars, SettledInv, OwesTo
  <2>2. UNCHANGED <<ledger, account>>
    BY <1>1 DEF vars, ledger, account, Owed, Owing, Balance
  <2> QED
    BY <2>1, <2>2 DEF Simulates
<1>2. ASSUME NEW h \in Handlers, OpenSome(h) \/ Refuse(h) \/ Crash(h) \/ Work(h)
      PROVE  Simulates
  <2>1. ~ Crash(h)
    <3>1. crashes \in 0 .. 0
      BY DEF Inv, TypeOK, Lasting
    <3> QED
      BY <3>1 DEF Crash, Lasting
  <2> QED
    BY <1>2, <2>1, SimBefore, SimInsert, SimEdit, SimDecide, SimAfter, SimCharge, SimSettle
    DEF Work
<1> QED
  BY <1>1, <1>2 DEF Next

\* With one request at a time and none dying, the store calls of a handler amount
\* to one step of LeaveLedger: what a client sees is submitted, edited, decided,
\* charged and settled at once, for any employees, dates, grants and caps.
THEOREM SerialRefinement ==
  ASSUME Alone, Lasting
  PROVE  Spec => ImplementsLedger
<1>1. Init => SettledInv /\ Ledger!Init
  BY SimInit
<1>2. Inv /\ SerialInv /\ DatesInv /\ TrailInv /\ SettledInv /\ [Next]_vars =>
        SettledInv' /\ [Ledger!Next]_<<ledger, account>>
  BY SimNext DEF Simulates
<1> QED
  BY <1>1, <1>2, Invariance, SerialInvariance, DatesInvariance, TrailInvariance, PTL
  DEF Spec, ImplementsLedger, Ledger!Spec
=============================================================================
